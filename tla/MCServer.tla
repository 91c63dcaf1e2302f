------------------------------- MODULE MCServer -------------------------------
(* Server on small instances; two of its three paths share an address. *)
EXTENDS Server

CONSTANTS a1, a2, k1, p3

MCDigest == [v \in Val |-> k1]
MCStraddr == [p \in Path |-> IF p = p3 THEN a2 ELSE a1]
=============================================================================
