----------------------------- MODULE MCKvBackend -----------------------------
(* KvBackend on small instances. *)
EXTENDS KvBackend

CONSTANT k1

(* submit files every value under k1, which set and del may name as well. *)
MCDigest == [v \in Val |-> k1]
=============================================================================
