------------------------------ MODULE MCVertxBus ------------------------------
(* VertxBus on small instances. *)
EXTENDS VertxBus

CONSTANTS main, worker
=============================================================================
