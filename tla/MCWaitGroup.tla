----------------------------- MODULE MCWaitGroup -----------------------------
(* WaitGroup on small instances; its sets are given in the configuration. *)
EXTENDS WaitGroup
=============================================================================
