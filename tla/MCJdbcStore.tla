----------------------------- MODULE MCJdbcStore -----------------------------
(* JdbcStore on small instances; its sets are given in the configuration. *)
EXTENDS JdbcStore, TLC

Symmetry == Permutations(Thread) \cup Permutations(Key) \cup Permutations(Val)
=============================================================================
