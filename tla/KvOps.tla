-------------------------------- MODULE KvOps --------------------------------
(***************************************************************************)
(* The key-value operations of a KvTx as functions of the map they run on. *)
(*                                                                         *)
(* A map is a function from Key to Val \cup {Null}; Null is Java's null,   *)
(* the value AsyncMap.get answers for a key that is not there.  A request  *)
(* is what the caller of one KvTx asked for.                               *)
(***************************************************************************)
EXTENDS Naturals, FiniteSets

CONSTANTS
    Addr,       \* storage addresses (strAddr), '__METADATA_MAP' excepted
    Key,        \* map keys, the digests of submitted values among them
    Val,        \* map values
    Null,       \* Java's null
    Digest      \* the MD5 key under which submit files each value

ASSUME DataAssumption ==
    /\ IsFiniteSet(Key)
    /\ Null \notin Val
    /\ Digest \in [Val -> Key]

(* The operations of KvTx, and those of them that write. *)
Op == {"set", "submit", "get", "clear", "del", "getKeys", "size"}
WriteOp == {"set", "submit", "clear", "del"}

(* The TXTYPE with which each operation starts: clear runs as a KV_DEL. *)
TxType(op) ==
    CASE op = "set"           -> "KV_SET"
      [] op = "submit"        -> "KV_SUBMIT"
      [] op = "get"           -> "KV_GET"
      [] op \in {"clear", "del"} -> "KV_DEL"
      [] op = "getKeys"       -> "KV_KEYS"
      [] op = "size"          -> "KV_SIZE"

Maps == [Key -> Val \cup {Null}]
EmptyMap == [k \in Key |-> Null]
KeysOf(m) == {k \in Key : m[k] # Null}

Request == [addr : Addr, op : Op \cup {"none"}, key : Key \cup {Null}, val : Val \cup {Null}]

(* A transaction that is only created knows its address. *)
Unused(a) == [addr |-> a, op |-> "none", key |-> Null, val |-> Null]

(* The arguments each operation takes. *)
Requests(a, ops) ==
    {q \in [addr : {a}, op : ops, key : Key \cup {Null}, val : Val \cup {Null}] :
        /\ q.key # Null <=> q.op \in {"set", "get", "del"}
        /\ q.val # Null <=> q.op \in {"set", "submit"}}

(* submit derives the key from the content, every other operation is given it. *)
KeyOf(q) == IF q.op = "submit" THEN Digest[q.val] ELSE q.key

(* What the operation leaves in the map. *)
MapAfter(m, q) ==
    CASE q.op \in {"set", "submit"} -> [m EXCEPT ![KeyOf(q)] = q.val]
      [] q.op = "del"               -> [m EXCEPT ![q.key] = Null]
      [] q.op = "clear"             -> EmptyMap
      [] q.op \notin WriteOp        -> m

(* What a successful operation hands to its caller. *)
AnswerTo(m, q) ==
    CASE q.op \in {"set", "submit", "del"} -> KeyOf(q)
      [] q.op = "get"                      -> m[q.key]
      [] q.op = "getKeys"                  -> KeysOf(m)
      [] q.op = "size"                     -> Cardinality(KeysOf(m))
      [] q.op = "clear"                    -> Null

(* The results of an operation: an answer of its kind or a failure. *)
AnswersOf(op) ==
    CASE op = "getKeys" -> SUBSET Key
      [] op = "size"    -> Nat
      [] op \notin {"getKeys", "size"} -> Key \cup Val

ResultsOf(op) == [ok : BOOLEAN, val : AnswersOf(op) \cup {Null}]
Ok(v) == [ok |-> TRUE, val |-> v]
Failed == [ok |-> FALSE, val |-> Null]
=============================================================================
