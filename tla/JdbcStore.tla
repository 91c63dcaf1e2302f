------------------------------ MODULE JdbcStore ------------------------------
(***************************************************************************)
(* SerializingJdbcMapStore: the rows of one Hazelcast map in a database    *)
(* table, written by Hazelcast's threads over one shared connection.       *)
(*                                                                         *)
(* Every operation of the store swallows its SQLExceptions, so Hazelcast   *)
(* takes each write for done.  A step is one JDBC call, or one synchronized*)
(* getConnection with the call that follows it: between two steps another  *)
(* thread may use, lose or replace the connection.  Hazelcast itself, which *)
(* lets one thread at a time write a key, and the database are external.   *)
(***************************************************************************)
EXTENDS Naturals, FiniteSets

CONSTANTS
    Thread,     \* Hazelcast's partition threads
    Key,
    Val,
    Null,       \* no row
    MaxLosses   \* how often the connection breaks or the member restarts

ASSUME JdbcStoreAssumption ==
    /\ Null \notin Val \cup Key     \* Hazelcast takes neither as null
    /\ MaxLosses \in Nat

VARIABLES
    autoCommit, \* how the driver opens connections
    table,      \* the committed rows
    work,       \* the rows as the current connection sees them
    conn,       \* none, open, broken (isClosed does not know), closed
    linked,     \* the threads whose store holds the current connection
    losses,
    pc,         \* how far each thread is
    job,        \* the operation it performs
    todo,       \* the keys its loop has not come to
    key,        \* the key it is at
    exists,     \* what keyExists answered for that key
    told,       \* what the read just made answered
    written,    \* history: what the callers wrote last
    dropped     \* history: the keys whose last write met an exception

dbVars == <<table, work, conn>>
vars == <<autoCommit, dbVars, linked, losses, pc, job, todo, key, exists, told, written, dropped>>

Rows == [Key -> Val \cup {Null}]
Job == [op : {"store"}, val : Val] \cup [op : {"delete"}, val : {Null}]
NoJob == [op |-> "delete", val |-> Null]
NoAnswer == [op |-> "none", key |-> Null, row |-> Null, keys |-> {}, failed |-> FALSE]

Init ==
    /\ autoCommit \in BOOLEAN
    /\ table = [k \in Key |-> Null]
    /\ work = table
    /\ conn = "none"
    /\ linked = {}
    /\ losses = 0
    /\ pc = [t \in Thread |-> "next"]
    /\ job = [t \in Thread |-> NoJob]
    /\ todo = [t \in Thread |-> {}]
    /\ key = [t \in Thread |-> Null]
    /\ exists = [t \in Thread |-> FALSE]
    /\ told = NoAnswer
    /\ written = table
    /\ dropped = {}

-----------------------------------------------------------------------------
(* The holders of the connection getConnection answers: a new one has none. *)
Holders == IF conn \in {"open", "broken"} THEN linked ELSE {}

(* What a statement sees: a connection that has to be opened starts from    *)
(* the committed rows.                                                      *)
View == IF conn = "open" THEN work ELSE table

(* getConnection succeeds, reopening a closed connection, and the statement *)
(* after it leaves the rows w.                                              *)
Statement(w) ==
    /\ conn # "broken"
    /\ conn' = "open"
    /\ work' = w
    /\ table' = IF autoCommit THEN w ELSE table

(* The database cannot be reached or the statement fails; the driver may    *)
(* close a broken connection over it.                                       *)
Exception ==
    /\ conn' \in {conn} \cup {c \in {"closed"} : conn = "broken"}
    /\ UNCHANGED <<table, work>>

Goto(t, place) == pc' = [pc EXCEPT ![t] = place]

(* The thread is in an operation, or about to end it. *)
Busy(t) == pc[t] # "next" \/ todo[t] # {}
KeysOf(t) == todo[t] \cup ({key[t]} \ {Null})

(* The loop goes on with the rest of its keys; without any the operation    *)
(* returns.                                                                 *)
GoOn(t, rest) ==
    /\ todo' = [todo EXCEPT ![t] = rest]
    /\ job' = IF rest = {} THEN [job EXCEPT ![t] = NoJob] ELSE job

(* A store is through with its key, written or not; what it held for the    *)
(* key goes.                                                                *)
KeyDone(t) ==
    /\ Goto(t, "next")
    /\ GoOn(t, todo[t])
    /\ key' = [key EXCEPT ![t] = Null]
    /\ linked' = linked \ {t}
    /\ exists' = [exists EXCEPT ![t] = FALSE]

-----------------------------------------------------------------------------
(* Hazelcast calls store or storeAll, delete or deleteAll. *)
Begin(t, j, keys) ==
    /\ ~Busy(t)
    /\ \A u \in Thread : KeysOf(u) \cap keys = {}
    /\ job' = [job EXCEPT ![t] = j]
    /\ todo' = [todo EXCEPT ![t] = keys]
    /\ written' = [k \in Key |-> IF k \in keys THEN j.val ELSE written[k]]
    /\ UNCHANGED <<autoCommit, dbVars, linked, losses, pc, key, exists, dropped>>

(* A loop comes to key k and gets the connection for it, a broken one as     *)
(* well as an open one.                                                     *)
Connects(t, k) ==
    /\ pc[t] = "next" /\ k \in todo[t]
    /\ (conn = "broken" /\ UNCHANGED dbVars) \/ Statement(View)
    /\ key' = [key EXCEPT ![t] = k]
    /\ todo' = [todo EXCEPT ![t] = @ \ {k}]
    /\ linked' = Holders \cup {t}
    /\ Goto(t, "exists")
    /\ UNCHANGED <<autoCommit, losses, job, exists, written, dropped>>

(* storeAll's does.  (Mutated to Connects, deleteAll stores nulls instead.)  *)
StoreConnects(t, k) == job[t].op = "store" /\ Connects(t, k)

(* It throws: storeAll's loop is over, the remaining keys with it. *)
StoreAllThrows(t) ==
    /\ pc[t] = "next" /\ job[t].op = "store" /\ todo[t] # {}
    /\ Exception
    /\ dropped' = dropped \cup todo[t]
    /\ GoOn(t, {})
    /\ UNCHANGED <<autoCommit, losses, pc, key, linked, exists, written>>

(* keyExists, on a connection of its own asking; an exception is answered   *)
(* like an absent row.                                                      *)
KeyExists(t) ==
    /\ pc[t] = "exists"
    /\ \/ Statement(View) /\ exists' = [exists EXCEPT ![t] = View[key[t]] # Null]
       \/ Exception /\ exists' = [exists EXCEPT ![t] = FALSE]
    /\ linked' = Holders
    /\ Goto(t, "write")
    /\ UNCHANGED <<autoCommit, losses, job, todo, key, written, dropped>>

(* The connection the thread holds is the current one and works. *)
Linked(t) == conn = "open" /\ t \in linked

(* The update or the insert that keyExists has chosen. *)
WriteRow(t) ==
    /\ pc[t] = "write" /\ Linked(t)
    /\ exists[t] = (work[key[t]] # Null)
    /\ Statement([work EXCEPT ![key[t]] = job[t].val])
    /\ IF autoCommit
       THEN dropped' = dropped \ {key[t]} /\ KeyDone(t)
       ELSE Goto(t, "commit") /\ UNCHANGED <<job, todo, key, linked, exists, dropped>>
    /\ UNCHANGED <<autoCommit, losses, written>>

(* The update finds no row, the insert finds one, or the statement or the   *)
(* commit throws: logged, and the loop goes on.                             *)
WriteFails(t) ==
    /\ pc[t] \in {"write", "commit"}
    /\ Exception
    /\ dropped' = dropped \cup {key[t]}
    /\ KeyDone(t)
    /\ UNCHANGED <<autoCommit, losses, written>>

(* Mutated: the commit is left to the driver. *)
NoCommitRow(t) ==
    /\ pc[t] = "commit" /\ Linked(t)
    /\ dropped' = dropped \ {key[t]}
    /\ KeyDone(t)
    /\ UNCHANGED <<autoCommit, dbVars, losses, written>>

(* commit: of all that threads have written on this connection. *)
CommitRow(t) ==
    /\ pc[t] = "commit" /\ Linked(t)
    /\ table' = work
    /\ dropped' = dropped \ {key[t]}
    /\ KeyDone(t)
    /\ UNCHANGED <<autoCommit, work, conn, losses, written>>

(* Mutated: the statement is prepared and never executed. *)
DeletePrepared(t, k) ==
    /\ pc[t] = "next" /\ job[t].op = "delete" /\ k \in todo[t]
    /\ Statement(View)
    /\ dropped' = dropped \ {k}
    /\ GoOn(t, todo[t] \ {k})
    /\ linked' = Holders
    /\ UNCHANGED <<autoCommit, losses, pc, key, exists, written>>

(* delete: no commit follows. *)
DeleteRow(t, k) ==
    /\ pc[t] = "next" /\ job[t].op = "delete" /\ k \in todo[t]
    /\ Statement([View EXCEPT ![k] = Null])
    /\ dropped' = dropped \ {k}
    /\ GoOn(t, todo[t] \ {k})
    /\ linked' = Holders
    /\ UNCHANGED <<autoCommit, losses, pc, key, exists, written>>

DeleteFails(t, k) ==
    /\ pc[t] = "next" /\ job[t].op = "delete" /\ k \in todo[t]
    /\ Exception
    /\ dropped' = dropped \cup {k}
    /\ GoOn(t, todo[t] \ {k})
    /\ UNCHANGED <<autoCommit, losses, pc, key, linked, exists, written>>

(* What a read leaves alone: everything but the connection.                  *)
Reads ==
    /\ linked' = Holders
    /\ UNCHANGED <<autoCommit, losses, pc, job, todo, key, exists, written, dropped>>

(* load, which loadAll calls for each of its keys: an exception, of the      *)
(* connection, the query or the conversion, is answered like an absent row. *)
Load(k) ==
    /\ \/ /\ Statement(View)
          /\ told' = [NoAnswer EXCEPT !.op = "load", !.key = k, !.row = View[k]]
       \/ /\ Statement(View) \/ Exception
          /\ told' = [NoAnswer EXCEPT !.op = "load", !.key = k, !.failed = TRUE]
    /\ Reads

(* loadAllKeys: the keys of the rows, or those gathered before an exception. *)
Stored == {k \in Key : View[k] # Null}
LoadAllKeys ==
    /\ \/ /\ Statement(View)
          /\ told' = [NoAnswer EXCEPT !.op = "loadAllKeys", !.keys = Stored]
       \/ /\ Statement(View) \/ Exception
          /\ \E found \in SUBSET Stored :
               told' = [NoAnswer EXCEPT !.op = "loadAllKeys", !.keys = found, !.failed = TRUE]
    /\ Reads

-----------------------------------------------------------------------------
(* The connection breaks: what is not committed is rolled back. *)
Loss ==
    /\ conn = "open" /\ losses < MaxLosses
    /\ losses' = losses + 1
    /\ conn' \in {"broken", "closed"}
    /\ work' = table
    /\ UNCHANGED <<autoCommit, table, pc, job, todo, key, linked, exists, written, dropped>>

(* The member restarts; whether its threads' writes happened is open. *)
Restart ==
    /\ losses < MaxLosses
    /\ losses' = losses + 1
    /\ conn' = "none"
    /\ work' = table
    /\ dropped' = dropped \cup UNION {KeysOf(t) : t \in Thread}
    /\ pc' = [t \in Thread |-> "next"]
    /\ job' = [t \in Thread |-> NoJob]
    /\ todo' = [t \in Thread |-> {}]
    /\ key' = [t \in Thread |-> Null]
    /\ linked' = {}
    /\ exists' = [t \in Thread |-> FALSE]
    /\ UNCHANGED <<autoCommit, table, written>>

-----------------------------------------------------------------------------
Step(t) ==
    \/ StoreAllThrows(t) \/ KeyExists(t) \/ WriteRow(t) \/ WriteFails(t) \/ CommitRow(t)
    \/ \E k \in Key : StoreConnects(t, k) \/ DeleteRow(t, k) \/ DeleteFails(t, k)

Writes ==
    \/ \E t \in Thread :
         Step(t) \/ \E j \in Job, keys \in SUBSET Key \ {{}} : Begin(t, j, keys)
    \/ Loss \/ Restart

Next ==
    \/ Writes /\ told' = NoAnswer
    \/ LoadAllKeys
    \/ \E k \in Key : Load(k)

Spec == Init /\ [][Next]_vars

-----------------------------------------------------------------------------
(* Type correctness. *)
TypeOK ==
    /\ autoCommit \in BOOLEAN
    /\ table \in Rows /\ work \in Rows /\ written \in Rows
    /\ conn \in {"none", "open", "broken", "closed"}
    /\ linked \subseteq Thread /\ losses \in Nat
    /\ pc \in [Thread -> {"next", "exists", "write", "commit"}]
    /\ job \in [Thread -> Job]
    /\ todo \in [Thread -> SUBSET Key]
    /\ key \in [Thread -> Key \cup {Null}]
    /\ exists \in [Thread -> BOOLEAN]
    /\ dropped \subseteq Key
    /\ told \in [op : {"none", "load", "loadAllKeys"}, key : Key \cup {Null},
                 row : Val \cup {Null}, keys : SUBSET Key, failed : BOOLEAN]
    /\ \A t \in Thread :
         /\ (pc[t] # "next" <=> key[t] # Null)
         /\ pc[t] # "next" => job[t].op = "store"

(* No thread is at work on k. *)
AtRest(k) == \A t \in Thread : k \notin KeysOf(t)

(* A value Hazelcast takes for stored is committed, unless an exception was *)
(* swallowed: no other thread's use, loss or reopening of the shared        *)
(* connection between the statement and the commit can take it back.        *)
StoredIsCommitted ==
    \A k \in Key : AtRest(k) /\ k \notin dropped /\ written[k] # Null => table[k] = written[k]

(* The last write of k is through and reported no exception; a deletion,    *)
(* which is never committed by itself, lasts only if the driver commits.    *)
Certain(k) == AtRest(k) /\ k \notin dropped /\ (written[k] # Null \/ autoCommit)

(* load answers what the callers of the map wrote last, and loadAllKeys all  *)
(* keys with a value, unless they swallow an exception: then the one knows   *)
(* no value, the other not all keys, but neither ever answers a stale one.   *)
LoadsAnswerWrites ==
    /\ told.op = "load" /\ Certain(told.key) =>
        told.row \in {written[told.key]} \cup {v \in {Null} : told.failed}
    /\ told.op = "loadAllKeys" =>
        \A k \in Key : Certain(k) =>
            /\ k \in told.keys => written[k] # Null
            /\ written[k] # Null /\ ~told.failed => k \in told.keys

(* What a loss of the connection would take back is the write of a thread   *)
(* on its way to the commit, an uncommitted deletion, or a write that       *)
(* reported an exception.                                                   *)
OnlyDeletesLinger ==
    \A k \in Key : work[k] # table[k] =>
        /\ ~autoCommit
        /\ \/ k \in dropped
           \/ work[k] = Null
           \/ \E t \in Thread : pc[t] = "commit" /\ key[t] = k
=============================================================================
