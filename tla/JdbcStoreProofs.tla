--------------------------- MODULE JdbcStoreProofs ---------------------------
(***************************************************************************)
(* Theorems about JdbcStore, for every set of threads, keys and values and *)
(* any number of losses of the connection.                                 *)
(***************************************************************************)
EXTENDS JdbcStore, TLAPS

-----------------------------------------------------------------------------
(* An exception leaves the rows alone. *)
LEMMA ExceptionType ==
    ASSUME TypeOK, Exception
    PROVE  /\ UNCHANGED <<table, work>>
           /\ conn' \in {"none", "open", "broken", "closed"}
           /\ conn' = conn \/ conn' = "closed"
  BY DEF Exception, TypeOK

(* A statement leaves rows in the table if it leaves rows on its connection. *)
LEMMA StatementType ==
    ASSUME TypeOK, NEW w \in Rows, Statement(w)
    PROVE  /\ table' \in Rows /\ work' \in Rows
           /\ conn # "broken" /\ conn' = "open"
           /\ work' = w /\ table' = IF autoCommit THEN w ELSE table
  BY DEF Statement, TypeOK

(* What a statement sees are rows. *)
LEMMA ViewType == TypeOK => View \in Rows
  BY DEF TypeOK, View

(* Holding the connection changes threads only. *)
LEMMA HoldersType == TypeOK => Holders \subseteq Thread
  BY DEF TypeOK, Holders

(* The parts of the type that speak of one thread. *)
ThreadType ==
    /\ pc \in [Thread -> {"next", "exists", "write", "commit"}]
    /\ job \in [Thread -> Job]
    /\ todo \in [Thread -> SUBSET Key]
    /\ key \in [Thread -> Key \cup {Null}]
    /\ exists \in [Thread -> BOOLEAN]
    /\ \A t \in Thread :
         /\ (pc[t] # "next" <=> key[t] # Null)
         /\ pc[t] # "next" => job[t].op = "store"

(* A loop that goes on, or returns, stays typed. *)
LEMMA GoOnType ==
    ASSUME TypeOK, NEW t \in Thread, NEW rest \in SUBSET Key, GoOn(t, rest)
    PROVE  /\ job' \in [Thread -> Job]
           /\ todo' \in [Thread -> SUBSET Key]
           /\ todo'[t] = rest
           /\ job'[t] = IF rest = {} THEN NoJob ELSE job[t]
           /\ \A u \in Thread \ {t} : todo'[u] = todo[u] /\ job'[u] = job[u]
  BY DEF GoOn, TypeOK, Job, NoJob

(* A thread that is through with its key has none. *)
LEMMA KeyDoneType ==
    ASSUME TypeOK, NEW t \in Thread, KeyDone(t)
    PROVE  /\ ThreadType'
           /\ linked' = linked \ {t}
           /\ pc'[t] = "next" /\ key'[t] = Null /\ todo'[t] = todo[t]
           /\ job'[t] = IF todo[t] = {} THEN NoJob ELSE job[t]
           /\ \A u \in Thread \ {t} : /\ pc'[u] = pc[u] /\ key'[u] = key[u]
                                       /\ todo'[u] = todo[u] /\ job'[u] = job[u]
  <1>1. /\ job' \in [Thread -> Job]
        /\ todo' \in [Thread -> SUBSET Key]
        /\ todo'[t] = todo[t]
        /\ job'[t] = IF todo[t] = {} THEN NoJob ELSE job[t]
        /\ \A u \in Thread \ {t} : todo'[u] = todo[u] /\ job'[u] = job[u]
    BY GoOnType DEF KeyDone, TypeOK
  <1>2. /\ pc' = [pc EXCEPT ![t] = "next"] /\ key' = [key EXCEPT ![t] = Null]
        /\ exists' = [exists EXCEPT ![t] = FALSE] /\ linked' = linked \ {t}
    BY DEF KeyDone, Goto
  <1>3. /\ pc' \in [Thread -> {"next", "exists", "write", "commit"}]
        /\ key' \in [Thread -> Key \cup {Null}] /\ exists' \in [Thread -> BOOLEAN]
        /\ pc'[t] = "next" /\ key'[t] = Null
        /\ \A u \in Thread \ {t} : pc'[u] = pc[u] /\ key'[u] = key[u]
    BY <1>2 DEF TypeOK
  <1> QED  BY <1>1, <1>2, <1>3 DEF ThreadType, TypeOK

-----------------------------------------------------------------------------
(* Initially nothing is stored and no thread is at work. *)
LEMMA InitTypeOK == Init => TypeOK
  BY JdbcStoreAssumption DEF Init, NoAnswer, TypeOK, Rows, Job, NoJob

(* What a read has answered, or not. *)
Told == told \in [op : {"none", "load", "loadAllKeys"}, key : Key \cup {Null},
                  row : Val \cup {Null}, keys : SUBSET Key, failed : BOOLEAN]

(* A load answers a row of its key; another read answers keys. *)
LEMMA ReadType ==
    ASSUME TypeOK, LoadAllKeys \/ (\E k \in Key : Load(k))
    PROVE  /\ Told' /\ Reads
           /\ Statement(View) \/ Exception
  <1>1. Stored \subseteq Key
    BY DEF Stored
  <1>2. CASE LoadAllKeys
    BY <1>1, <1>2 DEF LoadAllKeys, NoAnswer, Told
  <1>3. ASSUME NEW k \in Key, Load(k) PROVE Told' /\ Reads /\ (Statement(View) \/ Exception)
    <2>1. View[k] \in Val \cup {Null}
      BY ViewType DEF Rows
    <2> QED  BY <1>3, <2>1 DEF Load, NoAnswer, Told
  <1> QED  BY <1>2, <1>3

(* Every step keeps the types. *)
LEMMA NextTypeOK == TypeOK /\ [Next]_vars => TypeOK'
  <1> SUFFICES ASSUME TypeOK, [Next]_vars PROVE TypeOK'
    OBVIOUS
  <1>0. Told'
    <2>1. NoAnswer \in [op : {"none", "load", "loadAllKeys"}, key : Key \cup {Null},
                        row : Val \cup {Null}, keys : SUBSET Key, failed : BOOLEAN]
      BY DEF NoAnswer
    <2>2. CASE Writes /\ told' = NoAnswer
      BY <2>1, <2>2 DEF Told
    <2>3. CASE UNCHANGED vars
      BY <2>3 DEF vars, Told, TypeOK
    <2> QED  BY <2>2, <2>3, ReadType DEF Next
  <1>1. ASSUME NEW t \in Thread, NEW j \in Job, NEW keys \in SUBSET Key, Begin(t, j, keys)
        PROVE  TypeOK'
    <2>1. written' \in Rows
      BY <1>1 DEF Begin, TypeOK, Rows, Job
    <2>2. pc[t] = "next"
      BY <1>1 DEF Begin, Busy
    <2> QED  BY <1>0, <1>1, <2>1, <2>2 DEF Begin, TypeOK, Told, dbVars
  <1>2. ASSUME NEW t \in Thread, NEW k \in Key, StoreConnects(t, k) PROVE TypeOK'
    <2>1. table' \in Rows /\ work' \in Rows /\ conn' \in {"none", "open", "broken", "closed"}
      BY <1>2, ViewType, StatementType DEF StoreConnects, Connects, TypeOK, dbVars
    <2> QED  BY <1>0, <1>2, <2>1, HoldersType, JdbcStoreAssumption DEF StoreConnects, Connects, Goto, TypeOK, Told
  <1>3. ASSUME NEW t \in Thread, StoreAllThrows(t) PROVE TypeOK'
    <2>1. GoOn(t, {}) /\ Exception /\ pc[t] = "next" /\ dropped' = dropped \cup todo[t]
          /\ UNCHANGED <<autoCommit, losses, pc, key, linked, exists, written>>
      BY <1>3 DEF StoreAllThrows
    <2> QED  BY <1>0, <2>1, GoOnType, ExceptionType DEF TypeOK, Told
  <1>4. ASSUME NEW t \in Thread, KeyExists(t) PROVE TypeOK'
    <2>1. table' \in Rows /\ work' \in Rows /\ conn' \in {"none", "open", "broken", "closed"}
      BY <1>4, ViewType, StatementType, ExceptionType DEF KeyExists, TypeOK
    <2>2. exists' \in [Thread -> BOOLEAN]
      BY <1>4 DEF KeyExists, TypeOK
    <2> QED  BY <1>0, <1>4, <2>1, <2>2, HoldersType DEF KeyExists, Goto, TypeOK, Told
  <1>5. ASSUME NEW t \in Thread, WriteRow(t) PROVE TypeOK'
    <2>1. key[t] \in Key /\ job[t].val \in Val \cup {Null}
      BY <1>5 DEF WriteRow, TypeOK, Job
    <2>2. [work EXCEPT ![key[t]] = job[t].val] \in Rows
      BY <2>1 DEF TypeOK, Rows
    <2>3. table' \in Rows /\ work' \in Rows /\ conn' = "open"
      BY <1>5, <2>2, StatementType DEF WriteRow
    <2>4. CASE autoCommit
      <3>1. KeyDone(t) /\ dropped' = dropped \ {key[t]} /\ UNCHANGED <<autoCommit, losses, written>>
        BY <1>5, <2>4 DEF WriteRow
      <3> QED  BY <1>0, <2>3, <3>1, KeyDoneType DEF TypeOK, Told, ThreadType
    <2>5. CASE ~autoCommit
      BY <1>0, <1>5, <2>3, <2>5 DEF WriteRow, Goto, TypeOK, Told
    <2> QED  BY <2>4, <2>5
  <1>6. ASSUME NEW t \in Thread, WriteFails(t) PROVE TypeOK'
    <2>1. Exception /\ KeyDone(t) /\ dropped' = dropped \cup {key[t]} /\ key[t] \in Key
          /\ UNCHANGED <<autoCommit, losses, written>>
      BY <1>6 DEF WriteFails, TypeOK
    <2> QED  BY <1>0, <2>1, KeyDoneType, ExceptionType DEF TypeOK, Told, ThreadType
  <1>7. ASSUME NEW t \in Thread, CommitRow(t) PROVE TypeOK'
    <2>1. KeyDone(t) /\ table' = work /\ dropped' = dropped \ {key[t]}
          /\ UNCHANGED <<autoCommit, work, conn, losses, written>>
      BY <1>7 DEF CommitRow
    <2> QED  BY <1>0, <2>1, KeyDoneType DEF TypeOK, Told, ThreadType
  <1>8. ASSUME NEW t \in Thread, NEW k \in Key, DeleteRow(t, k) PROVE TypeOK'
    <2>1. [View EXCEPT ![k] = Null] \in Rows
      BY ViewType DEF Rows
    <2>2. table' \in Rows /\ work' \in Rows /\ conn' = "open"
      BY <1>8, <2>1, StatementType DEF DeleteRow
    <2>3. GoOn(t, todo[t] \ {k}) /\ todo[t] \ {k} \in SUBSET Key /\ pc[t] = "next"
      BY <1>8 DEF DeleteRow, TypeOK
    <2>4. dropped' = dropped \ {k} /\ linked' = Holders
          /\ UNCHANGED <<autoCommit, losses, pc, key, exists, written>>
      BY <1>8 DEF DeleteRow
    <2> QED  BY <1>0, <2>2, <2>3, <2>4, GoOnType, HoldersType DEF TypeOK, Told
  <1>9. ASSUME NEW t \in Thread, NEW k \in Key, DeleteFails(t, k) PROVE TypeOK'
    <2>1. GoOn(t, todo[t] \ {k}) /\ todo[t] \ {k} \in SUBSET Key /\ pc[t] = "next"
      BY <1>9 DEF DeleteFails, TypeOK
    <2>2. Exception /\ dropped' = dropped \cup {k}
          /\ UNCHANGED <<autoCommit, losses, pc, key, linked, exists, written>>
      BY <1>9 DEF DeleteFails
    <2> QED  BY <1>0, <2>1, <2>2, GoOnType, ExceptionType DEF TypeOK, Told
  <1>10. CASE LoadAllKeys \/ \E k \in Key : Load(k)
    <2>1. Reads /\ (Statement(View) \/ Exception)
      BY <1>10, ReadType
    <2>2. table' \in Rows /\ work' \in Rows /\ conn' \in {"none", "open", "broken", "closed"}
      BY <2>1, ViewType, StatementType, ExceptionType DEF TypeOK
    <2> QED  BY <1>0, <2>1, <2>2, HoldersType DEF Reads, TypeOK, Told
  <1>11. CASE Loss
    BY <1>0, <1>11 DEF Loss, TypeOK, Told
  <1>12. CASE Restart
    <2>1. UNION {KeysOf(t) : t \in Thread} \subseteq Key
      BY DEF KeysOf, TypeOK
    <2> QED  BY <1>0, <1>12, <2>1 DEF Restart, TypeOK, Told, Job, NoJob
  <1>13. CASE UNCHANGED vars
    BY <1>13 DEF vars, dbVars, TypeOK
  <1> QED  BY <1>1, <1>2, <1>3, <1>4, <1>5, <1>6, <1>7, <1>8, <1>9, <1>10, <1>11, <1>12, <1>13
           DEF Next, Writes, Step

(* Type correctness. *)
THEOREM TypeCorrect == Spec => []TypeOK
  BY InitTypeOK, NextTypeOK, PTL DEF Spec

-----------------------------------------------------------------------------
(* Why what is taken for stored is committed.  A connection that is not the *)
(* open one has nothing uncommitted; threads work on keys of their own, on  *)
(* what their callers wrote last; a thread that comes to its commit on the  *)
(* connection it wrote on still finds its row there; and a key at rest is as *)
(* its callers wrote it.                                                    *)
Fresh == conn # "open" \/ autoCommit => work = table
Apart == \A t, u \in Thread : t # u => KeysOf(t) \cap KeysOf(u) = {}
Asked == \A t \in Thread : \A k \in KeysOf(t) : written[k] = job[t].val
OnItsWay == \A t \in Thread : pc[t] = "commit" /\ Linked(t) => work[key[t]] = job[t].val
Rests ==
    \A k \in Key :
        AtRest(k) /\ k \notin dropped /\ (written[k] # Null \/ autoCommit) =>
            table[k] = written[k] /\ work[k] = written[k]
Kept == Fresh /\ Apart /\ Asked /\ OnItsWay /\ Rests

-----------------------------------------------------------------------------
(* What every step of a thread t keeps to: it touches only its own keys, is *)
(* through with one only after writing it or after an exception, and leaves *)
(* uncommitted what it is about to commit or has deleted.                   *)
Alone(t) == \A u \in Thread \ {t} : /\ pc'[u] = pc[u] /\ key'[u] = key[u]
                                    /\ todo'[u] = todo[u] /\ job'[u] = job[u]
                                    /\ Linked(u)' => Linked(u)
OwnKeys(t) ==
    /\ KeysOf(t)' \subseteq KeysOf(t)
    /\ KeysOf(t)' # {} => job'[t] = job[t]
    /\ pc'[t] = "commit" /\ Linked(t)' => work'[key'[t]] = job'[t].val
OwnRows(t) ==
    \A k \in Key :
        \/ /\ work'[k] = work[k] /\ table'[k] \in {table[k], work[k]}
           /\ k \in dropped' <=> k \in dropped
           /\ k \in KeysOf(t) => k \in KeysOf(t)'
           /\ ~(pc[t] = "commit" /\ key[t] = k)
        \/ /\ k \in KeysOf(t)
           /\ \/ k \in dropped' /\ table'[k] = table[k] /\ work'[k] = work[k]
              \/ /\ work'[k] = job[t].val
                 /\ \/ table'[k] = job[t].val
                    \/ ~autoCommit /\ table'[k] = table[k]
                       /\ (job[t].val = Null \/ (k \in KeysOf(t)' /\ pc'[t] = "commit" /\ key'[t] = k))
Keeps(t) == UNCHANGED <<autoCommit, written>> /\ Fresh' /\ Alone(t) /\ OwnKeys(t) /\ OwnRows(t)

(* What a statement sees is what the connection last held. *)
LEMMA ViewIsWork == Fresh => View = work
  BY DEF Fresh, View

(* Looking at the rows changes none, and reopening takes nobody along. *)
LEMMA Looks ==
    ASSUME TypeOK, Fresh, UNCHANGED autoCommit, Statement(View) \/ Exception
    PROVE  /\ UNCHANGED <<work, table>> /\ Fresh'
           /\ \A u \in Thread : u \in Holders /\ conn' = "open" => Linked(u)
           /\ conn' = "open" /\ Exception => conn = "open"
  <1>1. CASE Statement(View)
    BY <1>1, ViewIsWork DEF Statement, Fresh, Holders, Linked, Exception
  <1>2. CASE Exception
    BY <1>2 DEF Exception, Fresh, Holders, Linked
  <1> QED  BY <1>1, <1>2

(* storeAll's loop comes to a key. *)
LEMMA StoreConnectsKeeps ==
    ASSUME TypeOK, Kept, NEW t \in Thread, NEW k \in Key, StoreConnects(t, k)
    PROVE  Keeps(t)
  <1>1. /\ pc[t] = "next" /\ k \in todo[t] /\ key[t] = Null
        /\ key'[t] = k /\ todo'[t] = todo[t] \ {k} /\ pc'[t] = "exists"
        /\ UNCHANGED <<autoCommit, job, written, dropped>>
        /\ \A u \in Thread \ {t} : pc'[u] = pc[u] /\ key'[u] = key[u] /\ todo'[u] = todo[u]
    BY DEF StoreConnects, Connects, Goto, TypeOK
  <1>2. KeysOf(t)' = KeysOf(t)
    BY <1>1, JdbcStoreAssumption DEF KeysOf
  <1>3. /\ UNCHANGED <<work, table>> /\ Fresh'
        /\ \A u \in Thread \ {t} : Linked(u)' => Linked(u)
    <2>1. CASE conn = "broken" /\ UNCHANGED dbVars
      BY <2>1 DEF StoreConnects, Connects, dbVars, Kept, Fresh, Linked
    <2>2. CASE Statement(View)
      BY <2>2, Looks DEF StoreConnects, Connects, Kept, Linked
    <2> QED  BY <2>1, <2>2 DEF StoreConnects, Connects
  <1>4. Alone(t) /\ OwnKeys(t)
    BY <1>1, <1>2, <1>3 DEF Alone, OwnKeys
  <1>5. OwnRows(t)
    <2> SUFFICES ASSUME NEW j \in Key
                 PROVE  /\ work'[j] = work[j] /\ table'[j] = table[j]
                        /\ j \in dropped' <=> j \in dropped
                        /\ j \in KeysOf(t) => j \in KeysOf(t)'
                        /\ pc[t] # "commit"
      BY DEF OwnRows
    <2> QED  BY <1>1, <1>2, <1>3
  <1> QED  BY <1>1, <1>3, <1>4, <1>5 DEF Keeps

(* storeAll's loop ends before it comes to its next key. *)
LEMMA StoreAllThrowsKeeps ==
    ASSUME TypeOK, Kept, NEW t \in Thread, StoreAllThrows(t)
    PROVE  Keeps(t)
  <1>1. /\ GoOn(t, {}) /\ Exception /\ pc[t] = "next" /\ key[t] = Null
        /\ dropped' = dropped \cup todo[t]
        /\ UNCHANGED <<autoCommit, pc, key, linked, written>>
    BY DEF StoreAllThrows, TypeOK
  <1>2. KeysOf(t) = todo[t] /\ KeysOf(t)' = {}
    BY <1>1, GoOnType DEF KeysOf
  <1>3. Fresh' /\ UNCHANGED <<work, table>> /\ (conn' = "open" => conn = "open")
    BY <1>1, Looks DEF Kept
  <1>4. Alone(t)
    BY <1>1, <1>3, GoOnType DEF Alone, Linked
  <1> QED  BY <1>1, <1>2, <1>3, <1>4 DEF Keeps, OwnKeys, OwnRows

(* keyExists. *)
LEMMA KeyExistsKeeps ==
    ASSUME TypeOK, Kept, NEW t \in Thread, KeyExists(t)
    PROVE  Keeps(t)
  <1>1. /\ Statement(View) \/ Exception
        /\ linked' = Holders /\ pc[t] = "exists" /\ pc'[t] = "write"
        /\ UNCHANGED <<autoCommit, job, todo, key, written, dropped>>
        /\ \A u \in Thread \ {t} : pc'[u] = pc[u]
    BY DEF KeyExists, Goto, TypeOK
  <1>2. KeysOf(t)' = KeysOf(t)
    BY <1>1 DEF KeysOf
  <1>3. /\ UNCHANGED <<work, table>> /\ Fresh'
        /\ \A u \in Thread : Linked(u)' => Linked(u)
    BY <1>1, Looks DEF Kept, Linked
  <1>4. Alone(t) /\ OwnKeys(t)
    BY <1>1, <1>2, <1>3 DEF Alone, OwnKeys
  <1>5. OwnRows(t)
    BY <1>1, <1>2, <1>3 DEF OwnRows
  <1> QED  BY <1>1, <1>3, <1>4, <1>5 DEF Keeps

(* The row is written, and committed if the driver does so. *)
LEMMA WriteRowKeeps ==
    ASSUME TypeOK, Kept, NEW t \in Thread, WriteRow(t)
    PROVE  Keeps(t)
  <1>1. /\ pc[t] = "write" /\ key[t] \in Key /\ key[t] \in KeysOf(t)
        /\ conn = "open" /\ conn' = "open" /\ UNCHANGED <<autoCommit, written>>
        /\ work' = [work EXCEPT ![key[t]] = job[t].val]
        /\ table' = IF autoCommit THEN work' ELSE table
    BY DEF WriteRow, Statement, Linked, TypeOK, KeysOf
  <1>2. /\ work'[key[t]] = job[t].val
        /\ \A k \in Key \ {key[t]} : work'[k] = work[k]
    BY <1>1 DEF TypeOK, Rows
  <1>3. Fresh'
    BY <1>1 DEF Fresh
  <1>4. CASE autoCommit
    <2>1. KeyDone(t) /\ dropped' = dropped \ {key[t]}
      BY <1>4 DEF WriteRow
    <2>2. Alone(t) /\ OwnKeys(t)
      BY <1>1, <2>1, KeyDoneType DEF Alone, OwnKeys, KeysOf, Linked
    <2>3. \A k \in Key \ {key[t]} : k \in KeysOf(t) => k \in KeysOf(t)'
      BY <2>1, KeyDoneType DEF KeysOf
    <2>4. OwnRows(t)
      BY <1>1, <1>2, <1>4, <2>1, <2>3 DEF OwnRows
    <2> QED  BY <1>1, <1>3, <2>2, <2>4 DEF Keeps
  <1>5. CASE ~autoCommit
    <2>1. /\ Goto(t, "commit") /\ UNCHANGED <<job, todo, key, linked, dropped>>
      BY <1>5 DEF WriteRow
    <2>2. pc'[t] = "commit" /\ \A u \in Thread \ {t} : pc'[u] = pc[u]
      BY <2>1 DEF Goto, TypeOK
    <2>3. KeysOf(t)' = KeysOf(t)
      BY <2>1 DEF KeysOf
    <2>4. Alone(t) /\ OwnKeys(t)
      BY <1>1, <1>2, <2>1, <2>2, <2>3 DEF Alone, OwnKeys, Linked
    <2>5. OwnRows(t)
      BY <1>1, <1>2, <1>5, <2>1, <2>2, <2>3 DEF OwnRows
    <2> QED  BY <1>1, <1>3, <2>4, <2>5 DEF Keeps
  <1> QED  BY <1>4, <1>5

(* The write or its commit fails. *)
LEMMA WriteFailsKeeps ==
    ASSUME TypeOK, Kept, NEW t \in Thread, WriteFails(t)
    PROVE  Keeps(t)
  <1>1. /\ Exception /\ KeyDone(t) /\ dropped' = dropped \cup {key[t]}
        /\ key[t] \in KeysOf(t) /\ UNCHANGED <<autoCommit, written>>
    BY DEF WriteFails, TypeOK, KeysOf
  <1>2. Fresh' /\ UNCHANGED <<work, table>> /\ (conn' = "open" => conn = "open")
    BY <1>1, Looks DEF Kept
  <1>3. Alone(t) /\ OwnKeys(t)
    BY <1>1, <1>2, KeyDoneType DEF Alone, OwnKeys, KeysOf, Linked
  <1>4. \A k \in Key \ {key[t]} : k \in KeysOf(t) => k \in KeysOf(t)'
    BY <1>1, KeyDoneType DEF KeysOf
  <1> QED  BY <1>1, <1>2, <1>3, <1>4 DEF Keeps, OwnRows

(* The commit takes along what the others have written. *)
LEMMA CommitRowKeeps ==
    ASSUME TypeOK, Kept, NEW t \in Thread, CommitRow(t)
    PROVE  Keeps(t)
  <1>1. /\ pc[t] = "commit" /\ Linked(t) /\ table' = work /\ dropped' = dropped \ {key[t]}
        /\ KeyDone(t) /\ key[t] \in KeysOf(t) /\ UNCHANGED <<autoCommit, work, conn, written>>
    BY DEF CommitRow, TypeOK, KeysOf
  <1>2. work[key[t]] = job[t].val
    BY <1>1 DEF Kept, OnItsWay
  <1>3. Alone(t) /\ OwnKeys(t)
    BY <1>1, KeyDoneType DEF Alone, OwnKeys, KeysOf, Linked
  <1>4. \A k \in Key \ {key[t]} : k \in KeysOf(t) => k \in KeysOf(t)'
    BY <1>1, KeyDoneType DEF KeysOf
  <1> QED  BY <1>1, <1>2, <1>3, <1>4 DEF Keeps, OwnRows, Fresh

(* A row is deleted. *)
LEMMA DeleteRowKeeps ==
    ASSUME TypeOK, Kept, NEW t \in Thread, NEW k \in Key, DeleteRow(t, k)
    PROVE  Keeps(t)
  <1>1. /\ pc[t] = "next" /\ key[t] = Null /\ k \in todo[t] /\ job[t].val = Null
        /\ conn # "broken" /\ conn' = "open"
        /\ work' = [work EXCEPT ![k] = Null] /\ table' = IF autoCommit THEN work' ELSE table
        /\ dropped' = dropped \ {k} /\ linked' = Holders
        /\ GoOn(t, todo[t] \ {k}) /\ UNCHANGED <<autoCommit, pc, key, written>>
    BY ViewIsWork DEF DeleteRow, Statement, TypeOK, Job, Kept
  <1>2. todo'[t] = todo[t] \ {k} /\ (todo'[t] # {} => job'[t] = job[t])
    <2>1. todo[t] \ {k} \in SUBSET Key
      BY DEF TypeOK
    <2> QED  BY <1>1, <2>1, GoOnType
  <1>3. \A u \in Thread \ {t} : todo'[u] = todo[u] /\ job'[u] = job[u]
    BY <1>1 DEF GoOn, TypeOK
  <1>4. work'[k] = Null /\ \A j \in Key \ {k} : work'[j] = work[j]
    BY <1>1 DEF TypeOK, Rows
  <1>5. Alone(t)
    BY <1>1, <1>3 DEF Alone, Linked, Holders
  <1>6. KeysOf(t) = todo[t] /\ KeysOf(t)' = todo[t] \ {k}
    BY <1>1, <1>2 DEF KeysOf
  <1>7. OwnKeys(t) /\ OwnRows(t)
    BY <1>1, <1>2, <1>4, <1>6 DEF OwnKeys, OwnRows
  <1> QED  BY <1>1, <1>5, <1>7 DEF Keeps, Fresh

(* A deletion fails. *)
LEMMA DeleteFailsKeeps ==
    ASSUME TypeOK, Kept, NEW t \in Thread, NEW k \in Key, DeleteFails(t, k)
    PROVE  Keeps(t)
  <1>1. /\ pc[t] = "next" /\ key[t] = Null /\ k \in todo[t] /\ Exception
        /\ dropped' = dropped \cup {k}
        /\ GoOn(t, todo[t] \ {k}) /\ UNCHANGED <<autoCommit, pc, key, linked, written>>
    BY DEF DeleteFails, TypeOK
  <1>2. todo'[t] = todo[t] \ {k} /\ (todo'[t] # {} => job'[t] = job[t])
    <2>1. todo[t] \ {k} \in SUBSET Key
      BY DEF TypeOK
    <2> QED  BY <1>1, <2>1, GoOnType
  <1>3. \A u \in Thread \ {t} : todo'[u] = todo[u] /\ job'[u] = job[u]
    BY <1>1 DEF GoOn, TypeOK
  <1>4. Fresh' /\ UNCHANGED <<work, table>> /\ (conn' = "open" => conn = "open")
    BY <1>1, Looks DEF Kept
  <1>5. KeysOf(t) = todo[t] /\ KeysOf(t)' = todo[t] \ {k}
    BY <1>1, <1>2 DEF KeysOf
  <1> QED  BY <1>1, <1>2, <1>3, <1>4, <1>5 DEF Keeps, Alone, Linked, OwnKeys, OwnRows

(* So every step of a thread does. *)
LEMMA StepKeeps ==
    ASSUME TypeOK, Kept, NEW t \in Thread, Step(t)
    PROVE  Keeps(t)
  BY StoreConnectsKeeps, StoreAllThrowsKeeps, KeyExistsKeeps, WriteRowKeeps, WriteFailsKeeps,
     CommitRowKeeps, DeleteRowKeeps, DeleteFailsKeeps DEF Step

-----------------------------------------------------------------------------
(* A step that keeps to its own leaves the others' keys to them. *)
LEMMA OthersKeys ==
    ASSUME NEW t \in Thread, Alone(t)
    PROVE  \A u \in Thread \ {t} : KeysOf(u)' = KeysOf(u)
  BY DEF Alone, KeysOf

(* And keeps the invariant. *)
LEMMA KeepsKept ==
    ASSUME TypeOK, Kept, NEW t \in Thread, Keeps(t)
    PROVE  Kept'
  <1>1. Apart'
    BY OthersKeys DEF Keeps, OwnKeys, Kept, Apart
  <1>2. Asked'
    BY OthersKeys DEF Keeps, OwnKeys, Alone, Kept, Asked
  <1>3. OnItsWay'
    <2>1. ASSUME NEW u \in Thread \ {t}, pc'[u] = "commit", Linked(u)'
          PROVE  work'[key'[u]] = job'[u].val
      <3>1. pc[u] = "commit" /\ Linked(u) /\ key'[u] = key[u] /\ job'[u] = job[u]
        BY <2>1 DEF Keeps, Alone
      <3>2. key[u] \in Key /\ key[u] \in KeysOf(u)
        BY <3>1 DEF TypeOK, KeysOf
      <3>3. key[u] \notin KeysOf(t)
        BY <3>2 DEF Kept, Apart
      <3>4. work'[key[u]] = work[key[u]]
        BY <3>2, <3>3 DEF Keeps, OwnRows
      <3> QED  BY <3>1, <3>4 DEF Kept, OnItsWay
    <2> QED  BY <2>1 DEF OnItsWay, Keeps, OwnKeys
  <1>4. ASSUME NEW k \in Key, AtRest(k)', k \notin dropped', written[k] # Null \/ autoCommit
        PROVE  table'[k] = written[k] /\ work'[k] = written[k]
    <2>1. k \notin KeysOf(t)' /\ \A u \in Thread \ {t} : k \notin KeysOf(u)
      BY <1>4, OthersKeys DEF AtRest, Keeps
    <2>2. CASE k \in KeysOf(t)
      <3>1. written[k] = job[t].val
        BY <2>2 DEF Kept, Asked
      <3> QED  BY <1>4, <2>1, <2>2, <3>1 DEF Keeps, OwnRows
    <2>3. CASE k \notin KeysOf(t)
      <3>1. /\ work'[k] = work[k] /\ table'[k] \in {table[k], work[k]}
            /\ k \notin dropped
        BY <1>4, <2>3 DEF Keeps, OwnRows
      <3>2. AtRest(k)
        BY <2>1, <2>3 DEF AtRest
      <3> QED  BY <1>4, <3>1, <3>2 DEF Kept, Rests
    <2> QED  BY <2>2, <2>3
  <1>5. Rests'
    BY <1>4 DEF Rests, Keeps
  <1> QED  BY <1>1, <1>2, <1>3, <1>5 DEF Kept, Keeps

(* A call of the store takes keys nobody is at work on. *)
LEMMA BeginKept ==
    ASSUME TypeOK, Kept, NEW t \in Thread, NEW j \in Job, NEW keys \in SUBSET Key, Begin(t, j, keys)
    PROVE  Kept'
  <1>1. /\ pc[t] = "next" /\ key[t] = Null /\ KeysOf(t)' = keys /\ job'[t] = j
        /\ KeysOf(t) = {}
        /\ UNCHANGED <<autoCommit, table, work, conn, linked, pc, key, dropped>>
    BY DEF Begin, Busy, TypeOK, KeysOf, dbVars
  <1>2. \A u \in Thread \ {t} : KeysOf(u)' = KeysOf(u) /\ job'[u] = job[u]
    BY DEF Begin, KeysOf, TypeOK
  <1>3. \A u \in Thread : KeysOf(u) \cap keys = {} /\ KeysOf(u) \subseteq Key
    BY DEF Begin, KeysOf, TypeOK
  <1>4. \A k \in Key : written'[k] = IF k \in keys THEN j.val ELSE written[k]
    BY DEF Begin
  <1>5. Apart'
    BY <1>1, <1>2, <1>3 DEF Kept, Apart
  <1>6. Asked'
    BY <1>1, <1>2, <1>3, <1>4 DEF Kept, Asked
  <1>7. OnItsWay'
    BY <1>1, <1>2 DEF Kept, OnItsWay, Linked
  <1>8. Rests'
    <2>1. \A k \in Key : AtRest(k)' => AtRest(k) /\ k \notin keys
      BY <1>1, <1>2 DEF AtRest
    <2> QED  BY <1>1, <1>4, <2>1 DEF Kept, Rests
  <1> QED  BY <1>1, <1>5, <1>6, <1>7, <1>8 DEF Kept, Fresh

(* Reads keep it. *)
LEMMA ReadKept ==
    ASSUME TypeOK, Kept, LoadAllKeys \/ (\E k \in Key : Load(k))
    PROVE  /\ Kept'
           /\ UNCHANGED <<autoCommit, work, table, pc, key, written, dropped>>
           /\ \A u \in Thread : KeysOf(u)' = KeysOf(u)
  <1>0. Reads /\ (Statement(View) \/ Exception)
    BY ReadType
  <1>1. /\ UNCHANGED <<autoCommit, pc, job, todo, key, written, dropped>>
        /\ UNCHANGED <<work, table>> /\ Fresh' /\ \A u \in Thread : Linked(u)' => Linked(u)
    BY <1>0, Looks DEF Reads, Kept, Linked
  <1>2. \A u \in Thread : KeysOf(u)' = KeysOf(u)
    BY <1>1 DEF KeysOf
  <1> QED  BY <1>1, <1>2 DEF Kept, Apart, Asked, OnItsWay, Rests, AtRest

(* So does the loss of the connection, and what it held. *)
LEMMA LossKept ==
    ASSUME TypeOK, Kept, Loss
    PROVE  Kept'
  <1>1. /\ UNCHANGED <<autoCommit, table, pc, job, todo, key, written, dropped>>
        /\ work' = table /\ conn' # "open"
    BY DEF Loss
  <1>2. \A u \in Thread : KeysOf(u)' = KeysOf(u)
    BY <1>1 DEF KeysOf
  <1> QED  BY <1>1, <1>2 DEF Kept, Fresh, Apart, Asked, OnItsWay, Linked, Rests, AtRest

(* A restart: the keys under way count as dropped. *)
LEMMA RestartKept ==
    ASSUME TypeOK, Kept, Restart
    PROVE  Kept'
  <1>1. /\ UNCHANGED <<autoCommit, table, written>> /\ work' = table /\ conn' = "none"
        /\ dropped' = dropped \cup UNION {KeysOf(t) : t \in Thread}
        /\ \A t \in Thread : pc'[t] = "next" /\ todo'[t] = {} /\ key'[t] = Null
    BY DEF Restart
  <1>2. \A t \in Thread : KeysOf(t)' = {}
    BY <1>1 DEF KeysOf
  <1>3. \A k \in Key : k \notin dropped' => AtRest(k) /\ k \notin dropped
    BY <1>1 DEF AtRest
  <1> QED  BY <1>1, <1>2, <1>3 DEF Kept, Fresh, Apart, Asked, OnItsWay, Rests

(* Every step keeps it. *)
LEMMA NextKept == TypeOK /\ Kept /\ [Next]_vars => Kept'
  <1> SUFFICES ASSUME TypeOK, Kept, [Next]_vars PROVE Kept'
    OBVIOUS
  <1>1. ASSUME NEW t \in Thread, Step(t) PROVE Kept'
    BY <1>1, StepKeeps, KeepsKept
  <1>2. CASE UNCHANGED vars
    <2>1. \A u \in Thread : KeysOf(u)' = KeysOf(u)
      BY <1>2 DEF vars, KeysOf
    <2> QED  BY <1>2, <2>1 DEF vars, dbVars, Kept, Fresh, Apart, Asked, OnItsWay, Linked, Rests, AtRest
  <1> QED  BY <1>1, <1>2, BeginKept, ReadKept, LossKept, RestartKept DEF Next, Writes

(* It always holds. *)
LEMMA KeptInvariant == Spec => []Kept
  <1>1. Init => Kept
    BY DEF Init, Kept, Fresh, Apart, Asked, OnItsWay, Rests, KeysOf
  <1> QED  BY <1>1, TypeCorrect, NextKept, PTL DEF Spec

(* A value that Hazelcast takes for stored is in the table unless an        *)
(* exception was swallowed, whatever the other threads and the connection   *)
(* did between its statement and its commit.                                *)
THEOREM StoredStaysCommitted == Spec => []StoredIsCommitted
  <1>1. Kept => StoredIsCommitted
    BY DEF Kept, Rests, StoredIsCommitted
  <1> QED  BY <1>1, KeptInvariant, PTL

(* What the rows are that a read finds, for the keys that are certain. *)
LEMMA CertainRows ==
    ASSUME TypeOK, Kept, NEW k \in Key, Certain(k)
    PROVE  View[k] = written[k]
  BY ViewIsWork DEF Kept, Rests, Certain

(* A load, or a failure of it. *)
LEMMA LoadAnswers ==
    ASSUME TypeOK, Kept, NEW k \in Key, Load(k)
    PROVE  LoadsAnswerWrites'
  <1>1. Certain(k)' => Certain(k) /\ written'[k] = written[k]
    BY ReadKept DEF Certain, AtRest
  <1>2. /\ told'.op = "load" /\ told'.key = k
        /\ told'.row = View[k] \/ (told'.failed = TRUE /\ told'.row = Null)
    BY DEF Load, NoAnswer
  <1> QED  BY <1>1, <1>2, CertainRows DEF LoadsAnswerWrites

(* The keys of the rows, or those of them that came before an exception. *)
LEMMA LoadAllKeysAnswers ==
    ASSUME TypeOK, Kept, LoadAllKeys
    PROVE  LoadsAnswerWrites'
  <1>1. /\ told'.op = "loadAllKeys"
        /\ told'.keys \subseteq Stored
        /\ told'.failed = TRUE \/ told'.keys = Stored
    BY DEF LoadAllKeys, NoAnswer
  <1>2. ASSUME NEW k \in Key, Certain(k)'
        PROVE  /\ k \in told'.keys => written'[k] # Null
               /\ written'[k] # Null /\ ~told'.failed => k \in told'.keys
    <2>1. Certain(k) /\ written'[k] = written[k]
      BY <1>2, ReadKept DEF Certain, AtRest
    <2>2. k \in Stored <=> written[k] # Null
      BY <2>1, CertainRows DEF Stored
    <2> QED  BY <1>1, <2>1, <2>2
  <1> QED  BY <1>1, <1>2 DEF LoadsAnswerWrites

(* The answer of a read is about the moment of the read. *)
LEMMA NextAnswers == TypeOK /\ Kept /\ LoadsAnswerWrites /\ [Next]_vars => LoadsAnswerWrites'
  <1> SUFFICES ASSUME TypeOK, Kept, LoadsAnswerWrites, [Next]_vars PROVE LoadsAnswerWrites'
    OBVIOUS
  <1>1. CASE told' = NoAnswer
    BY <1>1 DEF NoAnswer, LoadsAnswerWrites
  <1>2. CASE UNCHANGED vars
    <2>1. UNCHANGED <<told, written, dropped, autoCommit, todo, key>>
      BY <1>2 DEF vars
    <2>2. \A k : Certain(k)' <=> Certain(k)
      BY <2>1 DEF Certain, AtRest, KeysOf
    <2> QED  BY <2>1, <2>2 DEF LoadsAnswerWrites
  <1> QED  BY <1>1, <1>2, LoadAnswers, LoadAllKeysAnswers DEF Next

(* load and loadAllKeys answer what the callers wrote last, or, when they     *)
(* swallow an exception, less than that, but never a stale row or key.       *)
THEOREM LoadsAnswerLastWrites == Spec => []LoadsAnswerWrites
  <1>1. Init => LoadsAnswerWrites
    BY DEF Init, NoAnswer, LoadsAnswerWrites
  <1> QED  BY <1>1, TypeCorrect, KeptInvariant, NextAnswers, PTL DEF Spec

-----------------------------------------------------------------------------
(* What is uncommitted after every step is a row on the way to its commit,  *)
(* a deletion, or a failed write.                                           *)
LEMMA NextLingers == TypeOK /\ Kept /\ OnlyDeletesLinger /\ [Next]_vars => OnlyDeletesLinger'
  <1> SUFFICES ASSUME TypeOK, Kept, OnlyDeletesLinger, [Next]_vars PROVE OnlyDeletesLinger'
    OBVIOUS
  <1>1. ASSUME NEW t \in Thread, Step(t), NEW k \in Key, work'[k] # table'[k]
        PROVE  /\ ~autoCommit'
               /\ \/ k \in dropped'
                  \/ work'[k] = Null
                  \/ \E u \in Thread : pc'[u] = "commit" /\ key'[u] = k
    <2>1. Keeps(t)
      BY <1>1, StepKeeps
    <2>2. ~autoCommit'
      BY <1>1, <2>1 DEF Keeps, Fresh
    <2>3. CASE /\ work'[k] = work[k] /\ table'[k] \in {table[k], work[k]}
               /\ k \in dropped' <=> k \in dropped
               /\ ~(pc[t] = "commit" /\ key[t] = k)
      <3>1. k \in dropped \/ work[k] = Null \/ \E u \in Thread : pc[u] = "commit" /\ key[u] = k
        BY <1>1, <2>3 DEF OnlyDeletesLinger
      <3>2. ASSUME NEW u \in Thread, pc[u] = "commit", key[u] = k
            PROVE  pc'[u] = "commit" /\ key'[u] = k
        BY <2>1, <2>3, <3>2 DEF Keeps, Alone
      <3> QED  BY <2>2, <2>3, <3>1, <3>2
    <2>4. CASE \/ k \in dropped'
               \/ /\ work'[k] = job[t].val
                  /\ \/ table'[k] = job[t].val
                     \/ job[t].val = Null \/ (pc'[t] = "commit" /\ key'[t] = k)
      BY <1>1, <2>2, <2>4
    <2> QED  BY <2>1, <2>3, <2>4 DEF Keeps, OwnRows
  <1>2. ASSUME NEW t \in Thread, NEW j \in Job, NEW keys \in SUBSET Key, Begin(t, j, keys)
        PROVE  OnlyDeletesLinger'
    BY <1>2 DEF Begin, dbVars, OnlyDeletesLinger
  <1>3. CASE LoadAllKeys \/ \E k \in Key : Load(k)
    BY <1>3, ReadKept DEF OnlyDeletesLinger
  <1>4. CASE Loss \/ Restart
    BY <1>4 DEF Loss, Restart, OnlyDeletesLinger
  <1>5. CASE UNCHANGED vars
    BY <1>5 DEF vars, dbVars, OnlyDeletesLinger
  <1>6. ASSUME NEW t \in Thread, Step(t) PROVE OnlyDeletesLinger'
    BY <1>6, <1>1 DEF OnlyDeletesLinger
  <1> QED  BY <1>2, <1>3, <1>4, <1>5, <1>6 DEF Next, Writes

(* A loss of the connection can take back nothing but a write that has not   *)
(* returned yet, a deletion, or one that reported an exception.             *)
THEOREM LittleLingers == Spec => []OnlyDeletesLinger
  <1>1. Init => OnlyDeletesLinger
    BY DEF Init, OnlyDeletesLinger
  <1> QED  BY <1>1, TypeCorrect, KeptInvariant, NextLingers, PTL DEF Spec
=============================================================================
