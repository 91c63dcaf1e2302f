---------------------------- MODULE KvTxMetaProofs ----------------------------
(***************************************************************************)
(* Theorems about StoreMetaKVHook: what '__METADATA_MAP' knows of the      *)
(* addresses that hold data, and what the hook's list knows of it.         *)
(***************************************************************************)
EXTENDS KvTxProofs

-----------------------------------------------------------------------------
(* Writing an entry leaves keys, deleting leaves no new ones, and reading   *)
(* leaves the map.                                                         *)
LEMMA KeysAfter ==
    ASSUME NEW m \in Maps, NEW a \in Addr, NEW q \in Requests(a, Op)
    PROVE  /\ q.op \in {"set", "submit"} => KeysOf(MapAfter(m, q)) # {}
           /\ q.op \in {"clear", "del"} => KeysOf(MapAfter(m, q)) \subseteq KeysOf(m)
           /\ q.op \notin WriteOp => MapAfter(m, q) = m
  <1>1. ASSUME q.op \in {"set", "submit"} PROVE KeysOf(MapAfter(m, q)) # {}
    <2>1. KeyOf(q) \in Key /\ q.val # Null
      BY <1>1, DataAssumption DEF Requests, KeyOf
    <2>2. MapAfter(m, q)[KeyOf(q)] = q.val
      BY <1>1, <2>1, MapAfterCases DEF Maps
    <2> QED  BY <2>1, <2>2 DEF KeysOf
  <1>2. ASSUME q.op = "del" PROVE KeysOf(MapAfter(m, q)) \subseteq KeysOf(m)
    BY <1>2, MapAfterCases DEF Maps, KeysOf
  <1>3. ASSUME q.op = "clear" PROVE KeysOf(MapAfter(m, q)) \subseteq KeysOf(m)
    BY <1>3, MapAfterCases DEF EmptyMap, KeysOf
  <1> QED  BY <1>1, <1>2, <1>3, MapAfterCases

-----------------------------------------------------------------------------
(* What the hook's nested transactions are for, and that without failures   *)
(* every reply is a success.                                               *)
Purposes ==
    \A t \in Tx : InFlight(t) =>
        /\ running[t] = "store" => req[t].op \in {"set", "submit"}
        /\ running[t] \in {"size", "drop"} => req[t].op \in {"clear", "del"}
        /\ pc[t] = "reply" /\ ~MayFail => reply[t].ok

(* Every KvTx a hook starts serves the request that it was started for. *)
LEMMA PurposesInvariant == Spec => []Purposes
  <1>1. Init => Purposes
    BY DEF Init, Purposes, InFlight, Waiting
  <1>2. TypeOK /\ Bookkeeping /\ Purposes /\ [Next]_vars => Purposes'
    <2> SUFFICES ASSUME TypeOK, Bookkeeping, Purposes, [Next]_vars PROVE Purposes'
      OBVIOUS
    <2> USE DEF Purposes, InFlight
    <2>1. CASE UNCHANGED vars
      BY <2>1 DEF vars
    <2>2. ASSUME NEW t \in Tx, NEW s \in Session,
                 NewNullTx(t, s) \/ \E a \in Addr : NewTx(t, s, a)
          PROVE  Purposes'
      <3>1. /\ pc'[t] \in {"created", "null"} /\ UNCHANGED <<running, reply>>
            /\ \A u \in Tx \ {t} : pc'[u] = pc[u] /\ req'[u] = req[u]
        BY <2>2 DEF NewNullTx, NewTx, TypeOK
      <3> QED  BY <3>1 DEF Waiting
    <2>3. ASSUME NEW t \in Tx, NEW q, Invoke(t, q)
          PROVE  Purposes'
      <3>1. /\ running[t] = "user" /\ pc'[t] # "reply" /\ UNCHANGED <<running, reply>>
            /\ \A u \in Tx \ {t} : pc'[u] = pc[u] /\ req'[u] = req[u]
        BY <2>3 DEF Invoke, TypeOK, Waiting, Bookkeeping, OwnKvTx
      <3> QED  BY <3>1 DEF Waiting
    <2>4. ASSUME NEW t \in Tx, GotMap(t) \/ Perform(t) \/ PerformFailed(t)
          PROVE  Purposes'
      <3>1. /\ pc[t] \in Waiting /\ UNCHANGED <<req, running>>
            /\ pc'[t] = "reply" /\ ~MayFail => reply'[t].ok
            /\ \A u \in Tx \ {t} : pc'[u] = pc[u] /\ reply'[u] = reply[u]
        <4>1. CASE GotMap(t)
          BY <4>1 DEF GotMap, TypeOK, Waiting
        <4>2. CASE Perform(t)
          BY <4>2 DEF Perform, TypeOK, Waiting, Ok
        <4>3. CASE PerformFailed(t)
          BY <4>3 DEF PerformFailed, TypeOK, Waiting
        <4> QED  BY <2>4, <4>1, <4>2, <4>3
      <3> QED  BY <3>1 DEF Waiting
    <2>5. ASSUME NEW t \in Tx, UserDone(t) \/ StoreDone(t) \/ SizeDone(t) \/ DropDone(t)
          PROVE  Purposes'
      <3>1. /\ pc'[t] = "done" /\ UNCHANGED req
            /\ \A u \in Tx \ {t} : /\ pc'[u] = pc[u] /\ running'[u] = running[u]
                                   /\ reply'[u] = reply[u]
        BY <2>5 DEF UserDone, StoreDone, SizeDone, DropDone, CallBack, TypeOK
      <3> QED  BY <3>1 DEF Waiting
    <2>6. ASSUME NEW t \in Tx, UserStores(t) \/ UserChecks(t) \/ SizeIsZero(t)
          PROVE  Purposes'
      <3>1. req[t].op \in Op
        BY <2>6, OutcomeType DEF UserStores, UserChecks, SizeIsZero, Requests
      <3>2. /\ pc'[t] = "getMap" /\ req' = req
            /\ running'[t] = "store" => req[t].op \in {"set", "submit"}
            /\ running'[t] \in {"size", "drop"} => req[t].op \in {"clear", "del"}
        BY <2>6, <3>1, TxTypeOf
        DEF UserStores, UserChecks, SizeIsZero, DropTxAndStart, TypeOK, Finishes, Waiting,
            MustStore, MustCheck
      <3> QED
        BY <2>6, <3>2 DEF UserStores, UserChecks, SizeIsZero, DropTxAndStart, TypeOK
    <2> QED  BY <2>1, <2>2, <2>3, <2>4, <2>5, <2>6 DEF Next, Progress
  <1> QED  BY <1>1, <1>2, TypeCorrect, BookkeepingInvariant, PTL DEF Spec

-----------------------------------------------------------------------------
(* Nobody has deleted from the address, nor is about to. *)
Undeleted(a) ==
    \A t \in Tx : InFlight(t) \/ pc[t] = "done" =>
        ~(req[t].addr = a /\ TxType(req[t].op) = "KV_DEL")

(* What UndeletedIsCovered says of an address, and that the metadata is     *)
(* there as soon as storeMeta's set has answered.                          *)
Covered(a) ==
    /\ \A s \in Session : straddrCache[s][a] > 0 => a \in meta
    /\ \A t \in Tx :
          /\ pc[t] = "reply" /\ running[t] = "store" /\ req[t].addr = a /\ reply[t].ok
          => a \in meta
    /\ \A t \in Tx :
          /\ ~MayFail /\ pc[t] = "done" /\ req[t].addr = a /\ req[t].op \in {"set", "submit"}
          => a \in meta

Coverage == \A a \in Addr : Undeleted(a) => Covered(a)

(* A transaction that was called stays called with its request, so that     *)
(* who has not deleted after a step had not deleted before it.             *)
LEMMA CalledStaysCalled ==
    ASSUME TypeOK, NEW t \in Tx, Progress(t)
    PROVE  /\ pc[t] \in Waiting /\ req' = req /\ owner' = owner
           /\ pc'[t] \in Waiting \cup {"done"}
  <1>1. CASE GotMap(t) \/ Perform(t) \/ PerformFailed(t)
    BY <1>1 DEF GotMap, Perform, PerformFailed, TypeOK, Waiting
  <1>2. CASE UserDone(t) \/ StoreDone(t) \/ SizeDone(t) \/ DropDone(t)
    BY <1>2 DEF UserDone, StoreDone, SizeDone, DropDone, CallBack, Finishes, TypeOK, Waiting
  <1>3. CASE UserStores(t) \/ UserChecks(t) \/ SizeIsZero(t)
    BY <1>3 DEF UserStores, UserChecks, SizeIsZero, DropTxAndStart, Finishes, TypeOK, Waiting
  <1> QED  BY <1>1, <1>2, <1>3 DEF Progress

(* Without a delete the metadata stays. *)
LEMMA MetaStays ==
    ASSUME TypeOK, Purposes, NEW a \in Addr, Undeleted(a), NEW t \in Tx, Progress(t), a \in meta
    PROVE  a \in meta'
  <1>1. CASE Perform(t) \/ PerformFailed(t)
    <2>1. meta' = meta \/ meta' = MetaAfter(t)
      BY <1>1 DEF Perform, PerformFailed
    <2>2. CASE running[t] = "store"
      <3>1. MetaAfter(t) = meta \cup {req[t].addr}
        BY <2>2 DEF MetaAfter
      <3> QED  BY <2>1, <3>1
    <2>3. CASE running[t] = "drop"
      <3>1. MetaAfter(t) = meta \ {req[t].addr}
        BY <2>3 DEF MetaAfter
      <3>2. InFlight(t) /\ req[t].op \in Op
        BY <1>1 DEF Perform, PerformFailed, InFlight, Waiting, TypeOK, Requests
      <3>3. req[t].addr # a
        BY <2>3, <3>2, TxTypeOf DEF Purposes, Undeleted
      <3> QED  BY <2>1, <3>1, <3>3
    <2>4. CASE running[t] \in {"user", "size"}
      <3>1. MetaAfter(t) = meta
        BY <2>4 DEF MetaAfter
      <3> QED  BY <2>1, <3>1
    <2> QED  BY <2>2, <2>3, <2>4 DEF TypeOK, Role
  <1>2. CASE ~(Perform(t) \/ PerformFailed(t))
    BY <1>2 DEF Progress, GotMap, UserDone, UserStores, UserChecks, StoreDone, SizeDone,
                SizeIsZero, DropDone
  <1> QED  BY <1>1, <1>2

(* The list grows only behind a successful set of the metadata. *)
LEMMA CacheIsCovered ==
    ASSUME TypeOK, NEW t \in Tx, Progress(t), NEW s \in Session, NEW a \in Addr,
           straddrCache'[s][a] > 0
    PROVE  \/ straddrCache[s][a] > 0
           \/ /\ pc[t] = "reply" /\ running[t] = "store" /\ req[t].addr = a /\ reply[t].ok
              /\ StoreDone(t)
  <1>1. CASE StoreDone(t) \/ DropDone(t)
    <2>1. Finishes(t) /\ owner[t] \in Session /\ req[t].addr \in Addr
      BY <1>1, OutcomeType DEF StoreDone, DropDone
    <2>2. CASE StoreDone(t)
      <3>1. CASE pc[t] = "reply" /\ reply[t].ok /\ req[t].addr = a
        BY <2>2, <3>1 DEF StoreDone
      <3>2. CASE ~(pc[t] = "reply" /\ reply[t].ok)
        BY <2>1, <2>2, <3>2 DEF StoreDone, CacheAfterStore, Outcome, Failed
      <3>3. CASE req[t].addr # a
        BY <2>1, <2>2, <3>3 DEF StoreDone, CacheAfterStore, TypeOK
      <3> QED  BY <3>1, <3>2, <3>3
    <2>3. CASE DropDone(t)
      BY <2>1, <2>3 DEF DropDone, CacheAfterDrop, Cached, TypeOK
    <2> QED  BY <1>1, <2>2, <2>3
  <1>2. CASE ~(StoreDone(t) \/ DropDone(t))
    BY <1>2 DEF Progress, GotMap, Perform, PerformFailed, UserDone, UserStores, UserChecks,
                SizeDone, SizeIsZero
  <1> QED  BY <1>1, <1>2

(* No handler of StoreMetaKVHook uncovers an address nobody deletes from. *)
LEMMA NextCoverage == TypeOK /\ Purposes /\ Coverage /\ [Next]_vars => Coverage'
  <1> SUFFICES ASSUME TypeOK, Purposes, Coverage, [Next]_vars,
                      NEW a \in Addr, Undeleted(a)'
               PROVE  Covered(a)'
    BY DEF Coverage
  <1> USE DEF InFlight
  <1>1. CASE UNCHANGED vars
    BY <1>1 DEF vars, Coverage, Undeleted, Covered
  <1>2. ASSUME NEW t \in Tx, pc[t] \in {"none", "created"},
               pc'[t] \notin {"reply", "done"},
               UNCHANGED <<meta, straddrCache, running, reply>>,
               \A u \in Tx \ {t} : pc'[u] = pc[u] /\ req'[u] = req[u]
        PROVE  Covered(a)'
    <2>1. Undeleted(a)
      BY <1>2 DEF Undeleted, Waiting
    <2>2. Covered(a)
      BY <2>1 DEF Coverage
    <2> QED  BY <1>2, <2>2 DEF Covered
  <1>3. ASSUME NEW t \in Tx, NEW s \in Session,
               NewNullTx(t, s) \/ \E b \in Addr : NewTx(t, s, b)
        PROVE  Covered(a)'
    <2>1. pc[t] = "none" /\ pc'[t] \in {"null", "created"}
          /\ UNCHANGED <<meta, straddrCache, running, reply>>
      BY <1>3 DEF NewNullTx, NewTx, TypeOK
    <2> QED  BY <1>2, <1>3, <2>1, OthersStay
  <1>4. ASSUME NEW t \in Tx, NEW q, Invoke(t, q)
        PROVE  Covered(a)'
    <2>1. pc[t] = "created" /\ pc'[t] \in {"op", "getMap"}
          /\ UNCHANGED <<meta, straddrCache, running, reply>>
      BY <1>4 DEF Invoke, TypeOK
    <2> QED  BY <1>2, <1>4, <2>1, OthersStay
  <1>5. ASSUME NEW t \in Tx, Progress(t)
        PROVE  Covered(a)'
    <2>1. /\ pc[t] \in Waiting /\ req' = req /\ pc'[t] \in Waiting \cup {"done"}
          /\ req[t].op \in Op
      BY <1>5, CalledStaysCalled DEF TypeOK, Waiting, Requests
    <2>2. \A u \in Tx \ {t} : /\ pc'[u] = pc[u] /\ running'[u] = running[u]
                              /\ reply'[u] = reply[u]
      BY <1>5, OthersStay
    <2>3. Undeleted(a) /\ Covered(a)
      <3>1. Undeleted(a)
        BY <2>1, <2>2 DEF Undeleted
      <3> QED  BY <3>1 DEF Coverage
    <2>4. a \in meta => a \in meta'
      BY <1>5, <2>3, MetaStays
    <2>5. ASSUME NEW s \in Session, straddrCache'[s][a] > 0
          PROVE  a \in meta'
      BY <1>5, <2>3, <2>4, <2>5, CacheIsCovered DEF Covered
    <2>6. ASSUME pc'[t] = "reply", running'[t] = "store", req[t].addr = a, reply'[t].ok
          PROVE  a \in meta'
      <3>1. Perform(t) /\ running[t] = "store"
        <4>1. ~GotMap(t)
          BY <2>6 DEF GotMap, TypeOK
        <4>2. ~PerformFailed(t)
          <5>1. PerformFailed(t) => reply'[t] = Failed
            BY DEF PerformFailed, TypeOK
          <5> QED  BY <2>6, <5>1 DEF Failed
        <4>3. ~(UserDone(t) \/ StoreDone(t) \/ SizeDone(t) \/ DropDone(t))
          BY <2>6 DEF UserDone, StoreDone, SizeDone, DropDone, CallBack, TypeOK
        <4>4. ~(UserStores(t) \/ UserChecks(t) \/ SizeIsZero(t))
          BY <2>6 DEF UserStores, UserChecks, SizeIsZero, DropTxAndStart, TypeOK
        <4> QED  BY <1>5, <2>6, <4>1, <4>2, <4>3, <4>4 DEF Progress, Perform
      <3>2. MetaAfter(t) = meta \cup {req[t].addr}
        BY <3>1 DEF MetaAfter
      <3> QED  BY <2>6, <3>1, <3>2 DEF Perform
    <2>7. ASSUME ~MayFail, pc'[t] = "done", req[t].addr = a, req[t].op \in {"set", "submit"}
          PROVE  a \in meta'
      <3>1. UserDone(t) \/ StoreDone(t) \/ SizeDone(t) \/ DropDone(t)
        BY <1>5, <2>7
        DEF Progress, GotMap, Perform, PerformFailed, UserStores, UserChecks, SizeIsZero,
            DropTxAndStart, TypeOK
      <3>2. CASE UserDone(t)
        <4>1. Cached(t) /\ owner[t] \in Session
          BY <2>1, <2>7, <3>2, TxTypeOf, OutcomeType DEF UserDone, MustStore
        <4> QED  BY <2>3, <2>4, <2>7, <4>1 DEF Cached, Covered
      <3>3. CASE StoreDone(t)
        <4>1. pc[t] = "reply" /\ running[t] = "store" /\ reply[t].ok
          BY <2>7, <3>3 DEF StoreDone, Finishes, Purposes, Waiting
        <4> QED  BY <2>3, <2>4, <2>7, <4>1 DEF Covered
      <3>4. CASE SizeDone(t) \/ DropDone(t)
        BY <2>1, <2>7, <3>4 DEF SizeDone, DropDone, Purposes
      <3> QED  BY <3>1, <3>2, <3>3, <3>4
    <2> QED  BY <2>1, <2>2, <2>3, <2>4, <2>5, <2>6, <2>7 DEF Covered
  <1> QED  BY <1>1, <1>3, <1>4, <1>5 DEF Next

(* While nobody deletes from an address, the list of stored addresses and   *)
(* the answers of set and submit can be trusted: the address's metadata is  *)
(* there, whatever StoreMetaKVHook does in any number of sessions.         *)
THEOREM UndeletedAreCovered == Spec => []UndeletedIsCovered
  <1>1. Init => Coverage
    BY DEF Init, Coverage, Covered
  <1>2. Coverage => UndeletedIsCovered
    BY DEF Coverage, Covered, Undeleted, UndeletedIsCovered
  <1> QED
    BY <1>1, <1>2, NextCoverage, PurposesInvariant, TypeCorrect, PTL DEF Spec

-----------------------------------------------------------------------------
(* One session on local maps: one transaction at a time, none fails.  The   *)
(* address of the transaction in flight is on its way from one settled      *)
(* state to another; every other address is settled.                       *)
OneByOne == Serial /\ ~MayFail /\ \A r, s \in Session : r = s

Holds(a) == KeysOf(store[a]) # {}
ListAgrees(a) == \A s \in Session : straddrCache[s][a] = IF a \in meta THEN 1 ELSE 0
Settled(a) == ListAgrees(a) /\ (a \in meta <=> Holds(a))

UnderWay(t, a) ==
    /\ running[t] = "user" /\ pc[t] # "reply" => Settled(a)
    /\ running[t] = "user" /\ pc[t] = "reply" =>
          /\ ListAgrees(a)
          /\ req[t].op \in {"set", "submit"} => Holds(a)
          /\ req[t].op \in {"clear", "del"} /\ Holds(a) => a \in meta
          /\ req[t].op \notin WriteOp => Settled(a)
    /\ running[t] = "store" =>
          /\ Holds(a) /\ (a \in meta <=> pc[t] = "reply")
          /\ \A s \in Session : straddrCache[s][a] = 0
    /\ running[t] = "size" =>
          /\ ListAgrees(a) /\ a \in meta
          /\ pc[t] = "reply" => reply[t].val = Cardinality(KeysOf(store[a]))
    /\ running[t] = "drop" =>
          /\ ~Holds(a) /\ (a \in meta <=> pc[t] # "reply")
          /\ \A s \in Session : straddrCache[s][a] = 1

InTurn ==
    /\ \A t, u \in Tx : InFlight(t) /\ InFlight(u) => t = u
    /\ \A t \in Tx : InFlight(t) => UnderWay(t, req[t].addr)
    /\ \A a \in Addr : (\A t \in Tx : InFlight(t) => req[t].addr # a) => Settled(a)

(* A step changes the map, the metadata and the list at its transaction's   *)
(* address only.                                                           *)
LEMMA ElsewhereSettled ==
    ASSUME TypeOK, NEW t \in Tx, Progress(t), NEW b \in Addr, b # req[t].addr, Settled(b)
    PROVE  Settled(b)'
  <1>1. store'[b] = store[b] /\ (b \in meta' <=> b \in meta)
    <2>1. CASE Perform(t) \/ PerformFailed(t)
      <3>1. store' \in {store, StoreAfter(t)} /\ meta' \in {meta, MetaAfter(t)}
        BY <2>1 DEF Perform, PerformFailed
      <3>2. StoreAfter(t)[b] = store[b]
        BY DEF StoreAfter, TypeOK
      <3>3. b \in MetaAfter(t) <=> b \in meta
        <4>1. CASE running[t] = "store"
          <5>1. MetaAfter(t) = meta \cup {req[t].addr}
            BY <4>1 DEF MetaAfter
          <5> QED  BY <5>1
        <4>2. CASE running[t] = "drop"
          <5>1. MetaAfter(t) = meta \ {req[t].addr}
            BY <4>2 DEF MetaAfter
          <5> QED  BY <5>1
        <4>3. CASE running[t] \in {"user", "size"}
          <5>1. MetaAfter(t) = meta
            BY <4>3 DEF MetaAfter
          <5> QED  BY <5>1
        <4> QED  BY <4>1, <4>2, <4>3 DEF TypeOK, Role
      <3> QED  BY <3>1, <3>2, <3>3
    <2>2. CASE ~(Perform(t) \/ PerformFailed(t))
      BY <2>2 DEF Progress, GotMap, UserDone, UserStores, UserChecks, StoreDone, SizeDone,
                  SizeIsZero, DropDone
    <2> QED  BY <2>1, <2>2
  <1>2. ASSUME NEW s \in Session PROVE straddrCache'[s][b] = straddrCache[s][b]
    <2>1. straddrCache' \in {straddrCache, CacheAfterStore(t), CacheAfterDrop(t)}
      BY DEF Progress, GotMap, Perform, PerformFailed, UserDone, UserStores, UserChecks, StoreDone,
             SizeDone, SizeIsZero, DropDone
    <2>2. CacheAfterStore(t)[s][b] = straddrCache[s][b] /\ CacheAfterDrop(t)[s][b] = straddrCache[s][b]
      BY DEF CacheAfterStore, CacheAfterDrop, TypeOK
    <2> QED  BY <2>1, <2>2
  <1> QED  BY <1>1, <1>2 DEF Settled, ListAgrees, Holds

(* The map's step of the transaction under way. *)
LEMMA PerformInTurn ==
    ASSUME OneByOne, TypeOK, Purposes, NEW t \in Tx, Perform(t), UnderWay(t, req[t].addr)
    PROVE  UnderWay(t, req[t].addr)'
  <1> DEFINE a == req[t].addr
  <1>1. /\ pc[t] = "op" /\ pc'[t] = "reply" /\ store' = StoreAfter(t) /\ meta' = MetaAfter(t)
        /\ reply'[t] = Ok(MapAnswer(t)) /\ UNCHANGED <<req, running, straddrCache>>
    BY DEF Perform, TypeOK
  <1>2. /\ a \in Addr /\ req[t] \in Requests(a, Op) /\ store[a] \in Maps /\ req[t].op \in Op
    BY <1>1 DEF TypeOK, Request, Requests
  <1>3. running[t] # "user" => store' = store
    BY <1>1 DEF StoreAfter
  <1>4. CASE running[t] = "user"
    <2>1. MetaAfter(t) = meta
      BY <1>4 DEF MetaAfter
    <2>2. store'[a] = MapAfter(store[a], req[t])
      BY <1>1, <1>2, <1>4 DEF StoreAfter, TypeOK
    <2>3. Settled(a)
      BY <1>1, <1>4 DEF UnderWay
    <2>4. ListAgrees(a)'
      BY <1>1, <2>1, <2>3 DEF Settled, ListAgrees
    <2>5. req[t].op \in {"set", "submit"} => Holds(a)'
      BY <1>1, <1>2, <2>2, KeysAfter DEF Holds
    <2>6. req[t].op \in {"clear", "del"} /\ Holds(a)' => a \in meta
      BY <1>1, <1>2, <2>2, <2>3, KeysAfter DEF Holds, Settled
    <2>7. req[t].op \notin WriteOp => Settled(a)'
      BY <1>1, <1>2, <2>1, <2>2, <2>3, <2>4, KeysAfter DEF Holds, Settled
    <2> QED  BY <1>1, <1>4, <2>1, <2>4, <2>5, <2>6, <2>7 DEF UnderWay
  <1>5. CASE running[t] = "store"
    <2>1. MetaAfter(t) = meta \cup {a}
      BY <1>5 DEF MetaAfter
    <2> QED  BY <1>1, <1>3, <1>5, <2>1 DEF UnderWay, Holds
  <1>6. CASE running[t] = "size"
    <2>1. MetaAfter(t) = meta
      BY <1>6 DEF MetaAfter
    <2>2. MapAnswer(t) = Cardinality(KeysOf(store[a]))
      BY <1>6 DEF MapAnswer
    <2> QED  BY <1>1, <1>3, <1>6, <2>1, <2>2 DEF UnderWay, ListAgrees, Ok
  <1>7. CASE running[t] = "drop"
    <2>1. MetaAfter(t) = meta \ {a}
      BY <1>7 DEF MetaAfter
    <2> QED  BY <1>1, <1>3, <1>7, <2>1 DEF UnderWay, Holds
  <1> QED  BY <1>4, <1>5, <1>6, <1>7 DEF TypeOK, Role

(* The end of a KvTx leaves the address settled, or in the state in which   *)
(* the hook's next transaction starts.                                     *)
LEMMA FinishInTurn ==
    ASSUME OneByOne, TypeOK, Purposes, NEW t \in Tx, UnderWay(t, req[t].addr),
           \/ UserDone(t) \/ StoreDone(t) \/ SizeDone(t) \/ DropDone(t)
           \/ UserStores(t) \/ UserChecks(t) \/ SizeIsZero(t)
    PROVE  IF pc'[t] = "done" THEN Settled(req[t].addr)' ELSE UnderWay(t, req[t].addr)'
  <1> DEFINE a == req[t].addr
  <1>1. /\ Finishes(t) /\ UNCHANGED <<store, meta, req>>
        /\ pc[t] = "reply" /\ pc'[t] \in {"done", "getMap"} /\ Outcome(t).ok
        /\ Outcome(t) = reply[t]
    BY DEF UserDone, StoreDone, SizeDone, DropDone, UserStores, UserChecks, SizeIsZero,
           CallBack, DropTxAndStart, Finishes, Outcome, OneByOne, TypeOK, Purposes, InFlight, Waiting
  <1>2. /\ owner[t] \in Session /\ a \in Addr /\ req[t].op \in Op
        /\ \A s \in Session : s = owner[t]
    BY <1>1, OutcomeType DEF OneByOne, Requests
  <1>3. /\ TxType(req[t].op) = "KV_DEL" <=> req[t].op \in {"clear", "del"}
        /\ TxType(req[t].op) \in {"KV_SET", "KV_SUBMIT"} <=> req[t].op \in {"set", "submit"}
    BY <1>2, TxTypeOf
  <1>4. \A s \in Session : Cached(t) <=> straddrCache[s][a] > 0
    BY <1>2 DEF Cached
  <1>5. CASE UserDone(t) \/ UserStores(t) \/ UserChecks(t)
    <2>1. /\ running[t] = "user" /\ ListAgrees(a) /\ straddrCache' = straddrCache
          /\ req[t].op \in {"set", "submit"} => Holds(a)
          /\ req[t].op \in {"clear", "del"} /\ Holds(a) => a \in meta
          /\ req[t].op \notin WriteOp => Settled(a)
      BY <1>1, <1>5 DEF UserDone, UserStores, UserChecks, UnderWay
    <2>2. Cached(t) <=> a \in meta
      BY <1>2, <1>4, <2>1 DEF ListAgrees
    <2>3. CASE UserDone(t)
      <3>1. /\ pc'[t] = "done"
            /\ req[t].op \in {"set", "submit"} => a \in meta
            /\ req[t].op \in {"clear", "del"} => a \notin meta
        BY <1>3, <2>2, <2>3 DEF UserDone, MustStore, MustCheck, CallBack, TypeOK
      <3>2. Settled(a)
        BY <1>2, <2>1, <3>1 DEF Settled, WriteOp, Op
      <3> QED  BY <1>1, <2>1, <3>1, <3>2 DEF Settled, ListAgrees, Holds
    <2>4. CASE UserStores(t)
      <3>1. /\ pc'[t] = "getMap" /\ running'[t] = "store"
            /\ req[t].op \in {"set", "submit"} /\ a \notin meta
        BY <1>3, <2>2, <2>4 DEF UserStores, MustStore, DropTxAndStart, TypeOK
      <3> QED  BY <1>1, <2>1, <3>1 DEF UnderWay, ListAgrees, Holds
    <2>5. CASE UserChecks(t)
      <3>1. pc'[t] = "getMap" /\ running'[t] = "size" /\ a \in meta
        BY <2>2, <2>5 DEF UserChecks, MustCheck, DropTxAndStart, TypeOK
      <3> QED  BY <1>1, <2>1, <3>1 DEF UnderWay, ListAgrees
    <2> QED  BY <1>5, <2>3, <2>4, <2>5
  <1>6. CASE StoreDone(t)
    <2>1. /\ pc'[t] = "done" /\ a \in meta /\ Holds(a)
          /\ \A s \in Session : straddrCache[s][a] = 0
          /\ straddrCache' = [straddrCache EXCEPT ![owner[t]][a] = @ + 1]
      BY <1>1, <1>6 DEF StoreDone, CallBack, CacheAfterStore, UnderWay, TypeOK
    <2>2. \A s \in Session : straddrCache'[s][a] = 1
      BY <1>2, <2>1 DEF TypeOK
    <2> QED  BY <1>1, <2>1, <2>2 DEF Settled, ListAgrees, Holds
  <1>7. CASE SizeDone(t) \/ SizeIsZero(t)
    <2>1. /\ ListAgrees(a) /\ a \in meta /\ straddrCache' = straddrCache
          /\ reply[t].val = Cardinality(KeysOf(store[a]))
      BY <1>1, <1>7 DEF SizeDone, SizeIsZero, UnderWay
    <2>2. AppearsEmpty(t) <=> ~Holds(a)
      <3>1. IsFiniteSet(KeysOf(store[a]))
        BY DataAssumption, FS_Subset DEF KeysOf
      <3> QED  BY <1>1, <2>1, <3>1, FS_EmptySet DEF AppearsEmpty, Holds
    <2>3. CASE SizeDone(t)
      BY <1>1, <2>1, <2>2, <2>3 DEF SizeDone, CallBack, Settled, ListAgrees, Holds, TypeOK
    <2>4. CASE SizeIsZero(t)
      <3>1. pc'[t] = "getMap" /\ running'[t] = "drop" /\ ~Holds(a)
        BY <2>2, <2>4 DEF SizeIsZero, DropTxAndStart, TypeOK
      <3> QED  BY <1>1, <2>1, <3>1 DEF UnderWay, ListAgrees, Holds
    <2> QED  BY <1>7, <2>3, <2>4
  <1>8. CASE DropDone(t)
    <2>1. /\ pc'[t] = "done" /\ a \notin meta /\ ~Holds(a)
          /\ \A s \in Session : straddrCache[s][a] = 1
      BY <1>1, <1>8 DEF DropDone, CallBack, UnderWay, TypeOK
    <2>2. straddrCache' = [straddrCache EXCEPT ![owner[t]][a] = @ - 1]
      BY <1>1, <1>2, <1>4, <1>8, <2>1 DEF DropDone, CacheAfterDrop
    <2>3. \A s \in Session : straddrCache'[s][a] = 0
      BY <1>2, <2>1, <2>2 DEF TypeOK
    <2> QED  BY <1>1, <2>1, <2>3 DEF Settled, ListAgrees, Holds
  <1> QED  BY <1>5, <1>6, <1>7, <1>8

(* On inline maps each transaction leaves the metadata exact to the next. *)
LEMMA NextInTurn ==
    ASSUME OneByOne
    PROVE  TypeOK /\ Bookkeeping /\ Purposes /\ InTurn /\ [Next]_vars => InTurn'
  <1> SUFFICES ASSUME TypeOK, Bookkeeping, Purposes, InTurn, [Next]_vars
               PROVE  InTurn'
    OBVIOUS
  <1> USE DEF InFlight
  <1>1. CASE UNCHANGED vars
    BY <1>1 DEF vars, InTurn, UnderWay, Settled, ListAgrees, Holds
  <1>2. ASSUME NEW t \in Tx, NEW s \in Session,
               NewNullTx(t, s) \/ \E a \in Addr : NewTx(t, s, a)
        PROVE  InTurn'
    <2>1. /\ pc'[t] \in {"null", "created"} /\ UNCHANGED <<store, meta, straddrCache>>
          /\ \A u \in Tx : pc[u] \notin Waiting
      BY <1>2 DEF NewNullTx, NewTx, Scheduled, OneByOne, TypeOK
    <2>2. \A u \in Tx : pc'[u] \notin Waiting
      BY <1>2, <2>1, OthersStay DEF Waiting
    <2> QED  BY <2>1, <2>2 DEF InTurn, Settled, ListAgrees, Holds
  <1>3. ASSUME NEW t \in Tx, NEW q \in Requests(req[t].addr, UserOps), Invoke(t, q)
        PROVE  InTurn'
    <2>1. /\ pc[t] = "created" /\ pc'[t] \in {"getMap", "op"} /\ req'[t] = q
          /\ UNCHANGED <<store, meta, straddrCache, running>>
          /\ \A u \in Tx : pc[u] \notin Waiting
      BY <1>3 DEF Invoke, Scheduled, OneByOne, TypeOK
    <2>2. running[t] = "user" /\ q.addr = req[t].addr /\ q.addr \in Addr
      BY <2>1 DEF Bookkeeping, OwnKvTx, Waiting, Requests, TypeOK, Request
    <2>3. \A u \in Tx \ {t} : pc'[u] \notin Waiting
      BY <1>3, <2>1, OthersStay
    <2>4. \A a \in Addr : Settled(a)'
      BY <2>1 DEF InTurn, Settled, ListAgrees, Holds
    <2>5. UnderWay(t, q.addr)'
      BY <2>1, <2>2, <2>4 DEF UnderWay
    <2> QED  BY <2>1, <2>3, <2>4, <2>5 DEF InTurn
  <1>4. ASSUME NEW t \in Tx, Progress(t)
        PROVE  InTurn'
    <2>1. /\ pc[t] \in Waiting /\ req' = req /\ pc'[t] \in Waiting \cup {"done"}
          /\ req[t].addr \in Addr
      BY <1>4, CalledStaysCalled DEF TypeOK, Waiting, Request
    <2>2. UnderWay(t, req[t].addr) /\ \A u \in Tx \ {t} : pc'[u] \notin Waiting
      BY <1>4, <2>1, OthersStay DEF InTurn
    <2>3. ASSUME NEW b \in Addr, b # req[t].addr PROVE Settled(b)'
      BY <1>4, <2>1, <2>3, ElsewhereSettled DEF InTurn
    <2>4. IF pc'[t] = "done" THEN Settled(req[t].addr)' ELSE UnderWay(t, req[t].addr)'
      <3>1. CASE GotMap(t)
        BY <2>2, <3>1 DEF GotMap, UnderWay, Settled, ListAgrees, Holds, TypeOK
      <3>2. CASE Perform(t)
        <4>1. pc'[t] = "reply"
          BY <3>2 DEF Perform, TypeOK
        <4> QED  BY <2>2, <3>2, <4>1, PerformInTurn
      <3>3. ~PerformFailed(t)
        BY DEF PerformFailed, OneByOne
      <3> QED  BY <1>4, <2>2, <3>1, <3>2, <3>3, FinishInTurn DEF Progress
    <2> QED  BY <2>1, <2>2, <2>3, <2>4 DEF InTurn, Waiting
  <1> QED  BY <1>1, <1>2, <1>3, <1>4 DEF Next

(* With one session, maps that answer inline and none that fails, the       *)
(* metadata is exact: StoreMetaKVHook keeps a key in '__METADATA_MAP' for   *)
(* the addresses that hold data, and for no other, whenever nothing is in   *)
(* flight.  KvTxMetaRace and KvTxTwoSessions show that neither condition on *)
(* sessions and scheduling can be left out.                                *)
THEOREM MetadataIsExact ==
    ASSUME Serial, ~MayFail, \A r, s \in Session : r = s
    PROVE  Spec => []MetaExact
  <1> OneByOne
    BY DEF OneByOne
  <1>1. Init => InTurn
    BY DEF Init, InTurn, InFlight, Waiting, Settled, ListAgrees, Holds, EmptyMap, KeysOf
  <1>2. TypeOK /\ InTurn => MetaExact
    BY DEF TypeOK, InTurn, MetaExact, Quiescent, Settled, Holds
  <1> QED
    BY <1>1, <1>2, NextInTurn, PurposesInvariant, TypeCorrect, BookkeepingInvariant, PTL DEF Spec
=============================================================================
