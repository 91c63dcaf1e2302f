------------------------------ MODULE KvTxProofs ------------------------------
(***************************************************************************)
(* Theorems about KvTx, for every set of sessions, transactions, addresses *)
(* and values and every finite set of keys, whether maps answer inline or  *)
(* later, and whether they may fail or not.                                *)
(***************************************************************************)
EXTENDS KvTx, FiniteSetTheorems, TLAPS

-----------------------------------------------------------------------------
(* Lemmas about the operations of KvOps. *)

(* What each operation leaves in the map. *)
LEMMA MapAfterCases ==
    ASSUME NEW m, NEW q
    PROVE  /\ q.op \in {"set", "submit"} => MapAfter(m, q) = [m EXCEPT ![KeyOf(q)] = q.val]
           /\ q.op = "del" => MapAfter(m, q) = [m EXCEPT ![q.key] = Null]
           /\ q.op = "clear" => MapAfter(m, q) = EmptyMap
           /\ q.op \notin WriteOp => MapAfter(m, q) = m
  <1>1. CASE q.op \in {"set", "submit"}
    BY <1>1, Zenon DEF MapAfter, WriteOp
  <1>2. CASE q.op = "del"
    BY <1>2, Zenon DEF MapAfter, WriteOp
  <1>3. CASE q.op = "clear"
    BY <1>3, Zenon DEF MapAfter, WriteOp
  <1>4. CASE q.op \notin WriteOp
    BY <1>4, Zenon DEF MapAfter, WriteOp
  <1> QED  BY <1>1, <1>2, <1>3, <1>4 DEF WriteOp

(* The types under which the seven operations start. *)
LEMMA TxTypeOf ==
    ASSUME NEW op \in Op
    PROVE  /\ TxType(op) = "KV_DEL" <=> op \in {"clear", "del"}
           /\ TxType(op) \in {"KV_SET", "KV_SUBMIT"} <=> op \in {"set", "submit"}
  <1>1. CASE op \in {"clear", "del"}
    <2>1. TxType(op) = "KV_DEL"
      BY <1>1, Zenon DEF TxType
    <2> QED  BY <1>1, <2>1
  <1>2. CASE op \in {"set", "submit"}
    <2>1. TxType(op) = IF op = "set" THEN "KV_SET" ELSE "KV_SUBMIT"
      BY <1>2, Zenon DEF TxType
    <2> QED  BY <1>2, <2>1
  <1>3. CASE op \in {"get", "getKeys", "size"}
    <2>1. CASE op = "get"
      <3>1. TxType(op) = "KV_GET"
        BY <2>1, Zenon DEF TxType
      <3> QED  BY <2>1, <3>1
    <2>2. CASE op = "getKeys"
      <3>1. TxType(op) = "KV_KEYS"
        BY <2>2, Zenon DEF TxType
      <3> QED  BY <2>2, <3>1
    <2>3. CASE op = "size"
      <3>1. TxType(op) = "KV_SIZE"
        BY <2>3, Zenon DEF TxType
      <3> QED  BY <2>3, <3>1
    <2> QED  BY <1>3, <2>1, <2>2, <2>3
  <1> QED  BY <1>1, <1>2, <1>3 DEF Op

(* An operation leaves a map in the address's place. *)
LEMMA MapAfterType ==
    ASSUME NEW m \in Maps, NEW a \in Addr, NEW q \in Requests(a, Op)
    PROVE  MapAfter(m, q) \in Maps
  <1>1. q.op \in Op /\ q.key \in Key \cup {Null} /\ q.val \in Val \cup {Null}
    BY DEF Requests
  <1>2. CASE q.op \in {"set", "submit"}
    <2>1. KeyOf(q) \in Key /\ q.val \in Val
      BY <1>2, DataAssumption DEF Requests, KeyOf
    <2> QED  BY <1>2, <2>1 DEF MapAfter, Maps
  <1>3. CASE q.op = "del"
    BY <1>1, <1>3 DEF MapAfter, Maps
  <1>4. CASE q.op = "clear"
    BY <1>4 DEF MapAfter, Maps, EmptyMap
  <1>5. CASE q.op \in {"get", "getKeys", "size"}
    BY <1>5 DEF MapAfter, WriteOp
  <1> QED  BY <1>1, <1>2, <1>3, <1>4, <1>5 DEF Op

(* The keys of a map are a finite set, and their number a natural. *)
LEMMA KeysOfFinite ==
    ASSUME NEW m
    PROVE  /\ KeysOf(m) \in SUBSET Key
           /\ Cardinality(KeysOf(m)) \in Nat
  BY DataAssumption, FS_Subset, FS_CardinalityType DEF KeysOf

(* A successful operation answers what its kind answers. *)
LEMMA AnswerToType ==
    ASSUME NEW m \in Maps, NEW a \in Addr, NEW q \in Requests(a, Op)
    PROVE  AnswerTo(m, q) \in AnswersOf(q.op) \cup {Null}
  <1>1. q.op \in Op /\ q.key \in Key \cup {Null} /\ q.val \in Val \cup {Null}
    BY DEF Requests
  <1>2. CASE q.op \in {"set", "submit", "del"}
    <2>1. KeyOf(q) \in Key \cup {Null}
      BY <1>2, DataAssumption DEF Requests, KeyOf
    <2> QED  BY <1>2, <2>1 DEF AnswerTo, AnswersOf
  <1>3. CASE q.op = "get"
    BY <1>3 DEF AnswerTo, AnswersOf, Maps, Requests
  <1>4. CASE q.op = "getKeys"
    BY <1>4, KeysOfFinite DEF AnswerTo, AnswersOf
  <1>5. CASE q.op = "size"
    BY <1>5, KeysOfFinite DEF AnswerTo, AnswersOf
  <1>6. CASE q.op = "clear"
    BY <1>6 DEF AnswerTo
  <1> QED  BY <1>1, <1>2, <1>3, <1>4, <1>5, <1>6 DEF Op

(* A failure and an answer of the right kind are both results. *)
LEMMA ResultType ==
    ASSUME NEW op
    PROVE  /\ Failed \in ResultsOf(op)
           /\ \A v \in AnswersOf(op) \cup {Null} : Ok(v) \in ResultsOf(op)
  BY DEF ResultsOf, Failed, Ok

-----------------------------------------------------------------------------
(* What the KvTx running for a transaction does keeps the types. *)
LEMMA EffectType ==
    ASSUME TypeOK, NEW t \in Tx, pc[t] = "op"
    PROVE  /\ StoreAfter(t) \in [Addr -> Maps]
           /\ MetaAfter(t) \subseteq Addr
           /\ Ok(MapAnswer(t)) \in
                 ResultsOf(IF running[t] = "user" THEN req[t].op ELSE running[t])
  <1>1. req[t] \in Requests(req[t].addr, Op) /\ req[t].addr \in Addr
    BY DEF TypeOK, Request
  <1>2. running[t] \in Role /\ store[req[t].addr] \in Maps
    BY <1>1 DEF TypeOK
  <1>3. StoreAfter(t) \in [Addr -> Maps]
    <2>1. MapAfter(store[req[t].addr], req[t]) \in Maps
      BY <1>1, <1>2, MapAfterType
    <2> QED  BY <1>1, <2>1 DEF StoreAfter, TypeOK
  <1>4. MetaAfter(t) \subseteq Addr
    <2>1. CASE running[t] = "store"   BY <1>1, <2>1 DEF MetaAfter, TypeOK
    <2>2. CASE running[t] = "drop"    BY <1>1, <2>2 DEF MetaAfter, TypeOK
    <2>3. CASE running[t] \in {"user", "size"}  BY <2>3 DEF MetaAfter, TypeOK
    <2> QED  BY <1>2, <2>1, <2>2, <2>3 DEF Role
  <1>5. CASE running[t] = "user"
    <2>1. CASE req[t].op = "getKeys" /\ ~LiveKeys
      <3>1. MapAnswer(t) \in SUBSET Key
        BY <1>5, <2>1 DEF MapAnswer
      <3>2. MapAnswer(t) \in AnswersOf(req[t].op) \cup {Null}
        BY <2>1, <3>1 DEF AnswersOf
      <3> QED  BY <1>3, <1>4, <1>5, <3>2, ResultType
    <2>2. CASE ~(req[t].op = "getKeys" /\ ~LiveKeys)
      <3>1. MapAnswer(t) = AnswerTo(store[req[t].addr], req[t])
        BY <1>5, <2>2 DEF MapAnswer
      <3>2. MapAnswer(t) \in AnswersOf(req[t].op) \cup {Null}
        BY <1>1, <1>2, <3>1, AnswerToType
      <3> QED  BY <1>3, <1>4, <1>5, <3>2, ResultType
    <2> QED  BY <2>1, <2>2
  <1>6. CASE running[t] = "size"
    <2>1. MapAnswer(t) = Cardinality(KeysOf(store[req[t].addr]))
      BY <1>6 DEF MapAnswer
    <2>2. MapAnswer(t) \in AnswersOf("size")
      BY <2>1, KeysOfFinite DEF AnswersOf
    <2> QED  BY <1>3, <1>4, <1>6, <2>2, ResultType
  <1>7. CASE running[t] \in {"store", "drop"}
    <2>1. MapAnswer(t) = Null
      BY <1>7 DEF MapAnswer
    <2> QED  BY <1>3, <1>4, <1>7, <2>1, ResultType
  <1> QED  BY <1>2, <1>5, <1>6, <1>7 DEF Role

(* The result with which a KvTx finishes is one of its own kind. *)
LEMMA OutcomeType ==
    ASSUME TypeOK, NEW t \in Tx, Finishes(t)
    PROVE  /\ owner[t] \in Session
           /\ req[t] \in Request /\ req[t].addr \in Addr
           /\ req[t] \in Requests(req[t].addr, Op)
           /\ Outcome(t).ok \in BOOLEAN
           /\ running[t] = "user" => Outcome(t) \in ResultsOf(req[t].op)
  <1>1. pc[t] \in {"reply", "getMap"}
    BY DEF Finishes
  <1>2. req[t] \in Request /\ req[t] \in Requests(req[t].addr, Op)
    BY <1>1 DEF TypeOK
  <1>3. \A op : \A r \in ResultsOf(op) : r.ok \in BOOLEAN
    BY DEF ResultsOf
  <1>4. CASE pc[t] = "reply"
    BY <1>2, <1>3, <1>4 DEF TypeOK, Outcome, Request
  <1>5. CASE pc[t] = "getMap"
    BY <1>2, <1>5, ResultType DEF TypeOK, Outcome, Request, Failed
  <1> QED  BY <1>1, <1>4, <1>5

-----------------------------------------------------------------------------
(* The two ways out of finishTx keep the types of what they change. *)
LEMMA CallBackType ==
    ASSUME TypeOK, NEW t \in Tx, NEW r, Finishes(t), CallBack(t, r),
           r \in ResultsOf(req[t].op),
           UNCHANGED <<store, meta, owner, req>>,
           straddrCache' \in [Session -> [Addr -> Nat]]
    PROVE  TypeOK'
  <1>1. /\ owner[t] \in Session
        /\ req[t] \in Request /\ req[t].addr \in Addr
        /\ req[t] \in Requests(req[t].addr, Op)
    BY OutcomeType
  <1>2. outstandingTX' \in [Session -> SUBSET (Tx \X Role)]
    BY <1>1 DEF CallBack, TypeOK
  <1>3. accessCache' \subseteq Addr \cup {Meta}
    BY <1>1 DEF CallBack, TypeOK
  <1>4. published' \subseteq Tx \X Role
    BY DEF CallBack, TypeOK, Events, Role
  <1>5. /\ pc' \in [Tx -> PC] /\ running' \in [Tx -> Role]
        /\ Tx = DOMAIN reply' /\ Tx = DOMAIN answer'
    BY DEF CallBack, TypeOK, PC, Role
  <1>6. \A u \in Tx :
          /\ u # t => pc'[u] = pc[u] /\ running'[u] = running[u]
                      /\ reply'[u] = reply[u] /\ answer'[u] = answer[u]
          /\ u = t => pc'[u] = "done" /\ reply'[u] = Failed /\ answer'[u] = r
    BY DEF CallBack, TypeOK
  <1> QED  BY <1>1, <1>2, <1>3, <1>4, <1>5, <1>6 DEF TypeOK

(* A handler whose hook starts the next KvTx keeps the types. *)
LEMMA DropTxAndStartType ==
    ASSUME TypeOK, NEW t \in Tx, NEW role \in Role,
           Finishes(t), DropTxAndStart(t, role),
           UNCHANGED <<store, meta, straddrCache, owner, req, published>>,
           accessCache' \subseteq Addr \cup {Meta},
           \/ answer' = answer
           \/ \E r \in ResultsOf(req[t].op) : answer' = [answer EXCEPT ![t] = r]
    PROVE  TypeOK'
  <1>1. /\ owner[t] \in Session
        /\ req[t] \in Request /\ req[t].addr \in Addr
        /\ req[t] \in Requests(req[t].addr, Op)
    BY OutcomeType
  <1>2. outstandingTX' \in [Session -> SUBSET (Tx \X Role)]
    BY <1>1 DEF DropTxAndStart, TypeOK
  <1>3. /\ pc' \in [Tx -> PC] /\ running' \in [Tx -> Role]
        /\ Tx = DOMAIN reply' /\ Tx = DOMAIN answer'
    BY DEF DropTxAndStart, TypeOK, PC
  <1>4. \A u \in Tx : u # t => /\ pc'[u] = pc[u] /\ running'[u] = running[u]
                               /\ reply'[u] = reply[u] /\ answer'[u] = answer[u]
    BY DEF DropTxAndStart, TypeOK
  <1>5. pc'[t] = "getMap" /\ reply'[t] = Failed
    BY DEF DropTxAndStart, TypeOK
  <1>6. answer'[t] \in ResultsOf(req[t].op)
    <2>1. pc[t] \notin {"none", "null", "created"}
      BY DEF Finishes
    <2>2. answer[t] \in ResultsOf(req[t].op)
      BY <2>1 DEF TypeOK
    <2> QED  BY <2>2 DEF TypeOK
  <1> QED  BY <1>1, <1>2, <1>3, <1>4, <1>5, <1>6 DEF TypeOK

(* Type correctness holds initially and every action preserves it. *)
LEMMA InitTypeOK == Init => TypeOK
  BY DEF Init, TypeOK, Maps, EmptyMap, PC, Role

(* Every handler of KvTx keeps the types. *)
LEMMA NextTypeOK == TypeOK /\ [Next]_vars => TypeOK'
  <1> SUFFICES ASSUME TypeOK, [Next]_vars PROVE TypeOK'
    OBVIOUS
  <1>1. CASE UNCHANGED vars
    BY <1>1 DEF vars, TypeOK
  <1>2. ASSUME NEW t \in Tx, NEW s \in Session, NEW a \in Addr, NewTx(t, s, a)
        PROVE  TypeOK'
    <2>1. Unused(a) \in Request
      BY DEF Unused, Request
    <2>2. /\ owner' = [owner EXCEPT ![t] = s] /\ req' = [req EXCEPT ![t] = Unused(a)]
          /\ pc' = [pc EXCEPT ![t] = "created"]
      BY <1>2 DEF NewTx
    <2>3. outstandingTX' \in [Session -> SUBSET (Tx \X Role)]
      BY <1>2 DEF NewTx, TypeOK, Role
    <2>4. UNCHANGED <<store, meta, straddrCache, accessCache, running, reply, answer, published>>
      BY <1>2 DEF NewTx
    <2>7. owner' \in [Tx -> Session \cup {Null}]
      BY <2>2 DEF TypeOK
    <2>8. pc' \in [Tx -> PC] /\ Tx = DOMAIN req'
      BY <2>2 DEF TypeOK, PC
    <2>5. pc'[t] = "created" /\ req'[t] \in Request /\ owner'[t] \in Session
          /\ answer[t] = Failed /\ reply[t] = Failed
      BY <1>2, <2>1, <2>2 DEF NewTx, TypeOK
    <2>6. \A u \in Tx : u # t => pc'[u] = pc[u] /\ req'[u] = req[u] /\ owner'[u] = owner[u]
      BY <2>2 DEF TypeOK
    <2> QED  BY <2>3, <2>4, <2>5, <2>6, <2>7, <2>8 DEF TypeOK
  <1>3. ASSUME NEW t \in Tx, NEW s \in Session, NewNullTx(t, s)
        PROVE  TypeOK'
    <2>1. outstandingTX' \in [Session -> SUBSET (Tx \X Role)]
      BY <1>3 DEF NewNullTx, TypeOK, Role
    <2> QED  BY <1>3, <2>1 DEF NewNullTx, TypeOK, PC
  <1>4. ASSUME NEW t \in Tx, NEW q \in Requests(req[t].addr, UserOps),
               pc[t] = "created", Invoke(t, q)
        PROVE  TypeOK'
    <2>1. req[t].addr \in Addr
      BY <1>4 DEF TypeOK, Request
    <2>2. q \in Request /\ q.addr = req[t].addr /\ q \in Requests(q.addr, Op)
      BY <2>1, KvTxAssumption DEF Requests, Request
    <2>3. /\ pc' \in [Tx -> PC] /\ Tx = DOMAIN req'
          /\ pc'[t] \in {"op", "getMap"} /\ req'[t] = q
      BY <1>4 DEF Invoke, TypeOK, PC
    <2>4. \A u \in Tx : u # t => pc'[u] = pc[u] /\ req'[u] = req[u]
      BY <1>4 DEF Invoke, TypeOK
    <2>5. answer[t] \in ResultsOf(q.op) /\ reply[t] = Failed /\ owner[t] \in Session
      BY <1>4, ResultType DEF TypeOK
    <2>6. UNCHANGED <<store, meta, outstandingTX, straddrCache, accessCache, owner,
                      running, reply, answer, published>>
      BY <1>4 DEF Invoke
    <2> QED  BY <2>2, <2>3, <2>4, <2>5, <2>6 DEF TypeOK
  <1>5. ASSUME NEW t \in Tx, GotMap(t)
        PROVE  TypeOK'
    BY <1>5 DEF GotMap, TypeOK, PC
  <1>6. ASSUME NEW t \in Tx, pc[t] = "op",
               UNCHANGED <<outstandingTX, straddrCache, accessCache, owner, req, running,
                           answer, published>>,
               store' \in {store, StoreAfter(t)}, meta' \in {meta, MetaAfter(t)},
               NEW r \in {Failed, Ok(MapAnswer(t))}, reply' = [reply EXCEPT ![t] = r],
               pc' = [pc EXCEPT ![t] = "reply"]
        PROVE  TypeOK'
    <2>1. /\ StoreAfter(t) \in [Addr -> Maps] /\ MetaAfter(t) \subseteq Addr
          /\ r \in ResultsOf(IF running[t] = "user" THEN req[t].op ELSE running[t])
      BY <1>6, EffectType, ResultType
    <2>2. store' \in [Addr -> Maps] /\ meta' \subseteq Addr
      BY <1>6, <2>1 DEF TypeOK
    <2>3. pc' \in [Tx -> PC] /\ Tx = DOMAIN reply' /\ pc'[t] = "reply" /\ reply'[t] = r
      BY <1>6 DEF TypeOK, PC
    <2>4. \A u \in Tx : u # t => pc'[u] = pc[u] /\ reply'[u] = reply[u]
      BY <1>6 DEF TypeOK
    <2> QED  BY <1>6, <2>1, <2>2, <2>3, <2>4 DEF TypeOK
  <1>7. ASSUME NEW t \in Tx, Perform(t)
        PROVE  TypeOK'
    BY <1>6, <1>7 DEF Perform
  <1>8. ASSUME NEW t \in Tx, PerformFailed(t)
        PROVE  TypeOK'
    BY <1>6, <1>8 DEF PerformFailed
  <1>9. ASSUME NEW t \in Tx, Finishes(t)
        PROVE  /\ answer[t] \in ResultsOf(req[t].op)
               /\ CacheAfterStore(t) \in [Session -> [Addr -> Nat]]
               /\ CacheAfterDrop(t) \in [Session -> [Addr -> Nat]]
    <2>1. owner[t] \in Session /\ req[t].addr \in Addr
      BY <1>9, OutcomeType
    <2>2. answer[t] \in ResultsOf(req[t].op)
      BY <1>9 DEF Finishes, TypeOK
    <2>3. straddrCache[owner[t]] \in [Addr -> Nat]
      BY <2>1 DEF TypeOK
    <2>4. CacheAfterStore(t) \in [Session -> [Addr -> Nat]]
      BY <2>1, <2>3 DEF CacheAfterStore, TypeOK
    <2>5. CASE Cached(t)
      <3>1. straddrCache[owner[t]][req[t].addr] - 1 \in Nat
        BY <2>1, <2>3, <2>5 DEF Cached
      <3>2. [straddrCache EXCEPT ![owner[t]][req[t].addr] = @ - 1] \in [Session -> [Addr -> Nat]]
        BY <2>1, <2>3, <3>1 DEF TypeOK
      <3> QED  BY <2>2, <2>4, <3>2 DEF CacheAfterDrop, TypeOK
    <2>6. CASE ~Cached(t)
      BY <2>2, <2>4, <2>6 DEF CacheAfterDrop, TypeOK
    <2> QED  BY <2>5, <2>6
  <1>10. ASSUME NEW t \in Tx, UserDone(t)
         PROVE  TypeOK'
    BY <1>10, OutcomeType, CallBackType DEF UserDone, TypeOK
  <1>11. ASSUME NEW t \in Tx, NEW role \in {"store", "size"}, Finishes(t),
                running[t] = "user", answer' = [answer EXCEPT ![t] = Outcome(t)],
                DropTxAndStart(t, role),
                UNCHANGED <<store, meta, straddrCache, accessCache, owner, req, published>>
         PROVE  TypeOK'
    BY <1>11, OutcomeType, DropTxAndStartType DEF TypeOK, Role
  <1>12. ASSUME NEW t \in Tx, UserStores(t) \/ UserChecks(t)
         PROVE  TypeOK'
    BY <1>11, <1>12 DEF UserStores, UserChecks
  <1>13. ASSUME NEW t \in Tx, StoreDone(t) \/ SizeDone(t) \/ DropDone(t)
         PROVE  TypeOK'
    <2>1. Finishes(t) /\ CallBack(t, answer[t]) /\ UNCHANGED <<store, meta, owner, req>>
      BY <1>13 DEF StoreDone, SizeDone, DropDone
    <2>2. straddrCache' \in {straddrCache, CacheAfterStore(t), CacheAfterDrop(t)}
      BY <1>13 DEF StoreDone, SizeDone, DropDone
    <2>3. straddrCache' \in [Session -> [Addr -> Nat]]
      BY <1>9, <2>1, <2>2 DEF TypeOK
    <2> QED  BY <1>9, <2>1, <2>3, CallBackType
  <1>14. ASSUME NEW t \in Tx, SizeIsZero(t)
         PROVE  TypeOK'
    <2>1. accessCache' \subseteq Addr \cup {Meta}
      BY <1>14, OutcomeType DEF SizeIsZero, TypeOK
    <2> QED  BY <1>14, <2>1, DropTxAndStartType DEF SizeIsZero, Role
  <1> QED
    BY <1>1, <1>2, <1>3, <1>4, <1>5, <1>7, <1>8, <1>10, <1>12, <1>13, <1>14
       DEF Next, Progress

(* The state of sessions, hooks and maps always has its type. *)
THEOREM TypeCorrect == Spec => []TypeOK
  BY InitTypeOK, NextTypeOK, PTL DEF Spec

-----------------------------------------------------------------------------
(* What a step of t leaves alone of all other transactions. *)
LEMMA OthersStay ==
    ASSUME TypeOK, NEW t \in Tx,
           \/ \E s \in Session : NewNullTx(t, s) \/ \E a \in Addr : NewTx(t, s, a)
           \/ \E q : Invoke(t, q)
           \/ Progress(t)
    PROVE  \A u \in Tx \ {t} : /\ pc'[u] = pc[u] /\ running'[u] = running[u]
                               /\ reply'[u] = reply[u] /\ answer'[u] = answer[u]
                               /\ req'[u] = req[u] /\ owner'[u] = owner[u]
  <1>1. CASE \E s \in Session : NewNullTx(t, s) \/ \E a \in Addr : NewTx(t, s, a)
    BY <1>1 DEF NewNullTx, NewTx, TypeOK
  <1>2. CASE \E q : Invoke(t, q)
    BY <1>2 DEF Invoke, TypeOK
  <1>3. CASE GotMap(t) \/ Perform(t) \/ PerformFailed(t)
    BY <1>3 DEF GotMap, Perform, PerformFailed, TypeOK
  <1>4. CASE UserDone(t) \/ StoreDone(t) \/ SizeDone(t) \/ DropDone(t)
    BY <1>4 DEF UserDone, StoreDone, SizeDone, DropDone, CallBack, TypeOK
  <1>5. CASE UserStores(t) \/ UserChecks(t) \/ SizeIsZero(t)
    BY <1>5 DEF UserStores, UserChecks, SizeIsZero, DropTxAndStart, TypeOK
  <1> QED  BY <1>1, <1>2, <1>3, <1>4, <1>5 DEF Progress

-----------------------------------------------------------------------------
(* The bookkeeping of finishTx.  OutstandingExact is not inductive alone:   *)
(* newTx must find the program counter of a fresh transaction on the user's *)
(* own KvTx.  It is stated here by membership, which is what a step changes. *)
OwnKvTx == \A t \in Tx : pc[t] \notin Waiting => running[t] = "user"

Live(t) == pc[t] \notin {"none", "done"}

OutstandingMember ==
    \A s \in Session, t \in Tx, role \in Role :
        <<t, role>> \in outstandingTX[s] <=> owner[t] = s /\ Live(t) /\ role = running[t]

Bookkeeping == OwnKvTx /\ OutstandingMember /\ EventsExact

(* The bookkeeping is right before any newTx. *)
LEMMA InitBookkeeping == Init => Bookkeeping
  BY DEF Init, Bookkeeping, OwnKvTx, OutstandingMember, EventsExact, Live

(* The membership form says what OutstandingExact says. *)
LEMMA BookkeepingOutstanding == TypeOK /\ Bookkeeping => OutstandingExact
  <1> SUFFICES ASSUME TypeOK, OutstandingMember, NEW s \in Session
               PROVE  outstandingTX[s] =
                        {<<t, running[t]>> : t \in {u \in Tx : owner[u] = s /\ pc[u] \notin {"none", "done"}}}
    BY DEF Bookkeeping, OutstandingExact
  <1>1. outstandingTX[s] \subseteq Tx \X Role /\ \A t \in Tx : running[t] \in Role
    BY DEF TypeOK
  <1>2. ASSUME NEW x \in outstandingTX[s]
        PROVE  \E t \in Tx : owner[t] = s /\ pc[t] \notin {"none", "done"} /\ x = <<t, running[t]>>
    <2>1. PICK t \in Tx, role \in Role : x = <<t, role>>
      BY <1>1
    <2> QED  BY <2>1 DEF OutstandingMember, Live
  <1>3. ASSUME NEW t \in Tx, owner[t] = s, pc[t] \notin {"none", "done"}
        PROVE  <<t, running[t]>> \in outstandingTX[s]
    BY <1>1, <1>3 DEF OutstandingMember, Live
  <1> QED  BY <1>2, <1>3

(* The two ways out of finishTx keep the books. *)
LEMMA CallBackBooks ==
    ASSUME TypeOK, Bookkeeping, NEW t \in Tx, NEW r, Finishes(t), CallBack(t, r),
           UNCHANGED <<owner, req>>
    PROVE  Bookkeeping'
  <1>1. /\ owner[t] \in Session /\ pc[t] \in Waiting /\ running[t] \in Role
        /\ pc'[t] = "done" /\ running'[t] = "user" /\ answer'[t] = r
        /\ \A u \in Tx : u # t => /\ pc'[u] = pc[u] /\ running'[u] = running[u]
                                  /\ answer'[u] = answer[u]
    BY OutcomeType DEF CallBack, TypeOK, Finishes, Waiting
  <1>2. OwnKvTx'
    BY <1>1 DEF Bookkeeping, OwnKvTx, Waiting
  <1>3. ASSUME NEW s \in Session, NEW u \in Tx, NEW role \in Role
        PROVE  <<u, role>> \in outstandingTX'[s] <=>
                  owner[u] = s /\ Live(u)' /\ role = running'[u]
    <2>1. <<u, role>> \in outstandingTX'[s] <=>
             <<u, role>> \in outstandingTX[s] /\ ~(s = owner[t] /\ u = t /\ role = running[t])
      BY <1>1 DEF CallBack, TypeOK
    <2> QED  BY <1>1, <2>1 DEF Bookkeeping, OutstandingMember, Live
  <1>4. ASSUME NEW u \in Tx
        PROVE  <<u, "user">> \in published' <=>
                  pc'[u] = "done" /\ answer'[u].ok /\ req[u].op \in WriteOp
    <2>1. <<u, "user">> \in published' <=>
             \/ <<u, "user">> \in published
             \/ u = t /\ r.ok /\ req[t].op \in WriteOp
      BY DEF CallBack, Events
    <2> QED  BY <1>1, <2>1 DEF Bookkeeping, EventsExact, Waiting
  <1> QED  BY <1>2, <1>3, <1>4 DEF Bookkeeping, OutstandingMember, EventsExact, Live

(* finishTx swaps its own entry for that of the hook's KvTx. *)
LEMMA DropTxAndStartBooks ==
    ASSUME TypeOK, Bookkeeping, NEW t \in Tx, NEW role \in Role, role # "user",
           Finishes(t), DropTxAndStart(t, role), UNCHANGED <<owner, req, published>>,
           \A u \in Tx : u # t => answer'[u] = answer[u]
    PROVE  Bookkeeping'
  <1>1. /\ owner[t] \in Session /\ pc[t] \in Waiting /\ running[t] \in Role
        /\ pc'[t] = "getMap" /\ running'[t] = role
        /\ \A u \in Tx : u # t => pc'[u] = pc[u] /\ running'[u] = running[u]
    BY OutcomeType DEF DropTxAndStart, TypeOK, Finishes, Waiting
  <1>2. OwnKvTx'
    BY <1>1 DEF Bookkeeping, OwnKvTx, Waiting
  <1>3. ASSUME NEW s \in Session, NEW u \in Tx, NEW x \in Role
        PROVE  <<u, x>> \in outstandingTX'[s] <=> owner[u] = s /\ Live(u)' /\ x = running'[u]
    <2>1. <<u, x>> \in outstandingTX'[s] <=>
             \/ <<u, x>> \in outstandingTX[s] /\ ~(s = owner[t] /\ u = t /\ x = running[t])
             \/ s = owner[t] /\ u = t /\ x = role
      BY <1>1 DEF DropTxAndStart, TypeOK
    <2> QED  BY <1>1, <2>1 DEF Bookkeeping, OutstandingMember, Live, Waiting
  <1>4. ASSUME NEW u \in Tx
        PROVE  <<u, "user">> \in published <=>
                  pc'[u] = "done" /\ answer'[u].ok /\ req[u].op \in WriteOp
    BY <1>1 DEF Bookkeeping, EventsExact, Waiting
  <1> QED  BY <1>2, <1>3, <1>4 DEF Bookkeeping, OutstandingMember, EventsExact, Live

(* newTx, finishTx and the hooks keep the books. *)
LEMMA NextBookkeeping == TypeOK /\ Bookkeeping /\ [Next]_vars => Bookkeeping'
  <1> SUFFICES ASSUME TypeOK, Bookkeeping, [Next]_vars PROVE Bookkeeping'
    OBVIOUS
  <1> USE DEF OwnKvTx, EventsExact, OutstandingMember, Live
  <1>1. CASE UNCHANGED vars
    BY <1>1 DEF vars, Bookkeeping
  <1>2. ASSUME NEW t \in Tx, NEW s \in Session, NEW kind \in {"created", "null"},
               pc[t] = "none", pc' = [pc EXCEPT ![t] = kind],
               outstandingTX' = [outstandingTX EXCEPT ![s] = @ \cup {<<t, "user">>}],
               owner' = [owner EXCEPT ![t] = s],
               UNCHANGED <<running, answer, published>>,
               \A u \in Tx : u # t => req'[u] = req[u]
        PROVE  Bookkeeping'
    <2>1. /\ pc'[t] = kind /\ owner'[t] = s /\ running[t] = "user"
          /\ \A u \in Tx : u # t => pc'[u] = pc[u] /\ owner'[u] = owner[u]
      BY <1>2 DEF TypeOK, Bookkeeping, Waiting
    <2>2. ASSUME NEW z \in Session, NEW u \in Tx, NEW x \in Role
          PROVE  <<u, x>> \in outstandingTX'[z] <=> owner'[u] = z /\ Live(u)' /\ x = running[u]
      <3>1. <<u, x>> \in outstandingTX'[z] <=>
               <<u, x>> \in outstandingTX[z] \/ (z = s /\ u = t /\ x = "user")
        BY <1>2 DEF TypeOK
      <3> QED  BY <1>2, <2>1, <3>1 DEF Bookkeeping
    <2> QED  BY <1>2, <2>1, <2>2 DEF Bookkeeping
  <1>3. ASSUME NEW t \in Tx, NEW s \in Session, NEW a \in Addr, NewTx(t, s, a)
        PROVE  Bookkeeping'
    <2>1. \A u \in Tx : u # t => req'[u] = req[u]
      BY <1>3 DEF NewTx, TypeOK
    <2> QED  BY <1>2, <1>3, <2>1 DEF NewTx
  <1>4. ASSUME NEW t \in Tx, NEW s \in Session, NewNullTx(t, s)
        PROVE  Bookkeeping'
    BY <1>2, <1>4 DEF NewNullTx
  <1>5. ASSUME NEW t \in Tx, NEW live \in Waiting, Live(t),
               pc[t] \in Waiting \/ pc[t] = "created",
               pc' = [pc EXCEPT ![t] = live],
               UNCHANGED <<outstandingTX, owner, running, answer, published>>,
               \A u \in Tx : u # t => req'[u] = req[u]
        PROVE  Bookkeeping'
    <2>1. /\ pc'[t] = live /\ live \notin {"none", "done"} /\ pc[t] # "done"
          /\ \A u \in Tx : u # t => pc'[u] = pc[u]
      BY <1>5 DEF TypeOK, Waiting
    <2>2. OwnKvTx' /\ EventsExact'
      BY <1>5, <2>1 DEF Bookkeeping, Waiting
    <2>3. \A u \in Tx : pc'[u] \notin {"none", "done"} <=> pc[u] \notin {"none", "done"}
      BY <1>5, <2>1
    <2>4. ASSUME NEW s \in Session, NEW u \in Tx, NEW x \in Role
          PROVE  <<u, x>> \in outstandingTX'[s] <=> owner'[u] = s /\ Live(u)' /\ x = running'[u]
      <3>1. <<u, x>> \in outstandingTX[s] <=> owner[u] = s /\ Live(u) /\ x = running[u]
        BY DEF Bookkeeping
      <3>2. Live(u)' <=> Live(u)
        BY <2>3
      <3> QED  BY <1>5, <3>1, <3>2
    <2> QED  BY <2>2, <2>4 DEF Bookkeeping, OutstandingMember
  <1>6. ASSUME NEW t \in Tx, NEW q, Invoke(t, q)
        PROVE  Bookkeeping'
    <2>1. \A u \in Tx : u # t => req'[u] = req[u]
      BY <1>6 DEF Invoke, TypeOK
    <2> QED  BY <1>5, <1>6, <2>1 DEF Invoke, Waiting
  <1>7. ASSUME NEW t \in Tx, GotMap(t) \/ Perform(t) \/ PerformFailed(t)
        PROVE  Bookkeeping'
    BY <1>5, <1>7 DEF GotMap, Perform, PerformFailed, Waiting
  <1>8. ASSUME NEW t \in Tx, UserDone(t) \/ StoreDone(t) \/ SizeDone(t) \/ DropDone(t)
        PROVE  Bookkeeping'
    BY <1>8, CallBackBooks DEF UserDone, StoreDone, SizeDone, DropDone
  <1>9. ASSUME NEW t \in Tx, UserStores(t) \/ UserChecks(t) \/ SizeIsZero(t)
        PROVE  Bookkeeping'
    <2>1. \A u \in Tx : u # t => answer'[u] = answer[u]
      BY <1>9 DEF UserStores, UserChecks, SizeIsZero, TypeOK
    <2> QED  BY <1>9, <2>1, DropTxAndStartBooks DEF UserStores, UserChecks, SizeIsZero, Role
  <1> QED
    BY <1>1, <1>3, <1>4, <1>6, <1>7, <1>8, <1>9 DEF Next, Progress

(* The bookkeeping of finishTx is right in every reachable state. *)
LEMMA BookkeepingInvariant == Spec => []Bookkeeping
  BY InitBookkeeping, NextBookkeeping, TypeCorrect, PTL DEF Spec

(* outstandingTX names exactly the KvTx objects before their finishTx. *)
THEOREM OutstandingIsExact == Spec => []OutstandingExact
  BY BookkeepingOutstanding, BookkeepingInvariant, TypeCorrect, PTL

(* Change events are published for the successful writes and only for them. *)
THEOREM EventsAreExact == Spec => []EventsExact
  <1>1. Bookkeeping => EventsExact
    BY DEF Bookkeeping
  <1> QED  BY <1>1, BookkeepingInvariant, PTL
=============================================================================
