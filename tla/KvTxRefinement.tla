---------------------------- MODULE KvTxRefinement ----------------------------
(***************************************************************************)
(* KvTx implements KvAtomic, for every instance: the steps of sessions,    *)
(* hooks and nested transactions are atomic transactions or stutters.      *)
(***************************************************************************)
EXTENDS KvTxProofs

(* The table of AbsStage. *)
Staged(t) ==
    /\ pc[t] \in {"none", "null"} => AbsStage(t) = "idle"
    /\ pc[t] = "created" => AbsStage(t) = "created"
    /\ pc[t] = "done" => AbsStage(t) = "answered"
    /\ pc[t] \in {"getMap", "op"} /\ running[t] = "user" => AbsStage(t) = "called"
    /\ pc[t] \in Waiting /\ running[t] # "user" => AbsStage(t) = "decided"
    /\ pc[t] = "reply" => AbsStage(t) = "decided"
AllStaged == \A t \in Tx : Staged(t)

(* Every state of the implementation is at one stage of the specification, *)
(* before a step ...                                                       *)
LEMMA StageOf == TypeOK => AllStaged
  <1> SUFFICES ASSUME TypeOK, NEW t \in Tx PROVE Staged(t)
    BY DEF AllStaged
  <1>1. CASE pc[t] \in {"none", "null"}
    BY <1>1, Zenon DEF AbsStage, Waiting, Staged
  <1>2. CASE pc[t] = "created"
    BY <1>2, Zenon DEF AbsStage, Waiting, Staged
  <1>3. CASE pc[t] = "done"
    BY <1>3, Zenon DEF AbsStage, Waiting, Staged
  <1>4. CASE pc[t] \in {"getMap", "op"} /\ running[t] = "user"
    BY <1>4, Zenon DEF AbsStage, Waiting, Staged
  <1>5. CASE pc[t] = "reply" /\ running[t] = "user"
    BY <1>5, Zenon DEF AbsStage, Waiting, Staged
  <1>6. CASE pc[t] \in Waiting /\ running[t] # "user"
    <2>1. AbsStage(t) = "decided"
      BY <1>6, Zenon DEF AbsStage, Waiting
    <2> QED  BY <1>6, <2>1 DEF Staged, Waiting
  <1>7. pc[t] \in PC
    BY DEF TypeOK
  <1> QED
    BY <1>1, <1>2, <1>3, <1>4, <1>5, <1>6, <1>7 DEF PC, Waiting

(* ... and after it. *)
LEMMA StageOfNext == TypeOK' => AllStaged'
  BY StageOf, PTL

(* The operators both modules take from KvOps are the same operators. *)
LEMMA SameOps ==
    /\ Abs!EmptyMap = EmptyMap /\ Abs!Failed = Failed
    /\ Abs!Op = Op /\ Abs!WriteOp = WriteOp
    /\ \A a : Abs!Unused(a) = Unused(a)
    /\ \A a, ops : Abs!Requests(a, ops) = Requests(a, ops)
    /\ \A v : Abs!Ok(v) = Ok(v)
    /\ \A m, q : Abs!MapAfter(m, q) = MapAfter(m, q)
    /\ \A m, q : q.op \in Op => Abs!AnswerTo(m, q) = AnswerTo(m, q)
  <1>1. /\ Abs!EmptyMap = EmptyMap /\ Abs!Failed = Failed
        /\ Abs!Op = Op /\ Abs!WriteOp = WriteOp
    BY DEF Abs!EmptyMap, EmptyMap, Abs!Failed, Failed, Abs!Op, Op, Abs!WriteOp, WriteOp
  <1>2. /\ \A a : Abs!Unused(a) = Unused(a)
        /\ \A v : Abs!Ok(v) = Ok(v)
    BY DEF Abs!Unused, Unused, Abs!Ok, Ok
  <1>3. \A a, ops : Abs!Requests(a, ops) = Requests(a, ops)
    BY DEF Abs!Requests, Requests
  <1>4. \A q : Abs!KeyOf(q) = KeyOf(q)
    BY DEF Abs!KeyOf, KeyOf
  <1>5. \A m : Abs!KeysOf(m) = KeysOf(m)
    BY DEF Abs!KeysOf, KeysOf
  <1>6. ASSUME NEW m, NEW q
        PROVE  Abs!MapAfter(m, q) = MapAfter(m, q)
    <2>1. CASE q.op \in {"set", "submit"}
      <3>1. Abs!MapAfter(m, q) = [m EXCEPT ![Abs!KeyOf(q)] = q.val]
        BY <2>1, Zenon DEF Abs!MapAfter, Abs!WriteOp
      <3> QED  BY <1>4, <2>1, <3>1, MapAfterCases
    <2>2. CASE q.op = "del"
      <3>1. Abs!MapAfter(m, q) = [m EXCEPT ![q.key] = Null]
        BY <2>2, Zenon DEF Abs!MapAfter, Abs!WriteOp
      <3> QED  BY <2>2, <3>1, MapAfterCases
    <2>3. CASE q.op = "clear"
      <3>1. Abs!MapAfter(m, q) = Abs!EmptyMap
        BY <2>3, Zenon DEF Abs!MapAfter, Abs!WriteOp
      <3> QED  BY <1>1, <2>3, <3>1, MapAfterCases
    <2>4. CASE q.op \notin WriteOp
      <3>1. Abs!MapAfter(m, q) = m
        BY <2>4, Zenon DEF Abs!MapAfter, Abs!WriteOp, WriteOp
      <3> QED  BY <2>4, <3>1, MapAfterCases
    <2> QED  BY <2>1, <2>2, <2>3, <2>4 DEF WriteOp
  <1>7. ASSUME NEW m, NEW q, q.op \in Op
        PROVE  Abs!AnswerTo(m, q) = AnswerTo(m, q)
    <2>1. CASE q.op \in {"set", "submit", "del"}
      <3>1. Abs!AnswerTo(m, q) = Abs!KeyOf(q) /\ AnswerTo(m, q) = KeyOf(q)
        BY <2>1, Zenon DEF Abs!AnswerTo, AnswerTo
      <3> QED  BY <1>4, <3>1
    <2>2. CASE q.op = "get"
      BY <2>2, Zenon DEF Abs!AnswerTo, AnswerTo
    <2>3. CASE q.op \in {"getKeys", "size"}
      <3>1. CASE q.op = "getKeys"
        <4>1. Abs!AnswerTo(m, q) = Abs!KeysOf(m) /\ AnswerTo(m, q) = KeysOf(m)
          BY <3>1, Zenon DEF Abs!AnswerTo, AnswerTo
        <4> QED  BY <1>5, <4>1
      <3>2. CASE q.op = "size"
        <4>1. Abs!AnswerTo(m, q) = Abs!Cardinality(Abs!KeysOf(m))
          BY <3>2, Zenon DEF Abs!AnswerTo
        <4>3. Abs!Cardinality(KeysOf(m)) = Cardinality(KeysOf(m))
          BY DEF Abs!Cardinality, Cardinality
        <4>2. AnswerTo(m, q) = Cardinality(KeysOf(m))
          BY <3>2, Zenon DEF AnswerTo
        <4> QED  BY <1>5, <4>1, <4>2, <4>3
      <3> QED  BY <2>3, <3>1, <3>2
    <2>4. CASE q.op = "clear"
      BY <2>4, Zenon DEF Abs!AnswerTo, AnswerTo
    <2> QED  BY <1>7, <2>1, <2>2, <2>3, <2>4 DEF Op
  <1> QED  BY <1>1, <1>2, <1>3, <1>6, <1>7

(* Before any newTx no abstract transaction has begun. *)
LEMMA InitRef == Init => Abs!Init
  <1> SUFFICES ASSUME Init PROVE Abs!Init
    OBVIOUS
  <1>1. \A t \in Tx : pc[t] = "none" /\ running[t] = "user" /\ answer[t] = Failed
    BY DEF Init
  <1>2. \A t \in Tx : AbsStage(t) = "idle"
    BY <1>1, StageOf, InitTypeOK DEF AllStaged, Staged
  <1>3. \A t \in Tx : AbsResult(t) = Failed
    BY <1>1 DEF AbsResult
  <1> QED  BY <1>2, <1>3, SameOps DEF Init, Abs!Init

-----------------------------------------------------------------------------
(* Only operations of UserOps are ever invoked. *)
Invoked == \A t \in Tx : pc[t] \notin {"none", "null", "created"} => req[t].op \in UserOps

(* A transaction has its operation from the invocation on. *)
LEMMA InvokedInvariant == Spec => []Invoked
  <1>1. Init => Invoked
    BY DEF Init, Invoked
  <1>2. TypeOK /\ Invoked /\ [Next]_vars => Invoked'
    <2> SUFFICES ASSUME TypeOK, Invoked, [Next]_vars PROVE Invoked'
      OBVIOUS
    <2>1. CASE UNCHANGED vars
      BY <2>1 DEF vars, Invoked
    <2>2. ASSUME NEW t \in Tx, NEW s \in Session,
                 NewNullTx(t, s) \/ \E a \in Addr : NewTx(t, s, a)
          PROVE  Invoked'
      BY <2>2 DEF NewTx, NewNullTx, TypeOK, Invoked
    <2>3. ASSUME NEW t \in Tx, NEW q \in Requests(req[t].addr, UserOps), Invoke(t, q)
          PROVE  Invoked'
      <3>1. q.op \in UserOps
        BY DEF Requests
      <3> QED  BY <2>3, <3>1 DEF Invoke, TypeOK, Invoked
    <2>4. ASSUME NEW t \in Tx, Progress(t)
          PROVE  Invoked'
      <3>1. req' = req /\ pc[t] \in Waiting
        BY <2>4 DEF Progress, GotMap, Perform, PerformFailed, UserDone, UserStores, UserChecks,
                    StoreDone, SizeDone, SizeIsZero, DropDone, Finishes, Waiting
      <3>2. \A u \in Tx \ {t} : pc'[u] = pc[u]
        BY <2>4 DEF Progress, GotMap, Perform, PerformFailed, UserDone, UserStores, UserChecks,
                    StoreDone, SizeDone, SizeIsZero, DropDone, CallBack, DropTxAndStart, TypeOK
      <3> QED  BY <3>1, <3>2 DEF Invoked, Waiting
    <2> QED  BY <2>1, <2>2, <2>3, <2>4 DEF Next
  <1> QED  BY <1>1, <1>2, TypeCorrect, PTL DEF Spec

(* A step of one transaction moves that transaction's stage and result. *)
LEMMA OneMoves ==
    ASSUME NEW t \in Tx,
           \A u \in Tx \ {t} : /\ pc'[u] = pc[u] /\ running'[u] = running[u]
                               /\ reply'[u] = reply[u] /\ answer'[u] = answer[u]
    PROVE  /\ [u \in Tx |-> AbsStage(u)]' =
                 [[u \in Tx |-> AbsStage(u)] EXCEPT ![t] = AbsStage(t)']
           /\ [u \in Tx |-> AbsResult(u)]' =
                 [[u \in Tx |-> AbsResult(u)] EXCEPT ![t] = AbsResult(t)']
  <1>1. ASSUME NEW u \in Tx \ {t}
        PROVE  AbsStage(u)' = AbsStage(u) /\ AbsResult(u)' = AbsResult(u)
    <2>1. /\ pc'[u] = pc[u] /\ running'[u] = running[u]
          /\ reply'[u] = reply[u] /\ answer'[u] = answer[u]
      OBVIOUS
    <2>2. AbsStage(u)' = AbsStage(u)
      BY <2>1, Zenon DEF AbsStage
    <2>3. AbsResult(u)' = AbsResult(u)
      BY <2>1 DEF AbsResult
    <2> QED  BY <2>2, <2>3
  <1> QED  BY <1>1

(* ... and leaves the specification stuttering if it moves neither, nor the *)
(* maps, the requests and the users' events.                               *)
LEMMA NothingMoves ==
    ASSUME NEW t \in Tx,
           \A u \in Tx \ {t} : /\ pc'[u] = pc[u] /\ running'[u] = running[u]
                               /\ reply'[u] = reply[u] /\ answer'[u] = answer[u],
           AbsStage(t)' = AbsStage(t), AbsResult(t)' = AbsResult(t),
           UNCHANGED <<store, req>>,
           \A u \in Tx : <<u, "user">> \in published' <=> <<u, "user">> \in published
    PROVE  UNCHANGED Abs!vars
  <1>1. /\ [u \in Tx |-> AbsStage(u)]' = [u \in Tx |-> AbsStage(u)]
        /\ [u \in Tx |-> AbsResult(u)]' = [u \in Tx |-> AbsResult(u)]
    BY OneMoves
  <1>2. {u \in Tx : <<u, "user">> \in published}' = {u \in Tx : <<u, "user">> \in published}
    OBVIOUS
  <1> QED  BY <1>1, <1>2 DEF Abs!vars

-----------------------------------------------------------------------------
(* newTx and the invocation are the caller's Create and Call; what newTx    *)
(* hands out for a counter or lock does not show.                          *)
LEMMA CallerRef ==
    ASSUME TypeOK, TypeOK', OwnKvTx, OwnKvTx', NEW t \in Tx
    PROVE  /\ \A s \in Session, a \in Addr : NewTx(t, s, a) => Abs!Create(t)
           /\ \A s \in Session : NewNullTx(t, s) => UNCHANGED Abs!vars
           /\ \A q \in Requests(req[t].addr, UserOps) : Invoke(t, q) => Abs!Call(t)
  <1> USE StageOf, StageOfNext DEF AllStaged, Staged
  <1>1. ASSUME NEW s \in Session, NEW a \in Addr, NewTx(t, s, a)
        PROVE  Abs!Create(t)
    <2>1. /\ pc[t] = "none" /\ pc'[t] = "created" /\ req' = [req EXCEPT ![t] = Unused(a)]
          /\ UNCHANGED <<store, running, reply, answer, published>>
      BY <1>1 DEF NewTx, TypeOK
    <2>2. AbsStage(t) = "idle" /\ AbsStage(t)' = "created" /\ AbsResult(t)' = AbsResult(t)
      BY <2>1 DEF AbsResult
    <2>3. \A u \in Tx \ {t} : /\ pc'[u] = pc[u] /\ running'[u] = running[u]
                              /\ reply'[u] = reply[u] /\ answer'[u] = answer[u]
      BY <1>1, OthersStay
    <2>4. /\ [u \in Tx |-> AbsStage(u)]' = [[u \in Tx |-> AbsStage(u)] EXCEPT ![t] = "created"]
          /\ [u \in Tx |-> AbsResult(u)]' = [u \in Tx |-> AbsResult(u)]
      BY <2>2, <2>3, OneMoves
    <2> QED  BY <2>1, <2>2, <2>4, SameOps DEF Abs!Create
  <1>2. ASSUME NEW s \in Session, NewNullTx(t, s)
        PROVE  UNCHANGED Abs!vars
    <2>1. /\ pc[t] = "none" /\ pc'[t] = "null"
          /\ UNCHANGED <<store, req, running, reply, answer, published>>
      BY <1>2 DEF NewNullTx, TypeOK
    <2>2. AbsStage(t) = "idle" /\ AbsStage(t)' = "idle" /\ AbsResult(t)' = AbsResult(t)
      BY <2>1 DEF AbsResult
    <2> QED  BY <1>2, <2>1, <2>2, OthersStay, NothingMoves
  <1>3. ASSUME NEW q \in Requests(req[t].addr, UserOps), Invoke(t, q)
        PROVE  Abs!Call(t)
    <2>1. /\ pc[t] = "created" /\ pc'[t] \in {"getMap", "op"} /\ req' = [req EXCEPT ![t] = q]
          /\ UNCHANGED <<store, running, reply, answer, published>>
      BY <1>3 DEF Invoke, TypeOK
    <2>2. running[t] = "user"
      BY <2>1 DEF OwnKvTx, Waiting
    <2>3. AbsStage(t) = "created" /\ AbsStage(t)' = "called" /\ AbsResult(t)' = AbsResult(t)
      BY <2>1, <2>2 DEF AbsResult
    <2>4. /\ [u \in Tx |-> AbsStage(u)]' = [[u \in Tx |-> AbsStage(u)] EXCEPT ![t] = "called"]
          /\ [u \in Tx |-> AbsResult(u)]' = [u \in Tx |-> AbsResult(u)]
      BY <1>3, <2>3, OthersStay, OneMoves
    <2>5. q \in Requests(req[t].addr, Op)
      BY KvTxAssumption DEF Requests
    <2> QED  BY <2>1, <2>3, <2>4, <2>5, SameOps DEF Abs!Call
  <1> QED  BY <1>1, <1>2, <1>3

(* The maps' own steps: those of the user's KvTx are the instant at which   *)
(* the transaction happens or fails, those of a hook's do not show.  This   *)
(* is where a key provider has to see the map.                             *)
LEMMA MapRef ==
    ASSUME TypeOK, TypeOK', Invoked, NEW t \in Tx, LiveKeys \/ "getKeys" \notin UserOps
    PROVE  /\ GotMap(t) => UNCHANGED Abs!vars
           /\ Perform(t) => Abs!Perform(t) \/ UNCHANGED Abs!vars
           /\ PerformFailed(t) => Abs!Fail(t) \/ UNCHANGED Abs!vars
  <1> USE StageOf, StageOfNext DEF AllStaged, Staged
  <1>1. ASSUME GotMap(t) PROVE UNCHANGED Abs!vars
    <2>1. /\ pc[t] = "getMap" /\ pc'[t] = "op"
          /\ UNCHANGED <<store, req, running, reply, answer, published>>
      BY <1>1 DEF GotMap, TypeOK
    <2>2. AbsStage(t)' = AbsStage(t) /\ AbsResult(t)' = AbsResult(t)
      BY <2>1 DEF AbsResult, Waiting
    <2> QED  BY <1>1, <2>1, <2>2, OthersStay, NothingMoves DEF Progress
  <1>2. ASSUME Perform(t) \/ PerformFailed(t), running[t] # "user"
        PROVE  UNCHANGED Abs!vars
    <2>1. /\ pc[t] = "op" /\ pc'[t] = "reply"
          /\ UNCHANGED <<req, running, answer, published>>
      BY <1>2 DEF Perform, PerformFailed, TypeOK
    <2>2. store' = store
      BY <1>2 DEF Perform, PerformFailed, StoreAfter
    <2>3. AbsStage(t)' = AbsStage(t) /\ AbsResult(t)' = AbsResult(t)
      BY <1>2, <2>1 DEF AbsResult, Waiting
    <2> QED  BY <1>2, <2>1, <2>2, <2>3, OthersStay, NothingMoves DEF Progress
  <1>3. ASSUME Perform(t) \/ PerformFailed(t), running[t] = "user"
        PROVE  /\ AbsStage(t) = "called"
               /\ [u \in Tx |-> AbsStage(u)]' = [[u \in Tx |-> AbsStage(u)] EXCEPT ![t] = "decided"]
               /\ [u \in Tx |-> AbsResult(u)]' = [[u \in Tx |-> AbsResult(u)] EXCEPT ![t] = reply'[t]]
               /\ UNCHANGED <<req, published>>
               /\ req[t] \in Requests(req[t].addr, Op)
               /\ StoreAfter(t) = [store EXCEPT ![req[t].addr] = Abs!MapAfter(@, req[t])]
    <2>1. /\ pc[t] = "op" /\ pc'[t] = "reply"
          /\ UNCHANGED <<req, running, answer, published>>
      BY <1>3 DEF Perform, PerformFailed, TypeOK
    <2>2. AbsStage(t) = "called" /\ AbsStage(t)' = "decided" /\ AbsResult(t)' = reply'[t]
      BY <1>3, <2>1 DEF AbsResult
    <2>3. StoreAfter(t) = [store EXCEPT ![req[t].addr] = Abs!MapAfter(@, req[t])]
      BY <1>3, SameOps DEF StoreAfter
    <2> QED  BY <1>3, <2>1, <2>2, <2>3, OthersStay, OneMoves DEF Progress, TypeOK
  <1>4. ASSUME Perform(t), running[t] = "user"
        PROVE  Abs!Perform(t)
    <2>1. req[t].op \in Op
      BY <1>3, <1>4 DEF Requests
    <2>2. LiveKeys \/ req[t].op # "getKeys"
      BY <1>4 DEF Perform, Invoked
    <2>3. MapAnswer(t) = Abs!AnswerTo(store[req[t].addr], req[t])
      <3>1. MapAnswer(t) = AnswerTo(store[req[t].addr], req[t])
        BY <1>4, <2>2, Zenon DEF MapAnswer
      <3> QED  BY <2>1, <3>1, SameOps
    <2>4. reply'[t] = Abs!Ok(Abs!AnswerTo(store[req[t].addr], req[t]))
      BY <1>4, <2>3, SameOps DEF Perform, TypeOK
    <2>5. store' = [store EXCEPT ![req[t].addr] = Abs!MapAfter(store[req[t].addr], req[t])]
      BY <1>3, <1>4 DEF Perform
    <2> QED  BY <1>3, <1>4, <2>4, <2>5 DEF Abs!Perform
  <1>5. ASSUME PerformFailed(t), running[t] = "user"
        PROVE  Abs!Fail(t)
    <2>1. reply'[t] = Abs!Failed
      BY <1>5, SameOps DEF PerformFailed, TypeOK
    <2>2. store' \in {store, [store EXCEPT ![req[t].addr] = Abs!MapAfter(@, req[t])]}
      BY <1>3, <1>5 DEF PerformFailed
    <2> QED  BY <1>3, <1>5, <2>1, <2>2 DEF Abs!Fail
  <1> QED  BY <1>1, <1>2, <1>4, <1>5

(* A handler that calls the user back answers the transaction, or refuses   *)
(* it when its map could not be had.                                       *)
LEMMA CallBackRef ==
    ASSUME TypeOK, TypeOK', NEW t \in Tx,
           \/ UserDone(t) \/ StoreDone(t) \/ SizeDone(t) \/ DropDone(t)
    PROVE  Abs!Answer(t) \/ Abs!Refuse(t)
  <1> USE StageOf, StageOfNext DEF AllStaged, Staged
  <1> DEFINE r == IF running[t] = "user" THEN Outcome(t) ELSE answer[t]
  <1>1. Finishes(t) /\ CallBack(t, r) /\ UNCHANGED <<store, req>>
    BY DEF UserDone, StoreDone, SizeDone, DropDone
  <1>2. /\ pc[t] \in {"reply", "getMap"} /\ pc'[t] = "done" /\ running'[t] = "user"
        /\ answer'[t] = r
    BY <1>1 DEF Finishes, CallBack, TypeOK
  <1>3. AbsStage(t)' = "answered" /\ AbsResult(t)' = r
    BY <1>2 DEF AbsResult
  <1>4. /\ [u \in Tx |-> AbsStage(u)]' = [[u \in Tx |-> AbsStage(u)] EXCEPT ![t] = "answered"]
        /\ [u \in Tx |-> AbsResult(u)]' = [[u \in Tx |-> AbsResult(u)] EXCEPT ![t] = r]
    BY <1>3, OthersStay, OneMoves DEF Progress
  <1>5. {u \in Tx : <<u, "user">> \in published}' =
           {u \in Tx : <<u, "user">> \in published} \cup {u \in {t} : r.ok /\ req[t].op \in WriteOp}
    <2>1. \A u \in Tx : <<u, "user">> \in published' <=>
             \/ <<u, "user">> \in published
             \/ u = t /\ r.ok /\ req[t].op \in WriteOp
      BY <1>1 DEF CallBack, Events
    <2> HIDE DEF r
    <2> QED  BY <2>1
  <1>6. CASE pc[t] = "getMap" /\ running[t] = "user"
    <2>1. r = Abs!Failed /\ ~r.ok
      BY <1>6, SameOps DEF Outcome, Failed
    <2>2. AbsStage(t) = "called"
      BY <1>6
    <2> HIDE DEF r
    <2> QED  BY <1>1, <1>4, <1>5, <2>1, <2>2 DEF Abs!Refuse
  <1>7. CASE pc[t] = "reply" \/ running[t] # "user"
    <2>1. AbsStage(t) = "decided" /\ AbsResult(t) = r
      BY <1>2, <1>7 DEF AbsResult, Outcome, Waiting
    <2> HIDE DEF r
    <2>2. [u \in Tx |-> AbsResult(u)]' = [u \in Tx |-> AbsResult(u)]
      BY <1>4, <2>1
    <2> QED  BY <1>1, <1>4, <1>5, <2>1, <2>2, SameOps DEF Abs!Answer
  <1> QED  BY <1>2, <1>6, <1>7

(* A handler that starts a nested transaction is a stutter, unless the      *)
(* user's map could not be had: then the transaction fails here.           *)
LEMMA HookRef ==
    ASSUME TypeOK, TypeOK', NEW t \in Tx, UserStores(t) \/ UserChecks(t) \/ SizeIsZero(t)
    PROVE  Abs!Fail(t) \/ UNCHANGED Abs!vars
  <1> USE StageOf, StageOfNext DEF AllStaged, Staged
  <1>1. /\ Finishes(t) /\ UNCHANGED <<store, req, published>>
        /\ pc'[t] = "getMap" /\ running'[t] # "user"
        /\ answer'[t] = IF running[t] = "user" THEN Outcome(t) ELSE answer[t]
    BY DEF UserStores, UserChecks, SizeIsZero, DropTxAndStart, TypeOK
  <1>2. AbsStage(t)' = "decided" /\ AbsResult(t)' = answer'[t]
    BY <1>1 DEF AbsResult, Waiting
  <1>3. CASE pc[t] = "getMap" /\ running[t] = "user"
    <2>1. AbsStage(t) = "called" /\ answer'[t] = Abs!Failed
      BY <1>1, <1>3, SameOps DEF Outcome
    <2>2. /\ [u \in Tx |-> AbsStage(u)]' = [[u \in Tx |-> AbsStage(u)] EXCEPT ![t] = "decided"]
          /\ [u \in Tx |-> AbsResult(u)]' = [[u \in Tx |-> AbsResult(u)] EXCEPT ![t] = Abs!Failed]
      BY <1>2, <2>1, OthersStay, OneMoves DEF Progress
    <2> QED  BY <1>1, <2>1, <2>2 DEF Abs!Fail
  <1>4. CASE pc[t] = "reply" \/ running[t] # "user"
    <2>1. AbsStage(t) = "decided" /\ AbsResult(t) = answer'[t]
      BY <1>1, <1>4 DEF AbsResult, Outcome, Finishes, Waiting
    <2> QED  BY <1>1, <1>2, <2>1, OthersStay, NothingMoves DEF Progress
  <1> QED  BY <1>1, <1>3, <1>4 DEF Finishes

(* Every handler of KvTx is a step of KvAtomic or invisible to callers. *)
LEMMA NextRef ==
    ASSUME LiveKeys \/ "getKeys" \notin UserOps
    PROVE  /\ TypeOK /\ TypeOK' /\ OwnKvTx /\ OwnKvTx' /\ Invoked /\ [Next]_vars
           => [Abs!Next]_(Abs!vars)
  <1> SUFFICES ASSUME TypeOK, TypeOK', OwnKvTx, OwnKvTx', Invoked, [Next]_vars
               PROVE  Abs!Next \/ UNCHANGED Abs!vars
    OBVIOUS
  <1>1. CASE UNCHANGED vars
    <2>1. ASSUME NEW u \in Tx PROVE AbsStage(u)' = AbsStage(u) /\ AbsResult(u)' = AbsResult(u)
      <3>1. pc' = pc /\ running' = running /\ reply' = reply /\ answer' = answer
        BY <1>1 DEF vars
      <3>2. AbsStage(u)' = AbsStage(u)
        BY <3>1, Zenon DEF AbsStage
      <3> QED  BY <3>1, <3>2 DEF AbsResult
    <2> QED  BY <1>1, <2>1 DEF vars, Abs!vars
  <1>2. ASSUME NEW t \in Tx, NEW s \in Session,
               NewNullTx(t, s) \/ \E a \in Addr : NewTx(t, s, a)
        PROVE  Abs!Next \/ UNCHANGED Abs!vars
    BY <1>2, CallerRef DEF Abs!Next
  <1>3. ASSUME NEW t \in Tx, NEW q \in Requests(req[t].addr, UserOps), Invoke(t, q)
        PROVE  Abs!Next
    BY <1>3, CallerRef DEF Abs!Next
  <1>4. ASSUME NEW t \in Tx, GotMap(t) \/ Perform(t) \/ PerformFailed(t)
        PROVE  Abs!Next \/ UNCHANGED Abs!vars
    BY <1>4, MapRef DEF Abs!Next
  <1>5. ASSUME NEW t \in Tx, \/ UserDone(t) \/ StoreDone(t) \/ SizeDone(t) \/ DropDone(t)
                             \/ UserStores(t) \/ UserChecks(t) \/ SizeIsZero(t)
        PROVE  Abs!Next \/ UNCHANGED Abs!vars
    BY <1>5, CallBackRef, HookRef DEF Abs!Next
  <1> QED  BY <1>1, <1>2, <1>3, <1>4, <1>5 DEF Next, Progress

(* Callers see atomic transactions: whatever the handlers of finishTx, the  *)
(* hooks and their nested transactions do, in whichever order and with      *)
(* whatever failures, each user transaction takes effect at one instant and *)
(* is answered and announced accordingly.  The only condition is that the   *)
(* key provider sees the map, or that nobody calls getKeys.                *)
THEOREM AtomicRefinement ==
    ASSUME LiveKeys \/ "getKeys" \notin UserOps
    PROVE  Spec => Atomic
  <1>1. Bookkeeping => OwnKvTx
    BY DEF Bookkeeping
  <1> QED
    BY <1>1, InitRef, NextRef, TypeCorrect, BookkeepingInvariant, InvokedInvariant, PTL
    DEF Spec, Atomic, Abs!Spec
=============================================================================
