----------------------------- MODULE ServerProofs -----------------------------
(***************************************************************************)
(* Theorems about Server: what an HTTP status tells, for any number of     *)
(* requests, paths and addresses, whatever maps and clients do.            *)
(***************************************************************************)
EXTENDS Server, TLAPS

-----------------------------------------------------------------------------
(* The operators of KvAtomic's instance on the transactions of requests. *)

(* A write leaves its value, or null, under its key, and the map a map. *)
LEMMA KvMapAfter ==
    ASSUME NEW m \in Maps, NEW a \in Addr, NEW q \in Requests(a, HttpOp)
    PROVE  /\ Kv!MapAfter(m, q) \in Maps
           /\ q.op \in {"set", "submit"} =>
                 KeyOf(q) \in Key /\ Kv!MapAfter(m, q)[KeyOf(q)] = q.val
           /\ q.op = "del" => KeyOf(q) \in Key /\ Kv!MapAfter(m, q)[KeyOf(q)] = Null
           /\ q.op \notin WriteOp => Kv!MapAfter(m, q) = m
  <1>1. q.op \in HttpOp /\ q.key \in Key \cup {Null} /\ q.val \in Val \cup {Null}
    BY DEF Requests
  <1>2. CASE q.op \in {"set", "submit"}
    <2>1. KeyOf(q) \in Key /\ q.val \in Val
      BY <1>2, DataAssumption DEF Requests, KeyOf
    <2>2. Kv!MapAfter(m, q) = [m EXCEPT ![Kv!KeyOf(q)] = q.val]
      BY <1>2, Zenon DEF Kv!MapAfter, Kv!WriteOp
    <2>3. Kv!KeyOf(q) = KeyOf(q)
      BY DEF Kv!KeyOf, KeyOf
    <2> QED  BY <1>2, <2>1, <2>2, <2>3 DEF Maps, WriteOp
  <1>3. CASE q.op = "del"
    <2>1. KeyOf(q) = q.key /\ q.key \in Key
      BY <1>3 DEF Requests, KeyOf
    <2>2. Kv!MapAfter(m, q) = [m EXCEPT ![q.key] = Null]
      BY <1>3, Zenon DEF Kv!MapAfter, Kv!WriteOp
    <2> QED  BY <1>3, <2>1, <2>2 DEF Maps, WriteOp
  <1>4. CASE q.op \in {"get", "getKeys", "size"}
    <2>1. Kv!MapAfter(m, q) = m
      BY <1>4, Zenon DEF Kv!MapAfter, Kv!WriteOp
    <2> QED  BY <1>4, <2>1 DEF WriteOp
  <1> QED  BY <1>1, <1>2, <1>3, <1>4 DEF HttpOp

(* A get answers what the map holds. *)
LEMMA KvAnswerToGet ==
    ASSUME NEW m, NEW q, q.op = "get"
    PROVE  Kv!AnswerTo(m, q) = m[q.key]
  BY Zenon DEF Kv!AnswerTo

(* A callback ends the response with success exactly if there is one, and a *)
(* write's callback does end it.                                           *)
LEMMA EndingsOf ==
    ASSUME NEW q, NEW res, NEW s \in Endings(q, res)
    PROVE  /\ s \in {"open", "200", "500", "501"}
           /\ s = "200" => res.ok
           /\ s = "501" => ~res.ok
           /\ q.op \in WriteOp => s \in {"200", "501"}
  BY DEF Endings, MayThrow, MustThrow, WriteOp

-----------------------------------------------------------------------------
(* The actions, by what they do to the transactions. *)

(* No request has arrived. *)
LEMMA InitTypeOK == Init => TypeOK
  BY DEF Init, TypeOK, Kv!Init, Kv!EmptyMap, Kv!Failed, Failed, Maps

(* A callback changes its own response only. *)
LEMMA EndsType ==
    ASSUME TypeOK, NEW r \in Exchange, NEW res, Ends(r, res)
    PROVE  /\ UNCHANGED <<session, before>>
           /\ status' \in [Exchange -> {"none", "open", "gone", "200", "400", "500", "501"}]
           /\ \A u \in Exchange \ {r} : status'[u] = status[u]
           /\ IF status[r] = "open" THEN status'[r] \in Endings(call[r], res)
                                    ELSE status'[r] = status[r]
  <1>1. CASE status[r] = "open"
    <2>1. PICK s \in Endings(call[r], res) : status' = [status EXCEPT ![r] = s]
      BY <1>1 DEF Ends
    <2> QED  BY <1>1, <2>1, EndingsOf DEF Ends, TypeOK
  <1>2. CASE status[r] # "open"
    BY <1>2 DEF Ends, TypeOK
  <1> QED  BY <1>1, <1>2

(* What each step does to the transaction of one request, and that it leaves *)
(* the others alone.                                                        *)
Others(r) == \A u \in Exchange \ {r} : /\ call'[u] = call[u] /\ stage'[u] = stage[u]
                                       /\ result'[u] = result[u] /\ before'[u] = before[u]
                                       /\ status'[u] = status[u] /\ (u \in events' <=> u \in events)

(* A request that is turned away has no transaction. *)
LEMMA TurnedAway ==
    ASSUME TypeOK, NEW r \in Exchange, NEW q, BadRequest(r) \/ NotReady(r, q)
    PROVE  /\ UNCHANGED kvVars /\ UNCHANGED session /\ status[r] = "none"
           /\ status' \in [Exchange -> {"none", "open", "gone", "200", "400", "500", "501"}]
           /\ status'[r] \in {"400", "500", "501"}
           /\ before' \in [Exchange -> SUBSET Exchange] /\ before'[r] = Over
           /\ Others(r)
  BY DEF TypeOK, BadRequest, NotReady, Arrives, Over, Others, kvVars

(* A request that starts one arrives after those that are over. *)
LEMMA Started ==
    ASSUME TypeOK, NEW r \in Exchange, NEW a \in Addr, NEW q \in Requests(a, HttpOp), Start(r, q)
    PROVE  /\ UNCHANGED <<contents, result, events, session>>
           /\ session = "ready" /\ status[r] = "none" /\ stage[r] = "idle"
           /\ status' = [status EXCEPT ![r] = "open"] /\ status'[r] = "open"
           /\ stage' = [stage EXCEPT ![r] = "called"] /\ stage'[r] = "called"
           /\ before' \in [Exchange -> SUBSET Exchange] /\ before'[r] = Over
           /\ Exchange = DOMAIN call' /\ call'[r] = q /\ q.addr = a
           /\ Others(r)
  BY DEF TypeOK, Start, Arrives, Over, Others, Requests

(* The map's answer decides the result and what the map holds. *)
LEMMA Decided ==
    ASSUME TypeOK, NEW r \in Exchange, MapAnswers(r)
    PROVE  /\ UNCHANGED <<call, events, session, status, before>>
           /\ stage[r] = "called" /\ stage' = [stage EXCEPT ![r] = "decided"]
           /\ Exchange = DOMAIN result'
           /\ Others(r)
           /\ \/ /\ result'[r] = Ok(Kv!AnswerTo(contents[call[r].addr], call[r]))
                 /\ contents' = [contents EXCEPT ![call[r].addr] = Kv!MapAfter(@, call[r])]
              \/ /\ result'[r] = Failed
                 /\ \/ UNCHANGED contents
                    \/ contents' = [contents EXCEPT ![call[r].addr] = Kv!MapAfter(@, call[r])]
  <1>1. CASE Kv!Perform(r)
    <2>1. result' = [result EXCEPT ![r] = Ok(Kv!AnswerTo(contents[call[r].addr], call[r]))]
      BY <1>1 DEF Kv!Perform, Kv!Ok, Ok
    <2> QED  BY <1>1, <2>1 DEF MapAnswers, TypeOK, Kv!Perform, Others
  <1>2. CASE Kv!Fail(r)
    <2>1. result' = [result EXCEPT ![r] = Failed]
      BY <1>2 DEF Kv!Fail, Kv!Failed, Failed
    <2> QED  BY <1>2, <2>1 DEF MapAnswers, TypeOK, Kv!Fail, Others
  <1> QED  BY <1>1, <1>2 DEF MapAnswers

(* A transaction that calls back publishes the event of a successful write  *)
(* and ends the response, if it is open.                                    *)
LEMMA Ended ==
    ASSUME TypeOK, NEW r \in Exchange, CallBack(r) \/ NoMap(r)
    PROVE  /\ UNCHANGED <<contents, call, session, before>>
           /\ stage[r] \in {"called", "decided"}
           /\ stage' = [stage EXCEPT ![r] = "answered"]
           /\ Exchange = DOMAIN result'
           /\ events' \subseteq Exchange
           /\ result'[r] = Failed \/ (stage[r] = "decided" /\ result'[r] = result[r])
           /\ r \in events' <=> r \in events
                                \/ (stage[r] = "decided" /\ result'[r].ok /\ call[r].op \in WriteOp)
           /\ status' \in [Exchange -> {"none", "open", "gone", "200", "400", "500", "501"}]
           /\ \/ status[r] = "open" /\ status'[r] \in Endings(call[r], result'[r])
              \/ status[r] # "open" /\ status'[r] = status[r]
           /\ Others(r)
  <1>1. CASE CallBack(r)
    <2>1. Kv!Answer(r) /\ Ends(r, result[r])
      BY <1>1 DEF CallBack
    <2>2. /\ stage[r] = "decided" /\ stage' = [stage EXCEPT ![r] = "answered"]
          /\ events' = events \cup {u \in {r} : result[r].ok /\ call[r].op \in Kv!WriteOp}
          /\ UNCHANGED <<contents, call, result>>
      BY <2>1 DEF Kv!Answer
    <2>3. Kv!WriteOp = WriteOp
      BY DEF Kv!WriteOp, WriteOp
    <2>4. /\ events' \subseteq Exchange
          /\ \A u \in Exchange \ {r} : u \in events' <=> u \in events
          /\ r \in events' <=> r \in events \/ (result[r].ok /\ call[r].op \in WriteOp)
      BY <2>2, <2>3 DEF TypeOK
    <2> HIDE DEF Ends
    <2> QED  BY <2>1, <2>2, <2>4, EndsType DEF TypeOK, Others
  <1>2. CASE NoMap(r)
    <2>1. Kv!Refuse(r) /\ Ends(r, Failed)
      BY <1>2 DEF NoMap
    <2>2. /\ stage[r] = "called" /\ stage' = [stage EXCEPT ![r] = "answered"]
          /\ result' = [result EXCEPT ![r] = Failed]
          /\ UNCHANGED <<contents, call, events>>
      BY <2>1 DEF Kv!Refuse, Kv!Failed, Failed
    <2> QED  BY <2>1, <2>2, EndsType DEF TypeOK, Others
  <1> QED  BY <1>1, <1>2

(* A client that gives up changes the status of its response only. *)
LEMMA GivenUp ==
    ASSUME TypeOK, NEW r \in Exchange, Disconnect(r)
    PROVE  /\ UNCHANGED <<kvVars, session, before>>
           /\ status[r] = "open" /\ status' = [status EXCEPT ![r] = "gone"]
           /\ Others(r)
  BY DEF TypeOK, Disconnect, Others, kvVars

(* The step of a request is one of these. *)
Step(r) ==
    \/ BadRequest(r) \/ (\E q : NotReady(r, q))
    \/ \E a \in Addr : \E q \in Requests(a, HttpOp) : Start(r, q)
    \/ MapAnswers(r)
    \/ CallBack(r) \/ NoMap(r)
    \/ Disconnect(r)

(* Every step is the service's own, a request's, or none. *)
LEMMA Steps ==
    ASSUME [Next]_vars
    PROVE  \/ UNCHANGED <<kvVars, status, before>> /\ (session' = session \/ (session # "ready" /\ session' \in {"init", "ready", "stuck"}))
           \/ \E r \in Exchange : Step(r)
  <1>1. CASE Setup \/ Initialised \/ InitFails
    BY <1>1 DEF Setup, Initialised, InitFails
  <1>2. CASE UNCHANGED vars
    BY <1>2 DEF vars
  <1>3. ASSUME NEW r \in Exchange, NEW p \in Path, NEW q \in Requests(Straddr[p], HttpOp),
               NotReady(r, q) \/ Start(r, q)
        PROVE  Step(r)
    BY <1>3, ServerAssumption DEF Step
  <1>4. ASSUME NEW r \in Exchange, BadRequest(r) \/ Progress(r) \/ Disconnect(r)
        PROVE  Step(r)
    BY <1>4 DEF Step, Progress
  <1> QED  BY <1>1, <1>2, <1>3, <1>4 DEF Next

(* The part of the type that speaks of one request. *)
TypeOf(r) ==
    /\ IF stage[r] = "idle"
       THEN call[r] = Null /\ status[r] \notin {"open", "gone", "200"}
       ELSE /\ call[r] \in Requests(call[r].addr, HttpOp) /\ call[r].addr \in Addr
            /\ status[r] # "none" /\ session = "ready"
    /\ result[r] = Failed \/ (result[r].ok /\ stage[r] \in {"decided", "answered"})

(* The other requests keep theirs while the service keeps its session. *)
LEMMA OthersType ==
    ASSUME TypeOK, NEW r \in Exchange, Others(r), UNCHANGED session
    PROVE  \A u \in Exchange \ {r} : TypeOf(u)'
  <1> TAKE u \in Exchange \ {r}
  <1>1. TypeOf(u)
    BY DEF TypeOK, TypeOf
  <1> QED  BY <1>1 DEF TypeOf, Others

(* Every step keeps the types. *)
LEMMA NextTypeOK == TypeOK /\ [Next]_vars => TypeOK'
  <1> SUFFICES ASSUME TypeOK, [Next]_vars PROVE TypeOK'
    OBVIOUS
  <1>1. CASE UNCHANGED <<kvVars, status, before>> /\ (session' = session \/ (session # "ready" /\ session' \in {"init", "ready", "stuck"}))
    BY <1>1 DEF TypeOK, kvVars
  <1>2. ASSUME NEW r \in Exchange, NEW q, BadRequest(r) \/ NotReady(r, q) PROVE TypeOK'
    <2>1. TypeOf(r) /\ stage[r] = "idle"
      BY <1>2, TurnedAway DEF TypeOK, TypeOf
    <2>2. TypeOf(r)' /\ UNCHANGED session /\ Others(r)
      BY <1>2, <2>1, TurnedAway DEF kvVars, TypeOf
    <2>3. /\ UNCHANGED <<contents, call, stage, result, events, session>>
          /\ status' \in [Exchange -> {"none", "open", "gone", "200", "400", "500", "501"}]
          /\ before' \in [Exchange -> SUBSET Exchange]
      BY <1>2, TurnedAway DEF kvVars
    <2>4. \A u \in Exchange : TypeOf(u)'
      BY <2>2, OthersType
    <2> QED  BY <2>3, <2>4 DEF TypeOK, TypeOf
  <1>3. ASSUME NEW r \in Exchange, NEW a \in Addr, NEW q \in Requests(a, HttpOp), Start(r, q)
        PROVE  TypeOK'
    BY <1>3, Started DEF TypeOK, Others
  <1>4. ASSUME NEW r \in Exchange, MapAnswers(r) PROVE TypeOK'
    <2>1. TypeOf(r) /\ stage[r] = "called"
      BY <1>4, Decided DEF TypeOK, TypeOf
    <2>2. stage'[r] = "decided" /\ (result'[r] = Failed \/ result'[r].ok)
      <3>1. \A v : Ok(v).ok
        BY DEF Ok
      <3> QED  BY <1>4, <3>1, Decided DEF TypeOK
    <2>3. TypeOf(r)' /\ UNCHANGED session /\ Others(r)
      BY <1>4, <2>1, <2>2, Decided DEF TypeOf
    <2>4. contents' \in [Addr -> Maps]
      <3>1. Kv!MapAfter(contents[call[r].addr], call[r]) \in Maps
        BY <2>1, KvMapAfter DEF TypeOK, TypeOf
      <3> QED  BY <1>4, <3>1, Decided DEF TypeOK
    <2> QED  BY <1>4, <2>3, <2>4, Decided, OthersType DEF TypeOK, TypeOf
  <1>5. ASSUME NEW r \in Exchange, CallBack(r) \/ NoMap(r) PROVE TypeOK'
    <2>1. TypeOf(r) /\ stage[r] \in {"called", "decided"}
      BY <1>5, Ended DEF TypeOK, TypeOf
    <2>2. stage'[r] = "answered" /\ (result'[r] = Failed \/ result'[r].ok)
      BY <1>5, <2>1, Ended DEF TypeOf, TypeOK
    <2>3. status'[r] # "none"
      <3>1. \A x \in Endings(call[r], result'[r]) : x # "none"
        BY EndingsOf
      <3> QED  BY <1>5, <2>1, <3>1, Ended DEF TypeOf
    <2>4. TypeOf(r)' /\ UNCHANGED session /\ Others(r)
      BY <1>5, <2>1, <2>2, <2>3, Ended DEF TypeOf
    <2> QED  BY <1>5, <2>4, Ended, OthersType DEF TypeOK, TypeOf
  <1>6. ASSUME NEW r \in Exchange, Disconnect(r) PROVE TypeOK'
    <2>1. TypeOf(r) /\ stage[r] # "idle"
      BY <1>6, GivenUp DEF TypeOK, TypeOf
    <2>2. status'[r] = "gone"
      BY <1>6, GivenUp DEF TypeOK
    <2>3. TypeOf(r)' /\ UNCHANGED session /\ Others(r)
      BY <1>6, <2>1, <2>2, GivenUp DEF TypeOf, kvVars
    <2> QED  BY <1>6, <2>3, GivenUp, OthersType DEF TypeOK, TypeOf, kvVars
  <1> QED  BY <1>1, <1>2, <1>3, <1>4, <1>5, <1>6, Steps DEF Step

(* Type correctness. *)
THEOREM TypeCorrect == Spec => []TypeOK
  BY InitTypeOK, NextTypeOK, PTL DEF Spec

-----------------------------------------------------------------------------
(* The books agree: the events with the results, the statuses with both.    *)
Accounted ==
    \A r \in Exchange :
        /\ r \in events <=> Writes(r) /\ stage[r] = "answered" /\ result[r].ok
        /\ stage[r] \in {"called", "decided"} => status[r] \in {"open", "gone"}
        /\ stage[r] # "idle" /\ status[r] = "200" => stage[r] = "answered" /\ result[r].ok
        /\ Writes(r) /\ stage[r] = "answered" =>
              /\ status[r] \in {"gone", "200", "501"}
              /\ status[r] = "501" => ~result[r].ok

(* What Accounted says of one request. *)
AccountOf(r) ==
    /\ r \in events <=> Writes(r) /\ stage[r] = "answered" /\ result[r].ok
    /\ stage[r] \in {"called", "decided"} => status[r] \in {"open", "gone"}
    /\ stage[r] # "idle" /\ status[r] = "200" => stage[r] = "answered" /\ result[r].ok
    /\ Writes(r) /\ stage[r] = "answered" =>
          /\ status[r] \in {"gone", "200", "501"}
          /\ status[r] = "501" => ~result[r].ok

(* The accounts of the other requests stay as they are. *)
LEMMA OthersAccount ==
    ASSUME Accounted, NEW r \in Exchange, Others(r)
    PROVE  \A u \in Exchange \ {r} : AccountOf(u)'
  <1> TAKE u \in Exchange \ {r}
  <1>1. AccountOf(u)
    BY DEF Accounted, AccountOf
  <1> QED  BY <1>1 DEF AccountOf, Others, Writes

(* Every step keeps the books. *)
LEMMA NextAccounted == TypeOK /\ Accounted /\ [Next]_vars => Accounted'
  <1> SUFFICES ASSUME TypeOK, Accounted, [Next]_vars PROVE Accounted'
    OBVIOUS
  <1>0. ASSUME NEW r \in Exchange, Others(r), AccountOf(r)' PROVE Accounted'
    <2>1. \A u \in Exchange : AccountOf(u)'
      BY <1>0, OthersAccount
    <2> QED  BY <2>1 DEF Accounted, AccountOf
  <1>1. CASE UNCHANGED <<kvVars, status, before>>
    BY <1>1 DEF Accounted, Writes, kvVars
  <1>2. ASSUME NEW r \in Exchange, NEW q, BadRequest(r) \/ NotReady(r, q) PROVE Accounted'
    <2>1. AccountOf(r) /\ stage[r] = "idle"
      BY <1>2, TurnedAway DEF TypeOK, Accounted, AccountOf
    <2>2. AccountOf(r)' /\ Others(r)
      BY <1>2, <2>1, TurnedAway DEF kvVars, AccountOf, Writes
    <2> QED  BY <2>2, <1>0
  <1>3. ASSUME NEW r \in Exchange, NEW a \in Addr, NEW q \in Requests(a, HttpOp), Start(r, q)
        PROVE  Accounted'
    <2>1. AccountOf(r) /\ stage[r] = "idle"
      BY <1>3, Started DEF Accounted, AccountOf
    <2>2. AccountOf(r)' /\ Others(r)
      BY <1>3, <2>1, Started DEF AccountOf, Writes
    <2> QED  BY <2>2, <1>0
  <1>4. ASSUME NEW r \in Exchange, MapAnswers(r) PROVE Accounted'
    <2>1. AccountOf(r) /\ stage[r] = "called"
      BY <1>4, Decided DEF Accounted, AccountOf
    <2>2. stage'[r] = "decided"
      BY <1>4, Decided DEF TypeOK
    <2>3. AccountOf(r)' /\ Others(r)
      BY <1>4, <2>1, <2>2, Decided DEF AccountOf, Writes
    <2> QED  BY <2>3, <1>0
  <1>5. ASSUME NEW r \in Exchange, CallBack(r) \/ NoMap(r) PROVE Accounted'
    <2>1. AccountOf(r) /\ stage[r] \in {"called", "decided"}
      BY <1>5, Ended DEF Accounted, AccountOf
    <2>2. stage'[r] = "answered" /\ UNCHANGED call /\ Others(r)
      BY <1>5, Ended DEF TypeOK
    <2>3. r \in events' <=> Writes(r)' /\ stage'[r] = "answered" /\ result'[r].ok
      <3>1. ~Failed.ok
        BY DEF Failed
      <3> QED  BY <1>5, <2>1, <2>2, <3>1, Ended DEF AccountOf, Writes
    <2>4. status'[r] = "gone" \/ status'[r] \in Endings(call[r], result'[r])
      BY <1>5, <2>1, Ended DEF AccountOf
    <2>5. /\ status'[r] = "200" => result'[r].ok
          /\ call[r].op \in WriteOp => status'[r] \in {"gone", "200", "501"}
          /\ status'[r] = "501" => ~result'[r].ok
      BY <2>4, EndingsOf
    <2>6. AccountOf(r)'
      BY <2>2, <2>3, <2>5 DEF AccountOf, Writes
    <2> QED  BY <2>2, <2>6, <1>0
  <1>6. ASSUME NEW r \in Exchange, Disconnect(r) PROVE Accounted'
    <2>1. AccountOf(r) /\ status'[r] = "gone"
      BY <1>6, GivenUp DEF Accounted, AccountOf, TypeOK
    <2>2. AccountOf(r)' /\ Others(r)
      BY <1>6, <2>1, GivenUp DEF AccountOf, Writes, kvVars
    <2> QED  BY <2>2, <1>0
  <1> QED  BY <1>1, <1>2, <1>3, <1>4, <1>5, <1>6, Steps DEF Step

(* The books are always in order. *)
LEMMA AccountedInvariant == Spec => []Accounted
  <1>1. Init => Accounted
    BY DEF Init, Accounted, Writes, Kv!Init
  <1> QED  BY <1>1, TypeCorrect, NextAccounted, PTL DEF Spec

(* A write answered with 200 has had its change event published; one that   *)
(* is answered with an error is over, and never will.                       *)
THEOREM AnnouncedIfAnswered == Spec => []AnsweredAsAnnounced
  <1>1. TypeOK /\ Accounted => AnsweredAsAnnounced
    BY DEF TypeOK, Accounted, AnsweredAsAnnounced, Writes
  <1> QED  BY <1>1, TypeCorrect, AccountedInvariant, PTL

(* A request answered with 400 or 500 has no transaction that writes. *)
THEOREM RefusalIsHarmless == Spec => []RefusedWritesNothing
  <1>1. TypeOK /\ Accounted => RefusedWritesNothing
    BY DEF TypeOK, Accounted, RefusedWritesNothing, Writes
  <1> QED  BY <1>1, TypeCorrect, AccountedInvariant, PTL

-----------------------------------------------------------------------------
(* What a write leaves under its key, and the request that reads it. *)
Left(w) == IF call[w].op = "del" THEN Null ELSE call[w].val
ReadOf(w) == [addr |-> call[w].addr, op |-> "get", key |-> KeyOf(call[w]), val |-> Null]

Happened(r) == stage[r] \in {"decided", "answered"} /\ result[r].ok

(* The map holds what the last write left from the instant at which it      *)
(* happens, and so does every answer to a read that arrived later; whoever  *)
(* is over when a request arrives stays over.                               *)
BeforeIsOver == \A r \in Exchange : \A u \in before[r] : stage[u] = "answered"
LastStands ==
    \A w \in Exchange : LastWrite(w) /\ Happened(w) =>
        contents[call[w].addr][KeyOf(call[w])] = Left(w)
LaterReads ==
    \A w, r \in Exchange :
        LastWrite(w) /\ Happened(w) /\ w \in before[r] /\ call[r] = ReadOf(w) /\ Happened(r) =>
            result[r].val = Left(w)
Visible == BeforeIsOver /\ LastStands /\ LaterReads

(* A step that moves no transaction changes none of that. *)
LEMMA NothingMoves ==
    ASSUME Visible, UNCHANGED <<contents, call, stage, result, before>>
    PROVE  Visible'
  BY DEF Visible, BeforeIsOver, LastStands, LaterReads, LastWrite, Writes, Happened, Left, ReadOf

(* Nor does the arrival of a request, though it may be one more write that  *)
(* comes after.                                                             *)
LEMMA OneArrives ==
    ASSUME TypeOK, Visible, NEW r \in Exchange, Others(r), UNCHANGED contents,
           stage[r] = "idle", stage'[r] \in {"idle", "called"}, before'[r] = Over
    PROVE  Visible'
  <1>1. BeforeIsOver'
    <2>1. \A u \in before'[r] : stage'[u] = "answered"
      BY DEF Over, Others
    <2>2. \A v \in Exchange \ {r} : \A u \in before'[v] : u \in Exchange \ {r} /\ stage'[u] = "answered"
      BY DEF TypeOK, Others, Visible, BeforeIsOver
    <2> QED  BY <2>1, <2>2 DEF BeforeIsOver
  <1>2. ASSUME NEW w \in Exchange, LastWrite(w)', Happened(w)'
        PROVE  w # r /\ call'[w] = call[w] /\ LastWrite(w) /\ Happened(w)
    <2>1. w # r
      BY <1>2 DEF Happened
    <2>2. call'[w] = call[w] /\ before'[w] = before[w] /\ stage'[w] = stage[w] /\ result'[w] = result[w]
      BY <2>1 DEF Others
    <2>3. \A u \in Exchange : Writes(u) => Writes(u)' /\ call'[u] = call[u]
      BY DEF Others, Writes
    <2> QED  BY <1>2, <2>1, <2>2, <2>3 DEF LastWrite, Happened, Writes
  <1>3. LastStands'
    BY <1>2 DEF Visible, LastStands, Left
  <1>4. LaterReads'
    <2> SUFFICES ASSUME NEW w \in Exchange, NEW x \in Exchange, LastWrite(w)', Happened(w)',
                        w \in before'[x], call'[x] = ReadOf(w)', Happened(x)'
                 PROVE  result'[x].val = Left(w)'
      BY DEF LaterReads
    <2>1. x # r
      BY DEF Happened
    <2>2. /\ w \in before[x] /\ call[x] = ReadOf(w) /\ Happened(x) /\ result'[x] = result[x]
      BY <1>2, <2>1 DEF Others, ReadOf, Happened
    <2> QED  BY <1>2, <2>2 DEF Visible, LaterReads, Left
  <1> QED  BY <1>1, <1>3, <1>4 DEF Visible

(* Once no new transaction comes, the last writes are the same ones. *)
LEMMA SameLast ==
    ASSUME TypeOK, UNCHANGED <<call, before>>, NEW r \in Exchange, Others(r), stage[r] # "idle", stage'[r] # "idle"
    PROVE  \A w \in Exchange : LastWrite(w)' <=> LastWrite(w)
  <1>1. \A u \in Exchange : Writes(u)' <=> Writes(u)
    BY DEF Writes, Others
  <1> QED  BY <1>1 DEF LastWrite

(* When the map answers, no write to its address is over and the last: its  *)
(* operation happens after what it may read and before what may read it.    *)
LEMMA OneIsDecided ==
    ASSUME TypeOK, Visible, NEW r \in Exchange, MapAnswers(r)
    PROVE  Visible'
  <1> DEFINE q == call[r]
  <1>1. /\ UNCHANGED <<call, before>> /\ Others(r)
        /\ stage[r] = "called" /\ stage'[r] = "decided"
    BY Decided DEF TypeOK
  <1>2. q \in Requests(q.addr, HttpOp) /\ q.addr \in Addr /\ contents[q.addr] \in Maps
    BY <1>1 DEF TypeOK
  <1>3. BeforeIsOver'
    <2>1. \A v \in Exchange : r \notin before[v]
      BY <1>1 DEF Visible, BeforeIsOver
    <2> QED  BY <1>1, <2>1 DEF Visible, BeforeIsOver, Others, TypeOK
  <1>4. \A w \in Exchange : LastWrite(w)' <=> LastWrite(w)
    BY <1>1, SameLast
  <1>5. ASSUME NEW w \in Exchange, LastWrite(w), Happened(w)'
        PROVE  contents'[call[w].addr][KeyOf(call[w])] = Left(w)
    <2>1. call[w] \in Requests(call[w].addr, HttpOp) /\ call[w].addr \in Addr /\ call[w].op \in WriteOp
      BY <1>5 DEF TypeOK, LastWrite, Writes
    <2>2. CASE w = r
      <3>1. result'[r] # Failed
        BY <1>5, <2>2 DEF Happened, Failed
      <3>2. contents' = [contents EXCEPT ![q.addr] = Kv!MapAfter(@, q)]
        BY <3>1, Decided
      <3>3. contents'[q.addr] = Kv!MapAfter(contents[q.addr], q)
        BY <1>2, <3>2 DEF TypeOK
      <3>4. CASE q.op \in {"set", "submit"}
        <4>1. Kv!MapAfter(contents[q.addr], q)[KeyOf(q)] = q.val
          BY <1>2, <3>4, KvMapAfter
        <4> QED  BY <2>2, <3>3, <3>4, <4>1 DEF Left
      <3>5. CASE q.op = "del"
        <4>1. Kv!MapAfter(contents[q.addr], q)[KeyOf(q)] = Null
          BY <1>2, <3>5, KvMapAfter
        <4> QED  BY <2>2, <3>3, <3>5, <4>1 DEF Left
      <3> QED  BY <1>2, <2>1, <2>2, <3>4, <3>5 DEF Requests, HttpOp, WriteOp
    <2>3. CASE w # r
      <3>1. Happened(w)
        BY <1>1, <1>5, <2>3 DEF Happened, Others
      <3>2. contents[call[w].addr][KeyOf(call[w])] = Left(w)
        BY <1>5, <3>1 DEF Visible, LastStands
      <3>3. contents'[call[w].addr] = contents[call[w].addr]
        <4>1. CASE q.op \in WriteOp /\ q.addr = call[w].addr
          BY <1>1, <1>5, <2>3, <4>1 DEF LastWrite, Writes, Visible, BeforeIsOver
        <4>2. CASE q.op \notin WriteOp
          <5>1. Kv!MapAfter(contents[q.addr], q) = contents[q.addr]
            BY <1>2, <4>2, KvMapAfter
          <5> QED  BY <5>1, Decided DEF TypeOK
        <4>3. CASE q.addr # call[w].addr
          <5>1. contents' \in {contents, [contents EXCEPT ![q.addr] = Kv!MapAfter(@, q)]}
            BY Decided
          <5> QED  BY <4>3, <5>1, <2>1 DEF TypeOK
        <4> QED  BY <4>1, <4>2, <4>3
      <3> QED  BY <3>2, <3>3
    <2> QED  BY <2>2, <2>3
  <1>6. LastStands'
    BY <1>1, <1>4, <1>5 DEF LastStands, Left
  <1>7. ASSUME NEW w \in Exchange, NEW x \in Exchange, LastWrite(w), Happened(w)',
               w \in before[x], call[x] = ReadOf(w), Happened(x)'
        PROVE  result'[x].val = Left(w)
    <2>1. stage[w] = "answered" /\ w # r
      BY <1>1, <1>7 DEF Visible, BeforeIsOver
    <2>2. Happened(w)
      BY <1>1, <1>7, <2>1 DEF Happened, Others
    <2>3. CASE x # r
      <3>1. Happened(x) /\ result'[x] = result[x]
        BY <1>1, <1>7, <2>3 DEF Happened, Others
      <3> QED  BY <1>7, <2>2, <3>1 DEF Visible, LaterReads
    <2>4. CASE x = r
      <3>1. result'[r] # Failed
        BY <1>7, <2>4 DEF Happened, Failed
      <3>2. result'[r] = Ok(Kv!AnswerTo(contents[q.addr], q))
        BY <3>1, Decided
      <3>3. q.op = "get" /\ q.addr = call[w].addr /\ q.key = KeyOf(call[w])
        BY <1>7, <2>4 DEF ReadOf
      <3>4. result'[r].val = contents[call[w].addr][KeyOf(call[w])]
        BY <3>2, <3>3, KvAnswerToGet DEF Ok
      <3> QED  BY <1>7, <2>2, <2>4, <3>4 DEF Visible, LastStands
    <2> QED  BY <2>3, <2>4
  <1>8. LaterReads'
    BY <1>1, <1>4, <1>7 DEF LaterReads, Left, ReadOf
  <1> QED  BY <1>3, <1>6, <1>8 DEF Visible

(* A callback changes no answer that counts. *)
LEMMA OneIsOver ==
    ASSUME TypeOK, Visible, NEW r \in Exchange, CallBack(r) \/ NoMap(r)
    PROVE  Visible'
  <1>1. /\ UNCHANGED <<contents, call, before>> /\ Others(r)
        /\ stage[r] \in {"called", "decided"} /\ stage'[r] = "answered"
        /\ result'[r] = Failed \/ (stage[r] = "decided" /\ result'[r] = result[r])
    BY Ended DEF TypeOK
  <1>2. BeforeIsOver'
    BY <1>1 DEF Visible, BeforeIsOver, Others, TypeOK
  <1>3. \A w \in Exchange : LastWrite(w)' <=> LastWrite(w)
    BY <1>1, SameLast
  <1>4. \A u \in Exchange : Happened(u)' => Happened(u) /\ result'[u] = result[u]
    <2>1. ~Failed.ok
      BY DEF Failed
    <2> QED  BY <1>1, <2>1 DEF Happened, Others
  <1>5. LastStands'
    BY <1>1, <1>3, <1>4 DEF Visible, LastStands, Left
  <1>6. LaterReads'
    BY <1>1, <1>3, <1>4 DEF Visible, LaterReads, Left, ReadOf
  <1> QED  BY <1>2, <1>5, <1>6 DEF Visible

(* Every step keeps it. *)
LEMMA NextVisible == TypeOK /\ Visible /\ [Next]_vars => Visible'
  <1> SUFFICES ASSUME TypeOK, Visible, [Next]_vars PROVE Visible'
    OBVIOUS
  <1>1. CASE UNCHANGED <<kvVars, status, before>>
    BY <1>1, NothingMoves DEF kvVars
  <1>2. ASSUME NEW r \in Exchange, NEW q, BadRequest(r) \/ NotReady(r, q) PROVE Visible'
    <2>1. UNCHANGED kvVars /\ status[r] = "none" /\ before'[r] = Over /\ Others(r)
      BY <1>2, TurnedAway
    <2>2. stage[r] = "idle" /\ UNCHANGED <<contents, stage>>
      BY <2>1 DEF TypeOK, kvVars
    <2> QED  BY <2>1, <2>2, OneArrives
  <1>3. ASSUME NEW r \in Exchange, NEW a \in Addr, NEW q \in Requests(a, HttpOp), Start(r, q)
        PROVE  Visible'
    BY <1>3, Started, OneArrives
  <1>4. ASSUME NEW r \in Exchange, Disconnect(r) PROVE Visible'
    BY <1>4, GivenUp, NothingMoves DEF kvVars
  <1> QED  BY <1>1, <1>2, <1>3, <1>4, OneIsDecided, OneIsOver, Steps DEF Step

(* After a write has been answered with 200 the map holds what the last      *)
(* write left there, and every request that arrives later reads just that.  *)
THEOREM SuccessIsVisible == Spec => []AnsweredIsVisible
  <1>1. Init => Visible
    BY DEF Init, Kv!Init, Visible, BeforeIsOver, LastStands, LaterReads, Happened
  <1>2. TypeOK /\ Accounted /\ Visible => AnsweredIsVisible
    <2> SUFFICES ASSUME TypeOK, Accounted, Visible, NEW w \in Exchange, LastWrite(w), status[w] = "200"
                 PROVE  /\ contents[call[w].addr][KeyOf(call[w])] = Left(w)
                        /\ \A r \in Exchange :
                             status[r] = "200" /\ w \in before[r] /\ call[r] = ReadOf(w)
                             => result[r].val = Left(w)
      BY DEF AnsweredIsVisible, Left, ReadOf
    <2>1. Happened(w)
      BY DEF Accounted, Happened, LastWrite, Writes
    <2>2. \A r \in Exchange : status[r] = "200" /\ w \in before[r] /\ call[r] = ReadOf(w) => Happened(r)
      <3> TAKE r \in Exchange
      <3> HAVE status[r] = "200" /\ w \in before[r] /\ call[r] = ReadOf(w)
      <3>1. stage[r] # "idle"
        BY DEF TypeOK
      <3> QED  BY <3>1 DEF Accounted, Happened
    <2> QED  BY <2>1, <2>2 DEF Visible, LastStands, LaterReads
  <1> QED  BY <1>1, <1>2, TypeCorrect, AccountedInvariant, NextVisible, PTL DEF Spec
=============================================================================
