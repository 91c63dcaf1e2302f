--------------------------- MODULE WaitGroupProofs ---------------------------
(***************************************************************************)
(* Theorems about WaitGroup, for any tokens, listeners and event loops.    *)
(***************************************************************************)
EXTENDS WaitGroup, TLAPS

(* Init establishes the types. *)
LEMMA InitTypeOK == Init => TypeOK
  BY WaitGroupAssumption DEF Init, TypeOK

(* ack preserves the types of what it touches. *)
LEMMA AckType ==
  ASSUME TypeOK, NEW p \in Loop, NEW k \in Token \cup {Stray}, Ack(p, k)
  PROVE  /\ events' \subseteq Token \cup {Stray}
         /\ own' \in [Loop -> SUBSET events']
         /\ busy' \subseteq Loop
         /\ ran' \subseteq Loop
         /\ triggered' \in [Loop -> Nat]
  BY DEF TypeOK, Ack

(* Every step preserves the types. *)
LEMMA NextTypeOK == TypeOK /\ [Next]_vars => TypeOK'
<1> SUFFICES ASSUME TypeOK, [Next]_vars PROVE TypeOK'
  OBVIOUS
<1>1. ASSUME NEW p \in Loop, Trigger(p) PROVE TypeOK'
  BY <1>1 DEF TypeOK, Trigger
<1>2. ASSUME NEW p \in Loop, NoTrigger(p) PROVE TypeOK'
  BY <1>2 DEF TypeOK, NoTrigger
<1>3. ASSUME NEW l \in Listener, Listen(l) PROVE TypeOK'
  BY <1>3 DEF TypeOK, Listen, groupVars
<1>4. ASSUME NEW l \in Listener, Expire(l) PROVE TypeOK'
  BY <1>4 DEF TypeOK, Expire, groupVars
<1>5. ASSUME NEW l \in Listener, Abort(l) PROVE TypeOK'
  BY <1>5 DEF TypeOK, Abort, groupVars
<1>6. ASSUME NEW l \in Listener, NEW k \in Token \cup {Stray}, Send(l, k) PROVE TypeOK'
  BY <1>6 DEF TypeOK, Send, groupVars
<1>7. ASSUME NEW l \in Listener, NEW k \in Token \cup {Stray}, Receive(l, k) PROVE TypeOK'
  <2>1. loop[l] \in Loop /\ Ack(loop[l], k)
    BY <1>7 DEF TypeOK, Receive
  <2> QED
    BY <1>7, <2>1, AckType DEF TypeOK, Receive
<1>8. ASSUME NEW k \in Token \cup {Stray}, Call(k) PROVE TypeOK'
  <2>1. loop[Caller] \in Loop /\ Ack(loop[Caller], k)
    BY <1>8 DEF TypeOK, Call
  <2> QED
    BY <1>8, <2>1, AckType DEF TypeOK, Call
<1>9. CASE UNCHANGED vars
  BY <1>9 DEF TypeOK, vars
<1> QED
  BY <1>1, <1>2, <1>3, <1>4, <1>5, <1>6, <1>7, <1>8, <1>9 DEF Next

(* The group's state has its types in every run. *)
THEOREM TypeCorrect == Spec => []TypeOK
  BY InitTypeOK, NextTypeOK, PTL DEF Spec

-----------------------------------------------------------------------------
(* What makes the trigger single: a loop has triggered exactly when it set  *)
(* ran, and only loops that listen or call ack set it.                      *)
Worker(p) == \E x \in Listener \cup {Caller} : loop[x] = p
Accounted ==
    /\ \A p \in Loop : triggered[p] = IF p \in ran THEN 1 ELSE 0
    /\ \A p \in busy \cup ran : Worker(p)

(* Init establishes it. *)
LEMMA InitAccounted == Init => Accounted
  BY DEF Init, Accounted

(* An ack from one of the group's loops keeps it. *)
LEMMA AckAccounted ==
  ASSUME TypeOK, Accounted, UNCHANGED loop,
         NEW x \in Listener \cup {Caller}, NEW k, Ack(loop[x], k)
  PROVE  Accounted'
  BY DEF TypeOK, Accounted, Ack, Worker

(* Every step keeps it. *)
LEMMA NextAccounted == TypeOK /\ Accounted /\ [Next]_vars => Accounted'
<1> SUFFICES ASSUME TypeOK, Accounted, [Next]_vars PROVE Accounted'
  OBVIOUS
<1>1. ASSUME NEW p \in Loop, Trigger(p) PROVE Accounted'
  BY <1>1 DEF TypeOK, Accounted, Trigger, Worker
<1>2. ASSUME NEW p \in Loop, NoTrigger(p) PROVE Accounted'
  BY <1>2 DEF TypeOK, Accounted, NoTrigger, Worker
<1>3. ASSUME NEW l \in Listener, Listen(l) PROVE Accounted'
  BY <1>3 DEF Accounted, Listen, Worker, groupVars
<1>4. ASSUME NEW l \in Listener, Expire(l) PROVE Accounted'
  BY <1>4 DEF Accounted, Expire, Worker, groupVars
<1>5. ASSUME NEW l \in Listener, Abort(l) PROVE Accounted'
  BY <1>5 DEF Accounted, Abort, Worker, groupVars
<1>6. ASSUME NEW l \in Listener, NEW k \in Token \cup {Stray}, Send(l, k) PROVE Accounted'
  BY <1>6 DEF Accounted, Send, Worker, groupVars
<1>7. ASSUME NEW l \in Listener, NEW k \in Token \cup {Stray}, Receive(l, k) PROVE Accounted'
  BY <1>7, AckAccounted DEF Receive
<1>8. ASSUME NEW k \in Token \cup {Stray}, Call(k) PROVE Accounted'
  BY <1>8, AckAccounted DEF Call
<1>9. CASE UNCHANGED vars
  BY <1>9 DEF Accounted, Worker, vars
<1> QED
  BY <1>1, <1>2, <1>3, <1>4, <1>5, <1>6, <1>7, <1>8, <1>9 DEF Next

(* The invariant of the theorem that follows. *)
LEMMA AlwaysAccounted == Spec => [](TypeOK /\ Accounted)
  BY InitTypeOK, NextTypeOK, InitAccounted, NextAccounted, PTL DEF Spec

(* triggercb is called at most once per event loop, and by one loop only in *)
(* a group that works on one.                                               *)
THEOREM TriggersAreSingle == Spec => []TriggersOncePerLoop
<1>1. ASSUME TypeOK, Accounted PROVE TriggersOncePerLoop
  <2>1. \A p \in Loop : triggered[p] <= 1 /\ (triggered[p] > 0 => p \in ran)
    BY <1>1 DEF TypeOK, Accounted
  <2>2. ASSUME OneLoop, NEW p \in ran, NEW q \in ran PROVE p = q
    BY <1>1, <2>2 DEF TypeOK, Accounted, Worker, OneLoop
  <2> QED
    BY <2>1, <2>2 DEF TriggersOncePerLoop
<1> QED
  BY <1>1, AlwaysAccounted, PTL

-----------------------------------------------------------------------------
(* An abort never overtakes the unregistration of its consumer, and every   *)
(* registered consumer of a group with a timeout has its timer.             *)
THEOREM TimersAreMatched == Spec => []TimersMatchConsumers
<1>1. Init => TimersMatchConsumers
  BY DEF Init, TimersMatchConsumers
<1>2. ASSUME TypeOK, TimersMatchConsumers, [Next]_vars PROVE TimersMatchConsumers'
  <2>1. ASSUME NEW l \in Listener, Listen(l) PROVE TimersMatchConsumers'
    BY <1>2, <2>1, WaitGroupAssumption DEF TypeOK, TimersMatchConsumers, Listen
  <2>2. ASSUME NEW l \in Listener, Expire(l) PROVE TimersMatchConsumers'
    BY <1>2, <2>2 DEF TypeOK, TimersMatchConsumers, Expire
  <2>3. ASSUME NEW l \in Listener, Abort(l) PROVE TimersMatchConsumers'
    BY <1>2, <2>3 DEF TypeOK, TimersMatchConsumers, Abort
  <2>4. ASSUME NEW l \in Listener, NEW k \in Token \cup {Stray}, Send(l, k)
        PROVE  TimersMatchConsumers'
    BY <1>2, <2>4 DEF TypeOK, TimersMatchConsumers, Send
  <2>5. ASSUME NEW l \in Listener, NEW k \in Token \cup {Stray}, Receive(l, k)
        PROVE  TimersMatchConsumers'
    BY <1>2, <2>5 DEF TypeOK, TimersMatchConsumers, Receive
  <2>6. ASSUME UNCHANGED <<inbox, listening, timer>> PROVE TimersMatchConsumers'
    BY <1>2, <2>6 DEF TimersMatchConsumers
  <2> QED
    BY <1>2, <2>1, <2>2, <2>3, <2>4, <2>5, <2>6
    DEF Next, Trigger, NoTrigger, Call, vars
<1> QED
  BY <1>1, <1>2, TypeCorrect, PTL DEF Spec
=============================================================================
