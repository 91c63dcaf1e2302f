------------------------------- MODULE KvAtomic -------------------------------
(***************************************************************************)
(* What a caller of kvdn may rely on: every transaction takes effect at    *)
(* one instant between its call and its callback, the callback hands over  *)
(* what that instant determined, a failed transaction may have taken       *)
(* effect or not, and the change event of a write goes out with its        *)
(* successful callback and never otherwise.  Metadata, hooks and nested    *)
(* transactions do not show.                                               *)
(***************************************************************************)
EXTENDS KvOps

CONSTANT Tx

VARIABLES
    contents,   \* the map at each address
    call,       \* the request of each transaction, Null before it is created
    stage,      \* how far each transaction is
    result,     \* what its callback is, or will be, given
    events      \* the transactions whose change event was published

vars == <<contents, call, stage, result, events>>

Stage == {"idle", "created", "called", "decided", "answered"}

Init ==
    /\ contents = [a \in Addr |-> EmptyMap]
    /\ call = [t \in Tx |-> Null]
    /\ stage = [t \in Tx |-> "idle"]
    /\ result = [t \in Tx |-> Failed]
    /\ events = {}

(* The caller obtains a transaction on an address. *)
Create(t) ==
    /\ stage[t] = "idle"
    /\ \E a \in Addr : call' = [call EXCEPT ![t] = Unused(a)]
    /\ stage' = [stage EXCEPT ![t] = "created"]
    /\ UNCHANGED <<contents, result, events>>

(* The caller invokes its one operation. *)
Call(t) ==
    /\ stage[t] = "created"
    /\ \E q \in Requests(call[t].addr, Op) : call' = [call EXCEPT ![t] = q]
    /\ stage' = [stage EXCEPT ![t] = "called"]
    /\ UNCHANGED <<contents, result, events>>

(* The instant at which the operation happens. *)
Perform(t) ==
    /\ stage[t] = "called"
    /\ LET q == call[t]
           m == contents[q.addr]
       IN /\ contents' = [contents EXCEPT ![q.addr] = MapAfter(m, q)]
          /\ result' = [result EXCEPT ![t] = Ok(AnswerTo(m, q))]
    /\ stage' = [stage EXCEPT ![t] = "decided"]
    /\ UNCHANGED <<call, events>>

(* The operation fails; its effect may have happened. *)
Fail(t) ==
    /\ stage[t] = "called"
    /\ LET q == call[t]
       IN contents' \in {contents, [contents EXCEPT ![q.addr] = MapAfter(@, q)]}
    /\ result' = [result EXCEPT ![t] = Failed]
    /\ stage' = [stage EXCEPT ![t] = "decided"]
    /\ UNCHANGED <<call, events>>

(* The callback, and with it the event of a successful write. *)
Answer(t) ==
    /\ stage[t] = "decided"
    /\ stage' = [stage EXCEPT ![t] = "answered"]
    /\ events' = events \cup {u \in {t} : result[t].ok /\ call[t].op \in WriteOp}
    /\ UNCHANGED <<contents, call, result>>

(* The map cannot be reached: the failure is reported at once. *)
Refuse(t) ==
    /\ stage[t] = "called"
    /\ result' = [result EXCEPT ![t] = Failed]
    /\ stage' = [stage EXCEPT ![t] = "answered"]
    /\ UNCHANGED <<contents, call, events>>

Next == \E t \in Tx :
    Create(t) \/ Call(t) \/ Perform(t) \/ Fail(t) \/ Answer(t) \/ Refuse(t)

Spec == Init /\ [][Next]_vars
=============================================================================
