------------------------------ MODULE WaitGroup ------------------------------
(***************************************************************************)
(* DistributedWaitGroup, fed by its three kinds of acknowledgement: direct *)
(* calls of ack, messages on a channel, and write events of a session's    *)
(* address.                                                                *)
(*                                                                         *)
(* The group has no lock.  Its handlers run on the event loops of those    *)
(* who registered them, so one step is one access of a loop to the group:  *)
(* the put of ack, then check's scan with its test and set of 'ran'.  What *)
(* a loop has written itself it sees; of another loop's plain writes it    *)
(* may see any part, and a scan that another loop's put disturbs throws,   *)
(* which triggers as little as a stale scan does.                          *)
(***************************************************************************)
EXTENDS Naturals

CONSTANTS
    Token,      \* the tokens of the constructor
    Stray,      \* a token the group was not made with
    Listener,   \* the calls of onChannel and onKeys
    Caller,     \* who calls ack itself
    Loop,       \* event loops
    Timed       \* the timeout is not 0

ASSUME WaitGroupAssumption ==
    /\ Stray \notin Token
    /\ Caller \notin Listener
    /\ Timed \in BOOLEAN

VARIABLES
    loop,       \* the event loop each listener, and the caller, works on
    events,     \* the tokens whose value in the map is true
    own,        \* those each loop wrote itself
    ran,        \* the loops that have set ran
    busy,       \* the loops between the put and the scan of an ack
    triggered,  \* how often each loop called triggercb
    inbox,      \* the messages on their way to each listener
    listening,  \* the state of each consumer
    timer       \* and of its abort timer

vars == <<loop, events, own, ran, busy, triggered, inbox, listening, timer>>

groupVars == <<events, own, ran, busy, triggered>>

Init ==
    /\ loop \in [Listener \cup {Caller} -> Loop]
    /\ events = {}
    /\ own = [p \in Loop |-> {}]
    /\ ran = {}
    /\ busy = {}
    /\ triggered = [p \in Loop |-> 0]
    /\ inbox = [l \in Listener |-> {}]
    /\ listening = [l \in Listener |-> "no"]
    /\ timer = [l \in Listener |-> "none"]

-----------------------------------------------------------------------------
(* Mutated: the put replaces the map instead of an entry. *)
AckReplaces(p, k) ==
    /\ p \notin busy
    /\ events' = {k}
    /\ own' = [own EXCEPT ![p] = @ \cup {k}]
    /\ busy' = busy \cup {p}
    /\ UNCHANGED <<ran, triggered>>

(* ack on loop p, up to the scan: a token nobody asked for is recorded too. *)
Ack(p, k) ==
    /\ p \notin busy
    /\ events' = events \cup {k}
    /\ own' = [own EXCEPT ![p] = @ \cup {k}]
    /\ busy' = busy \cup {p}
    /\ UNCHANGED <<ran, triggered>>

(* Mutated: ran is not tested. *)
TriggerAgain(p) ==
    /\ p \in busy
    /\ Token \subseteq events
    /\ ran' = ran \cup {p}
    /\ triggered' = [triggered EXCEPT ![p] = @ + 1]
    /\ busy' = busy \ {p}
    /\ UNCHANGED <<loop, events, own, inbox, listening, timer>>

(* check finds every token true and ran false: triggercb is called. *)
Trigger(p) ==
    /\ p \in busy /\ p \notin ran
    /\ Token \subseteq events
    /\ ran' = ran \cup {p}
    /\ triggered' = [triggered EXCEPT ![p] = @ + 1]
    /\ busy' = busy \ {p}
    /\ UNCHANGED <<loop, events, own, inbox, listening, timer>>

(* Mutated: the scan runs before the put and misses the loop's own token. *)
NoTriggerStale(p) ==
    /\ p \in busy
    /\ busy' = busy \ {p}
    /\ UNCHANGED <<loop, events, own, ran, triggered, inbox, listening, timer>>

(* check sees a token missing, or that ran is set. *)
NoTrigger(p) ==
    /\ p \in busy
    /\ ~(Token \subseteq own[p]) \/ ran # {}
    /\ busy' = busy \ {p}
    /\ UNCHANGED <<loop, events, own, ran, triggered, inbox, listening, timer>>

-----------------------------------------------------------------------------
(* onChannel or onKeys: the consumer, and abortTimer's timer beside it. *)
Listen(l) ==
    /\ listening[l] = "no"
    /\ listening' = [listening EXCEPT ![l] = "on"]
    /\ timer' = IF Timed THEN [timer EXCEPT ![l] = "set"] ELSE timer
    /\ UNCHANGED <<loop, inbox, groupVars>>

(* Somebody sends on the channel, or a write on the address succeeds.  A     *)
(* message that finds no consumer is lost.                                  *)
Send(l, k) ==
    /\ listening[l] = "on"
    /\ inbox' = [inbox EXCEPT ![l] = @ \cup {k}]
    /\ UNCHANGED <<loop, listening, timer, groupVars>>

(* The consumer's handler acknowledges the token in the message. *)
Receive(l, k) ==
    /\ listening[l] = "on"
    /\ k \in inbox[l]
    /\ inbox' = [inbox EXCEPT ![l] = @ \ {k}]
    /\ Ack(loop[l], k)
    /\ UNCHANGED <<loop, listening, timer>>

(* Mutated: the timer leaves the consumer registered; the abort is lost. *)
ExpireListening(l) ==
    /\ timer[l] = "set"
    /\ loop[l] \notin busy
    /\ timer' = [timer EXCEPT ![l] = "expired"]
    /\ UNCHANGED <<loop, inbox, listening, groupVars>>
ExpireUntold(l) ==
    /\ timer[l] = "set"
    /\ loop[l] \notin busy
    /\ timer' = [timer EXCEPT ![l] = "none"]
    /\ listening' = [listening EXCEPT ![l] = "off"]
    /\ inbox' = [inbox EXCEPT ![l] = {}]
    /\ UNCHANGED <<loop, groupVars>>

(* The timer, which nothing cancels: the consumer is unregistered and what *)
(* was on its way to it is discarded.                                      *)
Expire(l) ==
    /\ timer[l] = "set"
    /\ loop[l] \notin busy
    /\ timer' = [timer EXCEPT ![l] = "expired"]
    /\ listening' = [listening EXCEPT ![l] = "off"]
    /\ inbox' = [inbox EXCEPT ![l] = {}]
    /\ UNCHANGED <<loop, groupVars>>

(* unregister's completion calls abortcb, triggered or not. *)
Abort(l) ==
    /\ timer[l] = "expired"
    /\ timer' = [timer EXCEPT ![l] = "aborted"]
    /\ UNCHANGED <<loop, inbox, listening, groupVars>>

-----------------------------------------------------------------------------
(* ack is called. *)
Call(k) ==
    /\ Ack(loop[Caller], k)
    /\ UNCHANGED <<loop, inbox, listening, timer>>

-----------------------------------------------------------------------------
Next ==
    \/ \E p \in Loop : Trigger(p) \/ NoTrigger(p)
    \/ \E l \in Listener :
         \/ Listen(l) \/ Expire(l) \/ Abort(l)
         \/ \E k \in Token \cup {Stray} : Send(l, k) \/ Receive(l, k)
    \/ \E k \in Token \cup {Stray} : Call(k)

Spec == Init /\ [][Next]_vars

(* A handler that has begun goes on.  An event loop serves its queue in     *)
(* order, so a message or timer that waits for a loop gets its turn however *)
(* often the loop is busy: strong fairness.  Nobody need send or call ack.  *)
FairSpec ==
    /\ Spec
    /\ \A p \in Loop : WF_vars(Trigger(p) \/ NoTrigger(p))
    /\ \A l \in Listener : SF_vars(Expire(l)) /\ WF_vars(Abort(l))
    /\ \A l \in Listener, k \in Token : SF_vars(Receive(l, k))

-----------------------------------------------------------------------------
(* Type correctness. *)
TypeOK ==
    /\ loop \in [Listener \cup {Caller} -> Loop]
    /\ events \subseteq Token \cup {Stray}
    /\ own \in [Loop -> SUBSET events]
    /\ ran \subseteq Loop
    /\ busy \subseteq Loop
    /\ triggered \in [Loop -> Nat]
    /\ inbox \in [Listener -> SUBSET (Token \cup {Stray})]
    /\ listening \in [Listener -> {"no", "on", "off"}]
    /\ timer \in [Listener -> {"none", "set", "expired", "aborted"}]

(* A consumer whose timer ran out is gone before abortcb runs, with the     *)
(* messages it had not seen, and one that is registered has its timer.      *)
TimersMatchConsumers ==
    \A l \in Listener :
        /\ timer[l] \in {"expired", "aborted"} <=> listening[l] = "off"
        /\ listening[l] # "on" => inbox[l] = {}
        /\ listening[l] = "on" /\ Timed => timer[l] = "set"

(* Without a lock, ran keeps each loop from triggering twice, and no more:  *)
(* a group all of whose acknowledgements come on one loop triggers once,    *)
(* one that is shared at most once per loop.                                *)
OneLoop == \A x, y \in DOMAIN loop : loop[x] = loop[y]
TriggersOncePerLoop ==
    /\ \A p \in Loop : triggered[p] <= 1
    /\ OneLoop => \A p, q \in Loop : triggered[p] > 0 /\ triggered[q] > 0 => p = q

(* Once every token is acknowledged a group on one loop triggers. *)
Completes ==
    Token # {} /\ OneLoop /\ Token \subseteq events ~> \E p \in Loop : triggered[p] > 0

(* A token sent to a registered consumer is acknowledged, or the consumer's *)
(* owner is told that it was given up.                                      *)
SentIsResolved ==
    \A l \in Listener, k \in Token :
        k \in inbox[l] ~> k \in events \/ timer[l] = "aborted"
=============================================================================
