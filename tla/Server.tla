-------------------------------- MODULE Server --------------------------------
(***************************************************************************)
(* HTTPServer over KvdnServiceImpl: what an HTTP client is told about the  *)
(* transaction that its request starts.                                    *)
(*                                                                         *)
(* The transactions are those of KvAtomic, the specification KvTx          *)
(* implements: one per request, named like it.  A handler runs to its end  *)
(* in one step, newTx and the operation with it; the transaction's callback *)
(* ends the response.  Vert.x, which answers 500 when a handler throws and *)
(* refuses to end a response twice, is external.                           *)
(***************************************************************************)
EXTENDS KvOps

CONSTANTS
    Exchange,    \* the HTTP requests and their responses
    Path,       \* the pairs :str/:map of the routes
    Straddr     \* the address each pair is joined to, without its dots

ASSUME ServerAssumption == Straddr \in [Path -> Addr]

VARIABLES
    contents, call, stage, result, events,  \* as in KvAtomic
    session,    \* the service's session: absent, init, ready, or stuck in init
    status,     \* none, open, or what became of each request's response
    before      \* history: the requests over when each one arrived

kvVars == <<contents, call, stage, result, events>>
vars == <<kvVars, session, status, before>>

Kv == INSTANCE KvAtomic WITH Tx <- Exchange

(* The routes: /X, /U, /R, /KEYS and /SIZE.  There is none for clear. *)
HttpOp == {"set", "submit", "get", "getKeys", "size", "del"}

Init ==
    /\ Kv!Init
    /\ session = "absent"
    /\ status = [r \in Exchange |-> "none"]
    /\ before = [r \in Exchange |-> {}]

-----------------------------------------------------------------------------
(* setup: the constructor gives the service a session; when the constructor *)
(* throws, setup only prints that.  kvdn-start-httpserver never calls it.   *)
Setup ==
    /\ session = "absent"
    /\ session' = "init"
    /\ UNCHANGED <<kvVars, status, before>>

(* zeroState finds no admin operation outstanding. *)
Initialised ==
    /\ session = "init"
    /\ session' = "ready"
    /\ UNCHANGED <<kvVars, status, before>>

(* It finds one, or cannot ask: the failed assert is an Error, which its    *)
(* catch does not catch, so neither of init's callbacks is called.          *)
InitFails ==
    /\ session = "init"
    /\ session' = "stuck"
    /\ UNCHANGED <<kvVars, status, before>>

-----------------------------------------------------------------------------
(* The requests whose transaction has called back. *)
Over == {u \in Exchange : stage[u] = "answered"}

Arrives(r, s) ==
    /\ status[r] = "none"
    /\ status' = [status EXCEPT ![r] = s]
    /\ before' = [before EXCEPT ![r] = Over]
    /\ UNCHANGED session

(* A write without a body. *)
BadRequest(r) == Arrives(r, "400") /\ UNCHANGED kvVars

(* Without an initialised session newTx throws, or there is none to ask.     *)
(* The raw set and the reads leave the exception to the router, which        *)
(* answers 500; the handlers of set and of submit answer 501.  But submit    *)
(* ends with the message alone, and on Java 8, which the build needs, the    *)
(* NullPointerException of a missing session has none: end(null) throws too. *)
NotReady(r, q) ==
    /\ session # "ready"
    /\ \/ (q.op # "submit" \/ session = "absent") /\ Arrives(r, "500")
       \/ (q.op = "set" \/ (q.op = "submit" /\ session # "absent")) /\ Arrives(r, "501")
    /\ UNCHANGED kvVars

(* Mutated: newTx does not ask whether init is through; the client is told  *)
(* before the callback.                                                     *)
StartUninitialised(r, q) ==
    /\ session # "absent"
    /\ Arrives(r, "open")
    /\ call' = [call EXCEPT ![r] = q]
    /\ stage' = [stage EXCEPT ![r] = "called"]
    /\ UNCHANGED <<contents, result, events>>
StartAndTell(r, q) ==
    /\ session = "ready"
    /\ Arrives(r, "200")
    /\ call' = [call EXCEPT ![r] = q]
    /\ stage' = [stage EXCEPT ![r] = "called"]
    /\ UNCHANGED <<contents, result, events>>

(* The handler starts the transaction. *)
Start(r, q) ==
    /\ session = "ready"
    /\ Arrives(r, "open")
    /\ call' = [call EXCEPT ![r] = q]
    /\ stage' = [stage EXCEPT ![r] = "called"]
    /\ UNCHANGED <<contents, result, events>>

(* The map performs the operation or fails. *)
MapAnswers(r) ==
    /\ Kv!Perform(r) \/ Kv!Fail(r)
    /\ UNCHANGED <<session, status, before>>

(* The callback throws: for the key set that a failed getKeys does not have, *)
(* and for the missing value of a get, if null.toString() does.              *)
MustThrow(q, res) == q.op = "getKeys" /\ ~res.ok
MayThrow(q, res) == MustThrow(q, res) \/ (q.op = "get" /\ res = Ok(Null))

(* Mutated: the handlers look at the answer only, not at the outcome; a      *)
(* failing callback goes unanswered; a failed write is a client error.       *)
EndingsRegardless(q, res) == IF MustThrow(q, res) THEN {"open"} ELSE {"200"}
EndingsOfSuccess(q, res) == IF res.ok THEN {"200"} ELSE {"open"}
EndingsAsRefused(q, res) == IF res.ok THEN {"200"} ELSE {"500"}

(* How the callback ends the response.  What it throws reaches the router,   *)
(* which answers 500, only if the map has called back inside the handler;    *)
(* otherwise the response stays open.                                        *)
Endings(q, res) ==
    {s \in {"open", "500"} : MayThrow(q, res)}
    \cup {s \in {"200"} : res.ok}
    \cup {s \in {"501"} : ~res.ok /\ ~MustThrow(q, res)}

(* A response the client has given up cannot be ended. *)
Ends(r, res) ==
    /\ status' \in IF status[r] = "open"
                   THEN {[status EXCEPT ![r] = s] : s \in Endings(call[r], res)}
                   ELSE {status}
    /\ UNCHANGED <<session, before>>

(* The transaction's callback; or the map could not be had, which only       *)
(* getKeys does not ask for.                                                 *)
CallBack(r) == Kv!Answer(r) /\ Ends(r, result[r])
NoMap(r) == call[r].op # "getKeys" /\ Kv!Refuse(r) /\ Ends(r, Failed)

(* The client disconnects; its transaction goes on. *)
Disconnect(r) ==
    /\ status[r] = "open"
    /\ status' = [status EXCEPT ![r] = "gone"]
    /\ UNCHANGED <<kvVars, session, before>>

-----------------------------------------------------------------------------
Progress(r) == stage[r] \in {"called", "decided"} /\ (MapAnswers(r) \/ CallBack(r) \/ NoMap(r))

Next ==
    \/ Setup \/ Initialised \/ InitFails
    \/ \E r \in Exchange :
         \/ \E p \in Path : \E q \in Requests(Straddr[p], HttpOp) : NotReady(r, q) \/ Start(r, q)
         \/ BadRequest(r) \/ Progress(r) \/ Disconnect(r)

Spec == Init /\ [][Next]_vars

(* Maps answer, and Vert.x calls the callbacks. *)
FairSpec == Spec /\ \A r \in Exchange : WF_vars(Progress(r))

-----------------------------------------------------------------------------
(* Type correctness: a transaction exists from the handler's newTx on and   *)
(* only behind an initialised session.                                      *)
TypeOK ==
    /\ contents \in [Addr -> Maps]
    /\ session \in {"absent", "init", "ready", "stuck"}
    /\ status \in [Exchange -> {"none", "open", "gone", "200", "400", "500", "501"}]
    /\ stage \in [Exchange -> {"idle", "called", "decided", "answered"}]
    /\ before \in [Exchange -> SUBSET Exchange]
    /\ events \subseteq Exchange
    /\ Exchange = DOMAIN call /\ Exchange = DOMAIN result
    /\ \A r \in Exchange :
         /\ IF stage[r] = "idle"
            THEN call[r] = Null /\ status[r] \notin {"open", "gone", "200"}
            ELSE /\ call[r] \in Requests(call[r].addr, HttpOp) /\ call[r].addr \in Addr
                 /\ status[r] # "none" /\ session = "ready"
         /\ result[r] = Failed \/ (result[r].ok /\ stage[r] \in {"decided", "answered"})

Writes(r) == stage[r] # "idle" /\ call[r].op \in WriteOp

(* A write that was answered with success has been announced on the event   *)
(* bus, and one answered with an error never will be.                       *)
AnsweredAsAnnounced ==
    \A r \in Exchange : Writes(r) =>
        /\ status[r] = "200" => r \in events
        /\ status[r] \in {"400", "500", "501"} => r \notin events /\ stage[r] = "answered"

(* 400 and 500 leave no doubt: such a request has no transaction that       *)
(* writes.  Of 501 that cannot be said.                                     *)
RefusedWritesNothing ==
    \A r \in Exchange : status[r] \in {"400", "500"} => ~Writes(r)

(* w is the last write to its address: every other was over when w arrived. *)
LastWrite(w) ==
    /\ Writes(w)
    /\ \A u \in Exchange \ {w} : Writes(u) /\ call[u].addr = call[w].addr => u \in before[w]

(* Success means visibility: after it the map holds what the last   *)
(* write left, and every request that arrives later reads just that, under  *)
(* whichever :str/:map pair of the address.                                 *)
AnsweredIsVisible ==
    \A w \in Exchange : LastWrite(w) /\ status[w] = "200" =>
        LET k == KeyOf(call[w])
            v == IF call[w].op = "del" THEN Null ELSE call[w].val
        IN /\ contents[call[w].addr][k] = v
           /\ \A r \in Exchange :
                /\ status[r] = "200" /\ w \in before[r]
                /\ call[r] = [addr |-> call[w].addr, op |-> "get", key |-> k, val |-> Null]
                => result[r].val = v

(* Every response is ended or given up by its client, except one whose      *)
(* callback throws.                                                         *)
Responds ==
    \A r \in Exchange : status[r] = "open" ~>
        \/ status[r] # "open"
        \/ stage[r] = "answered" /\ MayThrow(call[r], result[r])
=============================================================================
