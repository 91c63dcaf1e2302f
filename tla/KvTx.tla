--------------------------------- MODULE KvTx ---------------------------------
(***************************************************************************)
(* kvdn's transactions: KvdnSession.newTx, the operations of KvTx,         *)
(* finishTx with the session's post hooks, and StoreMetaKVHook, which      *)
(* keeps '__METADATA_MAP' by transactions of its own.                      *)
(*                                                                         *)
(* Every action is one Vert.x handler run to its end; between two handlers *)
(* of one transaction any handler of another may run.  A transaction's     *)
(* hook starts further KvTx objects one after the other, so one program    *)
(* counter per user transaction suffices: running[t] says which of its     *)
(* KvTx objects pc[t] is about.                                            *)
(*                                                                         *)
(*   "user"  the caller's own KvTx                                         *)
(*   "store" storeMeta's set of the address in '__METADATA_MAP'            *)
(*   "size"  checkIfEmpty's size of the address                            *)
(*   "drop"  remove's del of the address from '__METADATA_MAP'             *)
(***************************************************************************)
EXTENDS KvOps

CONSTANTS
    Session,    \* the initialised sessions, all on one Vert.x instance or cluster
    Tx,         \* the transactions callers create
    UserOps,    \* the operations they invoke
    Meta,       \* the address '__METADATA_MAP'
    Serial,     \* one transaction at a time: the local maps answer inline
    MayFail,    \* a map may answer with a failure
    LiveKeys    \* the key provider sees the map's own key set

ASSUME KvTxAssumption ==
    /\ UserOps \subseteq Op
    /\ Meta \notin Addr
    /\ Null \notin Session
    /\ {Serial, MayFail, LiveKeys} \subseteq BOOLEAN

VARIABLES
    store,          \* the map at each address
    meta,           \* the addresses that are keys of '__METADATA_MAP'
    outstandingTX,  \* per session, the KvTx objects between newTx and finishTx
    straddrCache,   \* per session, how often StoreMetaKVHook's list holds each address
    accessCache,    \* the addresses in the Vert.x-wide access cache
    owner,          \* the session of each transaction
    req,            \* its request
    pc,             \* how far the KvTx that runs for it is
    running,        \* which KvTx that is
    reply,          \* what the map answered to that KvTx
    answer,         \* what the user's callback is given
    published       \* the KvTx objects whose change event was published

vars == <<store, meta, outstandingTX, straddrCache, accessCache, owner, req,
          pc, running, reply, answer, published>>

Role == {"user", "store", "size", "drop"}
PC == {"none", "null", "created", "getMap", "op", "reply", "done"}

(* The stages in which a KvTx waits for a map. *)
Waiting == {"getMap", "op", "reply"}
InFlight(t) == pc[t] \in Waiting

Init ==
    /\ store = [a \in Addr |-> EmptyMap]
    /\ meta = {}
    /\ outstandingTX = [s \in Session |-> {}]
    /\ straddrCache = [s \in Session |-> [a \in Addr |-> 0]]
    /\ accessCache = {}
    /\ owner = [t \in Tx |-> Null]
    /\ req = [t \in Tx |-> Null]
    /\ pc = [t \in Tx |-> "none"]
    /\ running = [t \in Tx |-> "user"]
    /\ reply = [t \in Tx |-> Failed]
    /\ answer = [t \in Tx |-> Failed]
    /\ published = {}

(* With inline maps a caller is back only when its transaction is over. *)
Scheduled == Serial => \A t \in Tx : ~InFlight(t)

-----------------------------------------------------------------------------
(* KvdnSession.newTx of a KvTx. *)
NewTx(t, s, a) ==
    /\ pc[t] = "none"
    /\ Scheduled
    /\ outstandingTX' = [outstandingTX EXCEPT ![s] = @ \cup {<<t, "user">>}]
    /\ owner' = [owner EXCEPT ![t] = s]
    /\ req' = [req EXCEPT ![t] = Unused(a)]
    /\ pc' = [pc EXCEPT ![t] = "created"]
    /\ UNCHANGED <<store, meta, straddrCache, accessCache, running, reply, answer, published>>

(* newTx of a counter or a lock records a transaction and returns null. *)
NewNullTx(t, s) ==
    /\ pc[t] = "none"
    /\ Scheduled
    /\ outstandingTX' = [outstandingTX EXCEPT ![s] = @ \cup {<<t, "user">>}]
    /\ owner' = [owner EXCEPT ![t] = s]
    /\ pc' = [pc EXCEPT ![t] = "null"]
    /\ UNCHANGED <<store, meta, straddrCache, accessCache, req, running, reply, answer, published>>

(* The caller invokes an operation; startTX refuses a second one.  All but  *)
(* getKeys ask the data implementation for the map first.                  *)
Invoke(t, q) ==
    /\ pc[t] = "created"
    /\ Scheduled
    /\ req' = [req EXCEPT ![t] = q]
    /\ pc' = [pc EXCEPT ![t] = IF q.op = "getKeys" THEN "op" ELSE "getMap"]
    /\ UNCHANGED <<store, meta, outstandingTX, straddrCache, accessCache, owner,
                   running, reply, answer, published>>

(* D.getMap answers: the handler starts the map's operation. *)
GotMap(t) ==
    /\ pc[t] = "getMap"
    /\ pc' = [pc EXCEPT ![t] = "op"]
    /\ UNCHANGED <<store, meta, outstandingTX, straddrCache, accessCache, owner, req,
                   running, reply, answer, published>>

-----------------------------------------------------------------------------
(* What the operation of the KvTx running for t does to the maps. *)
StoreAfter(t) ==
    IF running[t] = "user"
    THEN [store EXCEPT ![req[t].addr] = MapAfter(@, req[t])]
    ELSE store

MetaAfter(t) ==
    CASE running[t] = "store" -> meta \cup {req[t].addr}
      [] running[t] = "drop"  -> meta \ {req[t].addr}
      [] running[t] \in {"user", "size"} -> meta

(* What the map, or for getKeys the key provider, answers.  LocalKeyProvider *)
(* looks at the local map of that name, which nobody fills in a cluster.     *)
MapAnswer(t) ==
    CASE running[t] = "user" ->
            IF req[t].op = "getKeys" /\ ~LiveKeys
            THEN {}
            ELSE AnswerTo(store[req[t].addr], req[t])
      [] running[t] = "size" -> Cardinality(KeysOf(store[req[t].addr]))
      [] running[t] \in {"store", "drop"} -> Null

(* The map performs the operation and is about to call the handler. *)
Perform(t) ==
    /\ pc[t] = "op"
    /\ store' = StoreAfter(t)
    /\ meta' = MetaAfter(t)
    /\ reply' = [reply EXCEPT ![t] = Ok(MapAnswer(t))]
    /\ pc' = [pc EXCEPT ![t] = "reply"]
    /\ UNCHANGED <<outstandingTX, straddrCache, accessCache, owner, req, running,
                   answer, published>>

(* The map fails before its effect, or after it on the way back. *)
PerformFailed(t) ==
    /\ MayFail
    /\ pc[t] = "op"
    /\ \/ UNCHANGED <<store, meta>>
       \/ store' = StoreAfter(t) /\ meta' = MetaAfter(t)
    /\ reply' = [reply EXCEPT ![t] = Failed]
    /\ pc' = [pc EXCEPT ![t] = "reply"]
    /\ UNCHANGED <<outstandingTX, straddrCache, accessCache, owner, req, running,
                   answer, published>>

-----------------------------------------------------------------------------
(* The running KvTx enters finishTx: the map has replied, or through bailTx  *)
(* the failure of getMap.                                                   *)
Finishes(t) == pc[t] = "reply" \/ (MayFail /\ pc[t] = "getMap")
Outcome(t) == IF pc[t] = "reply" THEN reply[t] ELSE Failed

(* Mutated: finishTx keeps the KvTx until its hooks are through. *)
KeepTxAndStart(t, role) ==
    /\ outstandingTX' = [outstandingTX EXCEPT ![owner[t]] = @ \cup {<<t, role>>}]
    /\ running' = [running EXCEPT ![t] = role]
    /\ pc' = [pc EXCEPT ![t] = "getMap"]
    /\ reply' = [reply EXCEPT ![t] = Failed]

(* finishTx drops the KvTx before any hook runs; a hook that starts another  *)
(* one does its newTx, startTX and D.getMap in the same handler.            *)
DropTxAndStart(t, role) ==
    /\ outstandingTX' = [outstandingTX EXCEPT ![owner[t]] =
                            (@ \ {<<t, running[t]>>}) \cup {<<t, role>>}]
    /\ running' = [running EXCEPT ![t] = role]
    /\ pc' = [pc EXCEPT ![t] = "getMap"]
    /\ reply' = [reply EXCEPT ![t] = Failed]

(* Mutated: the event goes out whether the write succeeded or not. *)
EventsOfAll(t, r) ==
    {<<t, role>> : role \in {x \in {"user"} : req[t].op \in WriteOp}
                        \cup ({running[t]} \cap {"store", "drop"})}

(* The change events of a handler that ends the running KvTx and calls the  *)
(* user back with r: successful writes of either announce themselves, the   *)
(* metadata set and del included.                                           *)
Events(t, r) ==
    {<<t, role>> : role \in {x \in {"user"} : r.ok /\ req[t].op \in WriteOp}
                        \cup {x \in {running[t]} \cap {"store", "drop"} : Outcome(t).ok}}

(* The end of the hook chain: the running KvTx finishes and nothing is left *)
(* to start; the accesses are noted and the user is called back with r.     *)
CallBack(t, r) ==
    /\ outstandingTX' = [outstandingTX EXCEPT ![owner[t]] = @ \ {<<t, running[t]>>}]
    /\ accessCache' = accessCache \cup {req[t].addr} \cup
         (IF running[t] \in {"store", "drop"} THEN {Meta} ELSE {})
    /\ answer' = [answer EXCEPT ![t] = r]
    /\ published' = published \cup Events(t, r)
    /\ pc' = [pc EXCEPT ![t] = "done"]
    /\ running' = [running EXCEPT ![t] = "user"]
    /\ reply' = [reply EXCEPT ![t] = Failed]

Cached(t) == straddrCache[owner[t]][req[t].addr] > 0

(* StoreMetaKVHook.call: the hook has to write metadata after a set or      *)
(* submit to an address it has not seen, even when that set failed.         *)
MustStore(t) == TxType(req[t].op) \in {"KV_SET", "KV_SUBMIT"} /\ ~Cached(t)

(* It has to look for emptiness after a del or clear of a cached address.   *)
MustCheck(t) == TxType(req[t].op) = "KV_DEL" /\ Cached(t)

(* The user's KvTx finishes and the hook has nothing to do. *)
UserDone(t) ==
    /\ Finishes(t) /\ running[t] = "user"
    /\ ~MustStore(t) /\ ~MustCheck(t)
    /\ CallBack(t, Outcome(t))
    /\ UNCHANGED <<store, meta, straddrCache, owner, req>>

(* The user's KvTx finishes and the hook starts storeMeta's set ... *)
UserStores(t) ==
    /\ Finishes(t) /\ running[t] = "user"
    /\ MustStore(t)
    /\ answer' = [answer EXCEPT ![t] = Outcome(t)]
    /\ DropTxAndStart(t, "store")
    /\ UNCHANGED <<store, meta, straddrCache, accessCache, owner, req, published>>

(* ... or checkIfEmpty's size. *)
UserChecks(t) ==
    /\ Finishes(t) /\ running[t] = "user"
    /\ MustCheck(t)
    /\ answer' = [answer EXCEPT ![t] = Outcome(t)]
    /\ DropTxAndStart(t, "size")
    /\ UNCHANGED <<store, meta, straddrCache, accessCache, owner, req, published>>

(* The mutated forms of the next two forget the test of the outcome, the    *)
(* test of presence, and the removal.                                       *)
CacheAfterAnyStore(t) == [straddrCache EXCEPT ![owner[t]][req[t].addr] = @ + 1]
CacheBelowZero(t) == [straddrCache EXCEPT ![owner[t]][req[t].addr] = @ - 1]
CacheUnforgotten(t) == straddrCache

(* The list gains one occurrence when the metadata was written, ... *)
CacheAfterStore(t) ==
    IF Outcome(t).ok
    THEN [straddrCache EXCEPT ![owner[t]][req[t].addr] = @ + 1]
    ELSE straddrCache

(* ... and loses one, if there is any, when it was removed. *)
CacheAfterDrop(t) ==
    IF Outcome(t).ok /\ Cached(t)
    THEN [straddrCache EXCEPT ![owner[t]][req[t].addr] = @ - 1]
    ELSE straddrCache

(* Mutated: a failed set of the metadata calls nobody back. *)
StoreDoneOrLost(t) ==
    /\ pc[t] = "reply" /\ reply[t].ok
    /\ running[t] = "store"
    /\ straddrCache' = CacheAfterStore(t)
    /\ CallBack(t, answer[t])
    /\ UNCHANGED <<store, meta, owner, req>>

(* storeMeta's set is over: the hook chain goes on whatever came of it. *)
StoreDone(t) ==
    /\ Finishes(t) /\ running[t] = "store"
    /\ straddrCache' = CacheAfterStore(t)
    /\ CallBack(t, answer[t])
    /\ UNCHANGED <<store, meta, owner, req>>

(* checkIfEmpty's size answers that the address "appears empty". *)
AppearsEmpty(t) == Outcome(t).ok /\ Outcome(t).val = 0

(* It does not, or size fails: the hook is through. *)
SizeDone(t) ==
    /\ Finishes(t) /\ running[t] = "size"
    /\ ~AppearsEmpty(t)
    /\ CallBack(t, answer[t])
    /\ UNCHANGED <<store, meta, straddrCache, owner, req>>

(* It does: remove starts its del. *)
SizeIsZero(t) ==
    /\ Finishes(t) /\ running[t] = "size"
    /\ AppearsEmpty(t)
    /\ DropTxAndStart(t, "drop")
    /\ accessCache' = accessCache \cup {req[t].addr}
    /\ UNCHANGED <<store, meta, straddrCache, owner, req, answer, published>>

(* remove's del is over. *)
DropDone(t) ==
    /\ Finishes(t) /\ running[t] = "drop"
    /\ straddrCache' = CacheAfterDrop(t)
    /\ CallBack(t, answer[t])
    /\ UNCHANGED <<store, meta, owner, req>>

-----------------------------------------------------------------------------
(* The answers of maps and the handlers they call. *)
Progress(t) ==
    \/ GotMap(t) \/ Perform(t) \/ PerformFailed(t)
    \/ UserDone(t) \/ UserStores(t) \/ UserChecks(t)
    \/ StoreDone(t) \/ SizeDone(t) \/ SizeIsZero(t) \/ DropDone(t)

Next == \E t \in Tx :
    \/ \E s \in Session, a \in Addr : NewTx(t, s, a)
    \/ \E s \in Session : NewNullTx(t, s)
    \/ pc[t] = "created" /\ \E q \in Requests(req[t].addr, UserOps) : Invoke(t, q)
    \/ Progress(t)

Spec == Init /\ [][Next]_vars

(* Vert.x calls every handler it was given, and a map answers every call;   *)
(* callers need neither create transactions nor invoke them.               *)
FairSpec == Spec /\ \A t \in Tx : WF_vars(Progress(t))

-----------------------------------------------------------------------------
(* Type correctness: the shape of the state, and that a transaction has its *)
(* session and request from newTx on.                                       *)
TypeOK ==
    /\ store \in [Addr -> Maps]
    /\ meta \subseteq Addr
    /\ outstandingTX \in [Session -> SUBSET (Tx \X Role)]
    /\ straddrCache \in [Session -> [Addr -> Nat]]
    /\ accessCache \subseteq Addr \cup {Meta}
    /\ owner \in [Tx -> Session \cup {Null}]
    /\ pc \in [Tx -> PC]
    /\ running \in [Tx -> Role]
    /\ published \subseteq Tx \X Role
    /\ Tx = DOMAIN req /\ Tx = DOMAIN reply /\ Tx = DOMAIN answer
    /\ \A t \in Tx :
         /\ pc[t] # "none" => owner[t] \in Session
         /\ pc[t] \notin {"none", "null"} => req[t] \in Request
         /\ IF pc[t] \in {"none", "null", "created"}
            THEN answer[t] = Failed
            ELSE /\ req[t] \in Requests(req[t].addr, Op)
                 /\ answer[t] \in ResultsOf(req[t].op)
         /\ IF pc[t] = "reply"
            THEN reply[t] \in ResultsOf(IF running[t] = "user" THEN req[t].op ELSE running[t])
            ELSE reply[t] = Failed

(* outstandingTX holds exactly the KvTx objects that newTx handed out and    *)
(* that have not entered finishTx: while a hook works for a transaction the *)
(* set names the hook's KvTx and no longer the user's, whatever fails, and  *)
(* what newTx recorded for a counter or lock stays for good.                *)
OutstandingExact ==
    \A s \in Session : outstandingTX[s] =
        {<<t, running[t]>> : t \in {u \in Tx : owner[u] = s /\ pc[u] \notin {"none", "done"}}}

(* The change events on the bus are those of the writes that succeeded: a   *)
(* user's write announces itself when its callback gets the success and     *)
(* never otherwise.                                                         *)
EventsExact ==
    \A t \in Tx : <<t, "user">> \in published <=>
        pc[t] = "done" /\ answer[t].ok /\ req[t].op \in WriteOp

(* Nothing in flight. *)
Quiescent == \A t \in Tx : ~InFlight(t)

(* StoreMetaKVHook's purpose: when nothing is in flight the metadata map    *)
(* has a key for every address that holds data ...                          *)
DataHasMeta == Quiescent => \A a \in Addr : KeysOf(store[a]) # {} => a \in meta

(* ... and, as checkIfEmpty cleans up behind the last key, for no other.     *)
MetaExact == Quiescent => meta = {a \in Addr : KeysOf(store[a]) # {}}

(* While nobody deletes from an address, its metadata is safe under every   *)
(* interleaving of any number of sessions: an address a hook believes       *)
(* stored is stored, and (if no map fails) so is one with an answered write. *)
UndeletedIsCovered ==
    \A a \in Addr :
        (\A t \in Tx : InFlight(t) \/ pc[t] = "done" =>
            ~(req[t].addr = a /\ TxType(req[t].op) = "KV_DEL"))
        => /\ \A s \in Session : straddrCache[s][a] > 0 => a \in meta
           /\ \A t \in Tx :
                 ~MayFail /\ pc[t] = "done" /\ req[t].addr = a
                     /\ req[t].op \in {"set", "submit"}
                 => a \in meta

(* Every transaction whose operation was invoked calls back, through every   *)
(* failure of a map under it or under its hook's transactions.              *)
Answered == \A t \in Tx : InFlight(t) ~> pc[t] = "done"

-----------------------------------------------------------------------------
(* The implementation of KvAtomic: the map's own step decides a transaction. *)
AbsStage(t) ==
    CASE pc[t] \in {"none", "null"}      -> "idle"
      [] pc[t] = "created"               -> "created"
      [] pc[t] = "done"                  -> "answered"
      [] running[t] = "user" /\ pc[t] \in {"getMap", "op"} -> "called"
      [] running[t] # "user" /\ pc[t] \in Waiting -> "decided"
      [] pc[t] = "reply"                 -> "decided"

AbsResult(t) == IF running[t] = "user" /\ pc[t] = "reply" THEN reply[t] ELSE answer[t]

Abs == INSTANCE KvAtomic WITH
    contents <- store,
    call <- req,
    stage <- [t \in Tx |-> AbsStage(t)],
    result <- [t \in Tx |-> AbsResult(t)],
    events <- {t \in Tx : <<t, "user">> \in published}

(* Callers see atomic transactions, whatever the hooks do in between. *)
Atomic == Abs!Spec
=============================================================================
