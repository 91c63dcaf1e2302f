------------------------------ MODULE KvBackend ------------------------------
(***************************************************************************)
(* KvTx over MapDB, the one extension whose session can be constructed.    *)
(*                                                                         *)
(* MapDB adds a post hook, the first of the chain, that commits the        *)
(* database whenever a KvTx finishes, inside the handler that ends it: the *)
(* actions here are those of KvTx with that commit.  Its key provider opens *)
(* the map in the caller's own call, so that a failure is thrown at the    *)
(* caller and no callback is called.                                       *)
(*                                                                         *)
(* A process may die; the next one opens the same file.  The file is made  *)
(* without transactionEnable: there is no log, and what was changed after  *)
(* the last commit leaves a header whose checksum is stale.                *)
(***************************************************************************)
EXTENDS KvTx

CONSTANT MaxCrashes     \* how often the process dies

ASSUME KvBackendAssumption == MaxCrashes \in Nat

VARIABLES
    durable,        \* the maps as of the last commit that succeeded
    durableMeta,    \* and '__METADATA_MAP'
    written,        \* the transactions that used the file since then
    unsaved,        \* those of them that ended without a commit that succeeded
    up,             \* a process has the file open and a session on it
    crashes,        \* how often a process has died
    torn            \* history: one died with something under way or unsaved

backVars == <<durable, durableMeta, written, unsaved, up, crashes, torn>>
allVars == <<vars, backVars>>

BackInit ==
    /\ Init
    /\ durable = store
    /\ durableMeta = meta
    /\ written = {}
    /\ unsaved = {}
    /\ up = TRUE
    /\ crashes = 0
    /\ torn = FALSE

-----------------------------------------------------------------------------
BackNewTx(t, s, a) == up /\ NewTx(t, s, a) /\ UNCHANGED backVars

BackInvoke(t, q) == up /\ Invoke(t, q) /\ UNCHANGED backVars

AsksForKeys(t) == running[t] = "user" /\ req[t].op = "getKeys"

(* The map, or MapdbKeyProvider, answers; a failure may come after the effect. *)
BackPerform(t) ==
    /\ Perform(t) \/ (PerformFailed(t) /\ ~AsksForKeys(t))
    /\ written' = written \cup {t}
    /\ UNCHANGED <<durable, durableMeta, unsaved, up, crashes, torn>>

(* MapdbKeyProvider.getKeys: what createOrOpen throws passes the caller by   *)
(* with no finishTx, no hook and no callback.                               *)
KeysThrow(t) ==
    /\ MayFail
    /\ pc[t] = "op" /\ AsksForKeys(t)
    /\ pc' = [pc EXCEPT ![t] = "thrown"]
    /\ written' = written \cup {t}
    /\ unsaved' = unsaved \cup {t}
    /\ UNCHANGED <<store, meta, outstandingTX, straddrCache, accessCache, owner, req, running,
                   reply, answer, published, durable, durableMeta, up, crashes, torn>>

-----------------------------------------------------------------------------
Ends(t) ==
    \/ UserDone(t) \/ UserStores(t) \/ UserChecks(t)
    \/ StoreDone(t) \/ SizeDone(t) \/ SizeIsZero(t) \/ DropDone(t)

(* Mutated: the hook commits for the types of its unused set TXTYPES only,  *)
(* of which no transaction is one.                                          *)
CommitSelected(t) ==
    UNCHANGED <<durable, durableMeta, written, unsaved>>

(* Mutated: a failed commit is taken for one. *)
CommitUnnoticed(t) ==
    /\ written' = {} /\ unsaved' = {}
    /\ \/ durable' = store /\ durableMeta' = meta
       \/ MayFail /\ UNCHANGED <<durable, durableMeta>>

(* MapdbPostTXHook: commit takes along what others have written by then.    *)
(* If it fails the chain goes on and the caller is not told.                *)
Commit(t) ==
    \/ durable' = store /\ durableMeta' = meta /\ written' = {} /\ unsaved' = {}
    \/ /\ MayFail
       /\ written' = written \cup {t}
       /\ unsaved' = unsaved \cup {t}
       /\ UNCHANGED <<durable, durableMeta>>

(* A KvTx ends: MapDB's post hook and then the metadata's, in one handler. *)
BackEnds(t) == Ends(t) /\ Commit(t) /\ UNCHANGED <<up, crashes, torn>>

-----------------------------------------------------------------------------
(* The file may differ from its last commit: createOrOpen writes to it too. *)
Dirty == written # {} \/ \E t \in Tx : pc[t] \in {"getMap", "op"}

(* Nothing is under way, and every commit was made. *)
AtRest == unsaved = {} /\ \A t \in Tx : ~InFlight(t)

(* The constructor of the next process's MapdbDataImpl: make() refuses a file *)
(* with a stale header, and KvdnSession's constructor with it; if the header *)
(* happens to fit, entries and metadata may be as anyhow as what was written. *)
Reopen ==
    \/ /\ Dirty
       /\ up' = FALSE
       /\ UNCHANGED <<store, meta, durable, durableMeta>>
    \/ /\ up' = TRUE
       /\ IF Dirty
          THEN store' \in [Addr -> Maps] /\ meta' \in SUBSET Addr
          ELSE store' = durable /\ meta' = durableMeta
       /\ durable' = store' /\ durableMeta' = meta'

(* The process dies without MapdbShutdownHook, which nothing constructs, and *)
(* the next one starts: a new session, an empty list of stored addresses,    *)
(* and nobody left to call back.                                             *)
Crash ==
    /\ up /\ crashes < MaxCrashes
    /\ crashes' = crashes + 1
    /\ torn' = (torn \/ ~AtRest)
    /\ Reopen
    /\ written' = {} /\ unsaved' = {}
    /\ pc' = [t \in Tx |-> IF pc[t] \in {"none", "done", "thrown"} THEN pc[t] ELSE "lost"]
    /\ outstandingTX' = [s \in Session |-> {}]
    /\ straddrCache' = [s \in Session |-> [a \in Addr |-> 0]]
    /\ accessCache' = {}
    /\ running' = [t \in Tx |-> "user"]
    /\ reply' = [t \in Tx |-> Failed]
    /\ UNCHANGED <<owner, req, answer, published>>

-----------------------------------------------------------------------------
BackProgress(t) ==
    (GotMap(t) /\ UNCHANGED backVars) \/ BackPerform(t) \/ KeysThrow(t) \/ BackEnds(t)

BackNext ==
    \/ Crash
    \/ \E t \in Tx :
         \/ \E s \in Session, a \in Addr : BackNewTx(t, s, a)
         \/ pc[t] = "created" /\ \E q \in Requests(req[t].addr, UserOps) : BackInvoke(t, q)
         \/ BackProgress(t)

BackSpec == BackInit /\ [][BackNext]_allVars

(* As for KvTx: handlers run and maps answer, while the process is up. *)
BackFairSpec == BackSpec /\ \A t \in Tx : WF_allVars(BackProgress(t))

-----------------------------------------------------------------------------
Writes(q, k) == q.op = "clear" \/ (q.op \in {"set", "submit", "del"} /\ KeyOf(q) = k)

(* The history of a key: the transactions that may have changed it. *)
Involved(a, k) ==
    {t \in Tx : pc[t] \notin {"none", "created"} /\ req[t].addr = a /\ Writes(req[t], k)}

(* A write that was acknowledged outlives the process if that dies at rest:  *)
(* no transaction under way, none whose commit failed.  The file opens then, *)
(* and holds it, metadata transactions and failed operations before or not. *)
AcknowledgedSurvives ==
    ~torn =>
        /\ up
        /\ \A a \in Addr, k \in Key, t \in Tx :
              Involved(a, k) = {t} /\ pc[t] = "done" /\ answer[t].ok
              => store[a][k] = IF req[t].op \in {"set", "submit"} THEN req[t].val ELSE Null

(* Whoever used the file since its last commit is under way or has ended     *)
(* with a commit that failed, and where the maps differ from that commit one *)
(* of them has written.                                                     *)
UncommittedIsPending ==
    up =>
        /\ \A t \in written : InFlight(t) \/ t \in unsaved
        /\ \A a \in Addr, k \in Key :
              durable[a][k] # store[a][k] => Involved(a, k) \cap written # {}

(* The list of stored addresses never runs ahead of the file: unless a       *)
(* commit failed, or somebody deletes, an address in it has its metadata     *)
(* in the last commit.                                                      *)
ListedIsDurable ==
    unsaved = {} =>
        \A s \in Session, a \in Addr :
            /\ straddrCache[s][a] > 0
            /\ \A t \in Tx : pc[t] # "none" /\ req[t].addr = a => req[t].op \notin {"del", "clear"}
            => a \in durableMeta

(* Every operation is called back unless its process dies or, for getKeys    *)
(* only, the key provider throws at the caller.                             *)
AnsweredOrLost ==
    \A t \in Tx : InFlight(t) ~>
        pc[t] \in {"done", "lost"} \/ (pc[t] = "thrown" /\ req[t].op = "getKeys")
=============================================================================
