--------------------------- MODULE KvBackendProofs ---------------------------
(***************************************************************************)
(* Theorems about KvBackend: what MapDB's file holds and what a process    *)
(* that dies leaves behind, for any number of transactions, sessions,      *)
(* addresses, keys and crashes.  KvTx's own types do not hold here, for a  *)
(* crash leaves lost transactions behind.                                  *)
(***************************************************************************)
EXTENDS KvBackend, KvTxProofs

-----------------------------------------------------------------------------
Stage == PC \cup {"lost", "thrown"}

(* The state of KvTx and of MapDB, lost and thrown transactions included. *)
BackTypes ==
    /\ store \in [Addr -> Maps] /\ durable \in [Addr -> Maps]
    /\ meta \subseteq Addr /\ durableMeta \subseteq Addr
    /\ straddrCache \in [Session -> [Addr -> Nat]]
    /\ written \subseteq Tx
    /\ pc \in [Tx -> Stage] /\ running \in [Tx -> Role]
    /\ owner \in [Tx -> Session \cup {Null}]
    /\ Tx = DOMAIN req /\ Tx = DOMAIN reply /\ Tx = DOMAIN answer

(* What they say of one transaction. *)
BackTypeOf(t) ==
    /\ pc[t] # "null"
    /\ pc[t] \notin Waiting => running[t] = "user"
    /\ pc[t] # "none" => owner[t] \in Session /\ req[t].addr \in Addr
    /\ pc[t] = "created" => req[t].op = "none"
    /\ pc[t] = "lost" => req[t].op = "none" \/ req[t] \in Requests(req[t].addr, Op)
    /\ pc[t] \in Waiting \cup {"done", "thrown"} => req[t] \in Requests(req[t].addr, Op)
    /\ running[t] = "store" => req[t].op \in {"set", "submit"}
    /\ running[t] \in {"size", "drop"} => req[t].op \in {"del", "clear"}

BackTypeOK == BackTypes /\ \A t \in Tx : BackTypeOf(t)

(* The KvTx of t moves and the others stay. *)
OthersRest(t) == \A u \in Tx \ {t} : /\ pc'[u] = pc[u] /\ running'[u] = running[u]
                                     /\ reply'[u] = reply[u] /\ answer'[u] = answer[u]
                                     /\ req'[u] = req[u] /\ owner'[u] = owner[u]

(* A transaction is created. *)
LEMMA NewTxMove ==
    ASSUME BackTypeOK, NEW t \in Tx, NEW s \in Session, NEW a \in Addr, NewTx(t, s, a)
    PROVE  /\ UNCHANGED <<store, meta, straddrCache>>
           /\ pc[t] = "none" /\ pc'[t] = "created" /\ req'[t] = Unused(a)
           /\ OthersRest(t) /\ BackTypeOf(t)'
           /\ pc' \in [Tx -> Stage] /\ running' \in [Tx -> Role]
           /\ owner' \in [Tx -> Session \cup {Null}]
           /\ Tx = DOMAIN req' /\ Tx = DOMAIN reply' /\ Tx = DOMAIN answer'
  <1>1. /\ UNCHANGED <<store, meta, straddrCache, running, reply, answer>>
        /\ pc[t] = "none" /\ owner' = [owner EXCEPT ![t] = s]
        /\ req' = [req EXCEPT ![t] = Unused(a)] /\ pc' = [pc EXCEPT ![t] = "created"]
    BY DEF NewTx
  <1>2. running[t] = "user"
    BY <1>1 DEF BackTypeOK, BackTypeOf, Waiting
  <1>3. pc'[t] = "created" /\ req'[t] = Unused(a) /\ owner'[t] = s
    BY <1>1 DEF BackTypeOK, BackTypes
  <1>4. BackTypeOf(t)'
    BY <1>1, <1>2, <1>3 DEF BackTypeOf, Unused, Waiting
  <1> QED  BY <1>1, <1>3, <1>4 DEF BackTypeOK, BackTypes, OthersRest, PC, Stage

(* Its operation is invoked. *)
LEMMA InvokeMove ==
    ASSUME BackTypeOK, NEW t \in Tx, NEW q \in Requests(req[t].addr, UserOps),
           pc[t] = "created", Invoke(t, q)
    PROVE  /\ UNCHANGED <<store, meta, straddrCache, reply, answer>>
           /\ pc'[t] \in {"getMap", "op"} /\ req'[t] = q /\ running'[t] = "user"
           /\ q.addr = req[t].addr /\ q \in Requests(q.addr, Op)
           /\ OthersRest(t) /\ BackTypeOf(t)'
           /\ pc' \in [Tx -> Stage] /\ running' \in [Tx -> Role]
           /\ owner' \in [Tx -> Session \cup {Null}]
           /\ Tx = DOMAIN req' /\ Tx = DOMAIN reply' /\ Tx = DOMAIN answer'
  <1>1. /\ UNCHANGED <<store, meta, straddrCache, owner, running, reply, answer>>
        /\ req' = [req EXCEPT ![t] = q]
        /\ pc' = [pc EXCEPT ![t] = IF q.op = "getKeys" THEN "op" ELSE "getMap"]
    BY DEF Invoke
  <1>2. running[t] = "user" /\ req[t].addr \in Addr /\ owner[t] \in Session
    BY DEF BackTypeOK, BackTypeOf, Waiting
  <1>3. q.addr = req[t].addr /\ q \in Requests(q.addr, Op)
    BY KvTxAssumption DEF Requests
  <1>4. pc'[t] \in {"getMap", "op"} /\ req'[t] = q
    BY <1>1 DEF BackTypeOK, BackTypes
  <1>5. BackTypeOf(t)'
    BY <1>1, <1>2, <1>3, <1>4 DEF BackTypeOf, Waiting
  <1> QED  BY <1>1, <1>2, <1>3, <1>4, <1>5 DEF BackTypeOK, BackTypes, OthersRest, PC, Stage

(* The map is there. *)
LEMMA GotMapMove ==
    ASSUME BackTypeOK, NEW t \in Tx, GotMap(t)
    PROVE  /\ UNCHANGED <<store, meta, straddrCache, running, req, reply, answer, owner>>
           /\ pc[t] = "getMap" /\ pc'[t] = "op"
           /\ OthersRest(t) /\ BackTypeOf(t)'
           /\ pc' \in [Tx -> Stage]
  BY DEF GotMap, BackTypeOK, BackTypes, BackTypeOf, OthersRest, PC, Stage, Waiting

(* What an operation that writes a key leaves under it. *)
LeftBy(q) == IF q.op \in {"set", "submit"} THEN q.val ELSE Null

(* Key by key, what an operation of KvTx leaves in the map. *)
LEMMA MapAfterAt ==
    ASSUME NEW m \in Maps, NEW a \in Addr, NEW q \in Requests(a, Op), NEW k \in Key
    PROVE  MapAfter(m, q)[k] = IF Writes(q, k) THEN LeftBy(q) ELSE m[k]
  <1>1. q.op \in Op
    BY DEF Requests
  <1>2. CASE q.op \in {"set", "submit"}
    <2>1. MapAfter(m, q) = [m EXCEPT ![KeyOf(q)] = q.val]
      BY <1>2, MapAfterCases
    <2> QED  BY <1>2, <2>1 DEF Maps, Writes, LeftBy
  <1>3. CASE q.op = "del"
    <2>1. MapAfter(m, q) = [m EXCEPT ![q.key] = Null] /\ KeyOf(q) = q.key
      BY <1>3, MapAfterCases DEF KeyOf
    <2> QED  BY <1>3, <2>1 DEF Maps, Writes, LeftBy
  <1>4. CASE q.op = "clear"
    <2>1. MapAfter(m, q) = EmptyMap
      BY <1>4, MapAfterCases
    <2> QED  BY <1>4, <2>1 DEF EmptyMap, Writes, LeftBy
  <1>5. CASE q.op \in {"get", "getKeys", "size"}
    <2>1. MapAfter(m, q) = m
      BY <1>5, MapAfterCases DEF WriteOp
    <2> QED  BY <1>5, <2>1 DEF Writes
  <1> QED  BY <1>1, <1>2, <1>3, <1>4, <1>5 DEF Op

(* The operation of a KvTx changes what its request writes, if it is the     *)
(* user's own, and the metadata of its address, if it is the hook's.        *)
LEMMA Effect ==
    ASSUME BackTypeOK, NEW t \in Tx, pc[t] = "op"
    PROVE  /\ StoreAfter(t) \in [Addr -> Maps]
           /\ \A a \in Addr, k \in Key :
                 StoreAfter(t)[a][k] = IF running[t] = "user" /\ req[t].addr = a /\ Writes(req[t], k)
                                       THEN LeftBy(req[t]) ELSE store[a][k]
           /\ MetaAfter(t) \subseteq Addr
           /\ running[t] = "store" => MetaAfter(t) = meta \cup {req[t].addr}
           /\ running[t] # "drop" => meta \subseteq MetaAfter(t)
           /\ meta \ {req[t].addr} \subseteq MetaAfter(t)
  <1>1. req[t] \in Requests(req[t].addr, Op) /\ req[t].addr \in Addr /\ running[t] \in Role
    BY DEF BackTypeOK, BackTypes, BackTypeOf, Waiting
  <1>2. store[req[t].addr] \in Maps /\ store \in [Addr -> Maps] /\ meta \subseteq Addr
    BY <1>1 DEF BackTypeOK, BackTypes
  <1>3. StoreAfter(t) \in [Addr -> Maps]
    <2>1. MapAfter(store[req[t].addr], req[t]) \in Maps
      BY <1>1, <1>2, MapAfterType
    <2> QED  BY <1>1, <1>2, <2>1 DEF StoreAfter
  <1>4. ASSUME NEW a \in Addr, NEW k \in Key
        PROVE  StoreAfter(t)[a][k] = IF running[t] = "user" /\ req[t].addr = a /\ Writes(req[t], k)
                                     THEN LeftBy(req[t]) ELSE store[a][k]
    <2>1. MapAfter(store[req[t].addr], req[t])[k] =
             IF Writes(req[t], k) THEN LeftBy(req[t]) ELSE store[req[t].addr][k]
      BY <1>1, <1>2, MapAfterAt
    <2> QED  BY <1>1, <1>2, <2>1 DEF StoreAfter
  <1>5. CASE running[t] = "store"
    <2>1. MetaAfter(t) = meta \cup {req[t].addr}
      BY <1>5 DEF MetaAfter
    <2> QED  BY <1>1, <1>2, <1>3, <1>4, <1>5, <2>1
  <1>6. CASE running[t] = "drop"
    <2>1. MetaAfter(t) = meta \ {req[t].addr}
      BY <1>6 DEF MetaAfter
    <2> QED  BY <1>1, <1>2, <1>3, <1>4, <1>6, <2>1
  <1>7. CASE running[t] \in {"user", "size"}
    <2>1. MetaAfter(t) = meta
      BY <1>7 DEF MetaAfter
    <2> QED  BY <1>1, <1>2, <1>3, <1>4, <1>7, <2>1
  <1> QED  BY <1>1, <1>5, <1>6, <1>7 DEF Role

(* The map answers. *)
LEMMA PerformMove ==
    ASSUME BackTypeOK, NEW t \in Tx, BackPerform(t)
    PROVE  /\ UNCHANGED <<straddrCache, running, req, answer, owner, durable, durableMeta,
                           unsaved, up, torn>>
           /\ written' = written \cup {t}
           /\ pc[t] = "op" /\ pc'[t] = "reply"
           /\ \/ store' = store /\ meta' = meta /\ ~reply'[t].ok
              \/ store' = StoreAfter(t) /\ meta' = MetaAfter(t)
           /\ OthersRest(t) /\ BackTypeOf(t)'
           /\ pc' \in [Tx -> Stage] /\ Tx = DOMAIN reply'
  <1>1. ASSUME NEW r, pc[t] = "op", reply' = [reply EXCEPT ![t] = r],
               pc' = [pc EXCEPT ![t] = "reply"], UNCHANGED <<running, req, answer, owner>>
        PROVE  /\ pc'[t] = "reply" /\ reply'[t] = r /\ Tx = DOMAIN reply'
               /\ OthersRest(t) /\ BackTypeOf(t)' /\ pc' \in [Tx -> Stage]
    BY <1>1 DEF BackTypeOK, BackTypes, BackTypeOf, OthersRest, PC, Stage, Waiting
  <1>2. ~Failed.ok
    BY DEF Failed
  <1>3. /\ written' = written \cup {t}
        /\ UNCHANGED <<durable, durableMeta, unsaved, up, torn>>
    BY DEF BackPerform
  <1>4. CASE Perform(t)
    BY <1>1, <1>3, <1>4 DEF Perform
  <1>5. CASE PerformFailed(t)
    BY <1>1, <1>2, <1>3, <1>5 DEF PerformFailed
  <1> QED  BY <1>4, <1>5 DEF BackPerform

(* The key provider throws. *)
LEMMA ThrowMove ==
    ASSUME BackTypeOK, NEW t \in Tx, KeysThrow(t)
    PROVE  /\ UNCHANGED <<store, meta, straddrCache, running, req, reply, answer, owner,
                           durable, durableMeta, up, torn>>
           /\ written' = written \cup {t} /\ unsaved' = unsaved \cup {t}
           /\ pc[t] = "op" /\ pc'[t] = "thrown" /\ running[t] = "user"
           /\ OthersRest(t) /\ BackTypeOf(t)'
           /\ pc' \in [Tx -> Stage]
  BY DEF KeysThrow, AsksForKeys, BackTypeOK, BackTypes, BackTypeOf, OthersRest, PC, Stage, Waiting

(* A KvTx ends and calls back, or its hook starts the next one. *)
LEMMA EndsMove ==
    ASSUME BackTypeOK, NEW t \in Tx, Ends(t)
    PROVE  /\ UNCHANGED <<store, meta, req, owner>>
           /\ pc[t] \in {"reply", "getMap"} /\ pc'[t] \in {"done", "getMap"}
           /\ pc'[t] = "getMap" => running'[t] # "user"
           /\ answer'[t] = IF running[t] = "user" THEN Outcome(t) ELSE answer[t]
           /\ straddrCache' \in [Session -> [Addr -> Nat]]
           /\ \A s \in Session, a \in Addr :
                 straddrCache'[s][a] > 0 =>
                    \/ straddrCache[s][a] > 0
                    \/ a = req[t].addr /\ running[t] = "store" /\ pc[t] = "reply" /\ reply[t].ok
           /\ OthersRest(t) /\ BackTypeOf(t)'
           /\ pc' \in [Tx -> Stage] /\ running' \in [Tx -> Role]
           /\ Tx = DOMAIN reply' /\ Tx = DOMAIN answer'
  <1> DEFINE Turn == /\ OthersRest(t) /\ BackTypeOf(t)'
                     /\ pc' \in [Tx -> Stage] /\ running' \in [Tx -> Role]
                     /\ Tx = DOMAIN reply' /\ Tx = DOMAIN answer'
                     /\ pc'[t] \in {"done", "getMap"}
                     /\ pc'[t] = "getMap" => running'[t] # "user"
  <1>1. Finishes(t)
    BY DEF Ends, UserDone, UserStores, UserChecks, StoreDone, SizeDone, SizeIsZero, DropDone
  <1>2. /\ pc[t] \in {"reply", "getMap"} /\ owner[t] \in Session /\ req[t].addr \in Addr
        /\ req[t] \in Requests(req[t].addr, Op) /\ req[t].op \in Op
        /\ running[t] = "size" => req[t].op \in {"del", "clear"}
    BY <1>1 DEF Finishes, BackTypeOK, BackTypeOf, Waiting, Requests
  <1>3. ASSUME NEW r, CallBack(t, r), UNCHANGED <<req, owner>>
        PROVE  Turn /\ answer'[t] = r
    <2>1. pc'[t] = "done" /\ running'[t] = "user" /\ answer'[t] = r
      BY <1>3 DEF CallBack, BackTypeOK, BackTypes
    <2>2. BackTypeOf(t)'
      BY <1>2, <1>3, <2>1 DEF BackTypeOf, Waiting
    <2>3. OthersRest(t)
      BY <1>3 DEF CallBack, OthersRest, BackTypeOK, BackTypes
    <2> QED  BY <1>3, <2>1, <2>2, <2>3 DEF CallBack, BackTypeOK, BackTypes, PC, Stage, Role
  <1>4. ASSUME NEW role \in {"store", "size", "drop"}, DropTxAndStart(t, role), UNCHANGED <<req, owner>>,
               \/ answer' = answer
               \/ answer' = [answer EXCEPT ![t] = Outcome(t)],
               role = "store" => req[t].op \in {"set", "submit"},
               role \in {"size", "drop"} => req[t].op \in {"del", "clear"}
        PROVE  Turn
    <2>1. pc'[t] = "getMap" /\ running'[t] = role
      BY <1>4 DEF DropTxAndStart, BackTypeOK, BackTypes
    <2>2. BackTypeOf(t)'
      BY <1>2, <1>4, <2>1 DEF BackTypeOf, Waiting
    <2>3. OthersRest(t)
      BY <1>4 DEF DropTxAndStart, OthersRest, BackTypeOK, BackTypes
    <2> QED  BY <1>4, <2>1, <2>2, <2>3 DEF DropTxAndStart, BackTypeOK, BackTypes, PC, Stage, Role
  <1>5. straddrCache \in [Session -> [Addr -> Nat]] /\ t \in DOMAIN answer
    BY DEF BackTypeOK, BackTypes
  <1>6. CASE UserDone(t)
    BY <1>2, <1>3, <1>5, <1>6 DEF UserDone
  <1>7. CASE UserStores(t)
    <2>1. req[t].op \in {"set", "submit"}
      BY <1>2, <1>7, TxTypeOf DEF UserStores, MustStore
    <2> QED  BY <1>2, <1>4, <1>5, <1>7, <2>1 DEF UserStores
  <1>8. CASE UserChecks(t)
    <2>1. req[t].op \in {"del", "clear"}
      BY <1>2, <1>8, TxTypeOf DEF UserChecks, MustCheck
    <2> QED  BY <1>2, <1>4, <1>5, <1>8, <2>1 DEF UserChecks
  <1>9. CASE SizeDone(t)
    BY <1>2, <1>3, <1>5, <1>9 DEF SizeDone
  <1>10. CASE SizeIsZero(t)
    BY <1>2, <1>4, <1>5, <1>10 DEF SizeIsZero
  <1>11. CASE StoreDone(t)
    <2>1. /\ running[t] = "store" /\ straddrCache' = CacheAfterStore(t) /\ UNCHANGED <<store, meta, owner, req>>
          /\ Turn /\ answer'[t] = answer[t]
      BY <1>3, <1>11 DEF StoreDone
    <2>2. CASE Outcome(t).ok
      <3>1. pc[t] = "reply" /\ reply[t].ok
        BY <2>2 DEF Outcome, Failed
      <3>2. straddrCache' = [straddrCache EXCEPT ![owner[t]][req[t].addr] = @ + 1]
        BY <2>1, <2>2 DEF CacheAfterStore
      <3>3. straddrCache' \in [Session -> [Addr -> Nat]]
        BY <1>2, <1>5, <3>2
      <3>4. \A s \in Session, a \in Addr : a # req[t].addr => straddrCache'[s][a] = straddrCache[s][a]
        BY <1>2, <1>5, <3>2
      <3> QED  BY <1>2, <2>1, <3>1, <3>3, <3>4
    <2>3. CASE ~Outcome(t).ok
      BY <1>2, <1>5, <2>1, <2>3 DEF CacheAfterStore
    <2> QED  BY <2>2, <2>3
  <1>12. CASE DropDone(t)
    <2>1. /\ running[t] = "drop" /\ straddrCache' = CacheAfterDrop(t) /\ UNCHANGED <<store, meta, owner, req>>
          /\ Turn /\ answer'[t] = answer[t]
      BY <1>3, <1>12 DEF DropDone
    <2>2. CASE Outcome(t).ok /\ Cached(t)
      <3>1. straddrCache[owner[t]][req[t].addr] - 1 \in Nat
        BY <1>2, <1>5, <2>2 DEF Cached
      <3>2. straddrCache' = [straddrCache EXCEPT ![owner[t]][req[t].addr] = @ - 1]
        BY <2>1, <2>2 DEF CacheAfterDrop
      <3>3. straddrCache' \in [Session -> [Addr -> Nat]]
        BY <1>2, <1>5, <3>1, <3>2
      <3>4. \A s \in Session, a \in Addr : straddrCache'[s][a] > 0 => straddrCache[s][a] > 0
        BY <1>2, <1>5, <3>1, <3>2, <2>2 DEF Cached
      <3> QED  BY <1>2, <2>1, <3>3, <3>4
    <2>3. CASE ~(Outcome(t).ok /\ Cached(t))
      BY <1>2, <1>5, <2>1, <2>3 DEF CacheAfterDrop
    <2> QED  BY <2>2, <2>3
  <1> QED  BY <1>6, <1>7, <1>8, <1>9, <1>10, <1>11, <1>12 DEF Ends

-----------------------------------------------------------------------------
(* The inductive invariants. *)

(* The caller's write has taken effect and the map has said so. *)
Happened(t) ==
    \/ pc[t] = "reply" /\ running[t] = "user" /\ reply[t].ok
    \/ pc[t] \in Waiting /\ running[t] # "user" /\ answer[t].ok
    \/ pc[t] = "done" /\ answer[t].ok

(* While every process that died did so at rest, there is a session, and     *)
(* from the map's answer on the only write of a key is what the key holds.  *)
OnlyWriteStands ==
    ~torn =>
        /\ up
        /\ \A a \in Addr, k \in Key, t \in Tx :
              Involved(a, k) = {t} /\ Happened(t) => store[a][k] = LeftBy(req[t])

NobodyDeletes(a) == \A t \in Tx : pc[t] # "none" /\ req[t].addr = a => req[t].op \notin {"del", "clear"}

(* An address that is listed, or about to be, has its metadata, ... *)
Listed(a) ==
    /\ \A s \in Session : straddrCache[s][a] > 0 => a \in meta
    /\ \A t \in Tx : (/\ pc[t] = "reply" /\ running[t] = "store" /\ reply[t].ok
                      /\ req[t].addr = a)
                     => a \in meta

(* ... and while no commit has failed it is in the file. *)
InFile(a) ==
    unsaved = {} =>
        \A s \in Session : straddrCache[s][a] > 0 => a \in durableMeta

Listing == \A a \in Addr : NobodyDeletes(a) => Listed(a) /\ InFile(a)

-----------------------------------------------------------------------------
(* What MapDB's hook adds to the end of a KvTx. *)
LEMMA BackEndsMove ==
    ASSUME BackTypeOK, NEW t \in Tx, BackEnds(t)
    PROVE  /\ Ends(t) /\ UNCHANGED <<up, torn>>
           /\ \/ durable' = store /\ durableMeta' = meta /\ written' = {} /\ unsaved' = {}
              \/ /\ written' = written \cup {t} /\ unsaved' = unsaved \cup {t}
                 /\ UNCHANGED <<durable, durableMeta>>
  BY DEF BackEnds, Commit

(* A step leaves what is known of the other transactions. *)
LEMMA OthersTypes ==
    ASSUME BackTypeOK, NEW t \in Tx, OthersRest(t), BackTypeOf(t)'
    PROVE  \A u \in Tx : BackTypeOf(u)'
  <1>1. ASSUME NEW u \in Tx \ {t} PROVE BackTypeOf(u)'
    BY <1>1 DEF BackTypeOK, BackTypeOf, OthersRest
  <1> QED  BY <1>1

(* A crash, as far as each transaction and each entry is concerned. *)
LEMMA CrashMove ==
    ASSUME BackTypeOK, Crash
    PROVE  /\ up /\ UNCHANGED <<req, answer>>
           /\ written' = {} /\ unsaved' = {} /\ torn' = (torn \/ ~AtRest)
           /\ up' => durable' = store' /\ durableMeta' = meta'
           /\ ~Dirty => up' /\ store' = durable
           /\ \A u \in Tx : /\ pc[u] \in {"none", "done", "thrown"} => pc'[u] = pc[u]
                            /\ pc[u] \notin {"none", "done", "thrown"} => pc'[u] = "lost"
           /\ \A s \in Session, a \in Addr : straddrCache'[s][a] = 0
           /\ BackTypeOK'
  <1>1. /\ up /\ UNCHANGED <<owner, req, answer>>
        /\ written' = {} /\ unsaved' = {} /\ torn' = (torn \/ ~AtRest) /\ Reopen
    BY DEF Crash
  <1>2. /\ up' => durable' = store' /\ durableMeta' = meta'
        /\ ~Dirty => up' /\ store' = durable
    BY <1>1 DEF Reopen
  <1>3. /\ store' \in [Addr -> Maps] /\ meta' \subseteq Addr
        /\ durable' \in [Addr -> Maps] /\ durableMeta' \subseteq Addr
    BY <1>1 DEF Reopen, BackTypeOK, BackTypes
  <1>4. \A u \in Tx : /\ pc[u] \in {"none", "done", "thrown"} => pc'[u] = pc[u]
                      /\ pc[u] \notin {"none", "done", "thrown"} => pc'[u] = "lost"
                      /\ running'[u] = "user"
    BY DEF Crash
  <1>5. /\ straddrCache' \in [Session -> [Addr -> Nat]]
        /\ \A s \in Session, a \in Addr : straddrCache'[s][a] = 0
    BY DEF Crash
  <1>6. pc' \in [Tx -> Stage] /\ running' \in [Tx -> Role] /\ Tx = DOMAIN reply'
    BY DEF Crash, BackTypeOK, BackTypes, PC, Stage, Role
  <1>7. ASSUME NEW u \in Tx PROVE BackTypeOf(u)'
    BY <1>1, <1>4 DEF BackTypeOK, BackTypes, BackTypeOf, Waiting, PC, Stage
  <1>8. BackTypes'
    BY <1>1, <1>3, <1>5, <1>6 DEF BackTypeOK, BackTypes
  <1> QED  BY <1>1, <1>2, <1>4, <1>5, <1>7, <1>8 DEF BackTypeOK

(* The shape of the state survives every step, crashes included. *)
LEMMA InitBackTypes == BackInit => BackTypeOK
  BY DEF BackInit, Init, BackTypeOK, BackTypes, BackTypeOf, Maps, EmptyMap, PC, Stage, Role, Waiting

(* Every handler, commit and crash keeps the shape. *)
LEMMA NextBackTypes == BackTypeOK /\ [BackNext]_allVars => BackTypeOK'
  <1> SUFFICES ASSUME BackTypeOK, [BackNext]_allVars PROVE BackTypeOK'
    OBVIOUS
  <1>1. CASE UNCHANGED allVars
    BY <1>1 DEF allVars, vars, backVars, BackTypeOK, BackTypes, BackTypeOf
  <1>2. CASE Crash
    BY <1>2, CrashMove
  <1>3. ASSUME NEW t \in Tx, NEW s \in Session, NEW a \in Addr, BackNewTx(t, s, a)
        PROVE  BackTypeOK'
    BY <1>3, NewTxMove, OthersTypes DEF BackNewTx, BackTypeOK, BackTypes, backVars
  <1>4. ASSUME NEW t \in Tx, NEW q \in Requests(req[t].addr, UserOps), pc[t] = "created",
               BackInvoke(t, q)
        PROVE  BackTypeOK'
    BY <1>4, InvokeMove, OthersTypes DEF BackInvoke, BackTypeOK, BackTypes, backVars
  <1>5. ASSUME NEW t \in Tx, GotMap(t), UNCHANGED backVars
        PROVE  BackTypeOK'
    BY <1>5, GotMapMove, OthersTypes DEF BackTypeOK, BackTypes, backVars
  <1>6. ASSUME NEW t \in Tx, BackPerform(t)
        PROVE  BackTypeOK'
    <2>1. pc[t] = "op" /\ OthersRest(t) /\ BackTypeOf(t)'
      BY <1>6, PerformMove
    <2>2. store' \in [Addr -> Maps] /\ meta' \subseteq Addr /\ written' \subseteq Tx
      BY <1>6, <2>1, PerformMove, Effect DEF BackTypeOK, BackTypes
    <2>3. \A u \in Tx : BackTypeOf(u)'
      BY <2>1, OthersTypes
    <2> QED  BY <1>6, <2>2, <2>3, PerformMove DEF BackTypeOK, BackTypes
  <1>7. ASSUME NEW t \in Tx, KeysThrow(t)
        PROVE  BackTypeOK'
    <2>1. \A u \in Tx : BackTypeOf(u)'
      BY <1>7, ThrowMove, OthersTypes
    <2> QED  BY <1>7, <2>1, ThrowMove DEF BackTypeOK, BackTypes
  <1>8. ASSUME NEW t \in Tx, BackEnds(t)
        PROVE  BackTypeOK'
    <2>1. Ends(t)
      BY <1>8, BackEndsMove
    <2>2. durable' \in [Addr -> Maps] /\ durableMeta' \subseteq Addr /\ written' \subseteq Tx
      BY <1>8, BackEndsMove DEF BackTypeOK, BackTypes
    <2>3. \A u \in Tx : BackTypeOf(u)'
      BY <2>1, EndsMove, OthersTypes
    <2> QED  BY <2>1, <2>2, <2>3, EndsMove DEF BackTypeOK, BackTypes
  <1> QED
    BY <1>1, <1>2, <1>3, <1>4, <1>5, <1>6, <1>7, <1>8 DEF BackNext, BackProgress

(* The state of a session over MapDB has its shape in every reachable state, *)
(* lost transactions and refused files included.                            *)
THEOREM BackTypesHold == BackSpec => []BackTypeOK
  BY InitBackTypes, NextBackTypes, PTL DEF BackSpec

-----------------------------------------------------------------------------
(* The history of a key grows by invocations only. *)
LEMMA HistoryOfOthers ==
    ASSUME NEW t \in Tx, OthersRest(t), NEW a \in Addr, NEW k \in Key
    PROVE  \A u \in Tx \ {t} : u \in Involved(a, k)' <=> u \in Involved(a, k)
  BY DEF OthersRest, Involved, Writes, KeyOf

(* newTx and the handlers of a KvTx add nobody to the writers of a key, ... *)
LEMMA HistoryStays ==
    ASSUME NEW t \in Tx, OthersRest(t), NEW a \in Addr, NEW k \in Key,
           \/ pc[t] = "none" /\ pc'[t] = "created"
           \/ pc[t] \in Waiting /\ pc'[t] \in Waiting \cup {"done", "thrown"} /\ req'[t] = req[t]
    PROVE  Involved(a, k)' = Involved(a, k)
  <1>1. t \in Involved(a, k)' <=> t \in Involved(a, k)
    BY DEF Involved, Writes, KeyOf, Waiting
  <1>2. Involved(a, k) \subseteq Tx /\ Involved(a, k)' \subseteq Tx
    BY DEF Involved
  <1>3. \A u \in Tx : u \in Involved(a, k)' <=> u \in Involved(a, k)
    BY <1>1, HistoryOfOthers
  <1> QED  BY <1>2, <1>3

(* ... an invocation adds at most the transaction invoked, ... *)
LEMMA HistoryInvoked ==
    ASSUME NEW t \in Tx, OthersRest(t), pc[t] = "created", pc'[t] \in Waiting,
           NEW a \in Addr, NEW k \in Key
    PROVE  /\ t \notin Involved(a, k)
           /\ t \in Involved(a, k)' <=> req'[t].addr = a /\ Writes(req'[t], k)
           /\ Involved(a, k) \subseteq Involved(a, k)'
  <1>1. t \notin Involved(a, k) /\ (t \in Involved(a, k)' <=> req'[t].addr = a /\ Writes(req'[t], k))
    BY DEF Involved, Writes, KeyOf, Waiting
  <1>2. Involved(a, k) \subseteq Tx
    BY DEF Involved
  <1> QED  BY <1>1, <1>2, HistoryOfOthers

(* ... and a crash, which loses transactions, forgets no writer. *)
LEMMA HistoryOverCrash ==
    ASSUME BackTypeOK, Crash, NEW a \in Addr, NEW k \in Key
    PROVE  Involved(a, k)' = Involved(a, k)
  <1>1. req' = req
    BY CrashMove
  <1>2. ASSUME NEW u \in Tx
        PROVE  u \in Involved(a, k)' <=> u \in Involved(a, k)
    <2>1. CASE pc[u] \in {"none", "done", "thrown"}
      BY <1>1, <2>1, CrashMove DEF Involved, Writes, KeyOf
    <2>2. CASE pc[u] = "created"
      BY <1>1, <2>2 DEF Involved, Writes, BackTypeOK, BackTypeOf
    <2>3. CASE pc[u] \notin {"none", "done", "thrown", "created"}
      BY <1>1, <2>3, CrashMove DEF Involved, Writes, KeyOf
    <2> QED  BY <2>1, <2>2, <2>3
  <1> QED  BY <1>2 DEF Involved

-----------------------------------------------------------------------------
(* MapDB: what is not in the last commit. *)
LEMMA InitUncommitted == BackInit => UncommittedIsPending
  BY DEF BackInit, UncommittedIsPending

(* No handler, commit or crash leaves a difference that nobody stands for. *)
LEMMA NextUncommitted ==
    BackTypeOK /\ UncommittedIsPending /\ [BackNext]_allVars => UncommittedIsPending'
  <1> DEFINE Goal == /\ \A u \in written' : InFlight(u)' \/ u \in unsaved'
                     /\ \A a \in Addr, k \in Key :
                           durable'[a][k] # store'[a][k] => Involved(a, k)' \cap written' # {}
  <1> SUFFICES ASSUME BackTypeOK, UncommittedIsPending, [BackNext]_allVars, up'
               PROVE  Goal
    BY DEF UncommittedIsPending
  <1>1. CASE UNCHANGED allVars
    BY <1>1 DEF allVars, vars, backVars, Involved, InFlight, Writes, KeyOf, UncommittedIsPending
  <1>2. CASE Crash
    BY <1>2, CrashMove
  <1>3. ASSUME NEW t \in Tx, OthersRest(t), up, durable' = durable,
               written \subseteq written', written' \subseteq written \cup {t},
               unsaved \subseteq unsaved',
               t \in written' => InFlight(t)' \/ t \in unsaved',
               \A a \in Addr, k \in Key :
                  /\ Involved(a, k) \subseteq Involved(a, k)'
                  /\ store'[a][k] # store[a][k] => t \in Involved(a, k)' \cap written'
        PROVE  Goal
    <2>1. ASSUME NEW u \in written' PROVE InFlight(u)' \/ u \in unsaved'
      <3>1. CASE u = t
        BY <1>3, <3>1, <2>1
      <3>2. CASE u # t
        <4>1. u \in written /\ u \in Tx
          BY <1>3, <2>1, <3>2 DEF BackTypeOK, BackTypes
        <4> QED  BY <1>3, <3>2, <4>1 DEF UncommittedIsPending, OthersRest, InFlight
      <3> QED  BY <3>1, <3>2
    <2>2. ASSUME NEW a \in Addr, NEW k \in Key, durable'[a][k] # store'[a][k]
          PROVE  Involved(a, k)' \cap written' # {}
      <3>1. CASE store'[a][k] # store[a][k]
        BY <1>3, <3>1
      <3>2. CASE store'[a][k] = store[a][k]
        <4>1. Involved(a, k) \cap written # {}
          BY <1>3, <2>2, <3>2 DEF UncommittedIsPending
        <4> QED  BY <1>3, <4>1
      <3> QED  BY <3>1, <3>2
    <2> QED  BY <2>1, <2>2
  <1>4. ASSUME NEW t \in Tx, NEW s \in Session, NEW b \in Addr, BackNewTx(t, s, b)
        PROVE  Goal
    <2>1. /\ OthersRest(t) /\ up /\ pc[t] = "none" /\ pc'[t] = "created"
          /\ UNCHANGED <<store, durable, written, unsaved>>
      BY <1>4, NewTxMove DEF BackNewTx, backVars
    <2>2. t \in written => t \in unsaved
      BY <2>1 DEF UncommittedIsPending, InFlight, Waiting
    <2>3. \A a \in Addr, k \in Key : Involved(a, k)' = Involved(a, k)
      BY <2>1, HistoryStays
    <2> QED  BY <1>3, <2>1, <2>2, <2>3
  <1>5. ASSUME NEW t \in Tx, NEW q \in Requests(req[t].addr, UserOps), pc[t] = "created",
               BackInvoke(t, q)
        PROVE  Goal
    <2>1. /\ OthersRest(t) /\ up /\ pc'[t] \in Waiting
          /\ UNCHANGED <<store, durable, written, unsaved>>
      BY <1>5, InvokeMove DEF BackInvoke, backVars, Waiting
    <2>2. \A a \in Addr, k \in Key : Involved(a, k) \subseteq Involved(a, k)'
      BY <1>5, <2>1, HistoryInvoked
    <2> QED  BY <1>3, <2>1, <2>2 DEF InFlight
  <1>6. ASSUME NEW t \in Tx, GotMap(t), UNCHANGED backVars
        PROVE  Goal
    <2>1. /\ OthersRest(t) /\ up /\ pc[t] = "getMap" /\ pc'[t] = "op" /\ req' = req
          /\ UNCHANGED <<store, durable, written, unsaved>>
      BY <1>6, GotMapMove DEF backVars
    <2>2. \A a \in Addr, k \in Key : Involved(a, k)' = Involved(a, k)
      BY <2>1, HistoryStays DEF Waiting
    <2> QED  BY <1>3, <2>1, <2>2 DEF InFlight, Waiting
  <1>7. ASSUME NEW t \in Tx, BackPerform(t)
        PROVE  Goal
    <2>1. /\ OthersRest(t) /\ up /\ pc[t] = "op" /\ pc'[t] = "reply" /\ req' = req
          /\ store' \in {store, StoreAfter(t)} /\ written' = written \cup {t}
          /\ UNCHANGED <<durable, unsaved>>
      BY <1>7, PerformMove
    <2>2. \A a \in Addr, k \in Key : Involved(a, k)' = Involved(a, k)
      BY <2>1, HistoryStays DEF Waiting
    <2>3. ASSUME NEW a \in Addr, NEW k \in Key, store'[a][k] # store[a][k]
          PROVE  t \in Involved(a, k)
      <3>1. req[t].addr = a /\ Writes(req[t], k)
        BY <2>1, <2>3, Effect
      <3> QED  BY <2>1, <3>1 DEF Involved
    <2> QED  BY <1>3, <2>1, <2>2, <2>3 DEF InFlight, Waiting
  <1>8. ASSUME NEW t \in Tx, KeysThrow(t)
        PROVE  Goal
    <2>1. /\ OthersRest(t) /\ up /\ pc[t] = "op" /\ pc'[t] = "thrown" /\ req' = req
          /\ written' = written \cup {t} /\ unsaved' = unsaved \cup {t}
          /\ UNCHANGED <<store, durable>>
      BY <1>8, ThrowMove
    <2>2. \A a \in Addr, k \in Key : Involved(a, k)' = Involved(a, k)
      BY <2>1, HistoryStays DEF Waiting
    <2> QED  BY <1>3, <2>1, <2>2
  <1>9. ASSUME NEW t \in Tx, BackEnds(t)
        PROVE  Goal
    <2>1. /\ UNCHANGED <<store, req>> /\ OthersRest(t) /\ up
          /\ pc[t] \in {"reply", "getMap"} /\ pc'[t] \in {"done", "getMap"}
      BY <1>9, BackEndsMove, EndsMove
    <2>2. CASE durable' = store /\ written' = {}
      BY <2>1, <2>2
    <2>3. CASE written' = written \cup {t} /\ unsaved' = unsaved \cup {t} /\ durable' = durable
      <3>1. \A a \in Addr, k \in Key : Involved(a, k)' = Involved(a, k)
        BY <2>1, HistoryStays DEF Waiting
      <3> QED  BY <1>3, <2>1, <2>3, <3>1
    <2> QED  BY <1>9, <2>2, <2>3, BackEndsMove
  <1> QED
    BY <1>1, <1>2, <1>4, <1>5, <1>6, <1>7, <1>8, <1>9 DEF BackNext, BackProgress

(* MapdbPostTXHook: whoever used the file since its last commit is under way, *)
(* or its commit failed, and nothing else differs from that commit.         *)
THEOREM UncommittedAreKnown == BackSpec => []UncommittedIsPending
  BY InitBackTypes, NextBackTypes, InitUncommitted, NextUncommitted, PTL DEF BackSpec

-----------------------------------------------------------------------------
(* MapDB: a process that dies at rest leaves a file that opens and holds it. *)
LEMMA RestIsClean ==
    ASSUME BackTypeOK, UncommittedIsPending, up, AtRest
    PROVE  /\ ~Dirty
           /\ \A a \in Addr, k \in Key : durable[a][k] = store[a][k]
  <1>1. written = {}
    BY DEF UncommittedIsPending, AtRest, BackTypeOK, BackTypes
  <1>2. \A t \in Tx : pc[t] \notin {"getMap", "op"}
    BY DEF AtRest, InFlight, Waiting
  <1> QED  BY <1>1, <1>2 DEF Dirty, UncommittedIsPending

(* At first nothing is written and the session is there. *)
LEMMA InitOnlyWrite == BackInit => OnlyWriteStands
  BY DEF BackInit, Init, OnlyWriteStands, Happened, Waiting

(* A crash at rest spares the only write, for the last commit has it. *)
LEMMA NextOnlyWrite ==
    BackTypeOK /\ UncommittedIsPending /\ OnlyWriteStands /\ [BackNext]_allVars => OnlyWriteStands'
  <1> SUFFICES ASSUME BackTypeOK, UncommittedIsPending, OnlyWriteStands, [BackNext]_allVars, ~torn'
               PROVE  /\ up'
                      /\ \A a \in Addr, k \in Key, t \in Tx :
                            Involved(a, k)' = {t} /\ Happened(t)' => store'[a][k] = LeftBy(req'[t])
    BY DEF OnlyWriteStands, LeftBy
  <1>1. ASSUME ~torn
        PROVE  /\ up
               /\ \A a \in Addr, k \in Key, t \in Tx :
                     Involved(a, k) = {t} /\ Happened(t) => store[a][k] = LeftBy(req[t])
    BY <1>1 DEF OnlyWriteStands
  <1>2. CASE Crash
    <2>1. /\ ~torn /\ up /\ AtRest /\ UNCHANGED <<req, answer>>
          /\ ~Dirty => up' /\ store' = durable
      BY <1>2, CrashMove
    <2>2. up' /\ \A a \in Addr, k \in Key : store'[a][k] = store[a][k]
      BY <2>1, RestIsClean
    <2>3. ASSUME NEW a \in Addr, NEW k \in Key, NEW t \in Tx, Involved(a, k)' = {t}, Happened(t)'
          PROVE  store'[a][k] = LeftBy(req'[t])
      <3>1. Involved(a, k) = {t}
        BY <1>2, <2>3, HistoryOverCrash
      <3>2. pc[t] = "done" /\ answer[t].ok
        BY <1>2, <2>1, <2>3, CrashMove DEF Happened, Waiting
      <3> QED  BY <1>1, <2>1, <2>2, <3>1, <3>2 DEF Happened
    <2> QED  BY <2>2, <2>3
  <1>3. UNCHANGED <<up, torn>> \/ Crash
    <2>1. ASSUME NEW t \in Tx, BackProgress(t) PROVE UNCHANGED <<up, torn>>
      BY <2>1, PerformMove, ThrowMove, BackEndsMove DEF BackProgress, backVars
    <2> QED  BY <2>1 DEF BackNext, BackNewTx, BackInvoke, allVars, backVars
  <1> SUFFICES ASSUME UNCHANGED <<up, torn>>, ~Crash, NEW a \in Addr, NEW k \in Key, NEW t \in Tx,
                      Involved(a, k)' = {t}, Happened(t)'
               PROVE  store'[a][k] = LeftBy(req'[t])
    BY <1>1, <1>2, <1>3
  <1>4. ASSUME Involved(a, k) = {t}, Happened(t)
        PROVE  store[a][k] = LeftBy(req[t])
    BY <1>1, <1>4
  <1>5. CASE UNCHANGED allVars
    BY <1>4, <1>5 DEF allVars, vars, backVars, Involved, Happened, Writes, KeyOf, LeftBy
  <1>6. ASSUME NEW u \in Tx, NEW s \in Session, NEW b \in Addr, BackNewTx(u, s, b)
        PROVE  store'[a][k] = LeftBy(req'[t])
    <2>1. OthersRest(u) /\ pc[u] = "none" /\ pc'[u] = "created" /\ store' = store
      BY <1>6, NewTxMove DEF BackNewTx
    <2>2. Involved(a, k) = {t}
      BY <2>1, HistoryStays
    <2>3. t # u
      BY <2>1, <2>2 DEF Involved
    <2> QED  BY <1>4, <2>1, <2>2, <2>3 DEF OthersRest, Happened
  <1>7. ASSUME NEW u \in Tx, NEW q \in Requests(req[u].addr, UserOps), pc[u] = "created",
               BackInvoke(u, q)
        PROVE  store'[a][k] = LeftBy(req'[t])
    <2>1. OthersRest(u) /\ pc'[u] \in {"getMap", "op"} /\ running'[u] = "user" /\ store' = store
      BY <1>7, InvokeMove DEF BackInvoke
    <2>2. t # u
      BY <2>1 DEF Happened
    <2>3. Involved(a, k) = {t}
      <3>1. Involved(a, k) \subseteq {t}
        BY <1>7, <2>1, HistoryInvoked DEF Waiting
      <3> QED  BY <2>1, <2>2, <3>1, HistoryOfOthers
    <2> QED  BY <1>4, <2>1, <2>2, <2>3 DEF OthersRest, Happened
  <1>8. ASSUME NEW u \in Tx, GotMap(u)
        PROVE  store'[a][k] = LeftBy(req'[t])
    <2>1. /\ OthersRest(u) /\ pc[u] = "getMap" /\ pc'[u] = "op"
          /\ UNCHANGED <<store, running, req, reply, answer>>
      BY <1>8, GotMapMove
    <2>2. Involved(a, k) = {t}
      BY <2>1, HistoryStays DEF Waiting
    <2> QED  BY <1>4, <2>1, <2>2 DEF OthersRest, Happened, Waiting
  <1>9. ASSUME NEW u \in Tx, BackPerform(u)
        PROVE  store'[a][k] = LeftBy(req'[t])
    <2>1. /\ OthersRest(u) /\ pc[u] = "op" /\ pc'[u] = "reply"
          /\ UNCHANGED <<req, running, answer>>
          /\ store' \in {store, StoreAfter(u)}
          /\ reply'[u].ok => store' = StoreAfter(u)
      BY <1>9, PerformMove
    <2>2. Involved(a, k) = {t}
      BY <2>1, HistoryStays DEF Waiting
    <2>3. req[t].addr = a /\ Writes(req[t], k)
      BY <2>2 DEF Involved
    <2>4. CASE u = t /\ running[t] = "user"
      <3>1. reply'[t].ok
        BY <2>1, <2>4 DEF Happened, Waiting
      <3> QED  BY <2>1, <2>3, <2>4, <3>1, Effect
    <2>5. CASE u = t /\ running[t] # "user"
      <3>1. Happened(t)
        BY <2>1, <2>5 DEF Happened, Waiting
      <3>2. store'[a][k] = store[a][k]
        BY <2>1, <2>5, Effect
      <3> QED  BY <1>4, <2>1, <2>2, <3>1, <3>2
    <2>6. CASE u # t
      <3>1. ~(req[u].addr = a /\ Writes(req[u], k))
        BY <2>1, <2>2, <2>6 DEF Involved
      <3>2. store'[a][k] = store[a][k]
        BY <2>1, <3>1, Effect
      <3>3. Happened(t)
        BY <2>1, <2>6 DEF Happened, OthersRest
      <3> QED  BY <1>4, <2>1, <2>2, <3>2, <3>3
    <2> QED  BY <2>4, <2>5, <2>6
  <1>10. ASSUME NEW u \in Tx, KeysThrow(u)
         PROVE  store'[a][k] = LeftBy(req'[t])
    <2>1. /\ OthersRest(u) /\ pc[u] = "op" /\ pc'[u] = "thrown"
          /\ UNCHANGED <<store, running, req, reply, answer>>
      BY <1>10, ThrowMove
    <2>2. Involved(a, k) = {t}
      BY <2>1, HistoryStays DEF Waiting
    <2> QED  BY <1>4, <2>1, <2>2 DEF OthersRest, Happened, Waiting
  <1>11. ASSUME NEW u \in Tx, BackEnds(u)
         PROVE  store'[a][k] = LeftBy(req'[t])
    <2>1. Ends(u)
      BY <1>11, BackEndsMove
    <2>2. /\ UNCHANGED <<store, req>> /\ OthersRest(u)
          /\ pc[u] \in {"reply", "getMap"} /\ pc'[u] \in {"done", "getMap"}
          /\ answer'[u] = IF running[u] = "user" THEN Outcome(u) ELSE answer[u]
          /\ pc'[u] = "getMap" => running'[u] # "user"
      BY <2>1, EndsMove
    <2>3. Involved(a, k) = {t}
      BY <2>2, HistoryStays DEF Waiting
    <2>4. CASE u = t
      <3>1. answer'[t].ok
        BY <2>2, <2>4 DEF Happened
      <3>2. running[t] = "user" => pc[t] = "reply" /\ reply[t].ok
        BY <2>2, <2>4, <3>1 DEF Outcome, Failed
      <3>3. Happened(t)
        BY <2>2, <2>4, <3>1, <3>2 DEF Happened, Waiting
      <3> QED  BY <1>4, <2>2, <2>3, <3>3
    <2>5. CASE u # t
      BY <1>4, <2>2, <2>3, <2>5 DEF OthersRest, Happened
    <2> QED  BY <2>4, <2>5
  <1> QED
    BY <1>5, <1>6, <1>7, <1>8, <1>9, <1>10, <1>11 DEF BackNext, BackProgress

(* While MapDB's process dies at rest only, its successor opens the file, and *)
(* a write that was acknowledged and that nobody else wrote over is in it.  *)
THEOREM AcknowledgedOutlives == BackSpec => []AcknowledgedSurvives
  <1>1. OnlyWriteStands => AcknowledgedSurvives
    BY DEF OnlyWriteStands, AcknowledgedSurvives, Happened, LeftBy
  <1> QED
    BY <1>1, InitBackTypes, NextBackTypes, InitUncommitted, NextUncommitted, InitOnlyWrite,
       NextOnlyWrite, PTL DEF BackSpec

-----------------------------------------------------------------------------
(* MapDB: the list of stored addresses never runs ahead of the file. *)
LEMMA InitListing == BackInit => Listing
  BY DEF BackInit, Init, Listing, Listed, InFile

(* Who deletes after a step that invokes nothing deleted before it. *)
LEMMA DeletersStay ==
    ASSUME NEW t \in Tx, OthersRest(t), NEW a \in Addr, NobodyDeletes(a)',
           \/ pc[t] = "none"
           \/ pc'[t] # "none" /\ req'[t] = req[t]
           \/ req[t].op = "none"
    PROVE  NobodyDeletes(a)
  <1>1. ASSUME NEW u \in Tx \ {t}, pc[u] # "none", req[u].addr = a
        PROVE  req[u].op \notin {"del", "clear"}
    BY <1>1 DEF OthersRest, NobodyDeletes
  <1>2. pc[t] # "none" /\ req[t].addr = a => req[t].op \notin {"del", "clear"}
    BY DEF NobodyDeletes
  <1> QED  BY <1>1, <1>2 DEF NobodyDeletes

(* storeMeta lists an address after its metadata, and after the commit. *)
LEMMA NextListing == BackTypeOK /\ Listing /\ [BackNext]_allVars => Listing'
  <1> SUFFICES ASSUME BackTypeOK, Listing, [BackNext]_allVars,
                      NEW a \in Addr, NobodyDeletes(a)'
               PROVE  Listed(a)' /\ InFile(a)'
    BY DEF Listing
  <1>1. NobodyDeletes(a) => Listed(a) /\ InFile(a)
    BY DEF Listing
  <1>2. CASE UNCHANGED allVars
    BY <1>1, <1>2 DEF allVars, vars, backVars, NobodyDeletes, Listed, InFile
  <1>3. CASE Crash
    <2>1. \A u \in Tx : pc'[u] # "reply"
      BY <1>3, CrashMove
    <2> QED  BY <1>3, <2>1, CrashMove DEF Listed, InFile
  <1>4. ASSUME NEW t \in Tx, OthersRest(t), pc'[t] # "reply", NobodyDeletes(a),
               UNCHANGED <<meta, straddrCache, durableMeta>>, unsaved' \in {unsaved, unsaved \cup {t}}
        PROVE  Listed(a)' /\ InFile(a)'
    BY <1>1, <1>4 DEF Listed, InFile, OthersRest
  <1>5. ASSUME NEW t \in Tx, NEW s \in Session, NEW b \in Addr, BackNewTx(t, s, b)
        PROVE  Listed(a)' /\ InFile(a)'
    <2>1. /\ OthersRest(t) /\ pc[t] = "none" /\ pc'[t] = "created"
          /\ UNCHANGED <<meta, straddrCache, unsaved, durableMeta>>
      BY <1>5, NewTxMove DEF BackNewTx, backVars
    <2> QED  BY <1>4, <2>1, DeletersStay
  <1>6. ASSUME NEW t \in Tx, NEW q \in Requests(req[t].addr, UserOps), pc[t] = "created",
               BackInvoke(t, q)
        PROVE  Listed(a)' /\ InFile(a)'
    <2>1. /\ OthersRest(t) /\ pc'[t] \in {"getMap", "op"} /\ req[t].op = "none"
          /\ UNCHANGED <<meta, straddrCache, unsaved, durableMeta>>
      BY <1>6, InvokeMove DEF BackInvoke, BackTypeOK, BackTypeOf, backVars
    <2> QED  BY <1>4, <2>1, DeletersStay
  <1>7. ASSUME NEW t \in Tx, GotMap(t), UNCHANGED backVars
        PROVE  Listed(a)' /\ InFile(a)'
    <2>1. /\ OthersRest(t) /\ pc'[t] = "op" /\ req' = req
          /\ UNCHANGED <<meta, straddrCache, unsaved, durableMeta>>
      BY <1>7, GotMapMove DEF backVars
    <2> QED  BY <1>4, <2>1, DeletersStay
  <1>8. ASSUME NEW t \in Tx, BackPerform(t)
         PROVE  Listed(a)' /\ InFile(a)'
    <2>1. /\ OthersRest(t) /\ pc[t] = "op" /\ pc'[t] = "reply"
          /\ UNCHANGED <<straddrCache, running, req, unsaved, durableMeta>>
          /\ meta' \in {meta, MetaAfter(t)} /\ (reply'[t].ok => meta' = MetaAfter(t))
      BY <1>8, PerformMove
    <2>2. NobodyDeletes(a)
      BY <2>1, DeletersStay
    <2>3. a \in meta => a \in meta'
      <3>1. CASE running[t] = "drop"
        <4>1. req[t].op \in {"del", "clear"}
          BY <3>1 DEF BackTypeOK, BackTypeOf
        <4>2. req[t].addr # a
          BY <2>1, <2>2, <4>1 DEF NobodyDeletes
        <4> QED  BY <2>1, <4>2, Effect
      <3> QED  BY <2>1, <3>1, Effect
    <2>4. running[t] = "store" /\ reply'[t].ok /\ req[t].addr = a => a \in meta'
      BY <2>1, Effect
    <2> QED  BY <1>1, <2>1, <2>2, <2>3, <2>4 DEF Listed, InFile, OthersRest
  <1>9. ASSUME NEW t \in Tx, BackEnds(t)
         PROVE  Listed(a)' /\ InFile(a)'
    <2>1. Ends(t)
      BY <1>9, BackEndsMove
    <2>2. /\ UNCHANGED <<meta, req>> /\ OthersRest(t) /\ pc'[t] \in {"done", "getMap"}
          /\ \A s \in Session :
                straddrCache'[s][a] > 0 =>
                   \/ straddrCache[s][a] > 0
                   \/ a = req[t].addr /\ running[t] = "store" /\ pc[t] = "reply" /\ reply[t].ok
      BY <2>1, EndsMove
    <2>3. NobodyDeletes(a)
      BY <2>2, DeletersStay
    <2>4. \A s \in Session : straddrCache'[s][a] > 0 => a \in meta
      BY <1>1, <2>2, <2>3 DEF Listed
    <2>5. Listed(a)'
      BY <1>1, <2>2, <2>3, <2>4 DEF Listed, OthersRest
    <2>6. InFile(a)'
      <3>1. CASE unsaved' = {}
        <4>1. durableMeta' = meta
          BY <1>9, <3>1, BackEndsMove
        <4> QED  BY <2>4, <4>1 DEF InFile
      <3> QED  BY <3>1 DEF InFile
    <2> QED  BY <2>5, <2>6
  <1>10. ASSUME NEW t \in Tx, KeysThrow(t)
         PROVE  Listed(a)' /\ InFile(a)'
    <2>1. /\ OthersRest(t) /\ pc'[t] = "thrown" /\ req' = req
          /\ UNCHANGED <<meta, straddrCache, durableMeta>> /\ unsaved' = unsaved \cup {t}
      BY <1>10, ThrowMove
    <2> QED  BY <1>4, <2>1, DeletersStay
  <1> QED
    BY <1>2, <1>3, <1>5, <1>6, <1>7, <1>8, <1>9, <1>10 DEF BackNext, BackProgress

(* StoreMetaKVHook over MapDB: while every commit succeeds and nobody        *)
(* deletes, an address in the list of stored addresses has its metadata in  *)
(* the file.                                                                *)
THEOREM ListingIsBehindTheFile == BackSpec => []ListedIsDurable
  <1>1. Listing => ListedIsDurable
    BY DEF Listing, InFile, NobodyDeletes, ListedIsDurable
  <1> QED
    BY <1>1, InitBackTypes, NextBackTypes, InitListing, NextListing, PTL DEF BackSpec
=============================================================================
