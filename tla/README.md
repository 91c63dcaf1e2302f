# A TLA+ development of kvdn

kvdn puts a transaction interface, change events and metadata on top of the
maps that Vert.x offers (local maps, cluster-wide maps, or the maps of an
extension: MapDB, Ignite, Hazelcast).  This directory holds TLA+ modules
translated from its source, TLC configurations that check them on small
instances, and proofs of theorems that hold for every instance.

Paths below are relative to the repository; `kvdn/` stands for
`src/main/groovy/net/iowntheinter/kvdn/`.

## 1. Inventory

| component | source | state | operations | talks to |
|---|---|---|---|---|
| `KvTx`, `KvdnTX` | `kvdn/KvdnTX.groovy`, `kvdn/storage/kv/impl/KvTx.groovy` | `dirty`, `type`, `txid` per object | submit, set, get, clear, del, getKeys, size; startTX, bailTx | asks `D.getMap` for the map, the map for the operation, the key provider, then `session.finishTx`; publishes `_KVDN_+addr`, `_KVDN_-addr`, `_KVDN_Xaddr` |
| `KvdnSession` | `kvdn/storage/KvdnSession.groovy` | `outstandingTX`, `preHooks`, `postHooks`, `txflags`, `keyprov`, `initalized`; Vert.x-wide `accessCache` | constructor, init, newTx, finishTx, onWrite, onDelete | runs the hook chain behind every transaction |
| `StoreMetaKVHook` | `kvdn/storage/meta/impl/StoreMetaKVHook.groovy` | `straddrCache`, the addresses this session stored | storeMeta, checkIfEmpty, remove | starts transactions of its own on the address and on `__METADATA_MAP` |
| default data | `kvdn/storage/kv/data/DefaultDataImpl.groovy`, `kvdn/storage/kv/local/shimAsyncMap.groovy` | the local map, shared by all sessions of a Vert.x | the `AsyncMap` operations, inline | Vert.x shared data |
| key providers | `LocalKeyProvider`, `MapdbKeyProvider` (`IgKeyProvider`, `HzKeyProvider`: their constructors throw) | none; the keys are those of a local map, or of the MapDB map | setKey, deleteKey, getKeys | called between the map and finishTx |
| MapDB extension | `extensions/mapdb` | one database file without a log, a post hook that commits it | getMap, commit | hook chain; no shutdown hook, as nothing constructs `MapdbShutdownHook` |
| Ignite, Hazelcast extensions | `extensions/ignite`, `extensions/hazelcast` | a JDBC map store; the rest cannot be constructed (section 6) | load, store, delete | Hazelcast, a database |
| `DistributedWaitGroup`, `ExclusiveTask`, `Loader` | `util` | tokens seen, ran; a lock; the extension list | ack, onChannel, onKeys, abort; exec, execWithRetry; load | event bus, timers, locks |
| HTTP server, service proxy | `server`, `service-proxy` | one session each | requests to transactions | sessions |
| C++ client | `Client/cpp` | connection state, handlers, reply handlers, ping timer | Connect, Send, Publish, RegisterHandler, Close | the event bus bridge |
| CRDTs and key synchronisation | `project` (legacy) | counters, sets with tags; a key set per address | add, remove, merge; peer updates | event bus |

What is hard to get right here: hooks run transactions inside the end of a
transaction; a callback can come from any of four nested transactions and each
error path has to keep the chain going; `straddrCache` is a cache of a shared
map, filled and emptied by answers that overtake each other; sessions share maps
but not caches; maps may fail before or after their effect; and a cluster's maps
answer later than a local one's, so that orders which no local test sees happen.

What makes each component correct:

* transactions: one callback, on every path; the answer is that of one instant;
  change events for the successful writes and for no others;
* session: `outstandingTX` is the set of transactions between newTx and finishTx;
* metadata: `__METADATA_MAP` has a key for each address that holds data;
* MapDB: the file holds what was acknowledged, and opens again, whenever the
  process dies while nothing is under way and every commit was made;
* JDBC map store: what Hazelcast takes for stored is committed, whatever other
  threads do to the shared connection;
* wait group: triggers once, after all tokens, or is aborted;
* HTTP server: a status tells the truth about the transaction behind it;
* C++ client: every pending reply is answered or reported, close ends all threads;
* CRDTs: replicas that saw the same updates agree, and keep what removes promise.

## 2. Modules

| module | what it is |
|---|---|
| `KvOps` | the seven operations as functions of the map they run on: arguments, effect, answer |
| `KvAtomic` | the abstract specification: each transaction happens at one instant between call and callback |
| `KvTx` | the detailed one: sessions, transactions, finishTx, the metadata hook and its nested transactions |
| `MCKvTx` | `KvTx` for TLC |
| `KvTxProofs` | the theorems about `KvTx`: types, outstanding transactions, events |
| `KvTxMetaProofs` | those about the metadata that `StoreMetaKVHook` keeps |
| `KvTxRefinement` | the theorem that `KvTx` implements `KvAtomic` |
| `KvBackend`, `MCKvBackend` | `KvTx` over MapDB: its commit hook, its key provider, processes that die |
| `KvBackendProofs` | the theorems about `KvBackend` |
| `Server`, `MCServer` | the HTTP server and the service over `KvAtomic`: setup, requests, exceptions, status codes |
| `ServerProofs` | the theorems about `Server` |
| `JdbcStore`, `MCJdbcStore` | Hazelcast's map store over a shared database connection |
| `JdbcStoreProofs` | the theorems about `JdbcStore` |
| `WaitGroup`, `MCWaitGroup` | the wait group, its listeners and timers |
| `WaitGroupProofs` | the theorems about `WaitGroup` |
| `VertxBus` | the C++ event bus client: API threads, I/O thread, ping thread, connection, bridge |
| `MCVertxBus` | `VertxBus` for TLC |
| `VertxBusProofs` | the theorems about `VertxBus` |

`KvAtomic` and `KvTx` share `KvOps`; `KvTx` instantiates `KvAtomic` with its
refinement mapping.  `KvBackend` extends `KvTx`: its actions are those of `KvTx`
with a conjunct for MapDB, a getKeys that throws, and the crash.  `Server` instantiates `KvAtomic` and
lets a request's handler and callback be the caller of its transactions, so that
what `KvTx` was shown to implement is what the server builds on.  `JdbcStore` sits
below a Hazelcast map, `WaitGroup` beside the sessions; `VertxBus` meets the rest only at the event bus bridge and
stands alone.

### KvTx

A step is one Vert.x handler run to its end.  A user transaction has at most one
`KvTx` object at work at a time (the user's, then one after the other those its
hook starts), so `running[t]` names the object and `pc[t]` how far it is:

| state | code |
|---|---|
| `store[a]`, `meta` | the map at address `a`; the keys of `__METADATA_MAP` |
| `outstandingTX[s]` | the field of that name; a txid is the pair of the user transaction and the role of the object |
| `straddrCache[s][a]` | how often the list of that session's hook holds `a` |
| `accessCache` | the Vert.x-wide local map finishTx writes |
| `pc[t]` | `created` (newTx) - `getMap` (startTX ran, `D.getMap` is out) - `op` (the map's operation is out) - `reply` (the map has answered) - `done` |
| `answer[t]` | what the user's callback is, or will be, given |
| `published` | the change events sent, by the object that sent them |

| action | code |
|---|---|
| `NewTx`, `NewNullTx` | `newTx`; the latter for CTR and LCK, which record a txid and return null |
| `Invoke` | the caller's set, get, ...: startTX, the pre hooks, `D.getMap` (getKeys asks the key provider at once) |
| `GotMap` | the handler of `D.getMap` starts the operation |
| `Perform`, `PerformFailed` | the map; a failure may come before or after the effect |
| `UserDone` | finishTx or bailTx of the user's object when the hook has nothing to do, to the event and the callback |
| `UserStores`, `StoreDone` | the same with storeMeta's transaction in between, up to its `set` and from its answer on |
| `UserChecks`, `SizeDone`, `SizeIsZero`, `DropDone` | checkIfEmpty's size and remove's del |

A failed `D.getMap` takes the same way as a failed reply (`Finishes`).
`Scheduled` is the difference between local and cluster maps: local maps answer
inline, so with `Serial = TRUE` a transaction runs from invocation to callback
before a caller does anything else.  `LiveKeys = FALSE` is the cluster in which
the configured key provider could not be constructed and `LocalKeyProvider` is
used (`KvdnSession.groovy` 161-176).

`Atomic` is the refinement: with the map's own step as the instant of a
transaction, everything the hook does in between is invisible to callers, or a
stutter.  A failed transaction may have taken effect; that is all a caller of a
cluster map can know.

### KvBackend

| state | code |
|---|---|
| `durable`, `durableMeta` | the file as of the last `db.commit()` that succeeded |
| `written` | the transactions that used the file since then: with one, the header's checksum may be stale |
| `unsaved` | those of them that ended without a commit that succeeded |
| `up` | a process has the file open and a session on it |
| `torn` | history: a process died with something under way or unsaved |

| action | code |
|---|---|
| `BackNewTx`, `BackInvoke` | those of `KvTx`, in a process that is up |
| `BackPerform` | the map, or `MapdbKeyProvider.getKeys` |
| `KeysThrow` | what `createOrOpen` throws in `getKeys` passes the caller by: no finishTx, no hook, no callback |
| `BackEnds` | one of the handlers that end a KvTx, with `MapdbPostTXHook.call` (`Commit`) as the first of its hooks |
| `Crash` | the process dies (external), and the constructor of the next one's `MapdbDataImpl` opens the file (`Reopen`) |

The file is made by `fileDB().make()` without `transactionEnable`: there is no log, and
after a death between a write and a commit the header's checksum is stale.  `make()`
then refuses the file, and with it all that was ever acknowledged is out of reach:
`Reopen` leaves the system down.  Should the header happen to fit, `Reopen` says
nothing about what is found: any map, and any metadata.  Nothing closes the database
properly, so this is what every end of a process under load comes to.  A file whose
last use was a commit opens and holds what that commit saved.  One process has the
file, and one session in it commits.

### Server

| state | code |
|---|---|
| `session` | `KvdnServiceImpl.session`: `absent` before setup, `init` while zeroState asks, `ready`, `stuck` when it failed |
| `contents`, `call`, `stage`, `result`, `events` | the transactions, those of `KvAtomic`, one per request |
| `status` | the response: `open`, the code it was ended with, `gone` when the client has disconnected |
| `before` | history: the requests that were over when a request arrived |

| action | code |
|---|---|
| `Setup`, `Initialised`, `InitFails` | `KvdnServiceImpl.setup`, `KvdnSession.init`, `zeroState` |
| `BadRequest` | a write without a body: 400 |
| `NotReady` | newTx throws, or there is no session: the router's 500, or 501 where the handler has a `catch`.  A submit without a session is a 500 all the same: its `catch` ends the response with the message of a NullPointerException, which has none, and `end(null)` throws again |
| `Start` | a route's handler, newTx and the operation |
| `MapAnswers` | the transaction happens, or fails |
| `CallBack`, `NoMap` | the callback: `Endings` says which status it may end the response with, or that it throws |
| `Disconnect` | the client goes away |

`filterAddr` and the separator token are the constant `Straddr`, which need not be
injective: `/a/b_c` and `/a_b/c` are one address.  Whether `null.toString()` throws
in statically compiled Groovy is left open, so a get of a missing value may be
answered or not.

### JdbcStore

A step is one JDBC call, or one synchronized `getConnection` with the statement
that follows it.

| state | code |
|---|---|
| `autoCommit` | the driver's default for new connections |
| `table`, `work` | the committed rows; the rows the open connection sees |
| `conn`, `linked` | `_connection`: none, open, broken without `isClosed` knowing, closed; the threads that hold the current one |
| `told` | what the read just made answered |
| `pc`, `job`, `todo`, `key`, `exists` | per thread: its place, the operation, the keys its loop has not come to, the key it is at, what keyExists answered |
| `written`, `dropped` | history: what callers wrote last; the keys whose last write met an exception |

| action | code |
|---|---|
| `StoreConnects`, `StoreAllThrows` | the next round of `store`'s or `storeAll`'s loop |
| `KeyExists`, `WriteRow`, `CommitRow`, `WriteFails` | the private `store` with `createStorePreparedStatement` |
| `DeleteRow`, `DeleteFails` | `delete`, `deleteAll` |
| `Load` | `load`, of `loadAll` too: the row, or null, also for any exception it swallows |
| `LoadAllKeys` | `loadAllKeys`: the keys, or those it had when an exception came |
| `Begin`, `Loss`, `Restart` | Hazelcast, the database and the member (external) |

A failed statement is taken to leave the rest of its database transaction alone,
as the documented MySQL does.

### WaitGroup

| state | code |
|---|---|
| `loop` | the event loop that each listener, and whoever calls ack itself, runs on |
| `events`, `own` | the map: its true entries, and those a loop put itself |
| `ran`, `busy`, `triggered` | the flag, by the loops that set it; the loops between the put and the scan; the calls of `triggercb` |
| `inbox`, `listening`, `timer` | a consumer, the messages on their way to it, its abort timer |

| action | code |
|---|---|
| `Ack`, `Trigger`, `NoTrigger` | `ack`, and the two outcomes of `check` |
| `Listen`, `Receive`, `Expire`, `Abort` | `onChannel` and `onKeys`, their consumers, `abortTimer` |
| `Call` | a direct call of `ack` |
| `Send` | the event bus (external) |

The group's fields are plain: a loop sees its own writes, and any part of another
loop's.  So `NoTrigger` needs no more than a token the loop has not put itself.

### VertxBus

A step is what a thread does under one lock, or between two points at which
another thread's step can make a difference: a call tests `state_` without a lock
and only later touches the handlers, and later still the connection.

| state | code |
|---|---|
| `state_`, `do_ping_` | the fields; atomic variables |
| `asio_thread_` | `null`, a `joinable` thread, or one already `joined` whose object is still held |
| `handlers` | the length of `handler_map_[address]`; under `hm_lock_` |
| `reply_handlers_` | the keys of the map; under `rh_lock_` |
| `io`, `perpetual` | how far the I/O thread is in its handlers, whether `start_perpetual` holds its loop |
| `conn` | the websocketpp connection: `queued` by Connect, `open`, `closing` after the close frame, `over` |
| `ping`, `ping_lock_` | the ping thread: `waits` on its condition variable (or for its mutex), `sends` a ping under the mutex, `ended` before it is joined; who holds the mutex |
| `pc`, `frame` | per caller: its place in a call, and the frame it will hand to `client_.send` |
| `drawn`, `accepted` | history: the reply addresses drawn, those whose Send returned true |
| `up`, `down`, `registered` | the WebSocket and the bridge |

| action | code (`Client/cpp/VertxBus.cpp`) |
|---|---|
| `SendStarts`, `InsertReplyHandler`, `Write` | `SendOrPub`: the test and the address, the handler, the frame |
| `RegisterStarts`, `Push`, `UnregisterStarts`, `Erase` | `RegisterHandler`, `UnregisterHandler`: test, then the list; the frame goes by `Write` |
| `CloseStarts`, `CloseFrame`, `SetClosing` | `Close`: test, `client_.close`, the state |
| `ConnectStarts`, `JoinOld`, `StartConnection` | `Connect`: test, the join of the previous I/O thread, the new one |
| `WaitStarts`, `WaitEnds` | `WaitClosed`, with the exception a join of a joined thread throws |
| `HandshakeDone`, `OnOpen`, `StartPingInterval` | the open handler and the thread it starts |
| `OnMessage`, `OnFail` | the message and fail handlers |
| `ConnectionEnds`, `OnClose`, `StopPingInterval`, `JoinPing`, `ClearHandlers` | the end of a connection and the close handler |
| `RunReturns` | the end of the I/O thread's function |
| `PingTimesOut`, `PingSent`, `PingEnds` | the ping thread: its wait ends with the mutex, `SendPing` returns and the mutex goes, it sees `do_ping_` unset |
| `Bridge` | the Vert.x SockJS bridge (external) |

Any thread may send, register and unregister; `Owner` alone connects, closes and
waits, which is how the client is used: two threads that call Connect at once
race on a `unique_ptr`.  Messages to registered handlers change no state of the
client and are left out, and so is the frame of a ping, which the bridge does not
answer; that it is sent under `ping_lock_` is not.

## 3. Runs

| run | instance | shows |
|---|---|---|
| `KvTxOps` | 2 transactions, 2 sessions, 2 keys, all operations, failures | `EventsExact`, `Atomic`, `Answered` |
| `KvTxRaces` | 3 transactions, 2 sessions, set, get, clear, failures | `TypeOK`, `OutstandingExact`, `UndeletedIsCovered` |
| `KvTxSerial` | 4 transactions, 1 session, 2 keys, all operations, local maps | `MetaExact` |
| `KvTxMetaRace` | 3 transactions, 1 session, set, del | `DataHasMeta` fails |
| `KvTxTwoSessions` | 4 transactions, 2 sessions, set, del, local maps | `DataHasMeta` fails |
| `KvTxClusterKeys` | 2 transactions, set, getKeys, fallback key provider | `Atomic` fails |
| `KvBackend` | 2 transactions, 1 session, 2 keys, five operations, failures, 1 crash | `AcknowledgedSurvives`, `UncommittedIsPending`, `ListedIsDurable`, `AnsweredOrLost` |
| `Server` | 2 requests, 3 paths, 2 addresses, 2 keys, 2 values, failures | `TypeOK`, `AnsweredAsAnnounced`, `RefusedWritesNothing`, `AnsweredIsVisible`, `Responds` |
| `JdbcStore` | 2 threads, 2 keys, 2 values, 1 loss or restart | `TypeOK`, `StoredIsCommitted`, `LoadsAnswerWrites`, `OnlyDeletesLinger` |
| `WaitGroup` | 2 tokens and a stray one, 1 listener, 1 caller, 2 event loops, a timeout | `TypeOK`, `TimersMatchConsumers`, `TriggersOncePerLoop`, `Completes`, `SentIsResolved` |
| `VertxBus` | 2 API threads, 2 connections, 1 reply address, 1 handler, 2 frames under way | `TypeOK`, `QuietWhenOff`, `IoIsJoinable`, `OpenIsLive`, `AcceptedAreCleared`, `RepliesAwaited`, `ShutsDown` |
| `VertxBusThreads` | 2 API threads, 1 connection | `RegistrationAgrees` fails |

Bounds.  The only bounds are the sets of transactions, sessions, addresses, keys
and values.  One address suffices for properties of one address: nothing in the
code lets two user addresses meet, `__METADATA_MAP` is kept apart as `meta`.  Two
transactions are enough for every pair of steps to overlap; three, one of them
clearing, for a list that holds an address twice and for an emptiness check that
a set overtakes; two keys distinguish del of one key from emptiness, and
`MCDigest` lets submit collide with a named key.  One value suffices because no
operation compares values.  `CHECK_DEADLOCK` is off: callers may stop.

For `VertxBus`: two connections, so that what the first leaves behind (its
thread, its maps, a late `SetClosing`, a caller halfway through a call) meets the
second; two callers, so that two calls meet; one reply address, as addresses do
not interact; one handler, since only the change between none and some is
announced; two frames under way when a call starts, so that the calls of two
threads can be waiting in either order.  `ReplyAddress` being used up, a thrown
`WaitClosed` and `MaxConnects` stop the system, so `CHECK_DEADLOCK` is off.

For `KvBackend`: two transactions, so that a commit or a crash falls between any two
steps of another; `MaxCrashes` (counter `crashes`) is one, because a second crash
finds again a file with a last commit, and the next process starts with nothing else.  For `Server`: two requests, so that
a read meets an earlier or an overlapping write; two of the three paths share an
address; two values tell an old from a new one.  For `JdbcStore`: two threads on
the shared connection, each with a batch of up to two keys, and one loss of the
connection or restart anywhere; `MaxLosses` bounds it, and `losses` is the counter.
Threads, keys and values are treated alike, so the run uses their symmetry; it checks
invariants only.
For `WaitGroup`: two tokens are the least that can be incomplete, two loops the
least that can overlap, one listener beside the caller's direct acks.

Fairness.  `FairSpec` assumes that an invoked transaction's handlers run and that
a map answers each call, with a success or a failure.  Vert.x promises the first;
the second is the contract of `AsyncMap`, and an implementation that breaks it
(`shimAsyncMap.remove`, see the hazards) is not covered; MapDB's getKeys breaks it
too, by throwing, and `KvBackend` has that as a step of its own.  Nothing is assumed of
callers, nor that a process does not crash.  In `Server` the transactions progress
for the same reason; nobody need call setup, and a client may go or stay.
`JdbcStore` states safety only and assumes no fairness.  In `WaitGroup` an event loop serves its
queue in order: a message or a due timer gets its turn however often the loop is
busy in between, which is strong fairness; nobody need send or call ack.  In
`VertxBus`, a call that has begun goes on, the ping thread sends a ping it has begun
and wakes up once `do_ping_` is unset (its wait has a timeout, or is notified), the
close handler gets `ping_lock_` between two pings (strong fairness: a mutex is free
again and again, for the length of a ping interval), and the I/O thread runs its handlers; a handshake ends
and a closing handshake ends, both by websocketpp's timers.  That a connection
which is open ends or gets a message is not assumed, nor that anyone calls, nor
that the bridge answers.

What the violations say:

* `KvTxMetaRace`: between the size that answers 0 and the del of the metadata, a
  set of the same session stores a value and skips its metadata because the list
  still holds the address.  The metadata goes, the value stays, and because the
  list then loses the address only the next set repairs it.
* `KvTxTwoSessions`: without any overlap, a session whose list holds the address
  never learns that another session removed the key.
* `KvTxClusterKeys`: a set that was answered with success, and then getKeys
  answers the empty set.

* `VertxBusThreads`: one thread's RegisterHandler files the first handler of an
  address, another's UnregisterHandler removes it and sends its frame first.  The
  bridge ends with a registration that nothing handles; with the roles swapped, a
  handler never gets a message.

What the runs found without a property of their own, because no document of the
repository says otherwise or because the property states it as an exception:

* `Server`: the stand-alone server serves nothing.  `HTTPServer.groovy` 32 makes
  its own `KvdnServiceImpl`, neither its `init` nor `kvdn-start-httpserver.groovy`
  (the main verticle of the jar) calls `setup`, and every request that needs a
  transaction ends in `NotReady`.  The README's "use kvdn as a stand alone http or
  tcp server" holds only if a program calls setup itself.
* `Server`: a getKeys that fails is never answered, since the interceptor asks a
  failed result for its keys.
* `Server`: `zeroState` tests with `assert` and catches Exceptions; a failed
  Groovy assert is an Error, so a failed init tells nobody.
* `Server`: a submit before setup is answered 500, not the 501 its `catch` is meant
  to send.
* `KvBackend`: after an unclean stop MapDB may refuse the file, and no log can
  bring back even what was committed long before.
* `KvBackend`: a commit that fails is reported as a success.
* `KvBackend`: an exception of MapDB in getKeys is thrown at the caller; its callback
  is not called and the transaction stays in `outstandingTX`.
* `JdbcStore`: without automatic commits a delete waits for the next store, and
  is undone by a loss of the connection; and a load that meets an exception says that
  the key has no value.
* `WaitGroup`: a group without tokens never triggers; a group shared by two loops can
  trigger on each.  `Loader.load`, which would use a group, therefore never calls back
  for an empty list, and for any other it throws: its `logger` is never assigned.

What holds in spite of them: `MetaExact` with one session on local maps, and
`UndeletedIsCovered` for any interleaving as long as nobody deletes.  `KvTxSerial`
has no failures, and of `UndeletedIsCovered` the part about answered writes asks for
maps that do not fail, which those of `KvTxRaces` may: the theorem
`UndeletedAreCovered` is what covers that part.

What the `VertxBus` run does not say: `RepliesAwaited` is stated for the first
connection, because with two threads a Send that began on a connection may file
its handler, lose it to that connection's `ClearHandlers`, and write its frame on
the next one.  A Close whose `SetClosing` comes after OnClose leaves `kClosing`,
and a URL that `get_connection` refuses leaves `kConnecting`; Connect then refuses
for good.  A RegisterHandler whose send fails keeps its handler in the list, and a
later RegisterHandler of the same address on that connection does not announce it
again.

## 4. Proofs

`tlapm` checks every leaf of the proof modules.

`KvTxProofs` proves for all constants that satisfy `DataAssumption` and
`KvTxAssumption`:

* `TypeCorrect`: `Spec => []TypeOK`.  `TypeOK` is inductive.  One lemma per
  helper says what it returns (`AnswerToType`, `EffectType`, `OutcomeType`, ...),
  `CallBackType` and `DropTxAndStartType` treat the two ways a handler ends, and
  `NextTypeOK` has one step per action.
* `OutstandingIsExact` and `EventsAreExact`.  Neither is inductive alone: the
  handlers remove and add the pair of the running object, so the invariant
  (`Bookkeeping`) also has to say that each pair belongs to the session of its
  transaction, that only an object in flight has left the role "user", and that a
  transaction's event is sent by the handler that ends it.

Key finiteness is assumed because a size is a natural number; nothing else about
keys, values, sessions or transactions is, and the failure and scheduling
constants range over both values.

`KvTxRefinement` proves `AtomicRefinement`: `Spec => Atomic` if `LiveKeys` or nobody
calls getKeys, the condition that the run `KvTxClusterKeys` shows to be needed.
The mapping computes the abstract stage from `pc` and `running`
(`StageOf`); `SameOps` says that the operators `KvAtomic` gets from its own instance
of `KvOps` are the same ones.  Then one lemma per kind of step: `Perform` is the
abstract instant (`MapRef`), the last handler of the chain is the callback
(`CallBackRef`), and the handlers that only start a hook's KvTx are stutters
(`HookRef`), which is where the invariant that a transaction not in flight runs
the user's own object is used.

`KvTxMetaProofs` proves:

* `UndeletedAreCovered`: `[]UndeletedIsCovered`, for any sessions and every
  interleaving.  The invariant `Coverage` adds the set of the metadata that has been
  answered and not yet listed; `Purposes` says that storeMeta runs for set and submit
  only and the removal for del and clear only, so that under the property's premise
  nobody removes.
* `MetadataIsExact`: `[]MetaExact` for one session on inline maps that do not fail;
  the two runs that violate `DataHasMeta` show what happens without.  The invariant
  `InTurn` says that at most one transaction is in flight, that every other address
  is settled (metadata, list and data agree), and for the one in flight how far its
  address is from that at each place of the hook chain (`UnderWay`).

`KvBackendProofs` proves, for any transactions, sessions, addresses, keys and number
of crashes.  `KvTx`'s type invariant does not hold here, since a crash leaves
transactions `lost` and getKeys may leave them `thrown`; `BackTypeOK` is the shape that
survives (`BackTypesHold`).  One lemma per kind of step (`NewTxMove`, `InvokeMove`,
`GotMapMove`, `PerformMove`, `ThrowMove`, `EndsMove`, `BackEndsMove`, `CrashMove`) says
what it changes, and the invariants are proved from these alone:

* `UncommittedAreKnown`: `UncommittedIsPending` is inductive, because the
  transactions that may have written a key only grow (`HistoryStays`,
  `HistoryInvoked`, `HistoryOverCrash`) and whoever writes is noted until a commit.
* `AcknowledgedOutlives`, from `OnlyWriteStands`: from the map's answer to the
  callback and beyond, through all nested transactions, the only write of a key is
  what the key holds.  The crash is the one step that needs `UncommittedIsPending`: a
  process that dies at rest leaves a file that is not dirty (`RestIsClean`), and the
  only writer, being through, no way to differ from its last commit.
* `ListingIsBehindTheFile`, from `Listing`: an address that is listed, or whose
  metadata was just answered, has its metadata in the map, and the commit of the
  handler that lists it comes before anybody can see the list.

`ServerProofs` proves, for any requests, paths, addresses and values:

* `TypeCorrect`, and from the invariant `Accounted` (an event exactly for the writes
  that were answered with success; 200 and 501 only at the end and according to the
  result) `AnnouncedIfAnswered` and `RefusalIsHarmless`.
* `SuccessIsVisible`: `AnsweredIsVisible` is not inductive, since status and visibility
  come at different steps.  `Visible` states it from the instant at which the map
  decides (`LastStands`, `LaterReads`) and needs that whoever was over when a request
  arrived stays over (`BeforeIsOver`).

`JdbcStoreProofs` proves, for any threads, keys, values and losses, `TypeCorrect`,
`StoredStaysCommitted`, `LoadsAnswerLastWrites` and `LittleLingers`.  Their invariant
`Kept`: without an open transaction the connection sees the committed rows
(`Fresh`); Hazelcast gives no key to two threads at once (`Apart`); callers wait for
what they asked (`Asked`); a thread on its way to the commit, on a connection that
is still its own, finds the row it wrote (`OnItsWay`); and a key at rest is stored
(`Rests`).  Every step of a thread keeps to the contract `Keeps`: it touches its own
keys only and is through with one only after writing it or after an exception.  That
null is neither a value nor a key is assumed, as Hazelcast refuses both.
`LoadsAnswerLastWrites` follows: a read sees `View`, in which `Kept` finds each certain
key as its callers left it, and an exception only takes answers away.

`VertxBusProofs` proves, for any number of callers, connections, reply addresses,
handlers and frames (`VertxBusAssumption` only asks that the owner is a caller and
that a reply address is not mistaken for one of the three other frames):

* `QuietThreads`, `IoStaysJoinable`, `OpenStaysLive` from `Threads`, the
  inductive invariant.  None of the three is inductive: that the ping thread is
  joined when the I/O thread returns needs its place at every place of the I/O
  thread (`PingByPlace`), which needs the connection there (`ConnByPlace`);
  that the loop may return exactly when the connection is over needs `perpetual`
  by place; that `ping_lock_` is held exactly
  while a ping is sent; and that `StartConnection` overwrites no running thread needs that
  only the owner manages connections and has joined the old thread.
* `AcceptedHandlersCleared` from `Addresses`: an address under way belongs to one
  caller and has not been accepted, so what is filed after the maps were cleared
  is never an accepted one.  It uses `Threads` for the fact that nothing is
  accepted while the connection is not open.
* `TypeCorrect`, which needs `Threads` and `Addresses`: that a filed or accepted
  address was drawn before is a matter of who may hold it.
* `RepliesFindTheirHandlers` from `Awaited`: a reply address is on the way at most
  once in either direction and only if its Send was accepted (`Frames`), no
  connection that was over is queued again before the second Connect
  (`FirstConnect`), and until then every address on its way is filed (`Filed`).

`WaitGroupProofs` proves, for any tokens, listeners, event loops and timeouts:

* `TypeCorrect` and `TimersAreMatched`, both inductive.
* `TriggersAreSingle`: what a loop has triggered it remembers in `ran`, and a loop
  on which nobody acknowledges is never busy.

Every invariant that a passing run checks is the property of a theorem, and so is
`Atomic`.  Each strengthened invariant was checked by TLC on the run's instance before
it was proved.

Only model-checked: liveness (`Answered`, `AnsweredOrLost`, `Responds`,
`Completes`, `SentIsResolved`, `ShutsDown`), whose proofs need ENABLED and are out of
the prover's reach.  The size of a map is `Cardinality` of its key set, about which
the library's theorems on finite sets are cited; nothing in the models is recursive.

## 5. Plan

Done: the transaction core (`KvOps`, `KvAtomic`, `KvTx`), what MapDB adds to it
(`KvBackend`), what the HTTP server makes of it (`Server`), the database below a
Hazelcast map (`JdbcStore`), the utilities (`WaitGroup`), and the C++ client
(`VertxBus`), and the theorems of section 4.

To come: the safety facts behind the liveness properties, as invariants of their own
(in every state where a transaction is in flight one of its handlers can run;
the ping thread never waits for what only `WaitClosed` would do), and a
theorem that `KvBackend` without a crash takes no step that `KvTx` does not, a
getKeys that throws excepted.

## 6. Not modelled

Vendored code (asio, websocketpp, json, backward-cpp), generated service
proxies, the Python, Go, Node, C and Java clients (thin wrappers), build and start
scripts, the xodus and chronicle copies of the MapDB extension and unipop (not
built), and stubs that nothing constructs (`KvSnapshot`, `BatchRequest`,
`MetadataManagerImpl`, `StoreMetaKVHookChain`, `MapdbShutdownHook`).  The C++ client
brings along about 120,000 lines of vendored headers, so only a small share of the
repository's lines is kvdn's own logic.  A time-to-live is ignored by the
code itself.

Of the C++ client: header merging, TLS, the destructor (Close, then WaitClosed),
`KvdnClient` (it builds requests), callbacks that call Connect or WaitClosed
themselves, and the data race of `OnClose`'s unlocked clear with a thread that
inserts, whose outcome in a `std::map` is undefined; the model has the two in
either order.

Of the legacy `project` directory: everything.  `settings.gradle` does not build it,
no other component uses its CRDTs, and the key providers replace its key
synchronisation.  `CtrTx` and `LTx` cannot be reached: newTx returns null.

Of the Ignite and Hazelcast extensions everything but the map store.  The
constructors without arguments of `IgniteExtension` (29-32) and `HzExtension` (20-22)
throw, and those of `IgniteDataImpl`, `IgKeyProvider`, `HzKeyProvider` and
`TableAutocreateHook` never reach a super constructor that works.  A session over such
a data implementation or hook does not come to be (`KvdnSession` 152-156); one with
such a key provider falls back to `LocalKeyProvider` (164-176), which is
`LiveKeys = FALSE` of `KvTx`.  `IgVxAsyncCoupler`, the providers' key sets and the
creation of tables therefore never run.  The map store needs none of them: it has a
constructor of its own, for Hazelcast or, as in its tests, for anyone.

Of MapDB: the in-memory database (nothing of it outlives the process), and what
`make()` and `createOrOpen` find in a file that was torn but opens, which is any
content.

Of the rest: `ExclusiveTask` (two callbacks around a lock of Vert.x; its properties
are the lock's), `Loader` (`init` is a class path scan; `load` throws at its first
log line for every list but the empty one), the objects of counters and locks (only
newTx's null branch for them runs), bailTx's cast of a cause that is a Throwable and
not an Exception (`KvdnTX.groovy` 75; the maps report Exceptions), the filters of
onWrite and onDelete and the session's flags (tests that are false in every state, see
the hazards), `putIfAbsent` and `replace` of the maps (no caller), the generated
service proxies, and the bridge of the start scripts.
