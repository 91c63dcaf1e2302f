------------------------------- MODULE VertxBus -------------------------------
(***************************************************************************)
(* The C++ event bus client: threads that call the API, the I/O thread     *)
(* that runs the connection's handlers, the ping thread it starts and      *)
(* joins, and the bridge at the other end of the WebSocket.                *)
(*                                                                         *)
(* What a thread does under hm_lock_ or rh_lock_ is one step, for it calls *)
(* nothing there; the ping thread calls SendPing under ping_lock_, so that *)
(* lock has its holder.  Between a call's test of state_, its access to    *)
(* the handlers and its client_.send every other thread may run.  All      *)
(* handlers are under one address.  A message to registered handlers and   *)
(* the ping frame change none of this state and are left out; so is the    *)
(* message of an unknown address, which is only logged.                    *)
(***************************************************************************)
EXTENDS Integers, Sequences, FiniteSets

CONSTANTS
    Caller,         \* the threads that call the API
    Owner,          \* the one that connects, closes and waits
    ReplyAddress,   \* what MakeUUID can draw
    MaxConnects,    \* bounds: on Connect, ...
    MaxHandlers,    \* ... on the handlers at the address when RegisterHandler starts
    MaxFrames       \* ... and on the frames under way when a call starts

ASSUME VertxBusAssumption ==
    /\ Owner \in Caller
    /\ ReplyAddress \cap {"message", "register", "unregister"} = {}
    /\ {MaxConnects, MaxHandlers, MaxFrames} \subseteq Nat

VARIABLES
    state_,         \* VertxBusState
    connects,       \* how often Connect got past its test
    conn,           \* the websocketpp connection
    asio_thread_,   \* its pointer: null, to a joinable or to a joined thread
    io,             \* how far that thread is
    perpetual,      \* start_perpetual is in force
    do_ping_,
    ping,           \* the ping thread
    ping_lock_,     \* who holds that mutex
    handlers,       \* the length of handler_map_[address]
    reply_handlers_,\* the keys of that map
    pc, frame,      \* per caller: its place in a call, what it is to send
    drawn,          \* the reply addresses used so far
    accepted,       \* those whose Send returned true
    up, down,       \* the frames on the WebSocket
    registered      \* the bridge has the client's registration

vars == <<state_, connects, conn, asio_thread_, io, perpetual, do_ping_, ping, ping_lock_,
          handlers, reply_handlers_, pc, frame, drawn, accepted, up, down, registered>>

Frame == ReplyAddress \cup {"message", "register", "unregister"}

PC == {"idle", "insert", "push", "erase", "write", "close", "closing",
       "connect", "start", "wait", "thrown"}

Init ==
    /\ state_ = "kClosed" /\ connects = 0
    /\ conn = "none" /\ asio_thread_ = "null" /\ io = "off" /\ perpetual = FALSE
    /\ do_ping_ = FALSE /\ ping = "none" /\ ping_lock_ = "free"
    /\ handlers = 0 /\ reply_handlers_ = {}
    /\ pc = [c \in Caller |-> "idle"] /\ frame = [c \in Caller |-> "message"]
    /\ drawn = {} /\ accepted = {}
    /\ up = <<>> /\ down = <<>> /\ registered = FALSE

ioVars == <<connects, conn, asio_thread_, io, perpetual, do_ping_, ping, ping_lock_>>
Goto(c, place) == pc' = [pc EXCEPT ![c] = place]

(* A call that tests for kOpen gets past the test; otherwise it returns false. *)
PassesOpen(c, place) ==
    /\ pc[c] = "idle"
    /\ state_ = "kOpen"
    /\ Goto(c, place)

-----------------------------------------------------------------------------
(* SendOrPub up to the lock: with a reply handler it draws an address. *)
SendStarts(c) ==
    /\ Len(up) < MaxFrames
    /\ \/ \E r \in ReplyAddress \ drawn :
            /\ PassesOpen(c, "insert")
            /\ drawn' = drawn \cup {r}
            /\ frame' = [frame EXCEPT ![c] = r]
       \/ /\ PassesOpen(c, "write")
          /\ frame' = [frame EXCEPT ![c] = "message"]
          /\ UNCHANGED drawn
    /\ UNCHANGED <<ioVars, state_, handlers, reply_handlers_, accepted, up, down, registered>>

(* The connection takes a frame only while it is open. *)
Sent(c) == IF conn = "open" THEN Append(up, frame[c]) ELSE up

(* Mutated: SendOrPub files the reply handler behind its client_.send. *)
InsertAfterWrite(c) ==
    /\ \/ pc[c] = "insert" /\ up' = Sent(c) /\ Goto(c, "write") /\ UNCHANGED <<reply_handlers_, accepted>>
       \/ /\ pc[c] = "write"
          /\ reply_handlers_' = reply_handlers_ \cup ({frame[c]} \cap ReplyAddress)
          /\ Goto(c, "idle")
          /\ UNCHANGED <<up, accepted>>
    /\ UNCHANGED <<ioVars, state_, handlers, frame, drawn, down, registered>>

(* ... files the reply handler, ... *)
InsertReplyHandler(c) ==
    /\ pc[c] = "insert"
    /\ reply_handlers_' = reply_handlers_ \cup {frame[c]}
    /\ Goto(c, "write")
    /\ UNCHANGED <<ioVars, state_, handlers, frame, drawn, accepted, up, down, registered>>

(* ... and like the other calls ends with client_.send and its error code. *)
Write(c) ==
    /\ pc[c] = "write"
    /\ up' = Sent(c)
    /\ accepted' = accepted \cup {r \in ReplyAddress : conn = "open" /\ r = frame[c]}
    /\ Goto(c, "idle")
    /\ UNCHANGED <<ioVars, state_, handlers, reply_handlers_, frame, drawn, down, registered>>

(* RegisterHandler: only the first handler of an address is announced. *)
RegisterStarts(c) ==
    /\ Len(up) < MaxFrames /\ handlers < MaxHandlers
    /\ PassesOpen(c, "push")
    /\ UNCHANGED <<ioVars, state_, handlers, reply_handlers_, frame, drawn, accepted, up, down, registered>>

Push(c) ==
    /\ pc[c] = "push"
    /\ handlers' = handlers + 1
    /\ IF handlers = 0
       THEN Goto(c, "write") /\ frame' = [frame EXCEPT ![c] = "register"]
       ELSE Goto(c, "idle") /\ UNCHANGED frame
    /\ UNCHANGED <<ioVars, state_, reply_handlers_, drawn, accepted, up, down, registered>>

(* UnregisterHandler: all handlers, one, or none that it can identify. *)
UnregisterStarts(c) ==
    /\ Len(up) < MaxFrames
    /\ PassesOpen(c, "erase")
    /\ UNCHANGED <<ioVars, state_, handlers, reply_handlers_, frame, drawn, accepted, up, down, registered>>

(* Mutated: a handler is taken from the list without looking at it. *)
EraseUnchecked(c) ==
    /\ pc[c] = "erase"
    /\ handlers' \in {0, handlers - 1}
    /\ Goto(c, "idle")
    /\ UNCHANGED <<ioVars, state_, reply_handlers_, frame, drawn, accepted, up, down, registered>>

Erase(c) ==
    /\ pc[c] = "erase"
    /\ IF handlers = 0
       THEN Goto(c, "idle") /\ UNCHANGED <<handlers, frame>>
       ELSE /\ handlers' \in {0, handlers - 1, handlers}
            /\ IF handlers' = 0
               THEN Goto(c, "write") /\ frame' = [frame EXCEPT ![c] = "unregister"]
               ELSE Goto(c, "idle") /\ UNCHANGED frame
    /\ UNCHANGED <<ioVars, state_, reply_handlers_, drawn, accepted, up, down, registered>>

bus == <<handlers, reply_handlers_, frame, drawn, accepted, up, down, registered>>

-----------------------------------------------------------------------------
(* Close: the close frame, if the connection is open, ... *)
CloseStarts(c) ==
    /\ PassesOpen(c, "close")
    /\ UNCHANGED <<bus, ioVars, state_>>

CloseFrame(c) ==
    /\ pc[c] = "close"
    /\ IF conn = "open"
       THEN conn' = "closing" /\ Goto(c, "closing")
       ELSE Goto(c, "idle") /\ UNCHANGED conn
    /\ UNCHANGED <<bus, state_, connects, asio_thread_, io, perpetual, do_ping_, ping, ping_lock_>>

(* ... and then, whatever the I/O thread has done since, the state. *)
SetClosing(c) ==
    /\ pc[c] = "closing"
    /\ state_' = "kClosing"
    /\ Goto(c, "idle")
    /\ UNCHANGED <<bus, ioVars>>

ConnectStarts(c) ==
    /\ connects < MaxConnects
    /\ pc[c] = "idle" /\ state_ = "kClosed"
    /\ connects' = connects + 1
    /\ Goto(c, "connect")
    /\ UNCHANGED <<bus, state_, conn, asio_thread_, io, perpetual, do_ping_, ping, ping_lock_>>

(* Joining the old I/O thread, if there was one; its object stays. *)
JoinOld(c) ==
    /\ pc[c] = "connect"
    /\ \/ asio_thread_ = "null" /\ UNCHANGED asio_thread_
       \/ asio_thread_ = "joinable" /\ io = "off" /\ asio_thread_' = "joined"
    /\ Goto(c, "start")
    /\ UNCHANGED <<bus, state_, connects, conn, io, perpetual, do_ping_, ping, ping_lock_>>

(* The connection is queued and a thread started; get_connection may refuse *)
(* the URL, and then the state is kConnecting all the same.                *)
StartConnection(c) ==
    /\ pc[c] = "start"
    /\ state_' = "kConnecting"
    /\ \/ conn' = "queued" /\ asio_thread_' = "joinable" /\ io' = "run" /\ perpetual' = TRUE
       \/ UNCHANGED <<conn, asio_thread_, io, perpetual>>
    /\ Goto(c, "idle")
    /\ UNCHANGED <<bus, connects, do_ping_, ping, ping_lock_>>

(* WaitClosed; a join of a joined thread throws. *)
WaitStarts(c) ==
    /\ pc[c] = "idle" /\ asio_thread_ # "null"
    /\ Goto(c, "wait")
    /\ UNCHANGED <<bus, ioVars, state_>>

(* Mutated: WaitClosed gives the thread up without waiting for it. *)
WaitForgets(c) ==
    /\ pc[c] = "wait" /\ asio_thread_ = "joinable"
    /\ asio_thread_' = "null"
    /\ Goto(c, "idle")
    /\ UNCHANGED <<bus, state_, connects, conn, io, perpetual, do_ping_, ping, ping_lock_>>

WaitEnds(c) ==
    /\ pc[c] = "wait"
    /\ \/ asio_thread_ = "joinable" /\ io = "off" /\ asio_thread_' = "null" /\ Goto(c, "idle")
       \/ asio_thread_ = "joined" /\ Goto(c, "thrown") /\ UNCHANGED asio_thread_
    /\ UNCHANGED <<bus, state_, connects, conn, io, perpetual, do_ping_, ping, ping_lock_>>

-----------------------------------------------------------------------------
(* The I/O thread.  The handshake succeeds and OnOpen runs: its SendPing    *)
(* finds the state not kOpen, then the state changes, then the ping thread  *)
(* starts.                                                                  *)
HandshakeDone ==
    /\ io = "run" /\ conn = "queued"
    /\ conn' = "open" /\ io' = "opening"
    /\ UNCHANGED <<bus, pc, state_, connects, asio_thread_, perpetual, do_ping_, ping, ping_lock_>>

OnOpen ==
    /\ io = "opening"
    /\ state_' = "kOpen" /\ io' = "startPing"
    /\ UNCHANGED <<bus, pc, connects, conn, asio_thread_, perpetual, do_ping_, ping, ping_lock_>>

StartPingInterval ==
    /\ io = "startPing" /\ ping_lock_ = "free"
    /\ do_ping_' = TRUE /\ ping' = "waits" /\ io' = "run"
    /\ UNCHANGED <<bus, pc, state_, connects, conn, asio_thread_, perpetual, ping_lock_>>

(* Mutated: OnFail keeps the event loop running. *)
FailKeepsLoop ==
    /\ io = "run" /\ conn = "queued"
    /\ conn' = "over" /\ state_' = "kClosed"
    /\ UNCHANGED <<bus, pc, connects, asio_thread_, io, perpetual, do_ping_, ping, ping_lock_>>

OnFail ==
    /\ io = "run" /\ conn = "queued"
    /\ conn' = "over" /\ state_' = "kClosed" /\ perpetual' = FALSE
    /\ UNCHANGED <<bus, pc, connects, asio_thread_, io, do_ping_, ping, ping_lock_>>

(* A frame for a reply address: its handler is erased and called. *)
OnMessage ==
    /\ io = "run" /\ conn = "open" /\ down # <<>>
    /\ reply_handlers_' = reply_handlers_ \ {Head(down)}
    /\ down' = Tail(down)
    /\ UNCHANGED <<ioVars, state_, pc, handlers, frame, drawn, accepted, up, registered>>

(* The closing handshake, its timeout, the server or the network end the    *)
(* connection; the I/O thread notes it before OnClose runs.                 *)
ConnectionEnds ==
    /\ io = "run" /\ conn \in {"open", "closing"}
    /\ conn' = "over" /\ io' = "onClose"
    /\ up' = <<>> /\ down' = <<>> /\ registered' = FALSE
    /\ UNCHANGED <<pc, state_, connects, asio_thread_, perpetual, do_ping_, ping, ping_lock_,
                   handlers, reply_handlers_, frame, drawn, accepted>>

(* Mutated: OnClose does not stop the ping thread, or leaves the state.     *)
OnCloseWithoutStop ==
    /\ io = "onClose"
    /\ state_' = "kClosed" /\ io' = "clear"
    /\ UNCHANGED <<bus, pc, connects, conn, asio_thread_, perpetual, do_ping_, ping, ping_lock_>>

OnCloseUnclosed ==
    /\ io = "onClose"
    /\ io' = "stopPing"
    /\ UNCHANGED <<bus, pc, state_, connects, conn, asio_thread_, perpetual, do_ping_, ping, ping_lock_>>

(* OnClose sets the state; ...                                              *)
OnClose ==
    /\ io = "onClose"
    /\ state_' = "kClosed" /\ io' = "stopPing"
    /\ UNCHANGED <<bus, pc, connects, conn, asio_thread_, perpetual, do_ping_, ping, ping_lock_>>

(* Mutated: the join is inside the block that holds the lock. *)
StopUnderLock ==
    /\ io = "stopPing" /\ ping_lock_ = "free"
    /\ do_ping_' = FALSE /\ ping_lock_' = "io" /\ io' = "joinPing"
    /\ UNCHANGED <<bus, pc, state_, connects, conn, asio_thread_, perpetual, ping>>

(* ... StopPingInterval takes the flag back under the lock and notifies, ... *)
StopPingInterval ==
    /\ io = "stopPing" /\ ping_lock_ = "free"
    /\ do_ping_' = FALSE /\ io' = "joinPing"
    /\ UNCHANGED <<bus, pc, state_, connects, conn, asio_thread_, perpetual, ping, ping_lock_>>

(* ... and joins the ping thread without it; ... *)
JoinPing ==
    /\ io = "joinPing" /\ ping = "ended"
    /\ ping' = "none" /\ io' = "clear"
    /\ UNCHANGED <<bus, pc, state_, connects, conn, asio_thread_, perpetual, do_ping_, ping_lock_>>

(* Mutated: the reply handlers stay. *)
ClearHandlersOnly ==
    /\ io = "clear"
    /\ handlers' = 0 /\ perpetual' = FALSE /\ io' = "run"
    /\ UNCHANGED <<pc, state_, connects, conn, asio_thread_, do_ping_, ping, ping_lock_, reply_handlers_,
                   frame, drawn, accepted, up, down, registered>>

(* ... clears both maps, without their locks, and lets the loop end. *)
ClearHandlers ==
    /\ io = "clear"
    /\ reply_handlers_' = {} /\ handlers' = 0 /\ perpetual' = FALSE /\ io' = "run"
    /\ UNCHANGED <<pc, state_, connects, conn, asio_thread_, do_ping_, ping, ping_lock_,
                   frame, drawn, accepted, up, down, registered>>

(* client::run returns when nothing is left to do. *)
RunReturns ==
    /\ io = "run" /\ conn = "over" /\ ~perpetual
    /\ io' = "off"
    /\ UNCHANGED <<bus, pc, state_, connects, conn, asio_thread_, perpetual, do_ping_, ping, ping_lock_>>

(* The ping thread.  Its wait times out: it has the lock again and calls    *)
(* SendPing, even if the flag was taken back meanwhile; ...                 *)
PingTimesOut ==
    /\ ping = "waits" /\ ping_lock_ = "free"
    /\ ping' = "sends" /\ ping_lock_' = "ping"
    /\ UNCHANGED <<bus, pc, state_, connects, conn, asio_thread_, io, perpetual, do_ping_>>

(* ... SendPing returns and the loop tests the flag.                         *)
PingSent ==
    /\ ping = "sends"
    /\ ping' = IF do_ping_ THEN "waits" ELSE "ended"
    /\ ping_lock_' = "free"
    /\ UNCHANGED <<bus, pc, state_, connects, conn, asio_thread_, io, perpetual, do_ping_>>

(* It is notified and finds the flag taken back. *)
PingEnds ==
    /\ ping = "waits" /\ ~do_ping_ /\ ping_lock_ = "free"
    /\ ping' = "ended"
    /\ UNCHANGED <<bus, pc, state_, connects, conn, asio_thread_, io, perpetual, do_ping_, ping_lock_>>

(* The bridge takes a frame; it may answer one that has a reply address. *)
Bridge ==
    /\ conn \in {"open", "closing"} /\ up # <<>>
    /\ up' = Tail(up)
    /\ registered' = CASE Head(up) = "register"   -> TRUE
                       [] Head(up) = "unregister" -> FALSE
                       [] OTHER                   -> registered
    /\ \/ UNCHANGED down
       \/ Head(up) \in ReplyAddress /\ down' = Append(down, Head(up))
    /\ UNCHANGED <<ioVars, state_, pc, handlers, reply_handlers_, frame, drawn, accepted>>

-----------------------------------------------------------------------------
Starts(c) == SendStarts(c) \/ RegisterStarts(c) \/ UnregisterStarts(c)

Continues(c) ==
    \/ InsertReplyHandler(c) \/ Write(c) \/ Push(c) \/ Erase(c)
    \/ CloseFrame(c) \/ SetClosing(c) \/ JoinOld(c) \/ StartConnection(c) \/ WaitEnds(c)

Manages == CloseStarts(Owner) \/ ConnectStarts(Owner) \/ WaitStarts(Owner)

IoThread ==
    \/ HandshakeDone \/ OnOpen \/ StartPingInterval \/ OnFail \/ OnMessage
    \/ ConnectionEnds \/ OnClose \/ StopPingInterval \/ JoinPing \/ ClearHandlers \/ RunReturns

PingThread == PingTimesOut \/ PingSent \/ PingEnds

Next ==
    \/ \E c \in Caller : Starts(c) \/ Continues(c)
    \/ Manages \/ IoThread \/ PingThread \/ Bridge

Spec == Init /\ [][Next]_vars

(* Threads are scheduled, an attempt to connect succeeds or fails, and a     *)
(* closing handshake ends or times out; an open connection may last.  Who   *)
(* waits for ping_lock_ gets it between two pings.                          *)
FairSpec ==
    /\ Spec
    /\ \A c \in Caller : WF_vars(Continues(c))
    /\ WF_vars(IoThread /\ (conn' = conn \/ conn # "open"))
    /\ SF_vars(StopPingInterval)
    /\ WF_vars(PingSent \/ PingEnds)

-----------------------------------------------------------------------------
(* Type correctness. *)
TypeOK ==
    /\ state_ \in {"kConnecting", "kOpen", "kClosing", "kClosed"}
    /\ conn \in {"none", "queued", "open", "closing", "over"}
    /\ asio_thread_ \in {"null", "joinable", "joined"}
    /\ io \in {"off", "run", "opening", "startPing", "onClose", "stopPing", "joinPing", "clear"}
    /\ ping \in {"none", "waits", "sends", "ended"} /\ ping_lock_ \in {"free", "io", "ping"}
    /\ {perpetual, do_ping_, registered} \subseteq BOOLEAN
    /\ {connects, handlers} \subseteq Nat
    /\ pc \in [Caller -> PC] /\ frame \in [Caller -> Frame]
    /\ reply_handlers_ \subseteq drawn /\ accepted \subseteq drawn /\ drawn \subseteq ReplyAddress
    /\ up \in Seq(Frame) /\ down \in Seq(ReplyAddress)

(* When the I/O thread has returned, so that WaitClosed or Connect can join  *)
(* it, its ping thread was joined before: no thread of an old connection    *)
(* meets a new one.                                                         *)
QuietWhenOff == io = "off" => ping = "none" /\ ~do_ping_ /\ ~perpetual

(* The I/O thread can be joined as long as it runs: WaitClosed and Connect   *)
(* neither give it up nor replace its object.                               *)
IoIsJoinable == io # "off" => asio_thread_ = "joinable"

(* A call that finds kOpen finds the I/O thread at work on its connection,   *)
(* even where Close, OnClose and Connect write the state concurrently.      *)
OpenIsLive == state_ = "kOpen" => io \in {"startPing", "run", "onClose"} /\ perpetual

(* A Send that returned true leaves no reply handler behind on a closed      *)
(* connection; one that returned false may.                                 *)
AcceptedAreCleared == io = "off" => reply_handlers_ \cap accepted = {}

(* On the first connection a reply always finds its handler: however fast    *)
(* the bridge answers, SendOrPub has filed it.  (A Send that a reconnection  *)
(* overtakes can lose its handler to the clear of the old connection.)      *)
RepliesAwaited == connects = 1 => \A i \in DOMAIN down : down[i] \in reply_handlers_

(* No call is under way and the bridge has seen every frame. *)
Calm == state_ = "kOpen" /\ conn = "open" /\ up = <<>> /\ \A c \in Caller : pc[c] = "idle"

(* Then the bridge knows the client exactly if the client has handlers. *)
RegistrationAgrees == Calm => (registered <=> handlers > 0)

(* A connection that closes, ends or fails lets its I/O thread return, for   *)
(* WaitClosed to return: the join of the ping thread ends, the loop does.   *)
ShutsDown == conn \in {"closing", "over"} ~> io = "off"
=============================================================================
