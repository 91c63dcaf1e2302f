---------------------------- MODULE VertxBusProofs ----------------------------
(***************************************************************************)
(* Theorems about VertxBus, for any number of threads, connections, reply  *)
(* addresses, handlers and frames.                                         *)
(*                                                                         *)
(* Threads is the inductive invariant about the three kinds of threads: it *)
(* ties the place of the I/O thread to the connection, to the ping thread, *)
(* to the pointers and to the state.  Addresses is the one about reply     *)
(* addresses: a caller on its way to file a handler owns its address.      *)
(***************************************************************************)
EXTENDS VertxBus, SequenceTheorems, TLAPS

(* The calls of the thread that connects. *)
Managing(c) == pc[c] \in {"connect", "start", "wait", "thrown"}

(* The ping thread by the place of the I/O thread. *)
PingByPlace ==
    /\ io \in {"off", "opening", "startPing", "clear"} => ping = "none" /\ do_ping_ = FALSE
    /\ io = "run" /\ conn \in {"queued", "over"} => ping = "none" /\ do_ping_ = FALSE
    /\ io = "run" /\ conn \in {"open", "closing"} => ping \in {"waits", "sends"} /\ do_ping_ = TRUE
    /\ io \in {"onClose", "stopPing"} => ping \in {"waits", "sends"} /\ do_ping_ = TRUE
    /\ io = "joinPing" => ping \in {"waits", "sends", "ended"} /\ do_ping_ = FALSE
    /\ ping_lock_ = IF ping = "sends" THEN "ping" ELSE "free"

(* The connection by the place of the I/O thread. *)
ConnByPlace ==
    /\ io = "off" => conn \in {"none", "over"}
    /\ io \in {"opening", "startPing"} => conn \in {"open", "closing"}
    /\ io \in {"onClose", "stopPing", "joinPing", "clear"} => conn = "over"
    /\ io = "run" => conn # "none"

Threads ==
    /\ io \in {"off", "run", "opening", "startPing", "onClose", "stopPing", "joinPing", "clear"}
    /\ conn \in {"none", "queued", "open", "closing", "over"}
    /\ pc \in [Caller -> PC]
    /\ \A c \in Caller : Managing(c) => c = Owner
    /\ pc[Owner] = "start" => io = "off"
    /\ IoIsJoinable
    /\ PingByPlace
    /\ ConnByPlace
    /\ io = "off" => perpetual = FALSE
    /\ io = "run" => (perpetual = TRUE <=> conn # "over")
    /\ io \notin {"off", "run"} => perpetual = TRUE
    /\ conn = "queued" \/ io = "opening" => state_ # "kOpen"
    /\ OpenIsLive

(* The invariant on the client's threads holds before the first Connect. *)
LEMMA InitThreads == Init => Threads
  BY VertxBusAssumption
  DEF Init, Threads, Managing, IoIsJoinable, PingByPlace, ConnByPlace, OpenIsLive, PC

(* A call that touches neither the I/O thread's state nor state_, and does   *)
(* not enter the owner's calls.                                             *)
LEMMA PlainCallThreads ==
    ASSUME Threads, NEW c \in Caller, UNCHANGED <<ioVars, state_>>,
           NEW place \in PC \ {"connect", "start", "wait", "thrown"}, Goto(c, place)
    PROVE  Threads'
  <1>1. pc' \in [Caller -> PC] /\ \A d \in Caller : pc'[d] = pc[d] \/ pc'[d] = place
    BY DEF Goto, Threads
  <1> QED
    BY <1>1, VertxBusAssumption
    DEF Threads, Managing, IoIsJoinable, PingByPlace, ConnByPlace, OpenIsLive, ioVars

(* Every step of the callers, the I/O and the ping thread keeps it. *)
LEMMA NextThreads == Threads /\ [Next]_vars => Threads'
  <1> SUFFICES ASSUME Threads, [Next]_vars PROVE Threads'
    OBVIOUS
  <1> USE VertxBusAssumption
  <1>1. CASE UNCHANGED vars
    BY <1>1 DEF vars, Threads, Managing, IoIsJoinable, PingByPlace, ConnByPlace, OpenIsLive
  <1>2. ASSUME NEW c \in Caller, Starts(c) PROVE Threads'
    BY <1>2, PlainCallThreads
    DEF Starts, SendStarts, RegisterStarts, UnregisterStarts, PassesOpen, PC
  <1>3. ASSUME NEW c \in Caller, InsertReplyHandler(c) \/ Write(c) \/ Push(c) \/ Erase(c)
        PROVE Threads'
    BY <1>3, PlainCallThreads DEF InsertReplyHandler, Write, Push, Erase, PC
  <1>4. CASE CloseStarts(Owner)
    BY <1>4, PlainCallThreads DEF CloseStarts, PassesOpen, PC
  <1>5. ASSUME NEW c \in Caller, CloseFrame(c) PROVE Threads'
    <2>1. pc' \in [Caller -> PC] /\ \A d \in Caller : pc'[d] = pc[d] \/ pc'[d] \in {"closing", "idle"}
      BY <1>5 DEF CloseFrame, Goto, Threads, PC
    <2> QED  BY <1>5, <2>1 DEF CloseFrame, Threads, Managing, IoIsJoinable, PingByPlace, ConnByPlace, OpenIsLive
  <1>6. ASSUME NEW c \in Caller, SetClosing(c) PROVE Threads'
    <2>1. pc' \in [Caller -> PC] /\ \A d \in Caller : pc'[d] = pc[d] \/ pc'[d] = "idle"
      BY <1>6 DEF SetClosing, Goto, Threads, PC
    <2> QED  BY <1>6, <2>1 DEF SetClosing, ioVars, Threads, Managing, IoIsJoinable, PingByPlace, ConnByPlace, OpenIsLive
  <1>7. ASSUME NEW c \in Caller, JoinOld(c) PROVE Threads'
    <2>1. /\ pc' \in [Caller -> PC] /\ c = Owner
          /\ \A d \in Caller : pc'[d] = IF d = Owner THEN "start" ELSE pc[d]
      BY <1>7 DEF JoinOld, Goto, Threads, Managing, PC
    <2> QED  BY <1>7, <2>1 DEF JoinOld, Threads, Managing, IoIsJoinable, PingByPlace, ConnByPlace, OpenIsLive
  <1>8. ASSUME NEW c \in Caller, StartConnection(c) PROVE Threads'
    <2>1. /\ pc' \in [Caller -> PC] /\ c = Owner /\ pc[Owner] = "start"
          /\ \A d \in Caller : pc'[d] = IF d = Owner THEN "idle" ELSE pc[d]
      BY <1>8 DEF StartConnection, Goto, Threads, Managing, PC
    <2> QED  BY <1>8, <2>1 DEF StartConnection, Threads, Managing, IoIsJoinable, PingByPlace, ConnByPlace, OpenIsLive
  <1>9. ASSUME NEW c \in Caller, WaitEnds(c) PROVE Threads'
    <2>1. /\ pc' \in [Caller -> PC] /\ c = Owner
          /\ \A d \in Caller : pc'[d] = pc[d] \/ (d = Owner /\ pc'[d] \in {"idle", "thrown"})
      BY <1>9 DEF WaitEnds, Goto, Threads, Managing, PC
    <2> QED  BY <1>9, <2>1 DEF WaitEnds, Threads, Managing, IoIsJoinable, PingByPlace, ConnByPlace, OpenIsLive
  <1>10. CASE ConnectStarts(Owner) \/ WaitStarts(Owner)
    <2>1. /\ pc' \in [Caller -> PC]
          /\ \A d \in Caller : pc'[d] = pc[d] \/ (d = Owner /\ pc'[d] \in {"connect", "wait"})
      BY <1>10 DEF ConnectStarts, WaitStarts, Goto, Threads, PC
    <2> QED  BY <1>10, <2>1 DEF ConnectStarts, WaitStarts, ioVars, Threads, Managing, IoIsJoinable, PingByPlace, ConnByPlace, OpenIsLive
  <1>11. CASE HandshakeDone \/ OnOpen \/ StartPingInterval
    BY <1>11 DEF HandshakeDone, OnOpen, StartPingInterval, Threads, Managing, IoIsJoinable, PingByPlace, ConnByPlace, OpenIsLive
  <1>12. CASE OnFail \/ OnMessage \/ ConnectionEnds
    BY <1>12 DEF OnFail, OnMessage, ConnectionEnds, ioVars, Threads, Managing, IoIsJoinable, PingByPlace, ConnByPlace, OpenIsLive
  <1>13. CASE OnClose \/ StopPingInterval \/ JoinPing
    BY <1>13 DEF OnClose, StopPingInterval, JoinPing, Threads, Managing, IoIsJoinable, PingByPlace, ConnByPlace, OpenIsLive
  <1>14. CASE ClearHandlers \/ RunReturns
    BY <1>14 DEF ClearHandlers, RunReturns, Threads, Managing, IoIsJoinable, PingByPlace, ConnByPlace, OpenIsLive
  <1>15. CASE PingThread \/ Bridge
    BY <1>15 DEF PingThread, PingTimesOut, PingSent, PingEnds, Bridge, ioVars, Threads, Managing, IoIsJoinable, PingByPlace, ConnByPlace, OpenIsLive
  <1> QED
    BY <1>1, <1>2, <1>3, <1>4, <1>5, <1>6, <1>7, <1>8, <1>9, <1>10, <1>11, <1>12, <1>13,
       <1>14, <1>15
    DEF Next, Continues, Manages, IoThread

(* It holds in every reachable state. *)
LEMMA ThreadsInvariant == Spec => []Threads
  BY InitThreads, NextThreads, PTL DEF Spec

(* When the I/O thread has returned, its ping thread was joined and the event  *)
(* loop may stop (OnClose, OnFail, VertxBus.cpp).                             *)
THEOREM QuietThreads == Spec => []QuietWhenOff
  <1>1. Threads => QuietWhenOff
    BY DEF Threads, PingByPlace, QuietWhenOff
  <1> QED  BY <1>1, ThreadsInvariant, PTL

(* asio_thread_ is joinable as long as its thread runs: Connect and WaitClosed *)
(* never destroy a std::thread that runs.                                     *)
THEOREM IoStaysJoinable == Spec => []IoIsJoinable
  <1>1. Threads => IoIsJoinable
    BY DEF Threads
  <1> QED  BY <1>1, ThreadsInvariant, PTL

(* However Close, OnOpen, OnClose, OnFail and Connect interleave their writes  *)
(* of state_, kOpen means an I/O thread that serves its connection.           *)
THEOREM OpenStaysLive == Spec => []OpenIsLive
  <1>1. Threads => OpenIsLive
    BY DEF Threads
  <1> QED  BY <1>1, ThreadsInvariant, PTL

-----------------------------------------------------------------------------
(* The caller is in SendOrPub with a reply address. *)
Sends(c) == pc[c] \in {"insert", "write"} /\ frame[c] \in ReplyAddress

(* There is no connection, or it is not yet or no longer served. *)
Unserved == io = "off" \/ (io = "run" /\ conn \in {"queued", "over"})

(* An address under way is its caller's alone and was not accepted yet, so    *)
(* that no accepted one is filed after the maps were cleared.                *)
Addresses ==
    /\ frame \in [Caller -> Frame]
    /\ accepted \subseteq drawn
    /\ \A c \in Caller : pc[c] = "insert" => frame[c] \in ReplyAddress
    /\ \A c \in Caller : Sends(c) => frame[c] \in drawn /\ frame[c] \notin accepted
    /\ \A c, d \in Caller : Sends(c) /\ Sends(d) /\ c # d => frame[c] # frame[d]
    /\ Unserved => reply_handlers_ \cap accepted = {}

(* No reply address is under way at first. *)
LEMMA InitAddresses == Init => Addresses
  BY VertxBusAssumption DEF Init, Addresses, Sends, Unserved, Frame

(* A step that leaves the addresses alone and lets nobody enter SendOrPub.    *)
LEMMA OtherStepAddresses ==
    ASSUME Addresses, UNCHANGED <<frame, drawn, accepted, reply_handlers_>>, Unserved' => Unserved,
           \A c \in Caller : pc'[c] = pc[c] \/ pc'[c] \notin {"insert", "write"}
    PROVE  Addresses'
  <1>1. \A c \in Caller : Sends(c)' => Sends(c)
    BY DEF Sends
  <1>2. \A c \in Caller : pc'[c] = "insert" => pc[c] = "insert"
    OBVIOUS
  <1> QED  BY <1>1, <1>2 DEF Addresses

(* Sends and the clearing of reply_handlers_ keep the addresses apart. *)
LEMMA NextAddresses == Threads /\ Addresses /\ [Next]_vars => Addresses'
  <1> SUFFICES ASSUME Threads, Addresses, [Next]_vars PROVE Addresses'
    OBVIOUS
  <1> USE VertxBusAssumption
  <1>pc. pc \in [Caller -> PC] /\ frame \in [Caller -> Frame]
    BY DEF Threads, Addresses
  <1>1. CASE UNCHANGED vars
    BY <1>1 DEF vars, Addresses, Sends, Unserved
  <1>2. ASSUME NEW c \in Caller, SendStarts(c) PROVE Addresses'
    <2>1. CASE \E r \in ReplyAddress \ drawn :
                 PassesOpen(c, "insert") /\ drawn' = drawn \cup {r} /\ frame' = [frame EXCEPT ![c] = r]
      <3>1. PICK r \in ReplyAddress \ drawn :
                 PassesOpen(c, "insert") /\ drawn' = drawn \cup {r} /\ frame' = [frame EXCEPT ![c] = r]
        BY <2>1
      <3>2. UNCHANGED <<io, conn, accepted, reply_handlers_>>
        BY <1>2 DEF SendStarts, ioVars
      <3>3. /\ frame' \in [Caller -> Frame] /\ frame'[c] = r
            /\ \A d \in Caller \ {c} : frame'[d] = frame[d] /\ pc'[d] = pc[d]
        BY <1>pc, <3>1 DEF PassesOpen, Goto, Frame
      <3> QED  BY <3>1, <3>2, <3>3 DEF Addresses, Sends, Unserved
    <2>2. CASE PassesOpen(c, "write") /\ frame' = [frame EXCEPT ![c] = "message"] /\ UNCHANGED drawn
      <3>1. UNCHANGED <<io, conn, accepted, reply_handlers_>>
        BY <1>2 DEF SendStarts, ioVars
      <3>2. /\ frame' \in [Caller -> Frame] /\ frame'[c] \notin ReplyAddress /\ pc'[c] = "write"
            /\ \A d \in Caller \ {c} : frame'[d] = frame[d] /\ pc'[d] = pc[d]
        BY <1>pc, <2>2 DEF PassesOpen, Goto, Frame
      <3> QED  BY <2>2, <3>1, <3>2 DEF Addresses, Sends, Unserved
    <2> QED  BY <1>2, <2>1, <2>2 DEF SendStarts
  <1>3. ASSUME NEW c \in Caller, InsertReplyHandler(c) PROVE Addresses'
    <2>1. \A d \in Caller : pc'[d] = IF d = c THEN "write" ELSE pc[d]
      BY <1>pc, <1>3 DEF InsertReplyHandler, Goto
    <2>2. Sends(c) /\ \A d \in Caller : Sends(d)' <=> Sends(d)
      BY <1>3, <2>1 DEF InsertReplyHandler, Sends, Addresses
    <2> QED  BY <1>3, <2>1, <2>2 DEF InsertReplyHandler, ioVars, Addresses, Unserved
  <1>4. ASSUME NEW c \in Caller, Write(c) PROVE Addresses'
    <2>1. \A d \in Caller : pc'[d] = IF d = c THEN "idle" ELSE pc[d]
      BY <1>pc, <1>4 DEF Write, Goto
    <2>2. ~Sends(c)' /\ \A d \in Caller \ {c} : Sends(d)' <=> Sends(d)
      BY <1>4, <2>1 DEF Write, Sends
    <2>3. accepted' \subseteq accepted \cup {frame[c]} /\ (accepted' # accepted => Sends(c))
      BY <1>4 DEF Write, Sends
    <2>4. Unserved => conn # "open"
      BY DEF Unserved, Threads, ConnByPlace
    <2>5. Unserved' => reply_handlers_' \cap accepted' = {}
      BY <1>4, <2>4 DEF Write, Addresses, Unserved, ioVars
    <2> QED  BY <1>4, <2>1, <2>2, <2>3, <2>5 DEF Write, Addresses
  <1>5. ASSUME NEW c \in Caller, Push(c) \/ Erase(c) PROVE Addresses'
    <2>1. /\ frame' \in [Caller -> Frame]
          /\ \/ frame'[c] = frame[c] /\ pc'[c] = "idle"
             \/ frame'[c] \in {"register", "unregister"} /\ pc'[c] = "write"
          /\ \A d \in Caller \ {c} : frame'[d] = frame[d] /\ pc'[d] = pc[d]
      BY <1>pc, <1>5 DEF Push, Erase, Goto, Frame
    <2>2. UNCHANGED <<io, conn, drawn, accepted, reply_handlers_>>
      BY <1>5 DEF Push, Erase, ioVars
    <2>3. ~Sends(c)' /\ \A d \in Caller \ {c} : Sends(d)' <=> Sends(d)
      BY <2>1 DEF Sends
    <2> QED  BY <2>1, <2>2, <2>3 DEF Addresses, Unserved
  <1>6. ASSUME NEW c \in Caller,
               \/ RegisterStarts(c) \/ UnregisterStarts(c) \/ CloseFrame(c) \/ SetClosing(c)
               \/ JoinOld(c) \/ StartConnection(c) \/ WaitEnds(c)
        PROVE Addresses'
    <2>1. \A d \in Caller : pc'[d] = pc[d] \/ pc'[d] \notin {"insert", "write"}
      BY <1>pc, <1>6
      DEF RegisterStarts, UnregisterStarts, PassesOpen, CloseFrame, SetClosing, JoinOld,
          StartConnection, WaitEnds, Goto
    <2>2. UNCHANGED <<frame, drawn, accepted, reply_handlers_>>
      BY <1>6
      DEF RegisterStarts, UnregisterStarts, CloseFrame, SetClosing, JoinOld, StartConnection,
          WaitEnds, bus
    <2>3. CASE StartConnection(c)
      <3>1. Unserved
        BY <2>3, <1>pc DEF StartConnection, Unserved, Threads, Managing
      <3> QED  BY <2>1, <2>2, <3>1, OtherStepAddresses
    <2>4. CASE ~StartConnection(c)
      <3>1. Unserved' => Unserved
        BY <1>6, <2>4
        DEF RegisterStarts, UnregisterStarts, CloseFrame, SetClosing, JoinOld, WaitEnds,
            Unserved, ioVars
      <3> QED  BY <2>1, <2>2, <3>1, OtherStepAddresses
    <2> QED  BY <2>3, <2>4
  <1>7. CASE Manages
    <2>1. \A d \in Caller : pc'[d] = pc[d] \/ pc'[d] \notin {"insert", "write"}
      BY <1>pc, <1>7 DEF Manages, CloseStarts, PassesOpen, ConnectStarts, WaitStarts, Goto
    <2> QED
      BY <1>7, <2>1, OtherStepAddresses
      DEF Manages, CloseStarts, ConnectStarts, WaitStarts, bus, ioVars, Unserved
  <1>8. CASE OnMessage \/ ClearHandlers
    BY <1>8 DEF OnMessage, ClearHandlers, ioVars, Addresses, Sends, Unserved
  <1>9. CASE IoThread /\ ~OnMessage /\ ~ClearHandlers
    <2>1. UNCHANGED <<pc, frame, drawn, accepted, reply_handlers_>>
      BY <1>9
      DEF IoThread, HandshakeDone, OnOpen, StartPingInterval, OnFail, ConnectionEnds, OnClose,
          StopPingInterval, JoinPing, RunReturns, bus
    <2>2. Unserved' => Unserved
      BY <1>9
      DEF IoThread, HandshakeDone, OnOpen, StartPingInterval, OnFail, ConnectionEnds, OnClose,
          StopPingInterval, JoinPing, RunReturns, Unserved, Threads, ConnByPlace
    <2> QED  BY <2>1, <2>2, OtherStepAddresses
  <1>10. CASE PingThread \/ Bridge
    BY <1>10, OtherStepAddresses DEF PingThread, PingTimesOut, PingSent, PingEnds, Bridge, bus, ioVars, Unserved
  <1> QED
    BY <1>1, <1>2, <1>3, <1>4, <1>5, <1>6, <1>7, <1>8, <1>9, <1>10 DEF Next, Starts, Continues

(* A Send that returned true has left no reply handler when its connection's  *)
(* I/O thread has returned, whatever other threads did meanwhile.            *)
THEOREM AcceptedHandlersCleared == Spec => []AcceptedAreCleared
  <1>1. Addresses => AcceptedAreCleared
    BY DEF Addresses, Unserved, AcceptedAreCleared
  <1> QED  BY <1>1, InitAddresses, NextAddresses, ThreadsInvariant, PTL DEF Spec

-----------------------------------------------------------------------------
(* What only TypeOK says; Threads and Addresses have the rest. *)
Types ==
    /\ state_ \in {"kConnecting", "kOpen", "kClosing", "kClosed"}
    /\ asio_thread_ \in {"null", "joinable", "joined"}
    /\ ping \in {"none", "waits", "sends", "ended"} /\ ping_lock_ \in {"free", "io", "ping"}
    /\ perpetual \in BOOLEAN /\ do_ping_ \in BOOLEAN /\ registered \in BOOLEAN
    /\ connects \in Nat /\ handlers \in Nat
    /\ reply_handlers_ \subseteq drawn /\ drawn \subseteq ReplyAddress
    /\ up \in Seq(Frame) /\ down \in Seq(ReplyAddress)

(* Calls keep them. *)
LEMMA CallTypes ==
    ASSUME Threads, Addresses, Types, NEW c \in Caller, Starts(c) \/ Continues(c)
    PROVE  Types'
  <1> USE VertxBusAssumption
  <1>0. frame \in [Caller -> Frame] /\ pc \in [Caller -> PC]
    BY DEF Addresses, Threads
  <1>1. CASE SendStarts(c)
    BY <1>1 DEF SendStarts, Types, ioVars
  <1>2. CASE InsertReplyHandler(c)
    BY <1>2 DEF InsertReplyHandler, Types, ioVars, Addresses, Sends
  <1>3. CASE Write(c)
    <2>1. Sent(c) \in Seq(Frame)
      BY <1>0 DEF Sent, Types
    <2> QED  BY <1>3, <2>1 DEF Write, Types, ioVars
  <1>4. CASE Push(c)
    BY <1>4 DEF Push, Types, ioVars
  <1>5. CASE Erase(c)
    <2>1. handlers' \in Nat
      BY <1>5 DEF Erase, Types
    <2> QED  BY <1>5, <2>1 DEF Erase, Types, ioVars
  <1>6. CASE RegisterStarts(c) \/ UnregisterStarts(c)
    BY <1>6 DEF RegisterStarts, UnregisterStarts, Types, ioVars
  <1>7. CASE CloseFrame(c) \/ SetClosing(c)
    BY <1>7 DEF CloseFrame, SetClosing, Types, ioVars, bus
  <1>8. CASE JoinOld(c)
    BY <1>8 DEF JoinOld, Types, bus
  <1>9. CASE StartConnection(c)
    <2>1. perpetual' \in BOOLEAN /\ asio_thread_' \in {"null", "joinable", "joined"}
      BY <1>9 DEF StartConnection, Types
    <2> QED  BY <1>9, <2>1 DEF StartConnection, Types, bus
  <1>10. CASE WaitEnds(c)
    BY <1>10 DEF WaitEnds, Types, bus
  <1> QED  BY <1>1, <1>2, <1>3, <1>4, <1>5, <1>6, <1>7, <1>8, <1>9, <1>10
    DEF Starts, Continues

(* So does everybody. *)
LEMMA NextTypes == Threads /\ Addresses /\ Types /\ [Next]_vars => Types'
  <1> SUFFICES ASSUME Threads, Addresses, Types, [Next]_vars PROVE Types'
    OBVIOUS
  <1>1. CASE Manages
    BY <1>1 DEF Manages, CloseStarts, ConnectStarts, WaitStarts, Types, ioVars, bus
  <1>2. CASE HandshakeDone \/ OnOpen \/ StartPingInterval \/ OnFail
    BY <1>2 DEF HandshakeDone, OnOpen, StartPingInterval, OnFail, Types, bus
  <1>3. CASE OnMessage
    <2>1. down' \in Seq(ReplyAddress)
      BY <1>3, HeadTailProperties DEF OnMessage, Types
    <2> QED  BY <1>3, <2>1 DEF OnMessage, Types, ioVars
  <1>4. CASE ConnectionEnds
    BY <1>4, EmptySeq DEF ConnectionEnds, Types
  <1>5. CASE OnClose \/ StopPingInterval \/ JoinPing \/ RunReturns
    BY <1>5 DEF OnClose, StopPingInterval, JoinPing, RunReturns, Types, bus
  <1>6. CASE ClearHandlers
    BY <1>6 DEF ClearHandlers, Types
  <1>7. CASE PingThread
    BY <1>7 DEF PingThread, PingTimesOut, PingSent, PingEnds, Types, bus
  <1>8. CASE Bridge
    <2>1. up' \in Seq(Frame) /\ down' \in Seq(ReplyAddress)
      <3>1. up \in Seq(Frame) /\ down \in Seq(ReplyAddress) /\ up # <<>> /\ up' = Tail(up)
        BY <1>8 DEF Bridge, Types
      <3>2. Tail(up) \in Seq(Frame)
        BY <3>1, HeadTailProperties
      <3>3. Head(up) \in ReplyAddress => Append(down, Head(up)) \in Seq(ReplyAddress)
        BY <3>1, AppendProperties
      <3>4. down' = down \/ (Head(up) \in ReplyAddress /\ down' = Append(down, Head(up)))
        BY <1>8 DEF Bridge
      <3> QED  BY <3>1, <3>2, <3>3, <3>4
    <2>2. registered' \in BOOLEAN
      <3>1. CASE Head(up) = "register"
        BY <1>8, <3>1 DEF Bridge
      <3>2. CASE Head(up) = "unregister"
        BY <1>8, <3>2 DEF Bridge
      <3>3. CASE Head(up) \notin {"register", "unregister"}
        BY <1>8, <3>3, Zenon DEF Bridge, Types
      <3> QED  BY <3>1, <3>2, <3>3
    <2> QED  BY <1>8, <2>1, <2>2 DEF Bridge, Types, ioVars
  <1>9. CASE UNCHANGED vars
    BY <1>9 DEF vars, Types
  <1> QED  BY <1>1, <1>2, <1>3, <1>4, <1>5, <1>6, <1>7, <1>8, <1>9, CallTypes DEF Next, IoThread

(* The parts hold together. *)
LEMMA PartsInvariant == Spec => [](Threads /\ Addresses /\ Types)
  <1>1. Init => Types
    <2>1. <<>> \in Seq(Frame) /\ <<>> \in Seq(ReplyAddress)
      BY EmptySeq
    <2>2. ASSUME Init PROVE up \in Seq(Frame) /\ down \in Seq(ReplyAddress)
      BY <2>1, <2>2, Zenon DEF Init
    <2>3. ASSUME Init
          PROVE  /\ perpetual \in BOOLEAN /\ do_ping_ \in BOOLEAN /\ registered \in BOOLEAN
                 /\ reply_handlers_ \subseteq drawn /\ drawn \subseteq ReplyAddress
      BY <2>3 DEF Init
    <2>4. ASSUME Init
          PROVE  /\ state_ = "kClosed" /\ asio_thread_ = "null" /\ ping = "none" /\ ping_lock_ = "free"
                 /\ connects \in Nat /\ handlers \in Nat
      BY <2>4 DEF Init
    <2> QED  BY <2>2, <2>3, <2>4 DEF Types
  <1> QED  BY <1>1, InitThreads, NextThreads, InitAddresses, NextAddresses, NextTypes, PTL DEF Spec

(* Type correctness. *)
THEOREM TypeCorrect == Spec => []TypeOK
  <1>1. Threads /\ Addresses /\ Types => TypeOK
    BY DEF Threads, Addresses, Types, TypeOK
  <1> QED  BY <1>1, PartsInvariant, PTL

-----------------------------------------------------------------------------
(* The frames on the WebSocket: none without a connection, each reply        *)
(* address at most once in either direction, and only such as were accepted. *)
Frames ==
    /\ conn \notin {"open", "closing"} => up = <<>> /\ down = <<>>
    /\ \A i \in 1..Len(up) : up[i] \in ReplyAddress => up[i] \in accepted
    /\ \A i \in 1..Len(down) : down[i] \in accepted
    /\ \A i, j \in 1..Len(up) : up[i] \in ReplyAddress /\ up[i] = up[j] => i = j
    /\ \A i, j \in 1..Len(down) : down[i] = down[j] => i = j
    /\ \A i \in 1..Len(up), j \in 1..Len(down) : up[i] # down[j]

(* The first Connect finds no connection, and until it is followed by another *)
(* no connection is queued that was over.                                    *)
FirstConnect ==
    /\ connects = 0 => conn = "none" /\ pc[Owner] \notin {"connect", "start"}
    /\ connects = 1 /\ pc[Owner] \in {"connect", "start"} => conn = "none"

(* Until then every address on its way has its handler filed. *)
Filed ==
    connects < 2 =>
        /\ \A i \in 1..Len(up) : up[i] \in ReplyAddress => up[i] \in reply_handlers_
        /\ \A i \in 1..Len(down) : down[i] \in reply_handlers_
        /\ conn # "over" =>
              \A c \in Caller : pc[c] = "write" /\ frame[c] \in ReplyAddress => frame[c] \in reply_handlers_

Awaited == Frames /\ FirstConnect /\ Filed

(* The first Connect comes once. *)
LEMMA NextFirstConnect == Threads /\ Types /\ FirstConnect /\ [Next]_vars => FirstConnect'
  <1> SUFFICES ASSUME Threads, Types, FirstConnect, [Next]_vars PROVE FirstConnect'
    OBVIOUS
  <1> USE VertxBusAssumption
  <1>pc. pc \in [Caller -> PC] /\ connects \in Nat
    BY DEF Threads, Types
  <1>1. ASSUME NEW c \in Caller,
               \/ Starts(c) \/ InsertReplyHandler(c) \/ Write(c) \/ Push(c) \/ Erase(c)
               \/ SetClosing(c) \/ WaitEnds(c)
        PROVE  FirstConnect'
    <2>1. \A d \in Caller : pc'[d] = pc[d] \/ pc'[d] \notin {"connect", "start"}
      BY <1>pc, <1>1
      DEF Starts, SendStarts, RegisterStarts, UnregisterStarts, PassesOpen, InsertReplyHandler,
          Write, Push, Erase, SetClosing, WaitEnds, Goto
    <2>2. UNCHANGED <<connects, conn>>
      BY <1>1
      DEF Starts, SendStarts, RegisterStarts, UnregisterStarts, InsertReplyHandler, Write, Push,
          Erase, SetClosing, WaitEnds, ioVars
    <2> QED  BY <2>1, <2>2 DEF FirstConnect
  <1>2. ASSUME NEW c \in Caller, CloseFrame(c) PROVE FirstConnect'
    BY <1>pc, <1>2 DEF CloseFrame, Goto, FirstConnect
  <1>3. ASSUME NEW c \in Caller, JoinOld(c) \/ StartConnection(c) PROVE FirstConnect'
    <2>1. c = Owner
      BY <1>pc, <1>3 DEF JoinOld, StartConnection, Threads, Managing
    <2> QED  BY <1>pc, <1>3, <2>1 DEF JoinOld, StartConnection, Goto, FirstConnect
  <1>4. CASE Manages
    BY <1>pc, <1>4
    DEF Manages, CloseStarts, PassesOpen, ConnectStarts, WaitStarts, Goto, ioVars, FirstConnect
  <1>5. CASE IoThread
    BY <1>5
    DEF IoThread, HandshakeDone, OnOpen, StartPingInterval, OnFail, OnMessage, ConnectionEnds,
        OnClose, StopPingInterval, JoinPing, ClearHandlers, RunReturns, ioVars, FirstConnect
  <1>6. CASE PingThread \/ Bridge \/ UNCHANGED vars
    BY <1>6 DEF PingThread, PingTimesOut, PingSent, PingEnds, Bridge, ioVars, vars, FirstConnect
  <1> QED  BY <1>1, <1>2, <1>3, <1>4, <1>5, <1>6 DEF Next, Continues

(* A step that moves no frame, drops no handler, and brings nobody to          *)
(* client_.send without one.                                                  *)
LEMMA OtherStepAwaited ==
    ASSUME Types, Frames, Filed, UNCHANGED <<up, down, accepted>>,
           reply_handlers_ \subseteq reply_handlers_', connects' < 2 => connects < 2,
           conn \in {"open", "closing"} => conn' \in {"open", "closing"},
           connects < 2 /\ conn = "over" => conn' = "over",
           \A c \in Caller : pc'[c] = "write" /\ frame'[c] \in ReplyAddress =>
               \/ frame'[c] \in reply_handlers_'
               \/ pc[c] = "write" /\ frame'[c] = frame[c]
    PROVE  Frames' /\ Filed'
  <1>1. Frames'
    BY DEF Frames
  <1>2. Filed'
    BY DEF Filed
  <1> QED  BY <1>1, <1>2

(* client_.send. *)
LEMMA WriteAwaited ==
    ASSUME Threads, Addresses, Types, Awaited, NEW c \in Caller, Write(c)
    PROVE  Frames' /\ Filed'
  <1>1. /\ pc[c] = "write" /\ frame[c] \in Frame /\ pc'[c] = "idle"
        /\ \A d \in Caller \ {c} : pc'[d] = pc[d]
        /\ UNCHANGED <<connects, conn, frame, reply_handlers_, down>>
    BY DEF Write, Goto, Threads, Addresses, ioVars
  <1>2. accepted' = accepted \cup {r \in ReplyAddress : conn = "open" /\ r = frame[c]}
    BY DEF Write
  <1>3. CASE conn # "open"
    <2>1. up' = up /\ accepted' = accepted
      BY <1>2, <1>3 DEF Write, Sent
    <2> QED  BY <1>1, <2>1, OtherStepAwaited DEF Awaited
  <1>4. CASE conn = "open"
    <2>1. up \in Seq(Frame) /\ up' = Append(up, frame[c])
      BY <1>4 DEF Write, Sent, Types
    <2>2. /\ Len(up) \in Nat /\ Len(up') = Len(up) + 1 /\ up'[Len(up) + 1] = frame[c]
          /\ \A i \in 1..Len(up) : up'[i] = up[i]
      BY <1>1, <2>1, AppendProperties, LenProperties
    <2>3. frame[c] \in ReplyAddress => frame[c] \in accepted' /\ frame[c] \notin accepted
      BY <1>1, <1>2, <1>4 DEF Addresses, Sends
    <2>4. accepted \subseteq accepted' /\ Len(down') = Len(down)
      BY <1>1, <1>2
    <2>5. \A i \in 1..Len(up') : i \in 1..Len(up) \/ i = Len(up) + 1
      BY <2>2
    <2>6. Frames'
      <3>1. down \in Seq(ReplyAddress)
        BY DEF Types
      <3>2. \A j \in 1..Len(down) : down[j] \in ReplyAddress /\ down[j] \in accepted
        BY <3>1, LenProperties DEF Awaited, Frames
      <3>3. \A i \in 1..Len(up') : up'[i] \in ReplyAddress => up'[i] \in accepted'
        BY <2>2, <2>3, <2>4, <2>5 DEF Awaited, Frames
      <3>4. \A i, j \in 1..Len(up') : up'[i] \in ReplyAddress /\ up'[i] = up'[j] => i = j
        BY <2>2, <2>3, <2>5 DEF Awaited, Frames
      <3>5. \A i \in 1..Len(up'), j \in 1..Len(down) : up'[i] # down[j]
        BY <2>2, <2>3, <2>5, <3>2 DEF Awaited, Frames
      <3> QED  BY <1>1, <1>4, <2>4, <3>3, <3>4, <3>5 DEF Awaited, Frames
    <2>7. Filed'
      <3>1. connects < 2 => \A i \in 1..Len(up') : up'[i] \in ReplyAddress => up'[i] \in reply_handlers_
        BY <1>1, <1>4, <2>2, <2>5 DEF Awaited, Filed
      <3> QED  BY <1>1, <3>1 DEF Awaited, Filed
    <2> QED  BY <2>6, <2>7
  <1> QED  BY <1>3, <1>4

(* The handler of the first reply is erased: nothing else waits for it. *)
LEMMA OnMessageAwaited ==
    ASSUME Threads, Addresses, Types, Awaited, OnMessage
    PROVE  Frames' /\ Filed'
  <1>1. /\ reply_handlers_' = reply_handlers_ \ {Head(down)} /\ down' = Tail(down)
        /\ down \in Seq(ReplyAddress) /\ down # <<>> /\ conn = "open"
        /\ UNCHANGED <<connects, conn, pc, frame, up, accepted>>
    BY DEF OnMessage, ioVars, Types
  <1>2. /\ Len(down) \in Nat /\ Len(down') = Len(down) - 1 /\ Head(down) = down[1] /\ 1 \in 1..Len(down)
        /\ \A i \in 1..Len(down') : down'[i] = down[i + 1] /\ i + 1 \in 1..Len(down)
    BY <1>1, HeadTailProperties, LenProperties, EmptySeq
  <1>3. Frames'
    <2>1. \A i, j \in 1..Len(down') : down'[i] = down'[j] => i = j
      BY <1>2 DEF Awaited, Frames
    <2>2. \A i \in 1..Len(up), j \in 1..Len(down') : up[i] # down'[j]
      BY <1>2 DEF Awaited, Frames
    <2>3. \A i \in 1..Len(down') : down'[i] \in accepted
      BY <1>2 DEF Awaited, Frames
    <2> QED  BY <1>1, <2>1, <2>2, <2>3 DEF Awaited, Frames
  <1>4. \A i \in 1..Len(down') : down'[i] # Head(down)
    BY <1>2 DEF Awaited, Frames
  <1>5. \A i \in 1..Len(up) : up[i] # Head(down)
    BY <1>2 DEF Awaited, Frames
  <1>6. \A c \in Caller : pc[c] = "write" /\ frame[c] \in ReplyAddress => frame[c] # Head(down)
    BY <1>2 DEF Awaited, Frames, Addresses, Sends
  <1>7. Filed'
    <2>1. connects < 2 => \A i \in 1..Len(down') : down'[i] \in reply_handlers_'
      BY <1>1, <1>2, <1>4 DEF Awaited, Filed
    <2> QED  BY <1>1, <1>5, <1>6, <2>1 DEF Awaited, Filed
  <1> QED  BY <1>3, <1>7

(* The bridge takes a frame and may answer it. *)
LEMMA BridgeAwaited ==
    ASSUME Threads, Addresses, Types, Awaited, Bridge
    PROVE  Frames' /\ Filed'
  <1>1. /\ up \in Seq(Frame) /\ up # <<>> /\ up' = Tail(up) /\ down \in Seq(ReplyAddress)
        /\ down' = down \/ (Head(up) \in ReplyAddress /\ down' = Append(down, Head(up)))
        /\ conn \in {"open", "closing"}
        /\ UNCHANGED <<connects, conn, pc, frame, reply_handlers_, accepted>>
    BY DEF Bridge, ioVars, Types
  <1>2. /\ Len(up) \in Nat /\ Len(up') = Len(up) - 1 /\ Head(up) = up[1] /\ 1 \in 1..Len(up)
        /\ \A i \in 1..Len(up') : up'[i] = up[i + 1] /\ i + 1 \in 1..Len(up) /\ i + 1 # 1
    BY <1>1, HeadTailProperties, LenProperties, EmptySeq
  <1>3. /\ Len(down) \in Nat
        /\ \A j \in 1..Len(down') :
             \/ j \in 1..Len(down) /\ down'[j] = down[j]
             \/ j = Len(down) + 1 /\ down'[j] = up[1] /\ up[1] \in ReplyAddress
    <2>1. Len(down) \in Nat
      BY <1>1, LenProperties
    <2>2. CASE Head(up) \in ReplyAddress /\ down' = Append(down, Head(up))
      BY <1>1, <1>2, <2>1, <2>2, AppendProperties
    <2> QED  BY <1>1, <2>1, <2>2
  <1>4. Frames'
    <2>1. \A i \in 1..Len(up') : up'[i] \in ReplyAddress => up'[i] \in accepted
      BY <1>2 DEF Awaited, Frames
    <2>2. \A i, j \in 1..Len(up') : up'[i] \in ReplyAddress /\ up'[i] = up'[j] => i = j
      BY <1>2 DEF Awaited, Frames
    <2>3. \A j \in 1..Len(down') : down'[j] \in accepted
      BY <1>2, <1>3 DEF Awaited, Frames
    <2>4. \A i, j \in 1..Len(down') : down'[i] = down'[j] => i = j
      BY <1>2, <1>3 DEF Awaited, Frames
    <2>5. ASSUME NEW i \in 1..Len(up'), NEW j \in 1..Len(down') PROVE up'[i] # down'[j]
      <3>1. CASE j \in 1..Len(down) /\ down'[j] = down[j]
        BY <1>2, <3>1 DEF Awaited, Frames
      <3>2. CASE down'[j] = up[1] /\ up[1] \in ReplyAddress
        BY <1>2, <3>2 DEF Awaited, Frames
      <3> QED  BY <1>3, <3>1, <3>2
    <2> QED  BY <1>1, <2>1, <2>2, <2>3, <2>4, <2>5 DEF Frames
  <1>5. Filed'
    <2>1. connects < 2 => \A i \in 1..Len(up') : up'[i] \in ReplyAddress => up'[i] \in reply_handlers_
      BY <1>2 DEF Awaited, Filed
    <2>2. connects < 2 => \A j \in 1..Len(down') : down'[j] \in reply_handlers_
      BY <1>2, <1>3 DEF Awaited, Filed
    <2> QED  BY <1>1, <2>1, <2>2 DEF Awaited, Filed
  <1> QED  BY <1>4, <1>5

(* The connection is over, or about to be cleared: nothing is on its way.    *)
LEMMA OverAwaited ==
    ASSUME Threads, Types, Awaited, ConnectionEnds \/ ClearHandlers
    PROVE  Frames' /\ Filed'
  <1>1. conn' = "over" /\ up' = <<>> /\ down' = <<>>
    BY DEF ConnectionEnds, ClearHandlers, Threads, ConnByPlace, Awaited, Frames
  <1>2. Len(up') = 0 /\ Len(down') = 0
    BY <1>1, EmptySeq
  <1> QED  BY <1>1, <1>2 DEF Frames, Filed

(* Every step keeps all of it. *)
LEMMA NextAwaited == Threads /\ Addresses /\ Types /\ Awaited /\ [Next]_vars => Awaited'
  <1> SUFFICES ASSUME Threads, Addresses, Types, Awaited, [Next]_vars PROVE Frames' /\ Filed'
    BY NextFirstConnect DEF Awaited
  <1> USE VertxBusAssumption
  <1>pc. pc \in [Caller -> PC] /\ frame \in [Caller -> Frame] /\ connects \in Nat
    BY DEF Threads, Addresses, Types
  <1>aw. Frames /\ Filed
    BY DEF Awaited
  <1>1. ASSUME NEW c \in Caller, SendStarts(c) PROVE Frames' /\ Filed'
    <2>1. /\ \A d \in Caller \ {c} : pc'[d] = pc[d] /\ frame'[d] = frame[d]
          /\ pc'[c] = "insert" \/ frame'[c] = "message"
      BY <1>pc, <1>1 DEF SendStarts, PassesOpen, Goto
    <2>2. UNCHANGED <<up, down, accepted, reply_handlers_, connects, conn>>
      BY <1>1 DEF SendStarts, ioVars
    <2> QED  BY <1>aw, <2>1, <2>2, OtherStepAwaited
  <1>2. ASSUME NEW c \in Caller, InsertReplyHandler(c) PROVE Frames' /\ Filed'
    <2>1. /\ \A d \in Caller \ {c} : pc'[d] = pc[d]
          /\ reply_handlers_' = reply_handlers_ \cup {frame[c]}
          /\ UNCHANGED <<up, down, accepted, frame, connects, conn>>
      BY <1>pc, <1>2 DEF InsertReplyHandler, Goto, ioVars
    <2> QED  BY <1>aw, <2>1, OtherStepAwaited
  <1>3. ASSUME NEW c \in Caller, Push(c) \/ Erase(c) PROVE Frames' /\ Filed'
    <2>1. /\ \A d \in Caller \ {c} : pc'[d] = pc[d] /\ frame'[d] = frame[d]
          /\ pc'[c] = "idle" \/ frame'[c] \in {"register", "unregister"}
      BY <1>pc, <1>3 DEF Push, Erase, Goto
    <2>2. UNCHANGED <<up, down, accepted, reply_handlers_, connects, conn>>
      BY <1>3 DEF Push, Erase, ioVars
    <2> QED  BY <1>aw, <2>1, <2>2, OtherStepAwaited
  <1>4. ASSUME NEW c \in Caller,
               \/ RegisterStarts(c) \/ UnregisterStarts(c) \/ CloseFrame(c) \/ SetClosing(c)
               \/ JoinOld(c) \/ StartConnection(c) \/ WaitEnds(c)
        PROVE  Frames' /\ Filed'
    <2>1. \A d \in Caller : pc'[d] = pc[d] \/ pc'[d] # "write"
      BY <1>pc, <1>4
      DEF RegisterStarts, UnregisterStarts, PassesOpen, CloseFrame, SetClosing, JoinOld,
          StartConnection, WaitEnds, Goto
    <2>2. UNCHANGED <<up, down, accepted, frame, reply_handlers_, connects>>
      BY <1>4
      DEF RegisterStarts, UnregisterStarts, CloseFrame, SetClosing, JoinOld, StartConnection,
          WaitEnds, bus, ioVars
    <2>3. CASE StartConnection(c)
      <3>1. conn \in {"none", "over"} /\ (connects < 2 => conn = "none")
        BY <1>pc, <2>3
        DEF StartConnection, Threads, Managing, ConnByPlace, Awaited, FirstConnect
      <3> QED  BY <1>aw, <2>1, <2>2, <3>1, OtherStepAwaited
    <2>4. CASE ~StartConnection(c)
      <3>1. conn' = conn \/ (conn = "open" /\ conn' = "closing")
        BY <1>4, <2>4
        DEF RegisterStarts, UnregisterStarts, CloseFrame, SetClosing, JoinOld, WaitEnds, ioVars
      <3> QED  BY <1>aw, <2>1, <2>2, <3>1, OtherStepAwaited
    <2> QED  BY <2>3, <2>4
  <1>5. CASE Manages
    <2>1. /\ \A d \in Caller : pc'[d] = pc[d] \/ pc'[d] # "write"
          /\ connects' < 2 => connects < 2
          /\ UNCHANGED <<up, down, accepted, frame, reply_handlers_, conn>>
      BY <1>pc, <1>5
      DEF Manages, CloseStarts, PassesOpen, ConnectStarts, WaitStarts, Goto, bus, ioVars
    <2> QED  BY <1>aw, <2>1, OtherStepAwaited
  <1>6. CASE IoThread /\ ~OnMessage /\ ~ConnectionEnds /\ ~ClearHandlers
    <2>1. /\ UNCHANGED <<up, down, accepted, frame, reply_handlers_, connects, pc>>
          /\ conn' = conn \/ conn = "queued"
      BY <1>6
      DEF IoThread, HandshakeDone, OnOpen, StartPingInterval, OnFail, OnClose, StopPingInterval, JoinPing,
          RunReturns, bus
    <2> QED  BY <1>aw, <2>1, OtherStepAwaited
  <1>7. CASE PingThread \/ UNCHANGED vars
    <2>1. UNCHANGED <<up, down, accepted, frame, reply_handlers_, connects, pc, conn>>
      BY <1>7 DEF PingThread, PingTimesOut, PingSent, PingEnds, bus, vars
    <2> QED  BY <1>aw, <2>1, OtherStepAwaited
  <1> QED
    BY <1>1, <1>2, <1>3, <1>4, <1>5, <1>6, <1>7, WriteAwaited, OnMessageAwaited, BridgeAwaited,
       OverAwaited
    DEF Next, Starts, Continues, IoThread

(* Until a second Connect, a reply finds its handler, however fast the bridge *)
(* answers and whichever callers send at the same time.                      *)
THEOREM RepliesFindTheirHandlers == Spec => []RepliesAwaited
  <1>1. Init => Awaited
    <2>1. ASSUME Init PROVE Len(up) = 0 /\ Len(down) = 0
      BY <2>1, EmptySeq DEF Init
    <2> QED  BY <2>1, VertxBusAssumption DEF Init, Awaited, Frames, FirstConnect, Filed
  <1>2. Types /\ Awaited => RepliesAwaited
    <2>1. Types => DOMAIN down = 1..Len(down)
      BY LenProperties DEF Types
    <2> QED  BY <2>1 DEF Awaited, Filed, RepliesAwaited
  <1> QED  BY <1>1, <1>2, PartsInvariant, NextAwaited, PTL DEF Spec
=============================================================================
