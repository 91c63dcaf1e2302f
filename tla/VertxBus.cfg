\* Two threads use the API over two connections of one of them.
SPECIFICATION FairSpec
CONSTANTS
    main = main
    worker = worker
    Caller = {main, worker}
    Owner = main
    ReplyAddress = {r1}
    MaxConnects = 2
    MaxHandlers = 1
    MaxFrames = 2
INVARIANTS
    TypeOK
    QuietWhenOff
    IoIsJoinable
    OpenIsLive
    AcceptedAreCleared
    RepliesAwaited
PROPERTIES
    ShutsDown
\* Nobody has to call, and a thrown exception ends its thread.
CHECK_DEADLOCK FALSE
