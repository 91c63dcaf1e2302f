\* Two tokens acknowledged by calls of ack or by messages to a listener, on one
\* event loop or on two.
SPECIFICATION FairSpec
CONSTANTS
    Token = {e1, e2}
    Stray = x
    Listener = {l1}
    Caller = Caller
    Loop = {p1, p2}
    Timed = TRUE
INVARIANTS
    TypeOK
    TimersMatchConsumers
    TriggersOncePerLoop
PROPERTIES
    Completes
    SentIsResolved
\* Nobody need send or call ack.
CHECK_DEADLOCK FALSE
