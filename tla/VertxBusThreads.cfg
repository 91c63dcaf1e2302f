\* Two threads register and unregister over one connection.
SPECIFICATION Spec
CONSTANTS
    main = main
    worker = worker
    Caller = {main, worker}
    Owner = main
    ReplyAddress = {}
    MaxConnects = 1
    MaxHandlers = 1
    MaxFrames = 2
INVARIANTS
    RegistrationAgrees
CHECK_DEADLOCK FALSE
