\* Two requests over three paths of two addresses, maps that may fail.
SPECIFICATION FairSpec
CONSTANTS
    a1 = a1
    a2 = a2
    k1 = k1
    p3 = p3
    Addr = {a1, a2}
    Key = {k1, k2}
    Val = {v1, v2}
    Null = Null
    Digest <- MCDigest
    Exchange = {r1, r2}
    Path = {p1, p2, p3}
    Straddr <- MCStraddr
INVARIANTS
    TypeOK
    AnsweredAsAnnounced
    RefusedWritesNothing
    AnsweredIsVisible
PROPERTIES
    Responds
\* Clients need not send requests.
CHECK_DEADLOCK FALSE
