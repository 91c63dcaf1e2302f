\* Every operation, over maps that answer later and may fail; two sessions.
SPECIFICATION FairSpec
CONSTANTS
    Null = Null
    k1 = k1
    Addr = {a1}
    Key = {k1, k2}
    Val = {v1}
    Digest <- MCDigest
    Session = {s1, s2}
    Tx = {t1, t2}
    UserOps = {"set", "submit", "get", "clear", "del", "getKeys", "size"}
    Meta = Meta
    Serial = FALSE
    MayFail = TRUE
    LiveKeys = TRUE
INVARIANTS
    EventsExact
PROPERTIES
    Atomic
    Answered
\* Callers may stop creating transactions.
CHECK_DEADLOCK FALSE
