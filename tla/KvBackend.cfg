\* Two transactions over MapDB, whose process dies once.
SPECIFICATION BackFairSpec
CONSTANTS
    Null = Null
    k1 = k1
    Addr = {a1}
    Key = {k1, k2}
    Val = {v1}
    Digest <- MCDigest
    Session = {s1}
    Tx = {t1, t2}
    UserOps = {"set", "submit", "clear", "del", "getKeys"}
    Meta = Meta
    Serial = FALSE
    MayFail = TRUE
    LiveKeys = TRUE
    MaxCrashes = 1
INVARIANTS
    AcknowledgedSurvives
    UncommittedIsPending
    ListedIsDurable
PROPERTIES
    AnsweredOrLost
\* Callers may stop creating transactions.
CHECK_DEADLOCK FALSE
