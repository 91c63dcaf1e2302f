\* Three writers and readers in two sessions, over maps that may fail.
SPECIFICATION Spec
CONSTANTS
    Null = Null
    k1 = k1
    Addr = {a1}
    Key = {k1}
    Val = {v1}
    Digest <- MCDigest
    Session = {s1, s2}
    Tx = {t1, t2, t3}
    UserOps = {"set", "get", "clear"}
    Meta = Meta
    Serial = FALSE
    MayFail = TRUE
    LiveKeys = TRUE
INVARIANTS
    TypeOK
    OutstandingExact
    UndeletedIsCovered
\* Callers may stop creating transactions.
CHECK_DEADLOCK FALSE
