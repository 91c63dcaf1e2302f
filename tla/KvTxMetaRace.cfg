\* One session, no failures, overlapping transactions.
SPECIFICATION Spec
CONSTANTS
    Null = Null
    k1 = k1
    Addr = {a1}
    Key = {k1, k2}
    Val = {v1}
    Digest <- MCDigest
    Session = {s1}
    Tx = {t1, t2, t3}
    UserOps = {"set", "del"}
    Meta = Meta
    Serial = FALSE
    MayFail = FALSE
    LiveKeys = TRUE
INVARIANTS
    DataHasMeta
\* Callers may stop creating transactions.
CHECK_DEADLOCK FALSE
