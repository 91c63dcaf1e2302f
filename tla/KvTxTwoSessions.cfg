\* Two sessions on one local map, one transaction at a time.
SPECIFICATION Spec
CONSTANTS
    Null = Null
    k1 = k1
    Addr = {a1}
    Key = {k1}
    Val = {v1}
    Digest <- MCDigest
    Session = {s1, s2}
    Tx = {t1, t2, t3, t4}
    UserOps = {"set", "del"}
    Meta = Meta
    Serial = TRUE
    MayFail = FALSE
    LiveKeys = TRUE
INVARIANTS
    DataHasMeta
\* Callers may stop creating transactions.
CHECK_DEADLOCK FALSE
