\* One session on local maps: every call runs to its callback before the next.
SPECIFICATION Spec
CONSTANTS
    Null = Null
    k1 = k1
    Addr = {a1}
    Key = {k1, k2}
    Val = {v1}
    Digest <- MCDigest
    Session = {s1}
    Tx = {t1, t2, t3, t4}
    UserOps = {"set", "submit", "get", "clear", "del", "getKeys", "size"}
    Meta = Meta
    Serial = TRUE
    MayFail = FALSE
    LiveKeys = TRUE
INVARIANTS
    MetaExact
\* Callers may stop creating transactions.
CHECK_DEADLOCK FALSE
