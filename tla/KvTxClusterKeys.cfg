\* One caller after the other in a cluster, where LocalKeyProvider is the fallback.
SPECIFICATION Spec
CONSTANTS
    Null = Null
    k1 = k1
    Addr = {a1}
    Key = {k1, k2}
    Val = {v1}
    Digest <- MCDigest
    Session = {s1}
    Tx = {t1, t2}
    UserOps = {"set", "getKeys"}
    Meta = Meta
    Serial = TRUE
    MayFail = FALSE
    LiveKeys = FALSE
PROPERTIES
    Atomic
\* Callers may stop creating transactions.
CHECK_DEADLOCK FALSE
