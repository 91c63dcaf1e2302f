\* Two threads, a table of two rows, one loss of the connection or restart.
SPECIFICATION Spec
CONSTANTS
    Thread = {t1, t2}
    Key = {k1, k2}
    Val = {v1, v2}
    Null = Null
    MaxLosses = 1
SYMMETRY Symmetry
INVARIANTS
    TypeOK
    StoredIsCommitted
    LoadsAnswerWrites
    OnlyDeletesLinger
\* Hazelcast need not call the store.
CHECK_DEADLOCK FALSE
