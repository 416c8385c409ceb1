\* Three threads: one may wake the wrong one of the other two.
CONSTANTS
    Threads = {t1, t2, t3}
    Values = {v1, v2}
    Nil = Nil
    MaxCalls = 1
SPECIFICATION Spec
INVARIANTS NobodySleepsWhoCouldGoOn EachValueOnce
PROPERTY ImplementsTMVar
CHECK_DEADLOCK FALSE
