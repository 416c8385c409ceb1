\* Two directories and two files: one of each to be replaced by the other.
CONSTANTS
    Dirs = {d1, d2}
    Files = {f1, f2}
    Nil = Nil
    MaxChanges = 3
    MaxCalls = 2
SPECIFICATION MCSpec
INVARIANTS MonitorAssertionsHold QuietMonitorIsCurrent
PROPERTY MonitorSettles
CHECK_DEADLOCK FALSE
