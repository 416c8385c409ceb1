CONSTANTS
    Callers = {c1, c2}
    Listening = {c1, c2}
    MaxRetries = 2
    Delay = 1
    PolicyDelays = {2}
    Nil = Nil
SYMMETRY CallerSymmetry
SPECIFICATION Spec
INVARIANTS IInv OnlyKnownAborts OneRunUnderWay ResultIsOfLastRun
    RetriesOnlyAfterPolicy DelayHandedOn
PROPERTY NoAttemptAfterCancel
CHECK_DEADLOCK FALSE
