CONSTANTS
    Callers = {c1, c2}
    Listening = {c1, c2}
    MaxRetries = 2
    Delay = 1
    PolicyDelays = {2}
    Nil = Nil
SPECIFICATION Spec
INVARIANT FirstDelayIsConstructed
CHECK_DEADLOCK FALSE
