CONSTANTS
    Callers = {c1, c2}
    Listening = {c1, c2}
    MaxRetries = 2
    Delay = 1
    PolicyDelays = {}
    Nil = Nil
SPECIFICATION Spec
INVARIANT StartReturnsIdentifier
CHECK_DEADLOCK FALSE
