CONSTANTS
    Callers = {c1, c2}
    Listening = {c1}
    MaxRetries = 2
    Delay = 1
    PolicyDelays = {}
    Nil = Nil
SPECIFICATION Spec
PROPERTIES CancelSettles ImplementsOperation
CHECK_DEADLOCK FALSE
