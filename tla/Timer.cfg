CONSTANTS
    MaxResumes = 3
    MaxFires = 1
    MaxBacklog = 2
SPECIFICATION Spec
INVARIANTS RunningTimerTicks NoFireFromNowhere
PROPERTIES RunningTimerFires UnwantedTimerGoesQuiet
CHECK_DEADLOCK FALSE
