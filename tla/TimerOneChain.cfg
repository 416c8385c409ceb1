CONSTANTS
    MaxResumes = 3
    MaxFires = 1
    MaxBacklog = 2
SPECIFICATION Spec
INVARIANT OneChainPerGeneration
CHECK_DEADLOCK FALSE
