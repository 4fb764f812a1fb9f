SPECIFICATION Spec
CONSTANTS
    ca1 = ca1
    ca2 = ca2
    root = root
    CAs <- MCCAs
    DefaultCA = root
    Configs <- MCConfigs
    MaxStarts = 2
    MaxPolls = 2
    MaxFaults = 2
INVARIANTS
    StaysUp
    FailedStartLeavesNothing
    DrainedMeansDone
PROPERTY
    CallsReturn
