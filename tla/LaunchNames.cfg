SPECIFICATION Spec
CONSTANTS
    Launcher = {l1}
    Conversation = {c1, c2}
    Interval = 2
    MaxSkew = 1
    MaxBatches = 2
    MaxFaults = 2
PROPERTIES OwnNames
CHECK_DEADLOCK FALSE
