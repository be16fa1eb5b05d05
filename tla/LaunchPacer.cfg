SPECIFICATION Spec
CONSTANTS
    Launcher = {l1, l2}
    Conversation = {c1}
    Interval = 2
    MaxSkew = 1
    MaxBatches = 2
    MaxFaults = 2
INVARIANTS OkStarted 
PROPERTIES GapKept BatchEnds
CHECK_DEADLOCK FALSE
