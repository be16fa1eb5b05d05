CONSTANTS
    d1 = d1
    d2 = d2
    d3 = d3
    w1 = w1
    w2 = w2
    w3 = w3
    Desktop = {d1, d2, d3}
    Window = {w1, w2, w3}
    None = none
    Failing = {"pass", "fault"}
    MaxTexts = 2
    MaxFaults = 1
SPECIFICATION FairSpec
INVARIANTS TextKept Backed
PROPERTY Checkpointed
CHECK_DEADLOCK FALSE
