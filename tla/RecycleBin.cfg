SPECIFICATION Spec
CONSTANTS
    Desktop = {d1, d2}
    File = {f1, f2}
    MaxNames = 1
    MaxVariants = 2
    MaxSends = 2
    MaxFaults = 1
SYMMETRY Symmetry
INVARIANTS  OriginKept
PROPERTIES DeletesShown
CHECK_DEADLOCK FALSE
