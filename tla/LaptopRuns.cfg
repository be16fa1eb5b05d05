SPECIFICATION Spec
CONSTANTS
    Surface = {s1, s2}
    Profile = {p1}
    Pid = {q1, q2}
    None = None
    Absent = Absent
    Empty = Empty
    Junk = Junk
    MaxBirths = 3
    MaxFaults = 1
SYMMETRY Symmetry
INVARIANTS SessionKnown CloseEffective
PROPERTIES SignalsOnlySessions
CHECK_DEADLOCK FALSE
