SPECIFICATION Spec
CONSTANTS
    s1 = s1
    s2 = s2
    Session = {s1, s2}
    Waits = {"positive"}
    MaxHead = 1
    MaxRequeues = 1
    MaxDelayed = 1
SYMMETRY SessionSymmetry
CHECK_DEADLOCK FALSE
INVARIANTS
    RequestedOnce
