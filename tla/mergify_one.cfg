SPECIFICATION FairSpec
CONSTANTS
    s1 = s1
    s2 = s2
    Session = {s1}
    Waits = {"none", "zero", "positive"}
    MaxHead = 2
    MaxRequeues = 1
    MaxDelayed = 1
CHECK_DEADLOCK FALSE
INVARIANTS
    TypeOK
    RequestedOnce
    ConfirmedEntered
PROPERTIES
    LeftMeansUnmerged
    Termination
