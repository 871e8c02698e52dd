SPECIFICATION FairSpec
CONSTANTS
    c1 = c1
    c2 = c2
    c3 = c3
    s1 = s1
    s2 = s2
    NoCommit = NoCommit
    Commit = {c1, c2}
    Session = {s1}
    Runs <- OneMerger
    WaitModes = {"positive"}
    MaxMoves = 4
    Queue = TRUE
CHECK_DEADLOCK FALSE
INVARIANTS
    LandedGated
PROPERTIES
    LeftMeansUnmerged
    CleanupAfterLanding
    Termination
