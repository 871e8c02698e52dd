SPECIFICATION Spec
CONSTANTS
    c1 = c1
    c2 = c2
    c3 = c3
    s1 = s1
    s2 = s2
    NoCommit = NoCommit
    Commit = {c1, c2, c3}
    Session = {s1}
    Runs <- OneDeliverer
    WaitModes = {"none", "zero", "positive"}
    MaxMoves = 4
    Queue = FALSE
SYMMETRY CommitSymmetry
CHECK_DEADLOCK FALSE
INVARIANTS
    TypeOK
    LandedGated
    ActivationGated
    OneActivation
PROPERTIES
    ReadyMeansGated
    NoForeignCommitLost
