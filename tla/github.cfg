SPECIFICATION GithubSpec
CONSTANTS
    Source = {1, 2}
    MaxMoves = 2
    Workflow = {"ci"}
    ReviewAt = 1
    MissingGrace = 1
    StaleGrace = 2
    MaxTime = 3
    MaxRuns = 2
    MaxStatuses = 1
    MaxSteps = 4
    Retries = 3
    ReadBack = 3
    MaxPages = 2
CHECK_DEADLOCK FALSE
INVARIANTS
    GithubTypeOK
    AttestedInstant
    AttestedPolicy
    GreenOutranks
    FailureIsFinal
    WriteOnce
    ResolvedAfterReply
PROPERTIES
    AttestationEnds
    CheckWaitEnds
    CallsEnd
