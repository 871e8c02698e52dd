SPECIFICATION ReviewersSpec
CONSTANTS
    c1 = c1
    c2 = c2
    s1 = s1
    s2 = s2
    Commit = {c1, c2}
    Session = {s1, s2}
    Lists <- BaseLists
    MaxMoves = 3
    Returns = FALSE
    Summary <- DeletedLines
    Family <- BothFamilies
    Works <- OnePartWork
    MaxEvents = 6
    MaxFaults = 1
    Shell = {1, 2}
INVARIANTS
    SavedLoads
