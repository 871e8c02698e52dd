SPECIFICATION Spec
CONSTANTS
    c1 = c1
    c2 = c2
    c3 = c3
    s1 = s1
    s2 = s2
    Commit = {c1, c2, c3}
    Session = {s1}
    MaxResults = 3
    MaxPosts = 3
    MaxDismissals = 1
    Delayed = FALSE
SYMMETRY Symmetry
INVARIANTS
    TypeOK
    SavedBeforePosted
    ConfirmedIsLive
PROPERTIES
    ImplementsBudget
