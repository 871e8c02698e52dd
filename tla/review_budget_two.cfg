SPECIFICATION Spec
CONSTANTS
    c1 = c1
    c2 = c2
    c3 = c3
    s1 = s1
    s2 = s2
    Commit = {c1, c2}
    Session = {s1, s2}
    MaxResults = 2
    MaxPosts = 2
    MaxDismissals = 1
    Delayed = FALSE
SYMMETRY Symmetry
INVARIANTS
    BudgetKept
