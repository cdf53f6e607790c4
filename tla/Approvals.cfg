\* Three processes race over one item, and one of them fails at any step.
SPECIFICATION Spec
CONSTANTS
    Procs = {p1, p2, p3}
    Ids = {i1}
    Slugs = {s1}
    NoOne = NoOne
    MaxPending = 1
    MaxComments = 1
    MaxFailures = 1
SYMMETRY Symmetry
INVARIANTS
    ItemIsKept
    GetNeverMisses
    
PROPERTY RulingsStand
