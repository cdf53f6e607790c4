\* One failure between the write and the unlink of a ruling.
SPECIFICATION Spec
CONSTANTS
    Procs = {p1, p2}
    Ids = {i1}
    Slugs = {s1}
    NoOne = NoOne
    MaxPending = 1
    MaxComments = 0
    MaxFailures = 1
SYMMETRY Symmetry
PROPERTY ExpiryKeepsRulings
