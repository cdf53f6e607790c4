SPECIFICATION Spec
CONSTANTS
    c1 = c1
    c2 = c2
    imprint = imprint
    config = config
    Calls = {c1, c2}
    Paths = {imprint, config}
    NoPath = NoPath
    PeoplePaths = {imprint}
    SignedPaths = {imprint}
    Ops <- MCOps
    Rulings = {r1}
    NoRuling = NoRuling
    Predicates <- MCPredicates
    MaxEvents = 1
    MaxOverrides = 1
    MaxFailures = 1
SYMMETRY Symmetry
INVARIANTS
    NothingOffTheRecord
    
    CouncilBinds
