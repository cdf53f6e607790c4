SPECIFICATION Spec
CONSTANTS
    h1 = h1
    b1 = b1
    b2 = b2
    Requests = {q1, q2}
    Harnesses = {h1}
    NoHarness = NoHarness
    Backends = {b1, b2}
    NoBackend = NoBackend
    Registry = {b1, b2}
    Commands = {b1, b2}
    AlwaysDenied = {b2}
    Policies <- MCPolicies
    Arrivals <- MCArrivals
    EstateKnown = TRUE
    Wired = TRUE
    MaxMints = 2
    MaxActs = 1
    MaxFailures = 1
INVARIANTS
    ExecutedRightly

    
CHECK_DEADLOCK FALSE
