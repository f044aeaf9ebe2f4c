CONSTANTS
    Requests = {r1}
    Approvers = {a1, a2}
    Calls = {c1, c2, c3}
    Thresholds = {0, 1, 2}
    Free = Free
    NoBallot = NoBallot
    PdpConfigured = TRUE
    FailOpen = TRUE
    CaasConfigured = FALSE
    PushReceivers = FALSE
SYMMETRY Symmetry
SPECIFICATION Spec
INVARIANTS
    DistinctQuorum
