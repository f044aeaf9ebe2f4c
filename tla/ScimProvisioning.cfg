CONSTANTS
    Requests = {r1}
    Approvers = {a1, a2}
    Calls = {c1, c2}
    Thresholds = {0, 1, 2}
    Free = Free
    NoBallot = NoBallot
    PdpConfigured = TRUE
    FailOpen = TRUE
    CaasConfigured = TRUE
    PushReceivers = TRUE
SPECIFICATION ScimSpec
INVARIANTS
    TypeOK
    QuorumOfVotes
    OutcomeEventsBacked
    AnswerMatchesLedger
    ProvisioningBacked
PROPERTIES
    NeverReopened
    CallsReturn
    QuorumDecides
