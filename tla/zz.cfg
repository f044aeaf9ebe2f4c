CONSTANTS
    Records = {r1}
    Threads = {t1, t2}
    Payloads <- ChildPayload
    AgentActions = {"quarantine"}
    BlueprintActions = {"deprovision_children"}
    SetStatuses = {"active"}
    Forces = {TRUE}
    NoRow = NoRow
    Idle = Idle
SPECIFICATION FairSpec
INVARIANTS
    TypeOK
    TombstoneDated
    TrailAgrees
PROPERTIES
    RequestsEnd
    DatedForGood
