CONSTANTS
    Records = {r1}
    Threads = {t1, t2}
    Payloads <- ChildPayload
    AgentActions = {"quarantine"}
    BlueprintActions <- CascadeActions
    SetStatuses = {"active"}
    Forces = {FALSE}
    NoRow = NoRow
    Idle = Idle
SYMMETRY Symmetry
SPECIFICATION Spec
INVARIANTS
    TypeOK
    TombstoneDated
    TrailAgrees
PROPERTIES
    DatedForGood
