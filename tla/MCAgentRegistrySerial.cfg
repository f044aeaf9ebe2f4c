CONSTANTS
    Records = {r1, r2}
    Threads = {t1}
    Payloads <- ChildPayload
    AgentActions <- OperatorActions
    BlueprintActions <- CascadeActions
    SetStatuses = {"active"}
    Forces = {FALSE}
    NoRow = NoRow
    Idle = Idle
SPECIFICATION Spec
INVARIANTS
    BlockedIsDisabled
PROPERTIES
    TransitionsLawful
