CONSTANTS
    Records = {r1}
    Threads = {t1}
    Payloads <- ChildPayload
    AgentActions = {"quarantine"}
    BlueprintActions <- CascadeActions
    SetStatuses = {"active"}
    Forces = {FALSE}
    NoRow = NoRow
    Idle = Idle
SPECIFICATION Spec
INVARIANTS
    AuditedStateStands
