CONSTANTS
    Records = {r1}
    Threads = {t1}
    Payloads <- ChildPayload
    AgentActions = {}
    BlueprintActions <- CascadeActions
    SetStatuses = {"active"}
    Forces = {FALSE}
    NoRow = NoRow
    Idle = Idle
SPECIFICATION Spec
PROPERTIES
    DeletedIsFinal
