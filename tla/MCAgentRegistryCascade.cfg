CONSTANTS
    Records = {r1, r2}
    Threads = {t1, t2}
    Payloads <- ChildPayload
    AgentActions = {}
    BlueprintActions = {}
    SetStatuses = {"active"}
    Forces = {FALSE}
    NoRow = NoRow
    Idle = Idle
SPECIFICATION CascadeSpec
PROPERTIES
    RequestsEnd
