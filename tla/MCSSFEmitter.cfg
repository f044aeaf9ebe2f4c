CONSTANTS
    Receivers = {r1}
    Emissions = {e1, e2}
    Topics = {deprovisioned, status_change}
    Nobody = Nobody
SPECIFICATION FairSpec
INVARIANTS
    TypeOK
    PollStreamExact
    NobodyPassedOver
PROPERTIES
    EmissionsEnd
