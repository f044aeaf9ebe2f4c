CONSTANTS
    Flows = {s1, s2}
    Callbacks = {c1, c2}
    Orgs = {o1, o2}
    MaxKeys = 2
    MaxRestarts = 1
    NoOrg = NoOrg
SPECIFICATION Spec
SYMMETRY Symmetry
CHECK_DEADLOCK FALSE
INVARIANTS
    TypeOK
    OneSessionPerFlow
    SessionsSound
    RotationTolerated
