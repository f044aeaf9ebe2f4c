CONSTANTS
    Keys = {k1, k2}
    RootKey = k1
    Sessions = {s1}
    ProviderTypes = {"oidc"}
    Clients = {x1, x2}
    Assets = {a1}
    Relations = {"viewer", "owner"}
    Roles = {"admin", "reader"}
    Requests = {r1, r2}
SPECIFICATION Spec
SYMMETRY Symmetry
CHECK_DEADLOCK FALSE
INVARIANTS
    TypeOK
    AnswersBacked
PROPERTIES
    RevocationFinal
    LockoutPermanent
