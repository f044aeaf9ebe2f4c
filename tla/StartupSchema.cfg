CONSTANTS
    Workers = {p1, p2}
    Bootstraps = {b1, b2, b3}
    Slugs = {x, y}
    MaxCrashes = 2
SPECIFICATION FairSpec
CHECK_DEADLOCK FALSE
INVARIANTS
    ServedSchemaComplete
