SPECIFICATION Spec
CONSTANTS
    LeaseIds = {l1, l2, l3}
    Clients = {c1, c2}
    Runs = {r1, r2}
    HeartbeatTimeout = 1
    Skew = 1
    MaxTime = 3
    MaxRevision = 2
INVARIANTS
    OneOpenSlot
    StaleRunKeepsSlot
PROPERTIES
    RowChain
    FencedAfterExpiry
SYMMETRY LeaseSymmetry
CHECK_DEADLOCK FALSE
