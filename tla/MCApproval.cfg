SPECIFICATION Spec
CONSTANTS
    Workers = {w1, w2, w3}
    Approvals = {a1, a2}
    Confirmations = {c1, c2}
    Keys = {k1}
    KeyOf <- SameKey
    Lifetime = 1
    None = None
    MaxPlan = 2
    MaxTime = 1
SYMMETRY WorkerSymmetry
CHECK_DEADLOCK FALSE
INVARIANTS
    AtMostOneEffect
    RevokedNeverActs
    ConfirmedIsStored
PROPERTIES
    HistoryGrows
