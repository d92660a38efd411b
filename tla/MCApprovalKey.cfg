SPECIFICATION Spec
CONSTANTS
    Workers = {w1, w2}
    Approvals = {a1, a2}
    Confirmations = {}
    Keys = {k1}
    KeyOf <- SameKey
    Lifetime = 1
    None = None
    MaxPlan = 1
    MaxTime = 0
SYMMETRY WorkerSymmetry
CHECK_DEADLOCK FALSE
INVARIANTS
    KeyNamesOneRequest
