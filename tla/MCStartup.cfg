SPECIFICATION Spec
CONSTANTS
    Processes = {p1, p2}
    t1 = t1
    t2 = t2
    Tasks <- TwoTasks
    None = None
    MaxHeartbeats = 1
SYMMETRY ProcessSymmetry
INVARIANTS
    SlotGuardsRemains
    ServesAlone
PROPERTIES
    RecoveryUnderLease
