SPECIFICATION Spec
CONSTANTS
    Commanders = {c1, c2}
    NoCommand = NoCommand
    CheckRevision = TRUE
    Triggers <- RaceTriggers
    TrackedTriggers = {"CONTINUE_INVESTIGATION", "APPROVE_PLAN"}
    BlockedInputs = {"PERSISTENCE_FAILED"}
    FailureInputs = {"HARD_LIMIT_REACHED"}
    MaxRevision = 7
    MaxPlans = 2
SYMMETRY CommanderSymmetry
CHECK_DEADLOCK FALSE
INVARIANTS
    TypeOK
    ApprovedPlanIsCurrent
    CompletedThroughGates
PROPERTIES
    AuditFollowsTask
    NotAppliedOnTop
