SPECIFICATION PartsSpec
CONSTANTS
    Investigations = {read_a, read_b}
    max_rounds = 4
    max_tool_calls = 4
    no_progress_limit = 3
    Executions = {e1, e2}
    Threads = {h1, h2, h3}
    RequestLimit = 2
    Nobody = Nobody
CHECK_DEADLOCK FALSE
INVARIANTS
    AttemptsPersisted
    LimitsHold
    FeedbackReachesProvider
    EvidenceIsTrue
    BudgetIsExact
PROPERTIES
    RunReturns
    SandboxReturns
