SPECIFICATION PartsSpec
CONSTANTS
    tracked = tracked
    new = new
    env = env
    c1 = c1
    c2 = c2
    c3 = c3
    Order <- TwoPaths
    Ignored = {env}
    Contents = {c1, c2, c3}
    AgentContents = {c2}
    IgnoredContent = c2
    HEAD <- OneTracked
    TargetPaths <- TargetSets
    MaxCaptureEdits = 3
    MaxUserEdits = 1
    MaxAgentEdits = 2
    TearingEdits = 3
    Attempts = {a1, a2}
    None = None
    Other = Other
    MaxOtherWrites = 2
    f1 = f1
    l1 = l1
    g1 = g1
    Files = {f1, f2}
    Links = {l1}
    LinkTo <- LinkedFile
    GitContents = {g1, g2}
    MaxEdits = 2
    Machine = {test}
    User = {look}
    Required = {test, look}
    Keys = {k1, k2}
    Digests = {d1, d2}
    Verdicts = {"PASSED", "FAILED"}
    MaxVersion = 4
    MaxSent = 3
SYMMETRY AttemptSymmetry
INVARIANTS
    BaselineIsASnapshot
    ChangesAreTheAgents
    PermittedIsConfirmed
    NothingNewReplaced
    PublishedIsWhole
    DeniedLeavesNothing
    StatusHidesNothing
    EligibleIsApproved
    EachAnswerCountsOnce
PROPERTIES
    OnlyItsOwn
    IndexMovesWhole
CHECK_DEADLOCK FALSE
