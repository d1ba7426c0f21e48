SPECIFICATION MCSpec
CONSTANTS
    Tab = {1}
    ForeignProjection = 9
    Slot = {s1, s2}
    LaneOfPlan = {1, 2}
    GenerationOfPlan = {1, 2}
    ApplicationFacts <- MCApplicationFacts
    Hold = {"none", "audible"}
    MAX_CHROMIUM_PROJECTIONS = 1
    Gone = gone
    Unlisted = unlisted
    Idle = idle
    EntryId = {1, 2, 3}
    Dangling = 8
    NoParent = 0
    PipelineInput <- MCPipelineInput
    Amount = {1, 2}
    maxNodes = 2
    maxOperations = 6
    maxAllocated = 2
    NoFault = noFault
    ChunkSize = {1, 2}
    OutputSize = {1, 2}
    maxChunks = 2
    maxBodyBytes = 3
    maxOutputBytes = 1
    Bound = {"build"}
    AuthorityTime = {0, 1, 2, 3}
    maxGeneration = 3
    validFrom = 1
    validUntil = 3
    NoGrant = noGrant
    LaneTab = {1}
    Route = {"a", "b"}
    Target = {"l1"}
    Surface = {"panel"}
    maxVisits = 3
    maxAsked = 3
    NoBinding = noBinding
    NoObservation = noObservation
    NoAnswer = noAnswer
    Root = {"r1", "r2"}
    LaneGeneration = {1, 2}
    ActivityTime = {0, 1, 2}
    maxActivityAge = 1
    NoEvidence = noEvidence
    Adapter <- MCAdapter
    Exchange = {1, 2}
    RequestBytes = {1, 4}
    EnvelopeBytes = {1, 2, 3, 4, 5}
    maxServedBytes = 4
    maxResponseBytes = 2
    maxLogEntries = 1
    maxCacheEntries = 2
    maxCacheEntryBytes = 3
    maxCacheTotalBytes = 4
SYMMETRY Symmetry
CHECK_DEADLOCK FALSE
INVARIANTS
    ReceiptTruth
    KeptWarm
    AcceptedIsForest
    GrantEndsWithIntent
    SampledWhereBound
    SleepIsEarned
    ConformantEarned
    ExchangeAccounted
PROPERTIES
    PlannedDiscardAllowed
    StoppedNeverTransforms
    CancelledReachesNothing
