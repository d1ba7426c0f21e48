SPECIFICATION MCSpec
CONSTANTS
    Event = {e1, e2, e3}
    MAX_QUEUE_ENTRIES = 3
    MAX_DEDUPE_WINDOW = 2
    MAX_PENDING_PROJECTIONS = 1
    MaxLong = 3
    MaxDelivered = 4
    MaxStarts = 2
    MaxFailures = 2
    MaxProcesses = 2
    HintDevice = {d1, d2}
    Notice = {n1, n2, n3}
    HintTiming <- MCHintTiming
    MaxSequence = 4
    maxQueueEntries = 2
    maxSequenceGap = 2
    maxPastAge = 1
    maxFutureSkew = 1
    maxLifetime = 2
    NoSequence = none
    CacheKey <- MCCacheKey
    CacheIdentity = {1}
    EnvelopeSize <- MCEnvelopeSize
    CacheTime = {0, 1, 2}
    maxEntries = 2
    maxAge = 1
    maxEntrySerialized = 2
    maxEntryAccounted = 4
    maxTotalSerialized = 3
    maxTotalAccounted = 8
    NoEntry = noEntry
    Node = {1, 2, 3, 4}
    Unresolved = 9
    NoNode = 0
    TurnGroup = {"t", "u"}
    NoGroup = "none"
    GroupLimit = {1, 2}
    maxActivePathDepth = 3
    maxSiblingReferences = 3
SYMMETRY Symmetry
INVARIANTS
    HintsAccounted
    FlagFollowsService
    TakenInOrder
    UsageIsExact
    SnapshotStandsAlone
PROPERTY RefusedPutTakesNothing
