SPECIFICATION MCFairSpec
CONSTANTS
    q1 = q1
    q2 = q2
    p1 = p1
    p2 = p2
    Overflow = Overflow
    Request = {q1, q2}
    Path = {p1, p2}
    maxRuns = 2
    maxRestarts = 1
    maxQueue = 2
    activeRequestLimit = 1
    pathClassLimit = 1
    GenuinePage <- MCPages
    MaxElements = 2
    MaxPending = 1
    MAX_TURN_GROUPS = 2
    DEFAULT_TURN_GROUPS = 1
    RevealIncrement = 1
    MAX_PLACEHOLDERS = 1
    DriftFailureLimit = 2
    NoConfig = noConfig
INVARIANTS
    HonestAccount
    WrittenThrough
    RemovalRemembered
    RecoveryRecorded
PROPERTIES
    StartAnswered
    DriftEnds
