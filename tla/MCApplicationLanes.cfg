SPECIFICATION MCSpec
CONSTANTS
    LaneRef = {l1, l2, l3}
    RequestId = {r1, r2, r3}
    EventId = {e1, e2}
    Generation <- MCGeneration
    Time <- MCTime
    State <- MCState
    Operation <- MCOperation
    CapabilitySet <- MCCapabilitySet
    maxLanes = 2
    maxPendingRequests = 2
    maxPendingRequestsPerLane = 1
    maxRecentEventIdsPerLane = 1
    NoDescriptor = NoDescriptor
    NoEvent = NoEvent
    NoRequest = NoRequest
    LeasedLane = {l1, l2, l3}
    LeaseRef = {e1, e2}
    LeasedGeneration <- MCGeneration
    maxActiveLeases = 1
    maxTrackedLanes = 2
    maxLeaseTtlMs = 2
    MaxSafeInteger = 3
    NoLease = NoLease
    NoRef = NoRef
SYMMETRY Symmetry
INVARIANTS
    PendingOwnership
    DuplicateWindow
    EventNotSuperseded
    LeaseIsCurrent
PROPERTIES
    TruthMovesForward
    LeasesPassOrderly
