CONSTANTS
    Conversation = {c1, c2, c3}
    Item <- MCItem
    SizeOf <- MCSizeOf
    Slot = {s1, s2}
    sessionTtlMs = 2
    expiresAt <- MCExpiresAt
    maxInFlightRequests = 2
    maxQueuedPageRequests = 1
    maxResidentConversations = 2
    maxResidentRecords = 2
    maxResidentSize = 3
    maxResidentPagesPerConversation = 1
    maxResidentSearchesPerConversation = 1
    MaxClock = 2
    MaxGeneration = 1
    NoConversation = NoConversation
    NoItem = NoItem
    NoRequest = NoRequest
SPECIFICATION Spec
SYMMETRY Symmetry
INVARIANTS
    WorkingSetBounded
    ResidentIsCurrent
PROPERTIES
    LateWorkIsDropped
