SPECIFICATION Spec
CONSTANTS
    c1 = c1
    c2 = c2
    Conversation = {c1, c2}
    ordinalMax = 4
    maxPendingRequests = 2
    Nothing = Nothing
SYMMETRY ConversationSymmetry
INVARIANTS
    PendingAgreement
    RenderWithinClient
    ReleasedStaysGone
PROPERTY OwnersReplace
