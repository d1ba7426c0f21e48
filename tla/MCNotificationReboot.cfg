CONSTANTS
    Event = {e1, e2}
    MAX_QUEUE_ENTRIES = 2
    MAX_DEDUPE_WINDOW = 1
    MAX_PENDING_PROJECTIONS = 1
    MaxLong = 3
    MaxDelivered = 1
    MaxStarts = 2
    MaxFailures = 2
    MaxProcesses = 2
SPECIFICATION Spec
SYMMETRY Symmetry
INVARIANTS
    ConfirmedInThisProcess
