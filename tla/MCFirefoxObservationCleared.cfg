SPECIFICATION Spec
CONSTANTS
    q1 = q1
    q2 = q2
    p1 = p1
    Overflow = Overflow
    Request = {q1, q2}
    Path = {p1}
    maxRuns = 2
    maxRestarts = 1
    maxQueue = 3
    activeRequestLimit = 1
    pathClassLimit = 1
INVARIANT ClearedStaysIdle
