CONSTANTS
    LaneRef = {l1, l2, l3}
    Projection = {p1, p2}
    Generation <- MCGeneration
    RequestRef = {r1, r2, r3}
    maxTrackedLanes = 2
    maxPendingEffects = 1
    maxClaimedRequestRefs = 2
    NoProjection = NoProjection
    NoLane = NoLane
    NoEffect = NoEffect
    NoRequestRef = NoRequestRef
SPECIFICATION Spec
SYMMETRY Symmetry
PROPERTIES
    ReplacedNeverAdmitted
