CONSTANTS
    LaneRef = {l1, l2, l3}
    Projection = {p1, p2}
    Generation <- MCGeneration
    RequestRef = {r1, r2, r3, r4}
    maxTrackedLanes = 2
    maxPendingEffects = 2
    maxClaimedRequestRefs = 3
    NoProjection = NoProjection
    NoLane = NoLane
    NoEffect = NoEffect
    NoRequestRef = NoRequestRef
SPECIFICATION Spec
SYMMETRY Symmetry
INVARIANTS
    ProjectionOwnership
    OneEffectPerLane
PROPERTIES
    ReferencesAreOneShot
    SupersededNeverAdmitted
