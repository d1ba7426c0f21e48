----------------------- MODULE ChromiumBindingRuntime -----------------------
(***************************************************************************)
(* The volatile owner of which Chromium projection (a tab of the running   *)
(* browser) a lane generation is bound to                                  *)
(* (extension/chromium/src/binding-runtime.ts).                            *)
(*                                                                         *)
(* A binding pairs a projection reference with a tab id.  Projections are  *)
(* made by projectChromiumTab, which derives the reference from the tab    *)
(* id, so one value of Projection stands for the pair.  A refused call     *)
(* that changes nothing is a stuttering step.                              *)
(***************************************************************************)
EXTENDS Naturals, FiniteSets

CONSTANTS
    LaneRef, Projection,
    Generation,             \* generations a descriptor may carry
    maxTrackedLanes,
    NoProjection, NoLane

ASSUME BindingAssumption ==
    /\ Generation \subseteq Nat \ {0}
    /\ maxTrackedLanes \in Nat \ {0}
    /\ NoProjection \notin Projection
    /\ NoLane \notin LaneRef

VARIABLES
    generation,         \* highest generation seen of each lane, 0 if untracked
    binding,            \* the projection bound to that generation
    projectionOwners    \* the lane each projection is bound to

bindingVars == <<generation, binding, projectionOwners>>

Tracked == {l \in LaneRef : generation[l] # 0}

BindingInit ==
    /\ generation = [l \in LaneRef |-> 0]
    /\ binding = [l \in LaneRef |-> NoProjection]
    /\ projectionOwners = [p \in Projection |-> NoLane]

-----------------------------------------------------------------------------

\* The projection owners once the binding of lane l is revoked (advance).
OwnersWithout(l) ==
    [p \in Projection |-> IF p = binding[l] THEN NoLane ELSE projectionOwners[p]]

\* No lane but l owns the projection.
Free(owners, p, l) == owners[p] \in {NoLane, l}

CanTrack(l) == generation[l] = 0 /\ Cardinality(Tracked) < maxTrackedLanes

\* A lane never seen is remembered unbound.
Track(l, g) ==
    /\ CanTrack(l)
    /\ generation' = [generation EXCEPT ![l] = g]
    /\ UNCHANGED <<binding, projectionOwners>>

IsNewer(l, g) == generation[l] # 0 /\ generation[l] < g

\* A newer generation revokes the binding of the older one.
Advance(l, g) ==
    /\ IsNewer(l, g)
    /\ generation' = [generation EXCEPT ![l] = g]
    /\ binding' = [binding EXCEPT ![l] = NoProjection]
    /\ projectionOwners' = OwnersWithout(l)

\* observeDescriptor, and what planCurrent does before it plans.
Observes(l, g) == CanTrack(l) \/ IsNewer(l, g)

ObserveDescriptor(l, g) == Track(l, g) \/ Advance(l, g)

Observe(l, g) ==
    IF Observes(l, g) THEN ObserveDescriptor(l, g) ELSE UNCHANGED bindingVars

-----------------------------------------------------------------------------
(* bind: refused as binding-capacity, stale-generation,                    *)
(* projection-collision or projection-rebind-required.                     *)

BindNew(l, g, p) ==
    /\ CanTrack(l)
    /\ projectionOwners[p] = NoLane
    /\ generation' = [generation EXCEPT ![l] = g]
    /\ binding' = [binding EXCEPT ![l] = p]
    /\ projectionOwners' = [projectionOwners EXCEPT ![p] = l]

\* The generation advances even if the projection then collides.
BindNewer(l, g, p) ==
    /\ IsNewer(l, g)
    /\ generation' = [generation EXCEPT ![l] = g]
    /\ IF Free(OwnersWithout(l), p, l)
       THEN /\ binding' = [binding EXCEPT ![l] = p]
            /\ projectionOwners' = [OwnersWithout(l) EXCEPT ![p] = l]
       ELSE /\ binding' = [binding EXCEPT ![l] = NoProjection]
            /\ projectionOwners' = OwnersWithout(l)

BindUnbound(l, g, p) ==
    /\ generation[l] = g
    /\ binding[l] = NoProjection
    /\ Free(projectionOwners, p, l)
    /\ binding' = [binding EXCEPT ![l] = p]
    /\ projectionOwners' = [projectionOwners EXCEPT ![p] = l]
    /\ UNCHANGED generation

Bind(l, g, p) == BindNew(l, g, p) \/ BindNewer(l, g, p) \/ BindUnbound(l, g, p)

\* Faulty variant of ReplaceProjection: the new projection may be another
\* lane's.
ReplaceProjectionAnyOwner(l, g, old, p) ==
    /\ generation[l] = g
    /\ binding[l] = old /\ p # old
    /\ binding' = [binding EXCEPT ![l] = p]
    /\ projectionOwners' =
            [projectionOwners EXCEPT ![old] = NoLane, ![p] = l]
    /\ UNCHANGED generation

\* rebindProjection within a generation: refused as binding-missing,
\* stale-generation, old-projection-mismatch or projection-collision.
ReplaceProjection(l, g, old, p) ==
    /\ generation[l] = g
    /\ binding[l] = old /\ p # old
    /\ Free(projectionOwners, p, l)
    /\ binding' = [binding EXCEPT ![l] = p]
    /\ projectionOwners' =
            [projectionOwners EXCEPT ![old] = NoLane, ![p] = l]
    /\ UNCHANGED generation

\* A newer generation seen by rebindProjection only revokes.
RebindProjection(l, g, old, p) ==
    ReplaceProjection(l, g, old, p) \/ Advance(l, g)

ClearBindings ==
    /\ generation' = [l \in LaneRef |-> 0]
    /\ binding' = [l \in LaneRef |-> NoProjection]
    /\ projectionOwners' = [p \in Projection |-> NoLane]

\* The calls on the binding runtime itself, but for clear.
BindingNext ==
    \E l \in LaneRef, g \in Generation :
        \/ ObserveDescriptor(l, g)
        \/ \E p \in Projection : Bind(l, g, p)
        \/ \E old, p \in Projection : RebindProjection(l, g, old, p)

-----------------------------------------------------------------------------
(* Properties                                                              *)

BindingTypeOK ==
    /\ generation \in [LaneRef -> Generation \union {0}]
    /\ binding \in [LaneRef -> Projection \union {NoProjection}]
    /\ projectionOwners \in [Projection -> LaneRef \union {NoLane}]

\* Bindings are one-to-one and the map of owners is their inverse: no lane
\* plans effects on a tab that another lane owns, and no collision test sees
\* an owner that has gone.  Only tracked lanes are bound.
ProjectionOwnership ==
    \A l \in LaneRef, p \in Projection :
        /\ binding[l] = p <=> projectionOwners[p] = l
        /\ binding[l] = p => generation[l] # 0

=============================================================================
