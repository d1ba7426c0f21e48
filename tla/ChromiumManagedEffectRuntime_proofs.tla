----------------- MODULE ChromiumManagedEffectRuntime_proofs -----------------
(***************************************************************************)
(* Proofs about ChromiumManagedEffectRuntime and the binding runtime below *)
(* it, for every value of their constants.                                 *)
(***************************************************************************)
EXTENDS ChromiumManagedEffectRuntime, TLAPS

USE BindingAssumption, EffectAssumption

-----------------------------------------------------------------------------
(* The binding runtime: types, and one-to-one bindings                     *)

BindingInv == BindingTypeOK /\ ProjectionOwnership

\* At the start nothing is bound.
LEMMA BindingInitInv == BindingInit => BindingInv
  BY DEF BindingInit, BindingInv, BindingTypeOK, ProjectionOwnership

\* A lane that is met for the first time is not bound by that.
LEMMA TrackKeeps ==
    ASSUME BindingInv, NEW l \in LaneRef, NEW g \in Generation, Track(l, g)
    PROVE  BindingInv'
  BY DEF Track, CanTrack, BindingInv, BindingTypeOK, ProjectionOwnership

\* A newer generation takes the binding of the older one with it.
LEMMA AdvanceKeeps ==
    ASSUME BindingInv, NEW l \in LaneRef, NEW g \in Generation, Advance(l, g)
    PROVE  BindingInv'
  BY DEF Advance, IsNewer, OwnersWithout, BindingInv, BindingTypeOK,
         ProjectionOwnership

\* A descriptor tracks its lane, advances it, or changes nothing.
LEMMA ObserveKeeps ==
    ASSUME BindingInv, NEW l \in LaneRef, NEW g \in Generation, Observe(l, g)
    PROVE  BindingInv'
<1>1. CASE Observes(l, g)
  BY <1>1, TrackKeeps, AdvanceKeeps DEF Observe, ObserveDescriptor
<1>2. CASE ~Observes(l, g)
  BY <1>2 DEF Observe, bindingVars, BindingInv, BindingTypeOK, ProjectionOwnership
<1> QED BY <1>1, <1>2

\* A binding takes a tab that no other lane has.
LEMMA BindKeeps ==
    ASSUME BindingInv, NEW l \in LaneRef, NEW g \in Generation,
           NEW p \in Projection, Bind(l, g, p)
    PROVE  BindingInv'
<1> USE DEF BindingInv, BindingTypeOK, ProjectionOwnership
<1>1. CASE BindNew(l, g, p)
  BY <1>1 DEF BindNew, CanTrack
<1>2. CASE BindNewer(l, g, p)
  <2>1. CASE Free(OwnersWithout(l), p, l)
    <3>1. /\ generation' = [generation EXCEPT ![l] = g]
          /\ binding' = [binding EXCEPT ![l] = p]
          /\ projectionOwners' = [OwnersWithout(l) EXCEPT ![p] = l]
      BY <1>2, <2>1 DEF BindNewer
    <3>2. BindingTypeOK'
      BY <3>1 DEF OwnersWithout
    <3>3. \A q \in Projection : projectionOwners'[q] =
                IF q = p THEN l
                ELSE IF q = binding[l] THEN NoLane ELSE projectionOwners[q]
      BY <3>1 DEF OwnersWithout
    <3>4. projectionOwners[p] \in {NoLane, l} \/ p = binding[l]
      BY <2>1 DEF Free, OwnersWithout
    <3>5. g # 0
      OBVIOUS
    <3>6. ProjectionOwnership'
      BY <3>1, <3>3, <3>4, <3>5
    <3> QED BY <3>2, <3>6
  <2>2. CASE ~Free(OwnersWithout(l), p, l)
    BY <1>2, <2>2 DEF BindNewer, IsNewer, OwnersWithout
  <2> QED BY <2>1, <2>2
<1>3. CASE BindUnbound(l, g, p)
  BY <1>3 DEF BindUnbound, Free
<1> QED BY <1>1, <1>2, <1>3 DEF Bind

\* A replaced projection is given back as the new one is taken.
LEMMA ReplaceKeeps ==
    ASSUME BindingInv, NEW l \in LaneRef, NEW g \in Generation,
           NEW old \in Projection, NEW p \in Projection,
           ReplaceProjection(l, g, old, p)
    PROVE  BindingInv'
  BY DEF ReplaceProjection, Free, BindingInv, BindingTypeOK, ProjectionOwnership

\* Every method of the binding runtime keeps its invariant.
LEMMA BindingNextKeeps == BindingInv /\ BindingNext => BindingInv'
<1> SUFFICES ASSUME BindingInv, BindingNext PROVE BindingInv'
  OBVIOUS
<1> PICK l \in LaneRef, g \in Generation :
        \/ ObserveDescriptor(l, g)
        \/ \E p \in Projection : Bind(l, g, p)
        \/ \E old, p \in Projection : RebindProjection(l, g, old, p)
  BY DEF BindingNext
<1>1. CASE ObserveDescriptor(l, g)
  BY <1>1, TrackKeeps, AdvanceKeeps DEF ObserveDescriptor
<1>2. CASE \E p \in Projection : Bind(l, g, p)
  BY <1>2, BindKeeps
<1>3. CASE \E old, p \in Projection : RebindProjection(l, g, old, p)
  BY <1>3, ReplaceKeeps, AdvanceKeeps DEF RebindProjection
<1> QED BY <1>1, <1>2, <1>3

\* A cleared binding runtime is as at the start.
LEMMA ClearBindingsKeeps == ClearBindings => BindingInv'
  BY DEF ClearBindings, BindingInv, BindingTypeOK, ProjectionOwnership

-----------------------------------------------------------------------------
(* What each action does to the pending effects                            *)

EffectTypeOK ==
    /\ pendingByRequest \in [RequestRef -> PendingEffect \union {NoEffect}]
    /\ requestByLane \in [LaneRef -> RequestRef \union {NoRequestRef}]
    /\ claimedRequestRefs \subseteq RequestRef
    /\ admitted \subseteq RequestRef

EffectInv == EffectTypeOK /\ OneEffectPerLane /\ AdmittedOnce

\* At the start no effect is pending and no reference claimed.
LEMMA EffectInitInv == Init => EffectInv
  BY DEF Init, EffectInv, EffectTypeOK, OneEffectPerLane, AdmittedOnce, Pending

\* Dropping the pending effects of some references keeps everything else.
LEMMA DropPending ==
    ASSUME EffectInv, NEW D, Drop(D)
    PROVE  /\ pendingByRequest' \in [RequestRef -> PendingEffect \union {NoEffect}]
           /\ requestByLane' \in [LaneRef -> RequestRef \union {NoRequestRef}]
           /\ OneEffectPerLane'
           /\ Pending' = Pending \ D
           /\ \A r \in Pending' : pendingByRequest'[r] = pendingByRequest[r]
  BY DEF EffectInv, EffectTypeOK, Drop, PendingWithout, LaneWithout,
         OneEffectPerLane, Pending

\* Giving effects up keeps the maps by request and by lane in agreement.
LEMMA DropKeeps ==
    ASSUME EffectInv, NEW D, Drop(D), UNCHANGED <<claimedRequestRefs, admitted>>
    PROVE  EffectInv'
<1>1. EffectTypeOK' /\ OneEffectPerLane'
  BY DropPending DEF EffectInv, EffectTypeOK
<1>2. AdmittedOnce'
  BY DropPending DEF EffectInv, AdmittedOnce
<1> QED BY <1>1, <1>2 DEF EffectInv

\* A step of the bindings alone touches no effect.
LEMMA StandStillKeeps ==
    ASSUME EffectInv, UNCHANGED <<effectVars, admitted>>
    PROVE  EffectInv'
  BY DEF EffectInv, EffectTypeOK, OneEffectPerLane, AdmittedOnce, Pending,
         effectVars

\* What begin issues is pending for its lane, instead of what was before.
LEMMA IssuedPending ==
    ASSUME EffectInv, NEW l \in LaneRef, NEW g \in Generation,
           NEW p \in Projection, NEW effect \in Effect, NEW r \in RequestRef,
           BeginIssued(l, g, p, effect, r)
    PROVE  /\ r \notin Pending
           /\ pendingByRequest'[r].laneRef = l
           /\ Pending' = (Pending \ OfLane(l)) \union {r}
           /\ \A q \in Pending' \ {r} : pendingByRequest'[q] = pendingByRequest[q]
           /\ EffectTypeOK'
<1> DEFINE e == [laneRef |-> l, laneGeneration |-> g, projection |-> p,
                 effect |-> effect]
<1>1. e \in PendingEffect /\ e # NoEffect /\ e.laneRef = l
  BY DEF BeginIssued, PendingEffect
<1>2. r \notin Pending
  BY DEF EffectInv, AdmittedOnce, BeginIssued
<1>3. pendingByRequest' = [PendingWithout(OfLane(l)) EXCEPT ![r] = e]
  BY DEF BeginIssued
<1> HIDE DEF e
<1>4. \A q \in RequestRef : pendingByRequest'[q] =
            IF q = r THEN e
            ELSE IF q \in OfLane(l) THEN NoEffect ELSE pendingByRequest[q]
  BY <1>3 DEF PendingWithout
<1>5. pendingByRequest' \in [RequestRef -> PendingEffect \union {NoEffect}]
  BY <1>1, <1>3 DEF PendingWithout, EffectInv, EffectTypeOK
<1>6. Pending' = (Pending \ OfLane(l)) \union {r}
  BY <1>1, <1>2, <1>4 DEF Pending
<1>7. EffectTypeOK'
  BY <1>5 DEF EffectInv, EffectTypeOK, BeginIssued
<1> QED BY <1>1, <1>2, <1>4, <1>6, <1>7 DEF Pending

\* An issued effect is the only one of its lane, with a fresh reference.
LEMMA IssuedKeeps ==
    ASSUME EffectInv, NEW l \in LaneRef, NEW g \in Generation,
           NEW p \in Projection, NEW effect \in Effect, NEW r \in RequestRef,
           BeginIssued(l, g, p, effect, r)
    PROVE  EffectInv'
<1>1. AdmittedOnce'
  <2>1. /\ r \notin claimedRequestRefs
        /\ claimedRequestRefs' = claimedRequestRefs \union {r}
        /\ admitted' = admitted
    BY DEF BeginIssued
  <2>2. Pending' \subseteq Pending \union {r}
    BY IssuedPending
  <2> QED BY <2>1, <2>2 DEF AdmittedOnce, EffectInv
<1>2. OneEffectPerLane'
  <2>1. \A m \in LaneRef : requestByLane'[m] = IF m = l THEN r
                                               ELSE requestByLane[m]
    BY DEF BeginIssued, EffectInv, EffectTypeOK
  <2>2. ASSUME NEW q \in RequestRef, NEW m \in LaneRef
        PROVE  requestByLane'[m] = q
                <=> q \in Pending' /\ pendingByRequest'[q].laneRef = m
    <3>1. requestByLane[m] = q
            <=> q \in Pending /\ pendingByRequest[q].laneRef = m
      BY DEF EffectInv, OneEffectPerLane
    <3>2. requestByLane[l] = q
            <=> q \in Pending /\ pendingByRequest[q].laneRef = l
      BY DEF EffectInv, OneEffectPerLane
    <3>3. q \in OfLane(l) <=> requestByLane[l] = q
      BY DEF OfLane
    <3> QED BY <2>1, <3>1, <3>2, <3>3, IssuedPending
  <2> QED BY <2>2 DEF OneEffectPerLane
<1> QED BY <1>1, <1>2, IssuedPending DEF EffectInv

\* A receipt that is admitted ends its effect, once.
LEMMA AcceptKeeps ==
    ASSUME EffectInv, NEW l \in LaneRef, NEW g \in Generation,
           NEW receipt \in Receipt, AcceptReceipt(l, g, receipt)
    PROVE  EffectInv'
<1>1. Drop({receipt.requestRef}) /\ receipt.requestRef \in Pending
  BY DEF AcceptReceipt, Correlates
<1>2. Pending' = Pending \ {receipt.requestRef}
  BY <1>1, DropPending
<1>3. EffectTypeOK'
  BY <1>1, DropPending DEF AcceptReceipt, EffectInv, EffectTypeOK, Pending
<1>4. OneEffectPerLane'
  BY <1>1, DropPending
<1>5. AdmittedOnce'
  BY <1>1, <1>2 DEF AcceptReceipt, EffectInv, AdmittedOnce
<1> QED BY <1>3, <1>4, <1>5 DEF EffectInv

\* A cleared effect runtime waits for nothing, and forgets no reference.
LEMMA ClearKeeps == EffectInv /\ Clear => EffectInv'
  BY DEF Clear, EffectInv, EffectTypeOK, OneEffectPerLane, AdmittedOnce, Pending

-----------------------------------------------------------------------------
(* The inductive invariant                                                 *)

\* The history is about pending effects.
HistoryPending ==
    /\ forgotten \subseteq superseded
    /\ superseded \subseteq Pending
    /\ replaced \subseteq Pending

\* What superseded remembers and no reset has forgotten: effects of an older
\* generation than the one retained of their lane.
SupersededPending ==
    \A r \in superseded \ forgotten : Outdates(generation, pendingByRequest[r])

IInv == BindingInv /\ EffectInv /\ HistoryPending /\ SupersededPending

\* A step of the runtime itself, before the history follows it.
Step ==
    \/ BindingStep
    \/ \E l \in LaneRef, g \in Generation :
          \/ \E p \in Projection, effect \in Effect, r \in RequestRef :
                  Begin(l, g, p, effect, r)
          \/ \E receipt \in Receipt :
                  \/ AcceptReceipt(l, g, receipt)
                  \/ StaleReceipt(l, g, receipt)
    \/ \E r \in RequestRef : Cancel(r)
    \/ Clear

\* Every step falls under one of five cases as far as effects are concerned.
LEMMA StepCases ==
    ASSUME Step
    PROVE  \/ UNCHANGED <<effectVars, admitted>>
           \/ \E D : Drop(D) /\ UNCHANGED <<claimedRequestRefs, admitted>>
           \/ \E l \in LaneRef, g \in Generation, p \in Projection,
                 effect \in Effect, r \in RequestRef :
                    BeginIssued(l, g, p, effect, r)
           \/ \E l \in LaneRef, g \in Generation, receipt \in Receipt :
                    AcceptReceipt(l, g, receipt)
           \/ Clear
<1>1. CASE BindingStep
  BY <1>1 DEF BindingStep
<1>2. ASSUME NEW l \in LaneRef, NEW g \in Generation, NEW p \in Projection,
             NEW effect \in Effect, NEW r \in RequestRef,
             Begin(l, g, p, effect, r)
      PROVE  \/ UNCHANGED <<effectVars, admitted>>
             \/ \E D : Drop(D) /\ UNCHANGED <<claimedRequestRefs, admitted>>
             \/ BeginIssued(l, g, p, effect, r)
  BY <1>2 DEF Begin, BeginUnplanned, BeginWithoutEffect, effectVars
<1>3. ASSUME NEW l \in LaneRef, NEW g \in Generation, NEW receipt \in Receipt,
             StaleReceipt(l, g, receipt)
      PROVE  \E D : Drop(D) /\ UNCHANGED <<claimedRequestRefs, admitted>>
  BY <1>3 DEF StaleReceipt
<1>4. ASSUME NEW r \in RequestRef, Cancel(r)
      PROVE  \E D : Drop(D) /\ UNCHANGED <<claimedRequestRefs, admitted>>
  BY <1>4 DEF Cancel
<1> QED BY <1>1, <1>2, <1>3, <1>4 DEF Step

\* Every method keeps the invariant of the effect runtime.
LEMMA StepKeepsEffects == EffectInv /\ Step => EffectInv'
<1> SUFFICES ASSUME EffectInv, Step PROVE EffectInv'
  OBVIOUS
<1> QED BY StepCases, StandStillKeeps, DropKeeps, IssuedKeeps, AcceptKeeps,
           ClearKeeps

\* Every method keeps the invariant of the binding runtime.
LEMMA StepKeepsBindings == BindingInv /\ Step => BindingInv'
<1> SUFFICES ASSUME BindingInv, Step PROVE BindingInv'
  OBVIOUS
<1>1. ASSUME UNCHANGED bindingVars
      PROVE  BindingInv'
  BY <1>1 DEF bindingVars, BindingInv, BindingTypeOK, ProjectionOwnership
<1>2. CASE BindingStep
  BY <1>2, BindingNextKeeps DEF BindingStep
<1>3. ASSUME NEW l \in LaneRef, NEW g \in Generation, NEW p \in Projection,
             NEW effect \in Effect, NEW r \in RequestRef,
             Begin(l, g, p, effect, r)
      PROVE  BindingInv'
  BY <1>1, <1>3, ObserveKeeps
     DEF Begin, BeginUnplanned, BeginWithoutEffect, BeginIssued
<1>4. ASSUME NEW l \in LaneRef, NEW g \in Generation, NEW receipt \in Receipt,
             AcceptReceipt(l, g, receipt) \/ StaleReceipt(l, g, receipt)
      PROVE  BindingInv'
  BY <1>1, <1>4, ObserveKeeps DEF AcceptReceipt, StaleReceipt
<1>5. CASE (\E r \in RequestRef : Cancel(r)) \/ Clear
  BY <1>1, <1>5 DEF Cancel, Clear
<1> QED BY <1>2, <1>3, <1>4, <1>5 DEF Step

\* A generation, or none yet, is a number.
LEMMA OrZero == \A x \in Generation \union {0} : x \in Nat
<1>1. 0 \in Nat /\ \A x \in Generation : x \in Nat
  OBVIOUS
<1> QED BY <1>1, Zenon

\* Every lane has a generation, or none yet.
LEMMA GenerationsAreNumbers ==
    ASSUME BindingInv
    PROVE  \A m \in LaneRef : generation[m] \in Nat
<1> TAKE m \in LaneRef
<1>1. generation[m] \in Generation \union {0}
  BY DEF BindingInv, BindingTypeOK
<1> QED BY <1>1, OrZero

\* Outside of a reset, generations never go back.
LEMMA NoAdvance ==
    ASSUME BindingInv, UNCHANGED generation
    PROVE  \A m \in LaneRef : generation'[m] >= generation[m]
<1>1. \A m \in LaneRef : generation[m] \in Nat
  BY GenerationsAreNumbers
<1> QED BY <1>1

\* Advancing one lane lowers the generation of none.
LEMMA OneAdvance ==
    ASSUME BindingInv, NEW l \in LaneRef, NEW g \in Generation,
           generation' = [generation EXCEPT ![l] = g],
           generation[l] = 0 \/ generation[l] < g
    PROVE  \A m \in LaneRef : generation'[m] >= generation[m]
<1>1. \A m \in LaneRef : generation[m] \in Nat
  BY GenerationsAreNumbers
<1>2. \A m \in LaneRef : generation'[m] = IF m = l THEN g ELSE generation[m]
  BY DEF BindingInv, BindingTypeOK
<1>3. g \in Nat
  OBVIOUS
<1>4. g >= generation[l]
  BY <1>1, <1>3
<1> QED BY <1>1, <1>2, <1>4

\* Observing a descriptor lowers no generation.
LEMMA ObserveAdvances ==
    ASSUME BindingInv, NEW l \in LaneRef, NEW g \in Generation,
           ObserveDescriptor(l, g) \/ Observe(l, g)
    PROVE  \A m \in LaneRef : generation'[m] >= generation[m]
<1>1. CASE ObserveDescriptor(l, g)
  BY <1>1, OneAdvance DEF ObserveDescriptor, Track, CanTrack, Advance, IsNewer
<1>2. CASE Observe(l, g)
  BY <1>1, <1>2, NoAdvance DEF Observe, bindingVars
<1> QED BY <1>1, <1>2

\* Binding a lane lowers no generation.
LEMMA BindAdvances ==
    ASSUME BindingInv, NEW l \in LaneRef, NEW g \in Generation,
           NEW p \in Projection, Bind(l, g, p)
    PROVE  \A m \in LaneRef : generation'[m] >= generation[m]
<1>1. CASE BindNew(l, g, p)
  BY <1>1, OneAdvance DEF BindNew, CanTrack
<1>2. CASE BindNewer(l, g, p)
  BY <1>2, OneAdvance DEF BindNewer, IsNewer
<1>3. CASE BindUnbound(l, g, p)
  BY <1>3, NoAdvance DEF BindUnbound
<1> QED BY <1>1, <1>2, <1>3 DEF Bind

\* No method short of clear lowers a generation.
LEMMA StepAdvances ==
    ASSUME BindingInv, Step
    PROVE  \A m \in LaneRef : generation'[m] >= generation[m]
<1>1. ASSUME UNCHANGED bindingVars
      PROVE  \A m \in LaneRef : generation'[m] >= generation[m]
  BY <1>1, NoAdvance DEF bindingVars
<1>2. CASE BindingStep
  <2> PICK l \in LaneRef, g \in Generation :
          \/ ObserveDescriptor(l, g)
          \/ \E p \in Projection : Bind(l, g, p)
          \/ \E old, p \in Projection : RebindProjection(l, g, old, p)
    BY <1>2 DEF BindingStep, BindingNext
  <2>1. CASE \E old, p \in Projection : RebindProjection(l, g, old, p)
    BY <2>1, NoAdvance, OneAdvance
       DEF RebindProjection, ReplaceProjection, Advance, IsNewer
  <2> QED BY <2>1, ObserveAdvances, BindAdvances
<1>3. ASSUME NEW l \in LaneRef, NEW g \in Generation, NEW p \in Projection,
             NEW effect \in Effect, NEW r \in RequestRef,
             Begin(l, g, p, effect, r)
      PROVE  \A m \in LaneRef : generation'[m] >= generation[m]
  BY <1>1, <1>3, ObserveAdvances
     DEF Begin, BeginUnplanned, BeginWithoutEffect, BeginIssued
<1>4. ASSUME NEW l \in LaneRef, NEW g \in Generation, NEW receipt \in Receipt,
             AcceptReceipt(l, g, receipt) \/ StaleReceipt(l, g, receipt)
      PROVE  \A m \in LaneRef : generation'[m] >= generation[m]
  BY <1>1, <1>4, ObserveAdvances DEF AcceptReceipt, StaleReceipt
<1>5. CASE (\E r \in RequestRef : Cancel(r)) \/ Clear
  BY <1>1, <1>5 DEF Cancel, Clear
<1> QED BY <1>2, <1>3, <1>4, <1>5 DEF Step

\* What stays pending through a step stays the same effect.
LEMMA StepKeepsRecords ==
    ASSUME EffectInv, Step, NEW r \in Pending, r \in Pending'
    PROVE  pendingByRequest'[r] = pendingByRequest[r]
<1>1. ASSUME NEW D, Drop(D)
      PROVE  pendingByRequest'[r] = pendingByRequest[r]
  BY <1>1, DropPending
<1>2. ASSUME NEW l \in LaneRef, NEW g \in Generation, NEW p \in Projection,
             NEW effect \in Effect, NEW q \in RequestRef,
             BeginIssued(l, g, p, effect, q)
      PROVE  pendingByRequest'[r] = pendingByRequest[r]
  BY <1>2, IssuedPending
<1>3. ASSUME UNCHANGED <<effectVars, admitted>>
      PROVE  pendingByRequest'[r] = pendingByRequest[r]
  BY <1>3 DEF effectVars
<1>4. ~Clear
  BY DEF Clear, Pending
<1> QED BY <1>1, <1>2, <1>3, <1>4, StepCases DEF AcceptReceipt

\* The invariant of both runtimes and their history holds at the start.
LEMMA InitInv == Init => IInv
  BY BindingInitInv, EffectInitInv 
     DEF Init, IInv, HistoryPending, SupersededPending

\* Every method keeps it.
LEMMA NextInv == IInv /\ [Next]_vars => IInv'
<1> SUFFICES ASSUME IInv, [Next]_vars PROVE IInv'
  OBVIOUS
<1>1. CASE Step /\ Watch
  <2>1. BindingInv' /\ EffectInv'
    BY <1>1, StepKeepsBindings, StepKeepsEffects DEF IInv
  <2>2. HistoryPending'
    BY <1>1 DEF Watch, HistoryPending, IInv
  <2>3. SupersededPending'
    <3> SUFFICES ASSUME NEW r \in superseded', r \notin forgotten'
                 PROVE  Outdates(generation', pendingByRequest'[r])
      BY DEF SupersededPending, Outdates
    <3>1. /\ r \in Pending'
          /\ \/ r \in superseded \ forgotten
             \/ Outdates(generation', pendingByRequest'[r])
      BY <1>1 DEF Watch
    <3>2. ASSUME r \in superseded \ forgotten
          PROVE  Outdates(generation', pendingByRequest'[r])
      <4> DEFINE e == pendingByRequest[r]
      <4>1. r \in Pending /\ generation[e.laneRef] > e.laneGeneration
        BY <3>2 DEF IInv, HistoryPending, SupersededPending, Outdates
      <4>2. pendingByRequest'[r] = e
        BY <1>1, <3>1, <4>1, StepKeepsRecords DEF IInv
      <4>3. e.laneRef \in LaneRef /\ e.laneGeneration \in Nat
        BY <4>1 DEF Pending, PendingEffect, IInv, EffectInv, EffectTypeOK
      <4>4. generation'[e.laneRef] >= generation[e.laneRef]
        BY <1>1, <4>3, StepAdvances DEF IInv
      <4>5. generation[e.laneRef] \in Nat
        BY <4>3, GenerationsAreNumbers DEF IInv
      <4>6. generation'[e.laneRef] \in Nat
        <5>1. generation'[e.laneRef] \in Generation \union {0}
          BY <2>1, <4>3 DEF BindingInv, BindingTypeOK
        <5> QED BY <5>1, OrZero
      <4> HIDE DEF e
      <4>7. generation'[e.laneRef] > e.laneGeneration
        BY <4>1, <4>3, <4>4, <4>5, <4>6
      <4> QED BY <4>2, <4>7 DEF Outdates
    <3> QED BY <3>1, <3>2
  <2> QED BY <2>1, <2>2, <2>3 DEF IInv
<1>2. CASE BindingReset
  <2>1. BindingInv' /\ EffectInv'
    BY <1>2, ClearBindingsKeeps, StandStillKeeps DEF BindingReset, IInv
  <2>2. HistoryPending'
    BY <1>2 DEF BindingReset, IInv, HistoryPending, Pending, effectVars
  <2>3. SupersededPending'
    BY <1>2 DEF BindingReset, SupersededPending
  <2> QED BY <2>1, <2>2, <2>3 DEF IInv
<1>3. CASE UNCHANGED vars
  <2>1. BindingInv'
    BY <1>3 DEF vars, bindingVars, IInv, BindingInv, BindingTypeOK,
                ProjectionOwnership
  <2>2. EffectInv'
    BY <1>3, StandStillKeeps DEF vars, historyVars, IInv
  <2> QED BY <1>3, <2>1, <2>2
          DEF vars, historyVars, effectVars, bindingVars, IInv,
              HistoryPending, SupersededPending, Outdates, Pending
<1> QED BY <1>1, <1>2, <1>3 DEF Next, Step

-----------------------------------------------------------------------------
(* Theorems                                                                *)

\* In every behaviour both runtimes keep their bookkeeping: the bindings and
\* tabs agree, and what the history calls superseded or replaced is pending.
THEOREM Invariance == Spec => []IInv
  BY InitInv, NextInv, PTL DEF Spec

\* Every variable of both runtimes keeps its type.
THEOREM TypeCorrect == Spec => []TypeOK
<1>1. IInv => TypeOK
  BY DEF IInv, BindingInv, EffectInv, EffectTypeOK, HistoryPending, TypeOK,
         Pending
<1> QED BY <1>1, Invariance, PTL

\* No two lanes are ever bound to one tab, and the map of owners says so.
THEOREM Ownership == Spec => []ProjectionOwnership
<1>1. IInv => ProjectionOwnership
  BY DEF IInv, BindingInv
<1> QED BY <1>1, Invariance, PTL

\* The maps by lane and by request stay each other's inverse.
THEOREM Waiting == Spec => []OneEffectPerLane
<1>1. IInv => OneEffectPerLane
  BY DEF IInv, EffectInv
<1> QED BY <1>1, Invariance, PTL

\* An admitted reference is never pending again, whatever is cleared.
THEOREM AntiReplay == Spec => []AdmittedOnce
<1>1. IInv => AdmittedOnce
  BY DEF IInv, EffectInv
<1> QED BY <1>1, Invariance, PTL

\* Whoever saw the newer generation, and however long ago: an effect issued
\* for an older one is not admitted unless the binding runtime was cleared
\* since, and then only if no newer generation was seen after that.
THEOREM Superseded == Spec => SupersededNeverAdmitted
<1>1. IInv /\ [Next]_vars => [superseded \intersect (admitted' \ admitted) \subseteq forgotten]_vars
  <2> SUFFICES ASSUME IInv, [Next]_vars, NEW r \in superseded, r \notin forgotten,
                      r \in admitted', r \notin admitted
               PROVE  FALSE
    OBVIOUS
  <2>1. r \in Pending
    BY DEF IInv, HistoryPending
  <2>2. Step
    BY DEF Next, Step, vars, historyVars, BindingReset
  <2>3. PICK l \in LaneRef, g \in Generation, receipt \in Receipt :
            AcceptReceipt(l, g, receipt)
    BY <2>2, StepCases DEF BeginIssued, Clear
  <2>4. r = receipt.requestRef
    BY <2>3 DEF AcceptReceipt
  <2> DEFINE e == pendingByRequest[r]
  <2>5. e.laneRef = l /\ e.laneGeneration = g /\ generation[l] = g
    BY <2>3, <2>4 DEF AcceptReceipt, Correlates, StillCurrent
  <2>6. generation[e.laneRef] > e.laneGeneration
    BY DEF IInv, SupersededPending, Outdates
  <2>7. g \in Nat
    OBVIOUS
  <2> HIDE DEF e
  <2> QED BY <2>5, <2>6, <2>7
<1> QED BY <1>1, Invariance, PTL DEF SupersededNeverAdmitted, Spec

-----------------------------------------------------------------------------
(* The refinement of OneShotReferences                                     *)

\* What lanes wait for, as the abstract specification sees it.
Awaited == [l \in LaneRef |-> AwaitedBy(l)]

\* A lane waits for the one reference the map by lane has for it.
LEMMA AwaitedOfLane ==
    ASSUME OneEffectPerLane, NEW l \in LaneRef
    PROVE  AwaitedBy(l) = OfLane(l) \intersect RequestRef
<1>1. \A r \in RequestRef : r \in AwaitedBy(l) <=> requestByLane[l] = r
  BY DEF AwaitedBy, OneEffectPerLane, Pending
<1>2. \A r \in RequestRef : r \in OfLane(l) <=> requestByLane[l] = r
  BY DEF OfLane
<1>3. AwaitedBy(l) \subseteq RequestRef
  BY DEF AwaitedBy, Pending
<1> QED BY <1>1, <1>2, <1>3

\* Dropping references makes the lanes that waited for them give up.
LEMMA DropGivesUp ==
    ASSUME EffectInv, NEW D, Drop(D)
    PROVE  Awaited' = [l \in LaneRef |->
                IF l \in {m \in LaneRef : requestByLane[m] \in D}
                THEN {} ELSE Awaited[l]]
<1>1. ASSUME NEW l \in LaneRef
      PROVE  AwaitedBy(l)' = IF requestByLane[l] \in D THEN {} ELSE AwaitedBy(l)
  <2>1. \A r \in RequestRef :
            r \in AwaitedBy(l)' <=> r \in AwaitedBy(l) /\ r \notin D
    BY DropPending DEF AwaitedBy, Pending
  <2>2. \A r \in RequestRef : r \in AwaitedBy(l) <=> requestByLane[l] = r
    BY DEF AwaitedBy, EffectInv, OneEffectPerLane, Pending
  <2>3. AwaitedBy(l) \subseteq RequestRef /\ AwaitedBy(l)' \subseteq RequestRef
    BY DEF AwaitedBy, Pending
  <2> QED BY <2>1, <2>2, <2>3
<1> QED BY <1>1 DEF Awaited

\* Giving effects up gives their references up.
LEMMA DropRefines ==
    ASSUME EffectInv, NEW D, Drop(D), UNCHANGED <<claimedRequestRefs, admitted>>
    PROVE  References!Next
<1> DEFINE holders == {m \in LaneRef : requestByLane[m] \in D}
<1>1. Awaited' = [l \in LaneRef |-> IF l \in holders THEN {} ELSE Awaited[l]]
  BY DropGivesUp
<1>2. holders \in SUBSET LaneRef
  OBVIOUS
<1> HIDE DEF holders
<1>3. References!GiveUp(holders)
  BY <1>1 DEF References!GiveUp, Awaited
<1> QED BY <1>2, <1>3 DEF References!Next

\* Issuing an effect issues its reference, which was never issued before.
LEMMA IssuedRefines ==
    ASSUME EffectInv, NEW l \in LaneRef, NEW g \in Generation,
           NEW p \in Projection, NEW effect \in Effect, NEW r \in RequestRef,
           BeginIssued(l, g, p, effect, r)
    PROVE  References!Next
<1>1. ASSUME NEW m \in LaneRef
      PROVE  AwaitedBy(m)' = IF m = l THEN {r} ELSE AwaitedBy(m)
  <2>1. \A q \in RequestRef : q \in AwaitedBy(m)' <=> requestByLane'[m] = q
    BY IssuedKeeps DEF AwaitedBy, EffectInv, OneEffectPerLane, Pending
  <2>2. \A q \in RequestRef : q \in AwaitedBy(m) <=> requestByLane[m] = q
    BY DEF AwaitedBy, EffectInv, OneEffectPerLane, Pending
  <2>3. AwaitedBy(m) \subseteq RequestRef /\ AwaitedBy(m)' \subseteq RequestRef
    BY DEF AwaitedBy, Pending
  <2>4. requestByLane'[m] = IF m = l THEN r ELSE requestByLane[m]
    BY DEF BeginIssued, EffectInv, EffectTypeOK
  <2> QED BY <2>1, <2>2, <2>3, <2>4
<1>2. Awaited' = [Awaited EXCEPT ![l] = {r}]
  BY <1>1 DEF Awaited
<1>3. References!Issue(l, r)
  BY <1>2 DEF References!Issue, Awaited, BeginIssued
<1> QED BY <1>3 DEF References!Next

\* Admitting a receipt admits its reference, which was waited for.
LEMMA AcceptRefines ==
    ASSUME EffectInv, NEW l \in LaneRef, NEW g \in Generation,
           NEW receipt \in Receipt, AcceptReceipt(l, g, receipt)
    PROVE  References!Next
<1> DEFINE r == receipt.requestRef
<1>1. Drop({r}) /\ r \in Pending /\ pendingByRequest[r].laneRef = l
  BY DEF AcceptReceipt, Correlates
<1>2. r \in RequestRef
  BY DEF Receipt
<1>3. r \in AwaitedBy(l)
  BY <1>1 DEF AwaitedBy
<1>4. \A m \in LaneRef : requestByLane[m] \in {r} <=> m = l
  BY <1>1, <1>2 DEF EffectInv, OneEffectPerLane
<1>5. Awaited' = [Awaited EXCEPT ![l] = {}]
  <2>1. Awaited' = [m \in LaneRef |->
                IF m \in {n \in LaneRef : requestByLane[n] \in {r}}
                THEN {} ELSE Awaited[m]]
    BY <1>1, DropGivesUp
  <2> QED BY <1>4, <2>1 DEF Awaited
<1> HIDE DEF r
<1>6. admitted' = admitted \union {r} /\ UNCHANGED claimedRequestRefs
  BY DEF AcceptReceipt, r
<1>7. References!Admit(l, r)
  BY <1>3, <1>5, <1>6 DEF References!Admit, Awaited
<1> QED BY <1>2, <1>7 DEF References!Next

\* Clearing gives every reference up that was waited for.
LEMMA ClearRefines == EffectInv /\ Clear => References!Next
<1> SUFFICES ASSUME EffectInv, Clear PROVE References!Next
  OBVIOUS
<1>1. \A l \in LaneRef : AwaitedBy(l)' = {}
  BY DEF Clear, AwaitedBy, Pending
<1>2. Awaited' = [l \in LaneRef |-> IF l \in LaneRef THEN {} ELSE Awaited[l]]
  BY <1>1 DEF Awaited
<1>3. References!GiveUp(LaneRef)
  BY <1>2 DEF References!GiveUp, Awaited, Clear
<1> QED BY <1>3 DEF References!Next

\* A step that touches no effect is a stutter of the owner of references.
LEMMA StandStillRefines ==
    ASSUME UNCHANGED <<effectVars, admitted>>
    PROVE  UNCHANGED References!referenceVars
<1>1. Awaited' = Awaited
  BY DEF Awaited, AwaitedBy, Pending, effectVars
<1> QED BY <1>1 DEF References!referenceVars, Awaited, effectVars

\* The managed-effect runtime keeps the promise of an owner of one-shot
\* references, for any number of lanes, tabs, references and limits.
THEOREM OneShot == Spec => ReferencesAreOneShot
<1>1. Init => References!Init
  <2> SUFFICES ASSUME Init PROVE References!Init
    OBVIOUS
  <2>1. Awaited = [l \in LaneRef |-> {}]
    BY DEF Init, Awaited, AwaitedBy, Pending
  <2> QED BY <2>1 DEF References!Init, Awaited, Init
<1>2. IInv /\ [Next]_vars => [References!Next]_References!referenceVars
  <2> SUFFICES ASSUME IInv, [Next]_vars
               PROVE  [References!Next]_References!referenceVars
    OBVIOUS
  <2>1. CASE Step
    BY <2>1, StepCases, StandStillRefines, DropRefines, IssuedRefines,
       AcceptRefines, ClearRefines DEF IInv
  <2>2. CASE BindingReset
    BY <2>2, StandStillRefines DEF BindingReset
  <2>3. CASE UNCHANGED vars
    BY <2>3, StandStillRefines DEF vars, historyVars
  <2> QED BY <2>1, <2>2, <2>3 DEF Next, Step
<1> QED BY <1>1, <1>2, Invariance, PTL
        DEF Spec, ReferencesAreOneShot, References!Spec

=============================================================================
