--------------------- MODULE ChromiumManagedEffectRuntime ---------------------
(***************************************************************************)
(* The volatile owner of in-flight browser effects of managed lanes        *)
(* (extension/chromium/src/managed-effect-runtime.ts) over the binding     *)
(* runtime it composes.                                                    *)
(*                                                                         *)
(* begin issues an effect request for the current binding of a lane;       *)
(* acceptReceipt admits the browser's receipt if generation and projection *)
(* are still current.  Between the two the binding runtime may observe     *)
(* newer generations, replace the projection or be cleared, and receipts   *)
(* may be late, repeated, mismatched or forged: every operation takes any  *)
(* well-formed input.  The plan is the caller's facts and the residency    *)
(* planner's answer to them, here any effect.                              *)
(***************************************************************************)
EXTENDS ChromiumBindingRuntime

CONSTANTS
    RequestRef,                 \* effect request references
    maxPendingEffects,
    maxClaimedRequestRefs,
    NoEffect, NoRequestRef

Effect == {"keep_warm", "discard", "none", "unsupported"}
Executable == {"keep_warm", "discard"}

PendingEffect == [laneRef : LaneRef, laneGeneration : Generation,
                  projection : Projection, effect : Executable]

\* A receipt, but for its outcome: no outcome changes its admission.
Receipt == [requestRef : RequestRef, projection : Projection,
            effect : Executable]

ASSUME EffectAssumption ==
    /\ maxPendingEffects \in Nat \ {0}
    /\ maxClaimedRequestRefs \in Nat \ {0}
    /\ maxPendingEffects <= maxClaimedRequestRefs
    /\ NoEffect \notin PendingEffect
    /\ NoRequestRef \notin RequestRef

VARIABLES
    pendingByRequest,       \* the pending effect of each request reference
    requestByLane,          \* the request reference each lane waits for
    claimedRequestRefs,     \* every reference issued in this runtime's life
    admitted,               \* history: references whose receipt was accepted
    superseded,             \* history: pending references whose lane has
                            \*   since been seen at a newer generation
    forgotten,              \* history: those of them whose newer generation
                            \*   the binding runtime was cleared of
    replaced                \* history: pending references whose projection
                            \*   has since been replaced in their generation

effectVars == <<pendingByRequest, requestByLane, claimedRequestRefs>>
historyVars == <<admitted, superseded, forgotten, replaced>>
vars == <<bindingVars, effectVars, historyVars>>

Pending == {r \in RequestRef : pendingByRequest[r] # NoEffect}

Init ==
    /\ BindingInit
    /\ pendingByRequest = [r \in RequestRef |-> NoEffect]
    /\ requestByLane = [l \in LaneRef |-> NoRequestRef]
    /\ claimedRequestRefs = {}
    /\ admitted = {} /\ superseded = {} /\ forgotten = {} /\ replaced = {}

-----------------------------------------------------------------------------
(* Helpers                                                                 *)

\* Faulty variant of LaneWithout: the lane keeps its reference.
LaneWithNothingDropped(dropped) == requestByLane

\* requestByLane without the references in dropped.
LaneWithout(dropped) ==
    [l \in LaneRef |-> IF requestByLane[l] \in dropped THEN NoRequestRef
                                                       ELSE requestByLane[l]]

\* pendingByRequest without the references in dropped.
PendingWithout(dropped) ==
    [r \in RequestRef |-> IF r \in dropped THEN NoEffect ELSE pendingByRequest[r]]

\* dropPending
Drop(dropped) ==
    /\ pendingByRequest' = PendingWithout(dropped)
    /\ requestByLane' = LaneWithout(dropped)

\* The pending reference of lane l, as a set of at most one.
OfLane(l) == {requestByLane[l]} \ {NoRequestRef}

Matches(e, l, g, p) ==
    /\ e.laneRef = l
    /\ e.laneGeneration = g
    /\ e.projection = p

\* The lane of e has been seen at a newer generation than e was issued for.
Outdates(gen, e) == gen[e.laneRef] > e.laneGeneration

\* The lane of e is bound to another projection, in the generation of e.
Displaces(gen, bound, e) ==
    /\ gen[e.laneRef] = e.laneGeneration
    /\ bound[e.laneRef] \notin {NoProjection, e.projection}

\* How the history follows a step.
Watch ==
    /\ superseded' = {r \in Pending' :
            r \in superseded \/ Outdates(generation', pendingByRequest'[r])}
    /\ forgotten' = {r \in forgotten \intersect Pending' :
            ~Outdates(generation', pendingByRequest'[r])}
    /\ replaced' = {r \in Pending' :
            r \in replaced \/ Displaces(generation', binding', pendingByRequest'[r])}

-----------------------------------------------------------------------------
(* begin                                                                   *)

Plans(l, g, p) == generation[l] = g /\ binding[l] = p

\* planCurrent refuses: binding-missing and a newer generation also drop the
\* lane's pending effect, a stale or mismatched caller drops nothing.
BeginUnplanned(l, g, p, r) ==
    /\ r \notin claimedRequestRefs
    /\ ~Plans(l, g, p)
    /\ Observe(l, g)
    /\ IF Observes(l, g) \/ (generation[l] = g /\ binding[l] = NoProjection)
       THEN Drop(OfLane(l))
       ELSE UNCHANGED <<pendingByRequest, requestByLane>>
    /\ UNCHANGED <<claimedRequestRefs, admitted>>

\* The lane waits for an effect on the very same binding.
InFlight(l, g, p) ==
    \E r \in OfLane(l) : /\ r \in Pending
                         /\ Matches(pendingByRequest[r], l, g, p)

HasCapacity(l) ==
    /\ Cardinality(Pending \ OfLane(l)) < maxPendingEffects
    /\ Cardinality(claimedRequestRefs) < maxClaimedRequestRefs

\* no-executable-effect, pending-effect-capacity, request-history-capacity:
\* the outdated pending effect of the lane has gone by then.
BeginWithoutEffect(l, g, p, effect, r) ==
    /\ r \notin claimedRequestRefs
    /\ Plans(l, g, p)
    /\ ~InFlight(l, g, p)
    /\ effect \notin Executable \/ ~HasCapacity(l)
    /\ Drop(OfLane(l))
    /\ UNCHANGED <<bindingVars, claimedRequestRefs, admitted>>

\* Faulty variant of BeginIssued: a reference is unique among the pending
\* effects only.
BeginIssuedReusing(l, g, p, effect, r) ==
    /\ r \notin Pending
    /\ Plans(l, g, p)
    /\ ~InFlight(l, g, p)
    /\ effect \in Executable /\ HasCapacity(l)
    /\ pendingByRequest' = [PendingWithout(OfLane(l)) EXCEPT ![r] =
            [laneRef |-> l, laneGeneration |-> g, projection |-> p,
             effect |-> effect]]
    /\ requestByLane' = [requestByLane EXCEPT ![l] = r]
    /\ claimedRequestRefs' = claimedRequestRefs \union {r}
    /\ UNCHANGED <<bindingVars, admitted>>

BeginIssued(l, g, p, effect, r) ==
    /\ r \notin claimedRequestRefs
    /\ Plans(l, g, p)
    /\ ~InFlight(l, g, p)
    /\ effect \in Executable /\ HasCapacity(l)
    /\ pendingByRequest' = [PendingWithout(OfLane(l)) EXCEPT ![r] =
            [laneRef |-> l, laneGeneration |-> g, projection |-> p,
             effect |-> effect]]
    /\ requestByLane' = [requestByLane EXCEPT ![l] = r]
    /\ claimedRequestRefs' = claimedRequestRefs \union {r}
    /\ UNCHANGED <<bindingVars, admitted>>

Begin(l, g, p, effect, r) ==
    \/ BeginUnplanned(l, g, p, r)
    \/ BeginWithoutEffect(l, g, p, effect, r)
    \/ BeginIssued(l, g, p, effect, r)

-----------------------------------------------------------------------------
(* acceptReceipt: refused without effect as pending-effect-missing,        *)
(* receipt-mismatch or descriptor-mismatch.                                *)

\* The receipt is of pending effect e, and the descriptor of its lane is not
\* older than e.
Correlates(l, g, receipt) ==
    /\ receipt.requestRef \in Pending
    /\ LET e == pendingByRequest[receipt.requestRef]
       IN /\ receipt.projection = e.projection
          /\ receipt.effect = e.effect
          /\ e.laneRef = l
          /\ e.laneGeneration <= g

\* Faulty variant of StillCurrent: the retained generation is not consulted.
StillCurrentByDescriptor(l, g, e) ==
    /\ e.laneGeneration = g
    /\ generation[l] # 0

\* The binding runtime retains generation and projection of the effect.
StillCurrent(l, g, e) ==
    /\ e.laneGeneration = g
    /\ generation[l] = g
    /\ binding[l] = e.projection

AcceptReceipt(l, g, receipt) ==
    /\ Correlates(l, g, receipt)
    /\ StillCurrent(l, g, pendingByRequest[receipt.requestRef])
    /\ Drop({receipt.requestRef})
    /\ admitted' = admitted \union {receipt.requestRef}
    /\ UNCHANGED <<bindingVars, claimedRequestRefs>>

\* stale-generation or stale-projection: the descriptor is observed, the
\* pending effect goes.
StaleReceipt(l, g, receipt) ==
    /\ Correlates(l, g, receipt)
    /\ ~StillCurrent(l, g, pendingByRequest[receipt.requestRef])
    /\ Observe(l, g)
    /\ Drop({receipt.requestRef})
    /\ UNCHANGED <<claimedRequestRefs, admitted>>

Cancel(r) ==
    /\ r \in Pending
    /\ Drop({r})
    /\ UNCHANGED <<bindingVars, claimedRequestRefs, admitted>>

\* clear: the claimed references stay claimed.
Clear ==
    /\ pendingByRequest' = [r \in RequestRef |-> NoEffect]
    /\ requestByLane' = [l \in LaneRef |-> NoRequestRef]
    /\ UNCHANGED <<bindingVars, claimedRequestRefs, admitted>>

-----------------------------------------------------------------------------

\* The binding runtime is shared: its owner calls it directly as well.
BindingStep == BindingNext /\ UNCHANGED <<effectVars, admitted>>

\* The binding runtime is cleared: pending effects survive, the generations
\* that outdate them do not.
BindingReset ==
    /\ ClearBindings
    /\ forgotten' = superseded
    /\ UNCHANGED <<effectVars, admitted, superseded, replaced>>

Next ==
    \/ /\ \/ BindingStep
          \/ \E l \in LaneRef, g \in Generation :
                \/ \E p \in Projection, effect \in Effect, r \in RequestRef :
                        Begin(l, g, p, effect, r)
                \/ \E receipt \in Receipt :
                        \/ AcceptReceipt(l, g, receipt)
                        \/ StaleReceipt(l, g, receipt)
          \/ \E r \in RequestRef : Cancel(r)
          \/ Clear
       /\ Watch
    \/ BindingReset

Spec == Init /\ [][Next]_vars

-----------------------------------------------------------------------------
(* Properties                                                              *)

TypeOK ==
    /\ BindingTypeOK
    /\ pendingByRequest \in [RequestRef -> PendingEffect \union {NoEffect}]
    /\ requestByLane \in [LaneRef -> RequestRef \union {NoRequestRef}]
    /\ claimedRequestRefs \subseteq RequestRef
    /\ admitted \subseteq RequestRef
    /\ forgotten \subseteq superseded /\ superseded \subseteq RequestRef
    /\ replaced \subseteq RequestRef

\* A lane waits for at most one effect, and the map by lane is the inverse of
\* the map by request through every drop, replacement and stale receipt.
OneEffectPerLane ==
    \A r \in RequestRef, l \in LaneRef :
        requestByLane[l] = r <=> r \in Pending /\ pendingByRequest[r].laneRef = l

\* The anti-replay fence: a reference whose receipt was admitted is never
\* pending again, so that no later copy of that receipt is evidence of
\* anything; clear() and cancel() do not free references.
AdmittedOnce ==
    /\ Pending \union admitted \subseteq claimedRequestRefs
    /\ Pending \intersect admitted = {}

\* The reference a lane waits for, read off the map by request.
AwaitedBy(l) == {r \in Pending : pendingByRequest[r].laneRef = l}

References == INSTANCE OneShotReferences WITH
    Holder <- LaneRef,
    Reference <- RequestRef,
    issued <- claimedRequestRefs,
    waiting <- [l \in LaneRef |-> AwaitedBy(l)]

\* Through every binding change, late or forged receipt, refusal at capacity,
\* cancellation and clear, the runtime keeps the promise of an owner of
\* one-shot references: what it admits is awaited at that moment by the lane it
\* was issued to, and no reference is ever issued or admitted a second time.
ReferencesAreOneShot == References!Spec

\* A lane's retained generation goes back only when the runtime is cleared.
GenerationFence ==
    [][\/ generation' = [l \in LaneRef |-> 0]
       \/ \A l \in LaneRef : generation'[l] >= generation[l]]_vars

\* Short of a reset of the binding runtime, a receipt is never admitted once a
\* newer generation of its lane has been seen, by whatever operation, since the
\* effect was issued; after a reset, not once it has been seen again.
SupersededNeverAdmitted ==
    [][superseded \intersect (admitted' \ admitted) \subseteq forgotten]_vars

\* A newer generation makes the pending operation stale
\* (docs/chromium-managed-effects.md:75), whatever is cleared in between.
SupersededStaysStale ==
    [][superseded \intersect (admitted' \ admitted) = {}]_vars

\* A same-generation projection replacement makes the pending operation stale
\* (docs/chromium-managed-effects.md:75), so its receipt is not admitted.
ReplacedNeverAdmitted ==
    [][replaced \intersect (admitted' \ admitted) = {}]_vars

=============================================================================
