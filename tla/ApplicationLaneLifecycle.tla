---------------------- MODULE ApplicationLaneLifecycle ----------------------
(***************************************************************************)
(* The residency planner (packages/core/src/application-lane-lifecycle.ts): *)
(* what to do with the browser projection of a lane, from the lane's       *)
(* descriptor, a consumer's request, the facts known of the projection and *)
(* what the transport can do.  A pure function: no state, no browser call. *)
(***************************************************************************)
EXTENDS EarlyReturns

Intent == {"responsive", "suspended", "reclaimable"}
Recovery == {"verified", "recoverable", "recovering", "attention_required",
             "unavailable"}
Eligibility == {"allowed", "blocked", "unknown"}

\* The parts of a decision that a caller can tell apart.
Decide(action, reason) == [action |-> action, reason |-> reason]

\* assertLifecycleEligibilityConsistency: the planner and the constructor of
\* facts throw on facts that contradict themselves.
ConsistentEligibility(freeze, discard, blockers) ==
    blockers # {} => freeze # "allowed" /\ discard # "allowed"

PlanResponsive(facts, can) == FirstRule(<<
    <<facts.residency \in {"foreground", "background"},
        Decide("none", "already_satisfied")>>,
    <<facts.residency \in {"frozen", "discarded"} /\ can.wake,
        Decide("wake", "wake_required")>>,
    <<facts.residency \in {"frozen", "discarded"},
        Decide("attention_required", "capability_unavailable")>>,
    <<TRUE, Decide("wait", "recovery_in_progress")>> >>)

PlanSuspended(facts, can) == FirstRule(<<
    <<facts.residency = "foreground", Decide("none", "foreground_protected")>>,
    <<facts.residency = "frozen", Decide("none", "already_satisfied")>>,
    <<facts.residency = "discarded" /\ can.wake,
        Decide("wake", "wake_required")>>,
    <<facts.residency = "discarded",
        Decide("attention_required", "capability_unavailable")>>,
    <<facts.freeze = "unknown", Decide("none", "eligibility_unknown")>>,
    <<facts.freeze = "blocked", Decide("none", "freeze_blocked")>>,
    <<can.freeze, Decide("freeze", "freeze_eligible")>>,
    <<TRUE, Decide("none", "capability_unavailable")>> >>)

PlanReclaimable(facts, can) == FirstRule(<<
    <<facts.residency = "foreground", Decide("none", "foreground_protected")>>,
    <<facts.residency = "discarded", Decide("none", "already_reclaimed")>>,
    <<facts.discard = "allowed" /\ can.discard,
        Decide("discard", "discard_eligible")>>,
    <<facts.residency = "background" /\ facts.freeze = "allowed" /\ can.freeze,
        Decide("freeze", "discard_fallback_freeze")>>,
    <<facts.discard = "unknown", Decide("none", "eligibility_unknown")>>,
    <<facts.discard = "blocked", Decide("none", "discard_blocked")>>,
    <<TRUE, Decide("none", "capability_unavailable")>> >>)

PlanByIntent(intent, facts, can) ==
    CASE intent = "responsive" -> PlanResponsive(facts, can)
      [] intent = "suspended" -> PlanSuspended(facts, can)
      [] intent = "reclaimable" -> PlanReclaimable(facts, can)

\* A descriptor, facts and a request each carry a laneRef and a generation.
SameLane(x, y) == x.laneRef = y.laneRef
SameGeneration(x, y) == x.generation = y.generation

PlanApplicationLaneResidency(descriptor, facts, request, can) == FirstRule(<<
    <<~SameLane(request, descriptor), Decide("none", "lane_mismatch")>>,
    <<~SameGeneration(request, descriptor), Decide("none", "stale_generation")>>,
    <<~SameLane(facts, descriptor) \/ ~SameGeneration(facts, descriptor),
        Decide("attention_required", "stale_projection_facts")>>,
    <<\/ descriptor.state \in {"unavailable", "drifted", "recovery_needed"}
      \/ facts.recovery \in {"attention_required", "unavailable"},
        Decide("attention_required", "recovery_required")>>,
    <<facts.recovery = "recovering" \/ facts.residency = "reloading",
        Decide("wait", "recovery_in_progress")>>,
    <<facts.residency = "missing" /\ request.intent = "reclaimable",
        Decide("none", "already_reclaimed")>>,
    <</\ facts.residency = "missing"
      /\ facts.recovery = "recoverable" /\ can.recover,
        Decide("recover_projection", "projection_recovery_required")>>,
    <<facts.residency = "missing",
        Decide("attention_required", "recovery_required")>>,
    <<TRUE, PlanByIntent(request.intent, facts, can)>> >>)

=============================================================================
