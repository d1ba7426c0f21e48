-------------------------- MODULE ChromiumLanePlan --------------------------
(***************************************************************************)
(* What the extension makes of a browser tab (extension/chromium/src/      *)
(* projection.ts) and how a lane bound to it is planned for (binding.ts).  *)
(* Pure functions of a tab as tabs.get() answers it:                       *)
(*   place      hidden, active (in its window) or foreground (the window   *)
(*              is focused as well)                                        *)
(*   hold       why it may not be discarded besides its place: none,       *)
(*              pinned, audible or unknown (whether it is audible)         *)
(*   residency  loaded, loading, frozen or discarded                       *)
(*   auto       autoDiscardable                                            *)
(***************************************************************************)
EXTENDS ApplicationLaneLifecycle

TabState == [place : {"hidden", "active", "foreground"},
             hold : {"none", "pinned", "audible", "unknown"},
             residency : {"loaded", "loading", "frozen", "discarded"},
             auto : BOOLEAN]

ManualDiscardReason(tab) == FirstRule(<<
    <<tab.place # "hidden", "active-tab">>,
    <<tab.hold = "pinned", "pinned-tab">>,
    <<tab.hold = "audible", "audible-tab">>,
    <<tab.hold = "unknown", "audible-unknown">>,
    <<tab.residency = "discarded", "already-discarded">>,
    <<~tab.auto, "browser-protected">>,
    <<TRUE, "eligible">> >>)

ManualDiscardEligible(tab) == ManualDiscardReason(tab) = "eligible"

BrowserResidency(tab) == FirstRule(<<
    <<tab.residency = "discarded", "discarded">>,
    <<tab.residency = "loading", "reloading">>,
    <<tab.residency = "frozen", "frozen">>,
    <<tab.place = "foreground", "foreground">>,
    <<TRUE, "background">> >>)

\* Blockers the browser knows of, besides the ever present application_unknown.
BrowserBlockers(tab) ==
    {b \in {"manual_protection", "media_or_device_active"} :
        \/ b = "manual_protection" /\ (tab.hold = "pinned" \/ ~tab.auto)
        \/ b = "media_or_device_active" /\ tab.hold = "audible"}

ProjectChromiumTab(tab) ==
    [residency |-> BrowserResidency(tab),
     blockers |-> BrowserBlockers(tab),
     eligibility |-> IF BrowserBlockers(tab) = {} THEN "unknown" ELSE "blocked",
     manualDiscard |-> ManualDiscardEligible(tab),
     auto |-> tab.auto]

ChromiumProjections == {ProjectChromiumTab(tab) : tab \in TabState}

-----------------------------------------------------------------------------
(* Planning for a bound lane                                               *)

ChromiumBoundCapabilities ==
    [wake |-> TRUE, freeze |-> FALSE, discard |-> TRUE, recover |-> FALSE]

CombineEligibility(browser, application) ==
    IF browser = "blocked" \/ application = "blocked" THEN "blocked"
                                                      ELSE application

\* matchChromiumLaneBindingV1, for a binding [laneRef, generation, tab] and
\* the projection of tab t.
BindingMatches(descriptor, bound, t) ==
    /\ SameLane(bound, descriptor)
    /\ SameGeneration(bound, descriptor)
    /\ bound.tab = t

\* effectFor
EffectFor(intent, planned) == FirstRule(<<
    <<planned.action \in {"attention_required", "wait", "recover_projection"},
        "none">>,
    <<intent = "responsive",
        IF \/ planned.action = "wake"
           \/ planned = Decide("none", "already_satisfied")
        THEN "keep_warm" ELSE "none">>,
    <<intent = "reclaimable",
        IF planned.action = "discard" THEN "discard" ELSE "none">>,
    <<planned = Decide("none", "already_satisfied"), "none">>,
    <<TRUE, "unsupported">> >>)

\* The facts of the bound lane: the application speaks for what the browser
\* left unknown, a blocker of the browser stays.
BoundFacts(descriptor, projection, application) ==
    [laneRef |-> descriptor.laneRef,
     generation |-> descriptor.generation,
     residency |-> projection.residency,
     recovery |-> application.recovery,
     freeze |-> CombineEligibility(projection.eligibility, application.freeze),
     discard |-> CombineEligibility(projection.eligibility, application.discard),
     blockers |-> projection.blockers \union application.blockers]

\* planBoundChromiumResidencyV1; "throws" when the facts contradict each other.
PlanBoundChromiumResidency(descriptor, bound, t, projection, request, app) ==
    LET facts == BoundFacts(descriptor, projection, app)
        planned == PlanApplicationLaneResidency(descriptor, facts, request,
                        ChromiumBoundCapabilities)
    IN FirstRule(<<
        <<~BindingMatches(descriptor, bound, t), "none">>,
        <<~ConsistentEligibility(facts.freeze, facts.discard, facts.blockers),
            "throws">>,
        <<TRUE, EffectFor(request.intent, planned)>> >>)

=============================================================================
