---------------------------- MODULE Services_proofs ----------------------------
(***************************************************************************)
(* Proofs about the components that MCServices instantiates, for every     *)
(* value of their constants.                                               *)
(***************************************************************************)
EXTENDS ChromiumStaticHost, RepresentationCheck, ResponseBinding,
        TransformAuthority, LaneActivityPanel, ChatGptLaneActivity,
        AdapterConformance, LoopbackExchange, CommonFacts_proofs

-----------------------------------------------------------------------------
(* ChromiumLanePlan                                                        *)

-----------------------------------------------------------------------------
(* A plan that discards is sound                                           *)

\* The planner lets a projection be discarded only for a request and facts of
\* the lane and generation it plans for, in no hindering state, when the facts
\* allow it.
LEMMA DiscardIsPlanned ==
    ASSUME NEW descriptor, NEW facts, NEW request,
           request.intent = "reclaimable",
           PlanApplicationLaneResidency(descriptor, facts, request,
                ChromiumBoundCapabilities).action = "discard"
    PROVE  /\ SameLane(request, descriptor) /\ SameGeneration(request, descriptor)
           /\ descriptor.state \notin {"unavailable", "drifted", "recovery_needed"}
           /\ facts.recovery \notin {"attention_required", "unavailable", "recovering"}
           /\ facts.residency \notin {"reloading", "foreground", "discarded"}
           /\ facts.discard = "allowed"
<1> DEFINE can == ChromiumBoundCapabilities
           byIntent == PlanByIntent(request.intent, facts, can)
           lane == SameLane(request, descriptor)
           current == SameGeneration(request, descriptor)
           foreign == ~SameLane(facts, descriptor) \/ ~SameGeneration(facts, descriptor)
           lost == \/ descriptor.state \in {"unavailable", "drifted", "recovery_needed"}
                   \/ facts.recovery \in {"attention_required", "unavailable"}
           recovering == facts.recovery = "recovering" \/ facts.residency = "reloading"
           reclaimed == facts.residency = "missing" /\ request.intent = "reclaimable"
           recoverable == /\ facts.residency = "missing"
                          /\ facts.recovery = "recoverable" /\ can.recover
           missing == facts.residency = "missing"
           rules == <<
    <<~lane, Decide("none", "lane_mismatch")>>,
    <<~current, Decide("none", "stale_generation")>>,
    <<foreign, Decide("attention_required", "stale_projection_facts")>>,
    <<lost, Decide("attention_required", "recovery_required")>>,
    <<recovering, Decide("wait", "recovery_in_progress")>>,
    <<reclaimed, Decide("none", "already_reclaimed")>>,
    <<recoverable, Decide("recover_projection", "projection_recovery_required")>>,
    <<missing, Decide("attention_required", "recovery_required")>>,
    <<TRUE, byIntent>> >>
<1>1. PlanApplicationLaneResidency(descriptor, facts, request, can) = FirstRule(rules)
  BY DEF PlanApplicationLaneResidency
<1>2. /\ DOMAIN rules = 1..9 /\ rules[9][1] /\ rules[9][2] = byIntent
      /\ rules[1][1] = ~lane /\ rules[2][1] = ~current
      /\ rules[4][1] = lost /\ rules[5][1] = recovering
  <2> HIDE DEF lane, current, foreign, lost, recovering, reclaimed,
               recoverable, missing, byIntent
  <2> QED OBVIOUS
<1>3. \A i \in 1..9 : i # 9 => rules[i][2].action # "discard"
  <2> HIDE DEF lane, current, foreign, lost, recovering, reclaimed,
               recoverable, missing, byIntent
  <2> QED BY DEF Decide
<1> HIDE DEF rules
<1>4. FirstRule(rules) = byIntent /\ \A j \in 1..8 : ~rules[j][1]
  <2>1. OnlyRule(rules, 9, 9)
    BY <1>1, <1>2, <1>3 DEF OnlyRule
  <2>2. ReturnsAt(rules, 9)
    BY <2>1, OnlyRuleIsTaken
  <2> QED BY <1>2, <2>2 DEF ReturnsAt
<1>5. lane /\ current /\ ~lost /\ ~recovering
  <2> HIDE DEF lane, current, lost, recovering
  <2>1. ~rules[1][1] /\ ~rules[2][1] /\ ~rules[4][1] /\ ~rules[5][1]
    BY <1>4
  <2> QED BY <1>2, <2>1
<1>6. byIntent = PlanReclaimable(facts, can)
  BY DEF PlanByIntent
<1> DEFINE front == facts.residency = "foreground"
           gone == facts.residency = "discarded"
           allowed == facts.discard = "allowed" /\ can.discard
           freeze == facts.residency = "background" /\ facts.freeze = "allowed"
                        /\ can.freeze
           unknown == facts.discard = "unknown"
           blocked == facts.discard = "blocked"
           ways == <<
    <<front, Decide("none", "foreground_protected")>>,
    <<gone, Decide("none", "already_reclaimed")>>,
    <<allowed, Decide("discard", "discard_eligible")>>,
    <<freeze, Decide("freeze", "discard_fallback_freeze")>>,
    <<unknown, Decide("none", "eligibility_unknown")>>,
    <<blocked, Decide("none", "discard_blocked")>>,
    <<TRUE, Decide("none", "capability_unavailable")>> >>
<1>7. PlanReclaimable(facts, can) = FirstRule(ways)
  BY DEF PlanReclaimable
<1>8. /\ DOMAIN ways = 1..7 /\ ways[7][1]
      /\ ways[1][1] = front /\ ways[2][1] = gone /\ ways[3][1] = allowed
      /\ \A i \in 1..7 : i # 3 => ways[i][2].action # "discard"
  <2> HIDE DEF front, gone, allowed, freeze, unknown, blocked
  <2> QED BY DEF Decide
<1>9. ways[3][1] /\ \A j \in 1..2 : ~ways[j][1]
  <2> HIDE DEF ways
  <2>1. OnlyRule(ways, 7, 3)
    BY <1>1, <1>4, <1>6, <1>7, <1>8 DEF OnlyRule
  <2>2. ReturnsAt(ways, 3)
    BY <2>1, OnlyRuleIsTaken
  <2> QED BY <2>2 DEF ReturnsAt
<1>10. ~front /\ ~gone /\ allowed
  <2> HIDE DEF ways, front, gone, allowed
  <2> QED BY <1>8, <1>9
<1> QED BY <1>5, <1>10

\* The effect of a plan is a discard only if a discard was asked for and
\* planned.
LEMMA EffectIsPlanned ==
    ASSUME NEW intent, NEW planned, EffectFor(intent, planned) = "discard"
    PROVE  intent = "reclaimable" /\ planned.action = "discard"
<1> DEFINE waits == planned.action \in {"attention_required", "wait", "recover_projection"}
           satisfied == planned = Decide("none", "already_satisfied")
           warm == IF planned.action = "wake" \/ satisfied THEN "keep_warm" ELSE "none"
           reclaim == IF planned.action = "discard" THEN "discard" ELSE "none"
           rules == << <<waits, "none">>, <<intent = "responsive", warm>>,
                       <<intent = "reclaimable", reclaim>>,
                       <<satisfied, "none">>, <<TRUE, "unsupported">> >>
<1>1. EffectFor(intent, planned) = FirstRule(rules)
  BY DEF EffectFor
<1>2. warm \in {"keep_warm", "none"}
  <2> HIDE DEF satisfied
  <2> QED OBVIOUS
<1>3. /\ DOMAIN rules = 1..5 /\ rules[5][1]
      /\ rules[3][1] = (intent = "reclaimable") /\ rules[3][2] = reclaim
      /\ \A i \in 1..5 : i # 3 => rules[i][2] # "discard"
  <2> HIDE DEF waits, satisfied, warm, reclaim
  <2> QED BY <1>2
<1> HIDE DEF rules
<1>4. rules[3][1] /\ FirstRule(rules) = rules[3][2]
  <2>1. OnlyRule(rules, 5, 3)
    BY <1>1, <1>3 DEF OnlyRule
  <2>2. ReturnsAt(rules, 3)
    BY <2>1, OnlyRuleIsTaken
  <2> QED BY <2>2 DEF ReturnsAt
<1>5. reclaim = "discard"
  BY <1>1, <1>3, <1>4
<1> QED BY <1>3, <1>4, <1>5

\* A planned discard was planned for the bound projection from facts that do
\* not contradict each other.
LEMMA BoundPlan ==
    ASSUME NEW descriptor, NEW bound, NEW t, NEW projection, NEW request, NEW app,
           PlanBoundChromiumResidency(descriptor, bound, t, projection, request, app)
                = "discard"
    PROVE  LET facts == BoundFacts(descriptor, projection, app)
           IN /\ BindingMatches(descriptor, bound, t)
              /\ ConsistentEligibility(facts.freeze, facts.discard, facts.blockers)
              /\ request.intent = "reclaimable"
              /\ PlanApplicationLaneResidency(descriptor, facts, request,
                    ChromiumBoundCapabilities).action = "discard"
<1> DEFINE facts == BoundFacts(descriptor, projection, app)
           planned == PlanApplicationLaneResidency(descriptor, facts, request,
                            ChromiumBoundCapabilities)
           matches == BindingMatches(descriptor, bound, t)
           consistent == ConsistentEligibility(facts.freeze, facts.discard,
                                               facts.blockers)
           effect == EffectFor(request.intent, planned)
           rules == << <<~matches, "none">>, <<~consistent, "throws">>,
                       <<TRUE, effect>> >>
<1>1. PlanBoundChromiumResidency(descriptor, bound, t, projection, request, app)
        = FirstRule(rules)
  BY DEF PlanBoundChromiumResidency
<1>2. /\ DOMAIN rules = 1..3 /\ rules[3][1] /\ rules[3][2] = effect
      /\ rules[1][1] = ~matches /\ rules[2][1] = ~consistent
      /\ \A i \in 1..3 : i # 3 => rules[i][2] # "discard"
  <2> HIDE DEF matches, consistent, effect
  <2> QED OBVIOUS
<1> HIDE DEF rules
<1>3. FirstRule(rules) = rules[3][2] /\ \A j \in 1..2 : ~rules[j][1]
  <2>1. OnlyRule(rules, 3, 3)
    BY <1>1, <1>2 DEF OnlyRule
  <2>2. ReturnsAt(rules, 3)
    BY <2>1, OnlyRuleIsTaken
  <2> QED BY <2>2 DEF ReturnsAt
<1>4. matches /\ consistent /\ effect = "discard"
  <2> HIDE DEF matches, consistent, effect
  <2>1. ~rules[1][1] /\ ~rules[2][1]
    BY <1>3
  <2> QED BY <1>1, <1>2, <1>3, <2>1
<1>5. request.intent = "reclaimable" /\ planned.action = "discard"
  <2> HIDE DEF planned
  <2> QED BY <1>4, EffectIsPlanned
<1> QED BY <1>4, <1>5

\* A browser tab is in one of five residencies.
LEMMA ResidencyOfTab ==
    ASSUME NEW tab
    PROVE  BrowserResidency(tab) \in
                {"discarded", "reloading", "frozen", "foreground", "background"}
<1> DEFINE discarded == tab.residency = "discarded"
           loading == tab.residency = "loading"
           frozen == tab.residency = "frozen"
           front == tab.place = "foreground"
           rules == << <<discarded, "discarded">>, <<loading, "reloading">>,
                       <<frozen, "frozen">>, <<front, "foreground">>,
                       <<TRUE, "background">> >>
<1>1. BrowserResidency(tab) = FirstRule(rules)
  BY DEF BrowserResidency
<1>2. /\ 5 \in Nat /\ DOMAIN rules = 1..5 /\ rules[5][1]
      /\ \A i \in 1..5 : rules[i][2] \in
            {"discarded", "reloading", "frozen", "foreground", "background"}
  <2> HIDE DEF discarded, loading, frozen, front
  <2> QED OBVIOUS
<1> HIDE DEF rules
<1>3. \E i \in 1..5 : rules[i][1]
  BY <1>2
<1>4. PICK i \in 1..5 : FirstRule(rules) = rules[i][2]
  BY <1>2, <1>3, FirstRuleIsFirst, Zenon
<1> QED BY <1>1, <1>2, <1>4

\* A request to discard was made of a sound plan.
LEMMA PlannedDiscardIsSound ==
    ASSUME NEW plan \in PlannedRequests, plan.effect = "discard"
    PROVE  plan.sound
<1>1. PICK p \in ChromiumProjections,
           d \in [laneRef : LaneOfPlan, generation : GenerationOfPlan,
                  state : {"active", "recovery_needed"}],
           b \in [laneRef : LaneOfPlan, generation : GenerationOfPlan,
                  tab : {"tab"}],
           r \in [laneRef : LaneOfPlan, generation : GenerationOfPlan,
                  intent : Intent],
           a \in ApplicationFacts :
        plan = [projection |-> p,
                effect |-> PlanBoundChromiumResidency(d, b, "tab", p, r, a),
                sound |-> PlanIsSound(d, b, p, r, a)]
  BY DEF PlannedRequests
<1>2. PlanBoundChromiumResidency(d, b, "tab", p, r, a) = "discard"
  BY <1>1
<1> DEFINE facts == BoundFacts(d, p, a)
<1>3. /\ BindingMatches(d, b, "tab")
      /\ ConsistentEligibility(facts.freeze, facts.discard, facts.blockers)
      /\ r.intent = "reclaimable"
      /\ PlanApplicationLaneResidency(d, facts, r, ChromiumBoundCapabilities).action
            = "discard"
  BY <1>2, BoundPlan
<1>4. /\ SameLane(r, d) /\ SameGeneration(r, d)
      /\ d.state \notin {"unavailable", "drifted", "recovery_needed"}
      /\ facts.recovery \notin {"attention_required", "unavailable", "recovering"}
      /\ facts.residency \notin {"reloading", "foreground", "discarded"}
      /\ facts.discard = "allowed"
  <2> HIDE DEF facts
  <2> QED BY <1>3, DiscardIsPlanned
<1>5. /\ facts.recovery = a.recovery /\ facts.residency = p.residency
      /\ facts.blockers = p.blockers \union a.blockers
      /\ facts.discard = CombineEligibility(p.eligibility, a.discard)
  BY DEF BoundFacts
<1> HIDE DEF facts
<1>6. p.blockers = {} /\ a.blockers = {} /\ a.discard = "allowed"
  BY <1>3, <1>4, <1>5 DEF ConsistentEligibility, CombineEligibility
<1>7. a.recovery \in {"verified", "recoverable"}
  BY <1>4, <1>5, HostAssumption DEF Recovery
<1>8. p.residency \in {"background", "frozen"}
  <2>1. PICK tab : p.residency = BrowserResidency(tab)
    BY DEF ChromiumProjections, ProjectChromiumTab
  <2> QED BY <1>4, <1>5, <2>1, ResidencyOfTab
<1>9. SameLane(b, d) /\ SameGeneration(b, d) /\ d.state = "active"
  BY <1>3, <1>4 DEF BindingMatches
<1>10. PlanIsSound(d, b, p, r, a)
  BY <1>3, <1>4, <1>6, <1>7, <1>8, <1>9 DEF PlanIsSound
<1> QED BY <1>1, <1>10

-----------------------------------------------------------------------------
(* ChromiumStaticHost                                                      *)

-----------------------------------------------------------------------------
(* The inductive invariant of the host                                     *)

Pc == {"request", "request-window", "get", "discard", "protect", "reload",
       "refetch", "activate", "focus", "window", "answered"}

HostCommand ==
    [type : {"keep-warm", "set-protection", "wake", "discard", "apply-effect"},
     tab : Tab, projection : Tab \union {ForeignProjection},
     effect : {"none", "keep_warm", "discard"}, protected : BOOLEAN, pc : Pc,
     answer : {"none", "ok", "tab-unavailable", "operation-failed",
               "discard-unavailable", "window-unavailable", "discard-refused",
               "projection-mismatch"},
     did : BOOLEAN, touched : BOOLEAN, sound : BOOLEAN]

HostTypeOK ==
    /\ tabs \in [Tab -> TabState \union {Gone}]
    /\ commands \in [Slot -> HostCommand \union {Idle}]

\* The course of a command: what it has done when it gets to a call or answer.
CommandOK(c) ==
    /\ c.type = "apply-effect" <=> c.effect # "none"
    /\ Warms(c) => c.protected
    /\ Warms(c) => c.pc \notin {"discard", "activate", "focus"}
    /\ c.pc = "discard" => Discards(c)
    /\ Discards(c) => c.pc \notin {"protect", "reload", "refetch", "activate", "focus"}
    /\ c.pc \in {"request", "request-window", "get", "discard", "protect"} => ~c.did
    /\ c.pc \in {"get", "discard"} => c.projection = c.tab
    /\ c.effect = "discard" /\ c.projection # ForeignProjection => c.sound
    /\ Discards(c) /\ c.pc = "window" => c.did
    /\ c.pc = "answered" =>
        /\ c.answer = "ok" /\ Discards(c) => c.did
        /\ c.answer \in {"discard-refused", "projection-mismatch"} => ~c.did

\* From its decision on, the tab of a keep-warm that nobody disturbs is open
\* and protected, and unless it is still to be reloaded it is not discarded.
WarmOK(c, tab) ==
    /\ Warms(c) /\ ~c.touched
    /\ \/ c.pc \in {"reload", "refetch", "window"}
       \/ c.pc = "answered" /\ c.answer = "ok"
    => tab # Gone /\ ~tab.auto /\ (c.pc = "reload" \/ tab.residency # "discarded")

HostInv ==
    /\ HostTypeOK
    /\ \A s \in Slot : commands[s] # Idle =>
            CommandOK(commands[s]) /\ WarmOK(commands[s], tabs[commands[s].tab])

-----------------------------------------------------------------------------
(* Lemmas: what a step does to the commands                                *)

\* A command goes on to its next call.
LEMMA PcFields ==
    ASSUME NEW c \in HostCommand, NEW p \in Pc
    PROVE  LET d == [c EXCEPT !.pc = p]
           IN /\ d \in HostCommand /\ d.pc = p
              /\ d.type = c.type /\ d.tab = c.tab /\ d.projection = c.projection
              /\ d.effect = c.effect /\ d.protected = c.protected
              /\ d.answer = c.answer /\ d.did = c.did /\ d.touched = c.touched
              /\ d.sound = c.sound
  BY DEF HostCommand

\* Command c once it has answered a.
AnsweredWith(c, a) == [c EXCEPT !.pc = "answered", !.answer = a]

\* A command answers.
LEMMA AnswerFields ==
    ASSUME NEW c \in HostCommand,
           NEW a \in {"ok", "tab-unavailable", "operation-failed",
                      "discard-unavailable", "window-unavailable",
                      "discard-refused", "projection-mismatch"}
    PROVE  /\ AnsweredWith(c, a) \in HostCommand
           /\ AnsweredWith(c, a).pc = "answered" /\ AnsweredWith(c, a).answer = a
           /\ AnsweredWith(c, a).type = c.type /\ AnsweredWith(c, a).tab = c.tab
           /\ AnsweredWith(c, a).projection = c.projection
           /\ AnsweredWith(c, a).effect = c.effect
           /\ AnsweredWith(c, a).protected = c.protected
           /\ AnsweredWith(c, a).did = c.did /\ AnsweredWith(c, a).touched = c.touched
           /\ AnsweredWith(c, a).sound = c.sound
  BY DEF HostCommand, Pc, AnsweredWith

\* A command has changed its tab.
LEMMA ChangeFields ==
    ASSUME NEW c \in HostCommand, NEW p \in Pc
    PROVE  LET d == [c EXCEPT !.pc = p, !.did = TRUE]
           IN /\ d \in HostCommand /\ d.pc = p /\ d.did
              /\ d.type = c.type /\ d.tab = c.tab /\ d.projection = c.projection
              /\ d.effect = c.effect /\ d.protected = c.protected
              /\ d.answer = c.answer /\ d.touched = c.touched
              /\ d.sound = c.sound
  BY DEF HostCommand

\* A command whose tab another has changed keeps its course, and is owed no
\* more.
LEMMA TouchedIsOK ==
    ASSUME NEW c \in HostCommand, CommandOK(c), NEW tab
    PROVE  LET d == [c EXCEPT !.touched = TRUE]
           IN d \in HostCommand /\ d.tab = c.tab /\ CommandOK(d) /\ WarmOK(d, tab)
<1> DEFINE d == [c EXCEPT !.touched = TRUE]
<1>1. /\ d \in HostCommand /\ d.pc = c.pc /\ d.touched
      /\ d.type = c.type /\ d.tab = c.tab /\ d.projection = c.projection
      /\ d.effect = c.effect /\ d.protected = c.protected
      /\ d.answer = c.answer /\ d.did = c.did /\ d.sound = c.sound
  BY DEF HostCommand
<1> HIDE DEF d
<1>2. CommandOK(d) /\ WarmOK(d, tab)
  BY <1>1 DEF CommandOK, WarmOK, Warms, Discards
<1> QED BY <1>1, <1>2 DEF d

\* A step that concerns one slot and leaves the tabs alone.
LEMMA SlotStep ==
    ASSUME HostInv, NEW s \in Slot, NEW c \in HostCommand,
           commands' = [commands EXCEPT ![s] = c], tabs' = tabs,
           CommandOK(c), WarmOK(c, tabs[c.tab])
    PROVE  HostInv'
<1>1. HostTypeOK'
  BY DEF HostInv, HostTypeOK
<1>2. \A o \in Slot : commands'[o] # Idle =>
        CommandOK(commands'[o]) /\ WarmOK(commands'[o], tabs'[commands'[o].tab])
  <2> SUFFICES ASSUME NEW o \in Slot, commands'[o] # Idle
               PROVE  CommandOK(commands'[o])
                      /\ WarmOK(commands'[o], tabs'[commands'[o].tab])
    OBVIOUS
  <2>1. CASE o = s
    <3>1. commands'[o] = c
      BY <2>1 DEF HostInv, HostTypeOK
    <3> QED BY <3>1
  <2>2. CASE o # s
    <3>1. commands'[o] = commands[o]
      BY <2>2 DEF HostInv, HostTypeOK
    <3> QED BY <3>1 DEF HostInv
  <2> QED BY <2>1, <2>2
<1> QED BY <1>1, <1>2 DEF HostInv

\* A command that is under way is one, and on a tab.
LEMMA UnderWay ==
    ASSUME HostInv, NEW s \in Slot, commands[s] # Idle
    PROVE  /\ commands[s] \in HostCommand /\ commands[s].tab \in Tab
           /\ CommandOK(commands[s])
           /\ WarmOK(commands[s], tabs[commands[s].tab])
           /\ tabs[commands[s].tab] \in TabState \union {Gone}
<1>1. commands[s] \in HostCommand
  BY DEF HostInv, HostTypeOK
<1>2. commands[s].tab \in Tab
  BY <1>1 DEF HostCommand
<1> QED BY <1>1, <1>2 DEF HostInv, HostTypeOK

\* A step after which a command goes on without having changed anything.
LEMMA Continues ==
    ASSUME HostInv, NEW s \in Slot, commands[s] # Idle, NEW p \in Pc,
           Continue(s, p), tabs' = tabs,
           CommandOK([commands[s] EXCEPT !.pc = p]),
           WarmOK([commands[s] EXCEPT !.pc = p], tabs[commands[s].tab])
    PROVE  HostInv'
<1> DEFINE d == [commands[s] EXCEPT !.pc = p]
<1>1. d \in HostCommand /\ d.tab = commands[s].tab
  BY UnderWay, PcFields
<1>2. commands' = [commands EXCEPT ![s] = d]
  BY DEF Continue
<1> HIDE DEF d
<1> QED BY <1>1, <1>2, SlotStep DEF d

\* A step with which a command answers.
LEMMA AnswerKeepsHost ==
    ASSUME HostInv, NEW s \in Slot, commands[s] # Idle,
           NEW a \in {"ok", "tab-unavailable", "operation-failed",
                      "discard-unavailable", "window-unavailable",
                      "discard-refused", "projection-mismatch"},
           Answer(s, a), tabs' = tabs,
           a = "ok" => commands[s].pc = "window",
           a \in {"discard-refused", "projection-mismatch"} => ~commands[s].did
    PROVE  HostInv'
<1> DEFINE c == commands[s]
           d == AnsweredWith(c, a)
<1>1. /\ c \in HostCommand /\ CommandOK(c) /\ WarmOK(c, tabs[c.tab])
  BY UnderWay
<1>2. /\ d \in HostCommand /\ d.pc = "answered" /\ d.answer = a
      /\ d.type = c.type /\ d.tab = c.tab /\ d.projection = c.projection
      /\ d.effect = c.effect /\ d.protected = c.protected
      /\ d.did = c.did /\ d.touched = c.touched /\ d.sound = c.sound
  <2>1. c \in HostCommand
    BY <1>1
  <2> HIDE DEF c
  <2> QED BY <2>1, AnswerFields
<1>3. commands' = [commands EXCEPT ![s] = d]
  BY DEF Answer, AnsweredWith
<1> HIDE DEF d
<1>4. CommandOK(d)
  BY <1>1, <1>2 DEF CommandOK, Warms, Discards
<1>5. WarmOK(d, tabs[d.tab])
  BY <1>1, <1>2 DEF WarmOK, Warms
<1> QED BY <1>2, <1>3, <1>4, <1>5, SlotStep

\* A step with which a command changes its tab: whoever else works on that
\* tab is touched.
LEMMA Changes ==
    ASSUME HostInv, NEW s \in Slot, commands[s] # Idle, NEW p \in Pc,
           NEW value \in TabState, Change(s, value, p),
           CommandOK([commands[s] EXCEPT !.pc = p, !.did = TRUE]),
           WarmOK([commands[s] EXCEPT !.pc = p, !.did = TRUE], value)
    PROVE  HostInv'
<1> DEFINE c == commands[s]
           d == [c EXCEPT !.pc = p, !.did = TRUE]
           After(o) == IF o = s THEN d
                       ELSE IF commands[o] # Idle /\ commands[o].tab = c.tab
                            THEN [commands[o] EXCEPT !.touched = TRUE]
                            ELSE commands[o]
<1>1. c \in HostCommand /\ c.tab \in Tab
  BY UnderWay
<1>2. d \in HostCommand /\ d.tab = c.tab
  BY <1>1, ChangeFields
<1>3. /\ tabs' = [tabs EXCEPT ![c.tab] = value]
      /\ commands' = [o \in Slot |-> After(o)]
  BY DEF Change
<1>4. /\ tabs' \in [Tab -> TabState \union {Gone}] /\ tabs'[c.tab] = value
      /\ \A t \in Tab : t # c.tab => tabs'[t] = tabs[t]
  BY <1>1, <1>3 DEF HostInv, HostTypeOK
<1>5. CommandOK(d) /\ WarmOK(d, value)
  OBVIOUS
<1>6. \A o \in Slot : /\ commands'[o] = After(o)
                      /\ After(o) \in HostCommand \union {Idle}
                      /\ After(o) # Idle =>
                            CommandOK(After(o)) /\ WarmOK(After(o), tabs'[After(o).tab])
  <2> SUFFICES ASSUME NEW o \in Slot
               PROVE  /\ commands'[o] = After(o)
                      /\ After(o) \in HostCommand \union {Idle}
                      /\ After(o) # Idle =>
                            CommandOK(After(o)) /\ WarmOK(After(o), tabs'[After(o).tab])
    OBVIOUS
  <2>1. commands'[o] = After(o)
    <3> HIDE DEF After
    <3> QED BY <1>3
  <2>2. CASE o = s
    <3>1. After(o) = d
      BY <2>2
    <3> HIDE DEF After, d
    <3> QED BY <1>2, <1>4, <1>5, <2>1, <3>1
  <2>3. CASE o # s /\ commands[o] = Idle
    BY <2>1, <2>3
  <2>4. CASE o # s /\ commands[o] # Idle /\ commands[o].tab = c.tab
    <3> DEFINE e == [commands[o] EXCEPT !.touched = TRUE]
    <3>1. After(o) = e
      BY <2>4
    <3>2. /\ e \in HostCommand /\ CommandOK(e) /\ WarmOK(e, value)
          /\ e.tab = c.tab
      BY <2>4, UnderWay, TouchedIsOK
    <3> HIDE DEF After, e
    <3> QED BY <1>4, <2>1, <3>1, <3>2
  <2>5. CASE o # s /\ commands[o] # Idle /\ commands[o].tab # c.tab
    <3>1. After(o) = commands[o]
      BY <2>5
    <3>2. /\ commands[o] \in HostCommand /\ commands[o].tab \in Tab
          /\ CommandOK(commands[o])
          /\ WarmOK(commands[o], tabs[commands[o].tab])
      BY <2>5, UnderWay
    <3> HIDE DEF After, c
    <3> QED BY <1>4, <2>1, <2>5, <3>1, <3>2
  <2> QED BY <2>2, <2>3, <2>4, <2>5
<1>7. commands' \in [Slot -> HostCommand \union {Idle}]
  <2> HIDE DEF After
  <2> QED BY <1>3, <1>6
<1> HIDE DEF After
<1> QED BY <1>4, <1>6, <1>7 DEF HostInv, HostTypeOK

-----------------------------------------------------------------------------
(* Every step keeps the invariant                                          *)

\* At the start no command runs.
LEMMA HostInitially == HostInit => HostInv
  BY DEF HostInit, HostInv, HostTypeOK, TabState

\* A rejected call, whatever it was, changes nothing and is no success.
LEMMA RejectedKeeps ==
    ASSUME HostInv, NEW s \in Slot, Rejected(s)
    PROVE  HostInv'
<1>1. commands[s] # Idle /\ tabs' = tabs
  BY DEF Rejected
<1>2. PICK a \in {"tab-unavailable", "operation-failed", "discard-unavailable",
                  "window-unavailable"} : Answer(s, a)
  BY DEF Rejected
<1> QED BY <1>1, <1>2, AnswerKeepsHost

\* An effect request reads its tab, and is compared with it.
LEMMA RequestKeeps ==
    ASSUME HostInv, NEW s \in Slot, ReadRequestedTab(s) \/ MatchRequest(s)
    PROVE  HostInv'
<1> DEFINE c == commands[s]
<1>1. c # Idle /\ tabs' = tabs
  BY DEF ReadRequestedTab, MatchRequest, At
<1>2. c \in HostCommand /\ CommandOK(c) /\ WarmOK(c, tabs[c.tab])
  BY <1>1, UnderWay
<1>3. CASE ReadRequestedTab(s)
  <2> DEFINE d == [c EXCEPT !.pc = "request-window"]
  <2>1. c.pc = "request" /\ Continue(s, "request-window") /\ "request-window" \in Pc
    BY <1>3 DEF ReadRequestedTab, At, Pc
  <2>2. /\ d \in HostCommand /\ d.pc = "request-window"
        /\ d.type = c.type /\ d.tab = c.tab /\ d.projection = c.projection
        /\ d.effect = c.effect /\ d.protected = c.protected
        /\ d.answer = c.answer /\ d.did = c.did /\ d.touched = c.touched
        /\ d.sound = c.sound
    BY <1>2, <2>1, PcFields
  <2> HIDE DEF c, d
  <2>3. CommandOK(d) /\ WarmOK(d, tabs[c.tab])
    BY <1>2, <2>1, <2>2 DEF CommandOK, WarmOK, Warms, Discards
  <2> QED BY <1>1, <2>1, <2>3, Continues DEF c, d
<1>4. CASE MatchRequest(s) /\ c.projection = c.tab
  <2> DEFINE d == [c EXCEPT !.pc = "get"]
  <2>1. c.pc = "request-window" /\ Continue(s, "get") /\ "get" \in Pc
    BY <1>4 DEF MatchRequest, At, Pc
  <2>2. /\ d \in HostCommand /\ d.pc = "get"
        /\ d.type = c.type /\ d.tab = c.tab /\ d.projection = c.projection
        /\ d.effect = c.effect /\ d.protected = c.protected
        /\ d.answer = c.answer /\ d.did = c.did /\ d.touched = c.touched
        /\ d.sound = c.sound
    BY <1>2, <2>1, PcFields
  <2> HIDE DEF c, d
  <2>3. CommandOK(d) /\ WarmOK(d, tabs[c.tab])
    BY <1>2, <1>4, <2>1, <2>2 DEF CommandOK, WarmOK, Warms, Discards
  <2> QED BY <1>1, <2>1, <2>3, Continues DEF c, d
<1>5. CASE MatchRequest(s) /\ c.projection # c.tab
  <2>1. c.pc = "request-window" /\ Answer(s, "projection-mismatch")
    BY <1>5 DEF MatchRequest, At
  <2>2. ~c.did
    BY <1>2, <2>1 DEF CommandOK
  <2> QED BY <1>1, <2>1, <2>2, AnswerKeepsHost
<1> QED BY <1>3, <1>4, <1>5

\* The fresh reading decides what the command does next.
LEMMA GetTabKeeps ==
    ASSUME HostInv, NEW s \in Slot, GetTab(s)
    PROVE  HostInv'
<1> DEFINE c == commands[s]
           tab == tabs[c.tab]
<1>1. c # Idle /\ c.pc = "get" /\ c.tab \in Open /\ tabs' = tabs
  BY DEF GetTab, At
<1>2. c \in HostCommand /\ CommandOK(c) /\ WarmOK(c, tab)
  BY <1>1, UnderWay
<1>3. ~c.did /\ c.projection = c.tab /\ tab # Gone
  BY <1>1, <1>2 DEF CommandOK, Open
<1>4. CASE Answer(s, "discard-refused")
  BY <1>1, <1>3, <1>4, AnswerKeepsHost
<1>5. ASSUME NEW p \in {"discard", "protect", "reload", "window", "activate"},
             Continue(s, p),
             p = "discard" => Discards(c),
             p \in {"protect", "reload", "activate"} => ~Discards(c),
             Warms(c) => \/ p = "protect"
                         \/ p = WarmNext(tab) /\ ~tab.auto,
             p = "window" => ~Discards(c)
      PROVE  HostInv'
  <2> DEFINE d == [c EXCEPT !.pc = p]
  <2>1. p \in Pc
    BY DEF Pc
  <2>2. /\ d \in HostCommand /\ d.pc = p
        /\ d.type = c.type /\ d.tab = c.tab /\ d.projection = c.projection
        /\ d.effect = c.effect /\ d.protected = c.protected
        /\ d.answer = c.answer /\ d.did = c.did /\ d.touched = c.touched
        /\ d.sound = c.sound
    BY <1>2, <2>1, PcFields
  <2>3. Warms(d) = Warms(c) /\ Discards(d) = Discards(c)
    <3> HIDE DEF c, d
    <3> QED BY <2>2 DEF Warms, Discards
  <2>4. Warms(c) => p \in {"protect", "reload", "window"}
    BY <1>5 DEF WarmNext
  <2> HIDE DEF c, d, tab
  <2>5. CommandOK(d)
    BY <1>1, <1>2, <1>3, <1>5, <2>2, <2>3, <2>4 DEF CommandOK
  <2>6. WarmOK(d, tab)
    BY <1>3, <1>5, <2>2, <2>3 DEF WarmOK, WarmNext
  <2> QED BY <1>1, <1>5, <2>1, <2>5, <2>6, Continues DEF c, d, tab
<1>6. /\ Warms(c) => ~Discards(c)
      /\ Warms(c) \/ Discards(c) => c.type \notin {"wake", "set-protection"}
  BY <1>2 DEF CommandOK, Warms, Discards, HostCommand
<1>7. CASE Discards(c) /\ ManualDiscardEligible(tab)
  <2>1. Continue(s, "discard")
    BY <1>6, <1>7 DEF GetTab
  <2> QED BY <1>5, <1>6, <1>7, <2>1
<1>8. CASE Discards(c) /\ ~ManualDiscardEligible(tab)
  BY <1>4, <1>8 DEF GetTab
<1>9. CASE ~Discards(c) /\ Warms(c)
  <2> DEFINE p == IF tab.auto THEN "protect" ELSE WarmNext(tab)
  <2>1. Continue(s, p)
    BY <1>6, <1>9 DEF GetTab
  <2>2. /\ p \in {"protect", "reload", "window"}
        /\ p = "protect" \/ (p = WarmNext(tab) /\ ~tab.auto)
    BY DEF WarmNext
  <2> HIDE DEF p
  <2> QED BY <1>5, <1>9, <2>1, <2>2
<1>10. CASE ~Discards(c) /\ ~Warms(c)
  <2>1. c.type \in {"wake", "set-protection"}
    BY <1>2, <1>10 DEF HostCommand, CommandOK, Discards, Warms
  <2>2. \E p \in {"activate", "protect"} : Continue(s, p)
    BY <1>10, <2>1 DEF GetTab
  <2> QED BY <1>5, <1>10, <2>2
<1> QED BY <1>7, <1>8, <1>9, <1>10

\* The calls that change the tab.
LEMMA ChangingKeeps ==
    ASSUME HostInv, NEW s \in Slot,
           \/ DiscardTab(s) \/ Protect(s) \/ Reload(s) \/ Activate(s) \/ Focus(s)
    PROVE  HostInv'
<1> DEFINE c == commands[s]
           tab == tabs[c.tab]
<1>1. c # Idle /\ c.tab \in Open
  BY DEF DiscardTab, Protect, Reload, Activate, Focus, At
<1>2. /\ c \in HostCommand /\ CommandOK(c) /\ WarmOK(c, tab)
      /\ tab \in TabState /\ c.tab \in Tab
  BY <1>1, UnderWay DEF Open
<1>3. c.protected \in BOOLEAN
  BY <1>2 DEF HostCommand
<1>4. ASSUME NEW p \in Pc, NEW value \in TabState, Change(s, value, p),
             p \notin {"request", "request-window", "get", "discard", "protect",
                       "answered"},
             Warms(c) => p \in {"reload", "refetch", "window"},
             Discards(c) => p = "window",
             Warms(c) /\ ~c.touched =>
                ~value.auto /\ (p = "reload" \/ value.residency # "discarded")
      PROVE  HostInv'
  <2> DEFINE d == [c EXCEPT !.pc = p, !.did = TRUE]
  <2>1. /\ d \in HostCommand /\ d.pc = p /\ d.did
        /\ d.type = c.type /\ d.tab = c.tab /\ d.projection = c.projection
        /\ d.effect = c.effect /\ d.protected = c.protected
        /\ d.answer = c.answer /\ d.touched = c.touched
        /\ d.sound = c.sound
    BY <1>2, ChangeFields
  <2> HIDE DEF c, d
  <2>2. Warms(d) = Warms(c) /\ Discards(d) = Discards(c)
    BY <2>1 DEF Warms, Discards
  <2>3. CommandOK(d)
    BY <1>2, <1>4, <2>1, <2>2 DEF CommandOK
  <2>4. value # Gone
    BY HostAssumption
  <2>5. WarmOK(d, value)
    BY <1>4, <2>1, <2>2, <2>4 DEF WarmOK
  <2> QED BY <1>1, <1>4, <2>3, <2>5, Changes DEF c, d
<1> USE DEF Pc
<1>5. CASE DiscardTab(s)
  <2>1. c.pc = "discard"
    BY <1>5 DEF DiscardTab, At
  <2>2. ~Warms(c)
    BY <1>2, <2>1 DEF CommandOK
  <2>3. [tab EXCEPT !.residency = "discarded"] \in TabState
    BY <1>2 DEF TabState
  <2>4. Change(s, [tab EXCEPT !.residency = "discarded"], "window")
    BY <1>5 DEF DiscardTab
  <2> HIDE DEF c, tab
  <2> QED BY <1>4, <2>2, <2>3, <2>4
<1>6. CASE Protect(s)
  <2> DEFINE value == [tab EXCEPT !.auto = ~c.protected]
             p == IF Warms(c) THEN WarmNext(tab) ELSE "window"
  <2>1. Change(s, value, p) /\ c.pc = "protect"
    BY <1>6 DEF Protect, At
  <2>2. /\ value \in TabState /\ value.auto = ~c.protected
        /\ value.residency = tab.residency
    BY <1>2, <1>3 DEF TabState
  <2>3. /\ p \in {"reload", "window"} /\ (Discards(c) => p = "window")
        /\ Warms(c) /\ p # "reload" => tab.residency # "discarded"
        /\ Warms(c) => c.protected
    BY <1>2, <2>1 DEF WarmNext, CommandOK
  <2> HIDE DEF value, p, c, tab
  <2> QED BY <1>4, <2>1, <2>2, <2>3
<1>7. CASE Reload(s)
  <2> DEFINE value == [tab EXCEPT !.residency = "loading"]
  <2>1. Change(s, value, "refetch") /\ c.pc = "reload"
    BY <1>7 DEF Reload, At
  <2>2. /\ value \in TabState /\ value.auto = tab.auto
        /\ value.residency = "loading"
    BY <1>2 DEF TabState
  <2>3. ~Discards(c) /\ (Warms(c) /\ ~c.touched => ~tab.auto)
    BY <1>2, <2>1 DEF CommandOK, WarmOK
  <2> HIDE DEF value, c, tab
  <2> QED BY <1>4, <2>1, <2>2, <2>3
<1>8. CASE Activate(s)
  <2> DEFINE value == [tab EXCEPT !.place = "active", !.residency = Woken(tab)]
  <2>1. Change(s, value, "focus") /\ c.pc = "activate"
    BY <1>8 DEF Activate, At
  <2>2. value \in TabState
    BY <1>2 DEF TabState, Woken
  <2>3. ~Discards(c) /\ ~Warms(c)
    BY <1>2, <2>1 DEF CommandOK
  <2> HIDE DEF value, c, tab
  <2> QED BY <1>4, <2>1, <2>2, <2>3
<1>9. CASE Focus(s)
  <2> DEFINE value == [tab EXCEPT !.place =
                            IF @ = "active" THEN "foreground" ELSE @]
  <2>1. Change(s, value, "window") /\ c.pc = "focus"
    BY <1>9 DEF Focus, At
  <2>2. value \in TabState
    BY <1>2 DEF TabState
  <2>3. ~Discards(c) /\ ~Warms(c)
    BY <1>2, <2>1 DEF CommandOK
  <2> HIDE DEF value, c, tab
  <2> QED BY <1>4, <2>1, <2>2, <2>3
<1> QED BY <1>5, <1>6, <1>7, <1>8, <1>9

\* The calls after which a command reports what it has done.
LEMMA ReportingKeeps ==
    ASSUME HostInv, NEW s \in Slot, Refetch(s) \/ ProjectResult(s)
    PROVE  HostInv'
<1> DEFINE c == commands[s]
<1>1. c # Idle /\ tabs' = tabs
  BY DEF Refetch, ProjectResult, At
<1>2. /\ c \in HostCommand /\ CommandOK(c) /\ WarmOK(c, tabs[c.tab])
  BY <1>1, UnderWay
<1>3. CASE Refetch(s)
  <2> DEFINE d == [c EXCEPT !.pc = "window"]
  <2>1. c.pc = "refetch" /\ Continue(s, "window") /\ "window" \in Pc
    BY <1>3 DEF Refetch, At, Pc
  <2>2. /\ d \in HostCommand /\ d.pc = "window"
        /\ d.type = c.type /\ d.tab = c.tab /\ d.projection = c.projection
        /\ d.effect = c.effect /\ d.protected = c.protected
        /\ d.answer = c.answer /\ d.did = c.did /\ d.touched = c.touched
        /\ d.sound = c.sound
    BY <1>2, <2>1, PcFields
  <2> HIDE DEF c, d
  <2>3. CommandOK(d) /\ WarmOK(d, tabs[c.tab])
    BY <1>2, <2>1, <2>2 DEF CommandOK, WarmOK, Warms, Discards
  <2> QED BY <1>1, <2>1, <2>3, Continues DEF c, d
<1>4. CASE ProjectResult(s)
  BY <1>1, <1>4, AnswerKeepsHost DEF ProjectResult, At
<1> QED BY <1>3, <1>4

\* A slot takes a new command.
LEMMA ReceiveKeeps ==
    ASSUME HostInv, NEW s \in Slot, NEW c \in HostCommand, Receive(s, c),
           CommandOK(c), c.pc \in {"request", "get"}
    PROVE  HostInv'
<1>1. commands' = [commands EXCEPT ![s] = c] /\ tabs' = tabs
  BY DEF Receive
<1>2. WarmOK(c, tabs[c.tab])
  BY DEF WarmOK
<1> QED BY <1>1, <1>2, SlotStep

\* Commands of the popup, and requests that were planned or name a foreign
\* projection.
LEMMA CommandedKeeps ==
    ASSUME HostInv, NEW s \in Slot, Commanded(s)
    PROVE  HostInv'
<1>1. CASE Finish(s)
  <2>1. HostTypeOK'
    BY <1>1 DEF HostInv, HostTypeOK, Finish
  <2>2. \A o \in Slot : commands'[o] # Idle => commands'[o] = commands[o]
    BY <1>1 DEF HostInv, HostTypeOK, Finish
  <2>3. tabs' = tabs
    BY <1>1 DEF Finish
  <2> QED BY <2>1, <2>2, <2>3 DEF HostInv
<1>2. ASSUME NEW t \in Tab, Press(s, t)
      PROVE  HostInv'
  <2>1. PICK type \in {"keep-warm", "set-protection", "wake", "discard"} :
            Receive(s, Command(type, t))
    BY <1>2 DEF Press
  <2> DEFINE c == Command(type, t)
  <2>2. c \in HostCommand /\ c.pc = "get"
    BY DEF Command, HostCommand, Pc
  <2>3. CommandOK(c)
    BY DEF Command, CommandOK, Warms, Discards
  <2> HIDE DEF c
  <2> QED BY <2>1, <2>2, <2>3, ReceiveKeeps DEF c
<1>3. ASSUME NEW t \in Tab, NEW p \in Tab \union {ForeignProjection},
             NEW effect \in {"keep_warm", "discard"}, NEW sound \in BOOLEAN,
             Receive(s, EffectCommand(t, p, effect, sound)),
             effect = "discard" /\ p # ForeignProjection => sound
      PROVE  HostInv'
  <2> DEFINE c == EffectCommand(t, p, effect, sound)
  <2>1. /\ c \in HostCommand /\ c.pc = "request" /\ c.type = "apply-effect"
        /\ c.effect = effect /\ c.protected /\ ~c.did /\ c.projection = p
        /\ c.sound = sound
    BY DEF EffectCommand, Command, HostCommand, Pc
  <2> HIDE DEF c
  <2>2. CommandOK(c)
    BY <1>3, <2>1 DEF CommandOK, Warms, Discards
  <2> QED BY <1>3, <2>1, <2>2, ReceiveKeeps DEF c
<1>4. ASSUME NEW t \in Tab, RequestEffect(s, t)
      PROVE  HostInv'
  <2>1. PICK plan \in PlannedRequests :
            /\ plan.effect \in {"keep_warm", "discard"}
            /\ Receive(s, EffectCommand(t, t, plan.effect, plan.sound))
    BY <1>4 DEF RequestEffect
  <2>2. plan.sound \in BOOLEAN
    <3>1. PICK p, d, b, r, a : plan.sound = PlanIsSound(d, b, p, r, a)
      BY DEF PlannedRequests
    <3> QED BY <3>1 DEF PlanIsSound
  <2>3. plan.effect = "discard" => plan.sound
    BY PlannedDiscardIsSound
  <2> QED BY <1>3, <2>1, <2>2, <2>3
<1>5. ASSUME NEW t \in Tab, NEW effect \in {"keep_warm", "discard"},
             RequestMismatched(s, t, effect)
      PROVE  HostInv'
  BY <1>3, <1>5 DEF RequestMismatched
<1> QED BY <1>1, <1>2, <1>4, <1>5 DEF Commanded

\* The user, the browser and a reading: the commands under way stay, and no
\* tab that a keep-warm has protected is discarded.
LEMMA TabsKeep ==
    ASSUME HostInv, commands' = commands,
           NEW t \in Tab, t \in Open, NEW value \in TabState,
           tabs' = [tabs EXCEPT ![t] = value], value.auto = tabs[t].auto,
           ~value.auto /\ value.residency = "discarded"
                => tabs[t].residency = "discarded"
    PROVE  HostInv'
<1>1. tabs[t] # Gone /\ value # Gone
  BY HostAssumption DEF Open
<1>2. HostTypeOK'
  BY DEF HostInv, HostTypeOK
<1>3. /\ tabs'[t] = value
      /\ \A u \in Tab : u # t => tabs'[u] = tabs[u]
  BY DEF HostInv, HostTypeOK
<1>4. \A s \in Slot : commands[s] # Idle =>
        CommandOK(commands[s]) /\ WarmOK(commands[s], tabs'[commands[s].tab])
  <2> SUFFICES ASSUME NEW s \in Slot, commands[s] # Idle
               PROVE  CommandOK(commands[s])
                      /\ WarmOK(commands[s], tabs'[commands[s].tab])
    OBVIOUS
  <2>1. /\ commands[s].tab \in Tab /\ CommandOK(commands[s])
        /\ WarmOK(commands[s], tabs[commands[s].tab])
    BY UnderWay
  <2>2. CASE commands[s].tab = t
    BY <1>1, <1>3, <2>1, <2>2 DEF WarmOK
  <2>3. CASE commands[s].tab # t
    BY <1>3, <2>1, <2>3
  <2> QED BY <2>1, <2>2, <2>3
<1> QED BY <1>2, <1>4 DEF HostInv

\* What the user does to a tab takes away neither protection nor a sound plan.
LEMMA UserStepKeeps ==
    ASSUME HostInv, NEW t \in Tab, UserStep(t)
    PROVE  HostInv'
<1>1. t \in Open /\ commands' = commands /\ tabs[t] \in TabState
  BY DEF UserStep, HostInv, HostTypeOK, Open
<1>2. Woken(tabs[t]) \in {"loaded", "loading"}
  BY <1>1 DEF Woken, TabState
<1>3. CASE \E place \in {"hidden", "active", "foreground"} :
            tabs' = [tabs EXCEPT ![t].place = place,
                        ![t].residency = IF place = "hidden" THEN @
                                                             ELSE Woken(tabs[t])]
  <2>1. PICK place \in {"hidden", "active", "foreground"} :
            tabs' = [tabs EXCEPT ![t].place = place,
                        ![t].residency = IF place = "hidden" THEN @
                                                             ELSE Woken(tabs[t])]
    BY <1>3
  <2> DEFINE value == [tabs[t] EXCEPT !.place = place,
                        !.residency = IF place = "hidden" THEN @
                                                          ELSE Woken(tabs[t])]
  <2>2. tabs' = [tabs EXCEPT ![t] = value]
    BY <2>1 DEF HostInv, HostTypeOK
  <2>3. /\ value \in TabState /\ value.auto = tabs[t].auto
        /\ value.residency = "discarded" => tabs[t].residency = "discarded"
    BY <1>1, <1>2 DEF TabState
  <2> HIDE DEF value
  <2> QED BY <1>1, <2>2, <2>3, TabsKeep
<1>4. CASE \E hold \in Hold : tabs' = [tabs EXCEPT ![t].hold = hold]
  <2>1. PICK hold \in Hold : tabs' = [tabs EXCEPT ![t].hold = hold]
    BY <1>4
  <2> DEFINE value == [tabs[t] EXCEPT !.hold = hold]
  <2>2. tabs' = [tabs EXCEPT ![t] = value]
    BY <2>1
  <2>3. hold \in {"none", "pinned", "audible", "unknown"}
    BY HostAssumption
  <2>4. /\ value \in TabState /\ value.auto = tabs[t].auto
        /\ value.residency = tabs[t].residency
    BY <1>1, <2>3 DEF TabState
  <2> HIDE DEF value
  <2> QED BY <1>1, <2>2, <2>4, TabsKeep
<1> QED BY <1>3, <1>4 DEF UserStep

\* What the browser does of its own account breaks nothing.
LEMMA BrowserStepKeeps ==
    ASSUME HostInv, NEW t \in Tab, BrowserStep(t)
    PROVE  HostInv'
<1>1. t \in Open /\ commands' = commands /\ tabs[t] \in TabState
  BY DEF BrowserStep, HostInv, HostTypeOK, Open
<1>2. PICK r \in {"loaded", "frozen", "discarded"} :
            /\ tabs' = [tabs EXCEPT ![t].residency = r]
            /\ r = "discarded" => tabs[t].auto
  BY DEF BrowserStep
<1> DEFINE value == [tabs[t] EXCEPT !.residency = r]
<1>3. tabs' = [tabs EXCEPT ![t] = value]
  BY <1>2
<1>4. /\ value \in TabState /\ value.auto = tabs[t].auto
      /\ value.residency = r
  BY <1>1 DEF TabState
<1> HIDE DEF value
<1> QED BY <1>1, <1>2, <1>3, <1>4, TabsKeep

\* Closing a tab breaks nothing.
LEMMA CloseTabKeeps ==
    ASSUME HostInv, NEW t \in Tab, CloseTab(t)
    PROVE  HostInv'
<1> DEFINE After(o) == IF commands[o] # Idle /\ commands[o].tab = t
                       THEN [commands[o] EXCEPT !.touched = TRUE]
                       ELSE commands[o]
<1>1. /\ tabs' = [tabs EXCEPT ![t] = Gone]
      /\ commands' = [o \in Slot |-> After(o)]
  BY DEF CloseTab
<1>2. /\ tabs' \in [Tab -> TabState \union {Gone}]
      /\ \A u \in Tab : u # t => tabs'[u] = tabs[u]
  BY <1>1 DEF HostInv, HostTypeOK
<1>3. \A o \in Slot : /\ commands'[o] = After(o)
                      /\ After(o) \in HostCommand \union {Idle}
                      /\ After(o) # Idle =>
                            CommandOK(After(o)) /\ WarmOK(After(o), tabs'[After(o).tab])
  <2> SUFFICES ASSUME NEW o \in Slot
               PROVE  /\ commands'[o] = After(o)
                      /\ After(o) \in HostCommand \union {Idle}
                      /\ After(o) # Idle =>
                            CommandOK(After(o)) /\ WarmOK(After(o), tabs'[After(o).tab])
    OBVIOUS
  <2>1. commands'[o] = After(o)
    <3> HIDE DEF After
    <3> QED BY <1>1
  <2>2. CASE commands[o] = Idle
    BY <2>1, <2>2
  <2>3. CASE commands[o] # Idle /\ commands[o].tab = t
    <3> DEFINE e == [commands[o] EXCEPT !.touched = TRUE]
    <3>1. After(o) = e
      BY <2>3
    <3>2. /\ e \in HostCommand /\ CommandOK(e) /\ WarmOK(e, tabs'[e.tab])
      BY <2>3, UnderWay, TouchedIsOK
    <3> HIDE DEF After, e
    <3> QED BY <2>1, <3>1, <3>2
  <2>4. CASE commands[o] # Idle /\ commands[o].tab # t
    <3>1. After(o) = commands[o]
      BY <2>4
    <3>2. /\ commands[o] \in HostCommand /\ commands[o].tab \in Tab
          /\ CommandOK(commands[o])
          /\ WarmOK(commands[o], tabs[commands[o].tab])
      BY <2>4, UnderWay
    <3> HIDE DEF After
    <3> QED BY <1>2, <2>1, <2>4, <3>1, <3>2
  <2> QED BY <2>2, <2>3, <2>4
<1>4. commands' \in [Slot -> HostCommand \union {Idle}]
  <2> HIDE DEF After
  <2> QED BY <1>1, <1>3
<1> HIDE DEF After
<1> QED BY <1>2, <1>3, <1>4 DEF HostInv, HostTypeOK

\* Every step of a command, the user and the browser keeps the invariant.
LEMMA HostStepKeeps == HostInv /\ [HostNext]_hostVars => HostInv'
<1> SUFFICES ASSUME HostInv, [HostNext]_hostVars PROVE HostInv'
  OBVIOUS
<1>1. ASSUME NEW s \in Slot, HostStep(s) PROVE HostInv'
  BY <1>1, RejectedKeeps, RequestKeeps, GetTabKeeps, ChangingKeeps, ReportingKeeps
     DEF HostStep
<1>2. CASE ListProjections
  BY <1>2 DEF ListProjections, HostInv, HostTypeOK
<1>3. CASE UNCHANGED hostVars
  BY <1>3 DEF hostVars, HostInv, HostTypeOK
<1> QED BY <1>1, <1>2, <1>3, CommandedKeeps, UserStepKeeps, BrowserStepKeeps,
           CloseTabKeeps DEF HostNext

\* In every behaviour what a command has read still says enough.
LEMMA HostInvHolds == HostSpec => []HostInv
BY HostInitially, HostStepKeeps, PTL DEF HostSpec

-----------------------------------------------------------------------------
(* Theorems                                                                *)

\* What a receipt says is what the browser did for the request, however
\* commands, the user and the browser interleave and whatever is rejected.
THEOREM ReceiptsAreTrue == HostSpec => []ReceiptTruth
<1>1. HostInv => ReceiptTruth
  <2> SUFFICES ASSUME HostInv PROVE ReceiptTruth
    OBVIOUS
  <2> SUFFICES ASSUME NEW s \in Slot, At(s, "answered"),
                      commands[s].type = "apply-effect"
               PROVE  LET c == commands[s]
                      IN /\ Outcome(c.answer) = "applied" /\ c.effect = "discard"
                                => c.did
                         /\ Outcome(c.answer) \in {"refused", "stale_projection"}
                                => ~c.did
    BY DEF ReceiptTruth
  <2>1. commands[s] \in HostCommand /\ CommandOK(commands[s])
    BY UnderWay DEF At
  <2> QED BY <2>1 DEF At, CommandOK, Outcome, Discards
<1> QED BY <1>1, HostInvHolds, PTL

\* A keep-warm that succeeds undisturbed leaves its tab protected and not
\* discarded, whatever Chrome did between its reading and its update.
THEOREM WarmStaysWarm == HostSpec => []KeptWarm
<1>1. HostInv => KeptWarm
  BY DEF HostInv, KeptWarm, WarmOK, At
<1> QED BY <1>1, HostInvHolds, PTL

\* A planned effect discards a tab only if its plan was sound and made for
\* that very tab.
THEOREM DiscardWasAllowed == HostSpec => PlannedDiscardAllowed
<1>1. HostInv =>
        \A s \in Slot :
            /\ At(s, "discard") /\ commands[s].type = "apply-effect"
            /\ commands'[s].did
            => commands[s].sound /\ commands[s].projection = commands[s].tab
  <2> SUFFICES ASSUME HostInv, NEW s \in Slot, At(s, "discard"),
                      commands[s].type = "apply-effect"
               PROVE  commands[s].sound /\ commands[s].projection = commands[s].tab
    OBVIOUS
  <2>1. /\ commands[s] \in HostCommand /\ CommandOK(commands[s])
        /\ commands[s].tab \in Tab
    BY UnderWay DEF At
  <2> QED BY <2>1, HostAssumption DEF At, CommandOK, Discards
<1>2. HostInv /\ [HostNext]_hostVars =>
        [\A s \in Slot :
            /\ At(s, "discard") /\ commands[s].type = "apply-effect"
            /\ commands'[s].did
            => /\ commands[s].sound
               /\ commands[s].projection = commands[s].tab]_hostVars
  BY <1>1
<1> QED BY <1>2, HostInvHolds, PTL DEF HostSpec, PlannedDiscardAllowed

-----------------------------------------------------------------------------
(* RepresentationCheck                                                     *)

-----------------------------------------------------------------------------
(* What is reached from the roots                                          *)

\* One step of the recursion of Reached.
StepBody(from, g, k) ==
    IF k = 0 THEN from
    ELSE g[k - 1] \union UNION {childrenOf[e] : e \in g[k - 1]}

\* That recursion, as a function of the number of steps.
Steps(from, n) == CHOOSE g : g = [k \in 0..n |-> StepBody(from, g, k)]

\* That recursion has a solution.
LEMMA StepsExist ==
    ASSUME NEW from, NEW n \in Nat
    PROVE  \A k \in 0..n : Steps(from, n)[k] = StepBody(from, Steps(from, n), k)
<1> DEFINE D == 0..n
           Solved(g, m) ==
              /\ g = [k \in D |-> g[k]]
              /\ \A k \in D : k <= m => g[k] = StepBody(from, g, k)
           Bad == {m \in Nat : \A g : ~Solved(g, m)}
<1>1. Bad = {}
  <2> SUFFICES ASSUME Bad # {} PROVE FALSE
    OBVIOUS
  <2>1. PICK m \in Bad : \A l \in Bad : m <= l
    <3>1. Bad \in SUBSET Nat
      OBVIOUS
    <3> HIDE DEF Bad
    <3> QED BY <3>1, LeastNumber
  <2>2. m \in Nat /\ \A g : ~Solved(g, m)
    OBVIOUS
  <2>3. CASE m = 0
    <3> DEFINE z == [k \in D |-> from]
    <3>1. Solved(z, 0)
      BY DEF StepBody
    <3> QED BY <2>2, <2>3, <3>1
  <2>4. CASE m # 0
    <3>1. m - 1 \in Nat /\ m - 1 \notin Bad
      <4> HIDE DEF Bad
      <4> QED BY <2>1, <2>2, <2>4
    <3>2. PICK g : Solved(g, m - 1)
      BY <3>1
    <3> DEFINE h == [k \in D |-> StepBody(from, g, k)]
    <3>3. \A k \in D : k <= m => StepBody(from, g, k) = StepBody(from, h, k)
      <4> SUFFICES ASSUME NEW k \in D, k <= m
                   PROVE  StepBody(from, g, k) = StepBody(from, h, k)
        OBVIOUS
      <4>1. CASE k = 0
        BY <4>1 DEF StepBody
      <4>2. CASE k # 0
        <5>1. k - 1 \in D /\ k - 1 <= m - 1
          BY <2>2, <4>2
        <5>2. g[k - 1] = StepBody(from, g, k - 1)
          BY <3>2, <5>1
        <5>3. h[k - 1] = g[k - 1]
          <6> HIDE DEF D
          <6> QED BY <5>1, <5>2
        <5> HIDE DEF h
        <5> QED BY <5>3 DEF StepBody
      <4> QED BY <4>1, <4>2
    <3>4. Solved(h, m)
      <4>1. \A k \in D : h[k] = StepBody(from, g, k)
        OBVIOUS
      <4>2. h = [k \in D |-> h[k]]
        OBVIOUS
      <4> HIDE DEF h
      <4> QED BY <3>3, <4>1, <4>2
    <3> QED BY <2>2, <3>4
  <2> QED BY <2>3, <2>4
<1>2. PICK g : Solved(g, n)
  <2>1. n \notin Bad
    <3> HIDE DEF Bad
    <3> QED BY <1>1
  <2> HIDE DEF Solved
  <2> QED BY <2>1
<1>3. \A k \in D : g[k] = StepBody(from, g, k)
  BY <1>2
<1>4. g = [k \in D |-> StepBody(from, g, k)]
  BY <1>2, <1>3
<1>5. PICK h : h = Steps(from, n) /\ h = [k \in D |-> StepBody(from, h, k)]
  BY <1>4 DEF Steps
<1>6. \A k \in D : h[k] = StepBody(from, h, k)
  BY <1>5
<1> QED BY <1>5, <1>6

\* Among any entries there is one whose parent is not among them.
WellFounded(entries) ==
    \A S \in SUBSET entries : S # {} => \E e \in S : parentOf[e] \notin S

\* Where the links agree and no chain of parents is circular, every entry is
\* reached from the roots: a step that reaches no new entry has reached all.
LEMMA RootsReachAll ==
    ASSUME LinksAgree, WellFounded(EntryId), childrenOf \in [EntryId -> SUBSET EntryId]
    PROVE  Reached(Parentless, Cardinality(EntryId)) = EntryId
<1> DEFINE n == Cardinality(EntryId)
           K == Steps(Parentless, n)
           P(k) == /\ K[k] \subseteq EntryId /\ Parentless \subseteq K[k]
                   /\ K[k] = EntryId \/ Cardinality(K[k]) >= k
           Bad == {k \in 0..n : ~P(k)}
<1>0. n \in Nat /\ IsFiniteSet(EntryId)
  BY RepresentationAssumption, FS_CardinalityType
<1> HIDE DEF n
<1>1. \A k \in 0..n : K[k] = StepBody(Parentless, K, k)
  BY <1>0, StepsExist
<1>2. Parentless \subseteq EntryId
  BY DEF Parentless
<1> HIDE DEF K
<1>3. Bad = {}
  <2> SUFFICES ASSUME Bad # {} PROVE FALSE
    OBVIOUS
  <2>1. PICK k \in Bad : \A m \in Bad : k <= m
    <3>1. Bad \in SUBSET Nat
      BY <1>0
    <3> HIDE DEF Bad
    <3> QED BY <3>1, LeastNumber
  <2>2. k \in 0..n /\ ~P(k)
    OBVIOUS
  <2>3. CASE k = 0
    <3>1. K[0] = Parentless
      <4>1. 0 \in 0..n
        BY <1>0
      <4>2. K[0] = StepBody(Parentless, K, 0)
        BY <1>1, <4>1
      <4> QED BY <4>2 DEF StepBody
    <3>2. Cardinality(Parentless) \in Nat
      BY <1>0, <1>2, FS_Subset, FS_CardinalityType
    <3> QED BY <1>2, <2>2, <2>3, <3>1, <3>2
  <2>4. CASE k # 0
    <3>1. k - 1 \in 0..n /\ k - 1 \notin Bad
      <4> HIDE DEF Bad, P
      <4> QED BY <1>0, <2>1, <2>2, <2>4
    <3>2. P(k - 1)
      BY <3>1
    <3> DEFINE old == K[k - 1]
               new == K[k]
    <3>3. new = old \union UNION {childrenOf[e] : e \in old}
      BY <1>1, <2>2, <2>4 DEF StepBody
    <3>4. old \subseteq EntryId /\ Parentless \subseteq old
      BY <3>2
    <3>5. old = EntryId \/ Cardinality(old) >= k - 1
      BY <3>2
    <3> HIDE DEF old, new
    <3>6. new \subseteq EntryId /\ old \subseteq new
      BY <3>3, <3>4
    <3>7. CASE old = EntryId
      BY <2>2, <3>4, <3>6, <3>7 DEF new
    <3>8. CASE old # EntryId
      <4>1. PICK e \in EntryId \ old : parentOf[e] \notin EntryId \ old
        BY <3>4, <3>8 DEF WellFounded
      <4>2. parentOf[e] \in old /\ e \in childrenOf[parentOf[e]]
        BY <3>4, <4>1 DEF LinksAgree, Parentless
      <4>3. e \in new \ old
        BY <3>3, <4>1, <4>2
      <4>4. IsFiniteSet(new) /\ IsFiniteSet(old)
        BY <1>0, <3>4, <3>6, FS_Subset
      <4>5. Cardinality(new) > Cardinality(old)
        <5>1. old \union {e} \subseteq new
          BY <3>6, <4>3
        <5>2. Cardinality(old \union {e}) <= Cardinality(new)
          BY <4>4, <5>1, FS_Subset
        <5>3. Cardinality(old \union {e}) = Cardinality(old) + 1
          BY <4>3, <4>4, FS_AddElement
        <5>4. Cardinality(old) \in Nat /\ Cardinality(new) \in Nat
          BY <4>4, FS_CardinalityType
        <5> QED BY <5>2, <5>3, <5>4
      <4>6. Cardinality(new) >= k
        <5>1. Cardinality(old) \in Nat /\ Cardinality(new) \in Nat
          BY <4>4, FS_CardinalityType
        <5> QED BY <1>0, <2>2, <3>5, <3>8, <4>5, <5>1
      <4> QED BY <2>2, <3>4, <3>6, <4>6 DEF new
    <3> QED BY <3>7, <3>8
  <2> QED BY <2>3, <2>4
<1>4. K[n] = EntryId
  <2>1. P(n)
    <3>1. n \in 0..n /\ n \notin Bad
      <4> HIDE DEF Bad
      <4> QED BY <1>0, <1>3
    <3> HIDE DEF P
    <3> QED BY <3>1
  <2> DEFINE last == K[n]
  <2>2. last \subseteq EntryId /\ (last = EntryId \/ Cardinality(last) >= n)
    BY <2>1
  <2> HIDE DEF last
  <2>3. Cardinality(last) >= n => last = EntryId
    <3>1. /\ Cardinality(last) <= Cardinality(EntryId) /\ Cardinality(last) \in Nat
          /\ Cardinality(last) = Cardinality(EntryId) => last = EntryId
      BY <1>0, <2>2, FS_Subset, FS_CardinalityType
    <3> QED BY <1>0, <3>1 DEF n
  <2> QED BY <2>2, <2>3 DEF last
<1>5. Reached(Parentless, n) = K[n]
  BY DEF Reached, K, Steps, StepBody
<1> QED BY <1>4, <1>5 DEF n

-----------------------------------------------------------------------------
(* The inductive invariant                                                 *)

RepresentationTypeOK ==
    /\ parentOf \in [EntryId -> EntryId \union {Dangling, NoParent}]
    /\ childrenOf \in [EntryId -> SUBSET EntryId]
    /\ completed \subseteq EntryId /\ local \subseteq EntryId
    /\ pass \in {"links", "acyclic", "path", "accepted", "refused"}

\* What is completed holds its parents with it.
CompletedOK ==
    /\ WellFounded(completed)
    /\ \A e \in completed : parentOf[e] \in completed \union {NoParent}

\* The chain being walked leads on to its next id: it stays within itself, the
\* next id and what is completed, and what contains a part of it together with
\* the parents of that part contains the next id.
ChainOK ==
    /\ cursor \in EntryId \union {NoParent}
    /\ \A e \in local : parentOf[e] \in local \union completed \union {cursor}
    /\ \A S \in SUBSET EntryId :
          S \intersect local # {} /\ (\A e \in S \intersect local : parentOf[e] \in S)
             => cursor \in S

AcceptedPath ==
    /\ EntryId # {} => activePath # <<>>
    /\ activePath \in Paths /\ Connected(activePath)

RepresentationInv ==
    /\ RepresentationTypeOK
    /\ pass = "links" => completed = {} /\ local = {} /\ cursor = NoParent
    /\ pass \in {"acyclic", "path", "accepted"} => LinksAgree /\ CompletedOK
    /\ pass = "acyclic" => ChainOK
    /\ pass \in {"path", "accepted"} => completed = EntryId /\ roots = Parentless
    /\ pass = "accepted" => AcceptedPath

-----------------------------------------------------------------------------

\* A chain that has ended, at a root or at what is completed, completes what it
\* walked: a circle within would contain the end of the chain.
LEMMA ChainCompletes ==
    ASSUME RepresentationTypeOK, LinksAgree, CompletedOK, ChainOK,
           cursor \in completed \union {NoParent}
    PROVE  LET all == completed \union local
           IN /\ WellFounded(all)
              /\ \A e \in all : parentOf[e] \in all \union {NoParent}
<1> DEFINE all == completed \union local
<1> USE DEF RepresentationTypeOK
<1>1. \A e \in all : parentOf[e] \in all \union {NoParent}
  BY DEF CompletedOK, ChainOK
<1>2. WellFounded(all)
  <2> SUFFICES ASSUME NEW S \in SUBSET all, S # {}, \A e \in S : parentOf[e] \in S
               PROVE  FALSE
    BY DEF WellFounded
  <2>1. S \in SUBSET EntryId
    OBVIOUS
  <2>2. S \intersect completed # {}
    <3>1. CASE S \intersect local = {}
      BY <3>1
    <3>2. CASE S \intersect local # {}
      <4>1. cursor \in S
        BY <2>1, <3>2 DEF ChainOK
      <4>2. cursor # NoParent
        BY <2>1, <4>1, RepresentationAssumption
      <4> QED BY <4>1, <4>2
    <3> QED BY <3>1, <3>2
  <2>3. \A e \in S \intersect completed : parentOf[e] \in S \intersect completed
    BY <2>1, RepresentationAssumption DEF CompletedOK
  <2> QED BY <2>2, <2>3 DEF CompletedOK, WellFounded
<1> QED BY <1>1, <1>2

\* A walk that ends has completed all that it visited.
LEMMA CompletesKeep ==
    ASSUME RepresentationInv, pass = "acyclic", cursor \in completed \union {NoParent},
           completed' = completed \union local, local' = {}, cursor' = NoParent,
           UNCHANGED <<parentOf, childrenOf, pass>>
    PROVE  RepresentationInv'
<1> USE DEF RepresentationInv, RepresentationTypeOK
<1>1. LinksAgree' /\ (WellFounded(completed \union local) => WellFounded(completed)')
  BY DEF LinksAgree, WellFounded
<1>2. CompletedOK'
  BY <1>1, ChainCompletes DEF CompletedOK
<1>3. ChainOK'
  BY DEF ChainOK
<1> QED BY <1>1, <1>2, <1>3

\* The walk of one chain, and the passes before and after it.
LEMMA RepresentationStep ==
    ASSUME RepresentationInv, [RepresentationNext]_representationVars
    PROVE  RepresentationInv'
<1> USE DEF RepresentationInv, RepresentationTypeOK
<1>1. CASE CheckLinks
  <2>1. LinksAgree => LinksAgree'
    BY <1>1 DEF CheckLinks, LinksAgree
  <2>2. CompletedOK'
    BY <1>1 DEF CheckLinks, CompletedOK, WellFounded
  <2>3. ChainOK'
    BY <1>1 DEF CheckLinks, ChainOK
  <2> QED BY <1>1, <2>1, <2>2, <2>3 DEF CheckLinks, Conclude
<1>2. ASSUME NEW e \in EntryId, StartChain(e) PROVE RepresentationInv'
  <2>1. LinksAgree' /\ CompletedOK'
    BY <1>2 DEF StartChain, LinksAgree, CompletedOK, WellFounded
  <2>2. ChainOK'
    BY <1>2 DEF StartChain, ChainOK
  <2> QED BY <1>2, <2>1, <2>2 DEF StartChain
<1>3. CASE WalkChain
  <2>1. CASE cursor \in completed
    BY <1>3, <2>1, CompletesKeep DEF WalkChain
  <2>2. CASE cursor \notin completed
    <3>1. /\ local' = local \union {cursor} /\ cursor' = parentOf[cursor]
          /\ UNCHANGED <<parentOf, childrenOf, completed>>
          /\ pass = "acyclic" /\ pass' \in {"acyclic", "refused"}
          /\ cursor \in EntryId
      BY <1>3, <2>2 DEF WalkChain, Conclude, ChainOK
    <3>2. LinksAgree' /\ CompletedOK'
      BY <3>1 DEF LinksAgree, CompletedOK, WellFounded
    <3>3. ChainOK'
      <4>1. cursor' \in EntryId \union {NoParent}
        BY <3>1 DEF LinksAgree
      <4>2. \A e \in local' : parentOf'[e] \in local' \union completed' \union {cursor'}
        BY <3>1 DEF ChainOK
      <4>3. ASSUME NEW S \in SUBSET EntryId, S \intersect local' # {},
                   \A e \in S \intersect local' : parentOf[e] \in S
            PROVE  cursor' \in S
        <5>1. cursor \in S
          BY <3>1, <4>3 DEF ChainOK
        <5> QED BY <3>1, <4>3, <5>1
      <4> QED BY <3>1, <4>1, <4>2, <4>3 DEF ChainOK
    <3> QED BY <3>1, <3>2, <3>3
  <2> QED BY <2>1, <2>2
<1>4. CASE EndChain
  BY <1>4, CompletesKeep DEF EndChain
<1>5. ASSUME NEW rs, CheckRoots(rs) PROVE RepresentationInv'
  <2>1. LinksAgree' /\ CompletedOK' /\ Parentless' = Parentless
    BY <1>5 DEF CheckRoots, LinksAgree, CompletedOK, WellFounded, Parentless
  <2> QED BY <1>5, <2>1 DEF CheckRoots, Conclude
<1>6. ASSUME NEW path \in Paths, CheckActivePath(path) PROVE RepresentationInv'
  <2>1. LinksAgree' /\ CompletedOK' /\ Parentless' = Parentless
    BY <1>6 DEF CheckActivePath, LinksAgree, CompletedOK, WellFounded, Parentless
  <2>2. pass' = "accepted" => AcceptedPath'
    BY <1>6 DEF CheckActivePath, Conclude, AcceptedPath, Connected, Paths
  <2> QED BY <1>6, <2>1, <2>2 DEF CheckActivePath, Conclude
<1>7. CASE UNCHANGED representationVars
  BY <1>7 DEF representationVars, LinksAgree, CompletedOK, WellFounded, ChainOK,
              Parentless, AcceptedPath, Connected, Paths
<1> QED BY <1>1, <1>2, <1>3, <1>4, <1>5, <1>6, <1>7 DEF RepresentationNext

\* In every behaviour what is completed leads up to a root.
LEMMA RepresentationAlways == RepresentationSpec => []RepresentationInv
<1>1. RepresentationInit => RepresentationInv
  BY DEF RepresentationInit, RepresentationInv, RepresentationTypeOK
<1> QED BY <1>1, RepresentationStep, PTL DEF RepresentationSpec

\* Whatever an adapter wrote: an accepted representation is a forest below its
\* roots, siblings see each other, and the active path is a descent.
THEOREM AcceptedMeansForest == RepresentationSpec => []AcceptedIsForest
<1>1. RepresentationInv => AcceptedIsForest
  <2> SUFFICES ASSUME RepresentationInv, pass = "accepted" PROVE AcceptedIsForest
    BY DEF AcceptedIsForest
  <2> USE DEF RepresentationInv, RepresentationTypeOK
  <2>1. Reached(roots, Cardinality(EntryId)) = EntryId
    BY RootsReachAll DEF CompletedOK
  <2>2. \A e, f \in EntryId : f \in Siblings(e) <=> e \in Siblings(f)
    BY DEF LinksAgree, Siblings
  <2>3. PICK n \in Nat : activePath \in [1..n -> EntryId]
    BY FS_CardinalityType, RepresentationAssumption DEF AcceptedPath, Paths
  <2>4. Len(activePath) = n /\ DOMAIN activePath = 1..n
    BY <2>3
  <2>5. EntryId # {} => activePath[1] \in roots
    <3> SUFFICES ASSUME EntryId # {} PROVE activePath[1] \in roots
      OBVIOUS
    <3>1. 1 \in 1..n
      BY <2>3, <2>4 DEF AcceptedPath
    <3>2. activePath[1] \in EntryId /\ parentOf[activePath[1]] = NoParent
      BY <2>3, <2>4, <3>1 DEF AcceptedPath, Connected
    <3> QED BY <3>2 DEF Parentless
  <2>6. ASSUME NEW i \in 2..Len(activePath)
        PROVE  activePath[i] \in childrenOf[activePath[i - 1]]
    <3>1. i \in 1..n /\ i - 1 \in 1..n /\ i # 1
      BY <2>3, <2>4
    <3>2. /\ activePath[i] \in EntryId /\ activePath[i - 1] \in EntryId
          /\ parentOf[activePath[i]] = activePath[i - 1]
      BY <2>3, <2>4, <3>1 DEF AcceptedPath, Connected
    <3> QED BY <3>2, RepresentationAssumption DEF LinksAgree
  <2> QED BY <2>1, <2>2, <2>5, <2>6 DEF AcceptedIsForest
<1> QED BY <1>1, RepresentationAlways, PTL

-----------------------------------------------------------------------------
(* ResponseBinding                                                         *)

\* The run and the attempt are records of these fields throughout.
ResponseShape ==
    /\ DOMAIN pipeline = {"input", "completed", "at", "fault", "decision", "reason"}
    /\ pipeline = [f \in DOMAIN pipeline |-> pipeline[f]]
    /\ DOMAIN attempt = {"at", "chunks", "collected", "bytes", "output",
                         "decision", "reason"}
    /\ attempt = [f \in DOMAIN attempt |-> attempt[f]]

\* A checkpoint passes only while nobody has cancelled and time is left.
LEMMA CheckpointPasses ==
    ASSUME Checkpoint = "ok"
    PROVE  ~aborted /\ ~late
<1> DEFINE rules == << <<aborted, "cancelled">>, <<late, "budget-time-exceeded">>,
                       <<TRUE, "ok">> >>
<1>1. Checkpoint = FirstRule(rules)
  BY DEF Checkpoint
<1>2. /\ DOMAIN rules = 1..3 /\ rules[3][1]
      /\ rules[1][1] = aborted /\ rules[2][1] = late
      /\ \A i \in 1..3 : i # 3 => rules[i][2] # "ok"
  OBVIOUS
<1> HIDE DEF rules
<1>3. OnlyRule(rules, 3, 3)
  BY <1>1, <1>2 DEF OnlyRule
<1>4. ReturnsAt(rules, 3)
  BY <1>3, OnlyRuleIsTaken
<1>5. ~rules[1][1] /\ ~rules[2][1]
  BY <1>4 DEF ReturnsAt
<1> QED BY <1>2, <1>5

\* A run that passes through decides so, and stays the record it is.
LEMMA PassThroughIsNoTransform ==
    ASSUME ResponseShape, NEW reason, PassThrough(reason)
    PROVE  /\ pipeline'.decision = "pass-through"
           /\ DOMAIN pipeline' = DOMAIN pipeline
           /\ pipeline' = [f \in DOMAIN pipeline' |-> pipeline'[f]]
  BY DEF ResponseShape, PassThrough

\* One step of the pipeline keeps its record, and transforms only from an
\* answer after which the checkpoint passed.
LEMMA PipelineStepEffect ==
    ASSUME ResponseShape, PipelineStep
    PROVE  /\ DOMAIN pipeline' = DOMAIN pipeline
           /\ pipeline' = [f \in DOMAIN pipeline' |-> pipeline'[f]]
           /\ \/ pipeline'.decision = pipeline.decision
              \/ pipeline'.decision = "pass-through"
              \/ Checkpoint = "ok"
<1> DEFINE Goal ==
           /\ DOMAIN pipeline' = DOMAIN pipeline
           /\ pipeline' = [f \in DOMAIN pipeline' |-> pipeline'[f]]
           /\ \/ pipeline'.decision = pipeline.decision
              \/ pipeline'.decision = "pass-through"
              \/ Checkpoint = "ok"
<1>1. ASSUME NEW reason, PassThrough(reason) PROVE Goal
  BY <1>1, PassThroughIsNoTransform
<1>2. ASSUME UNCHANGED pipeline PROVE Goal
  BY <1>2 DEF ResponseShape
<1>3. ASSUME NEW at, pipeline' = [pipeline EXCEPT !.at = at] PROVE Goal
  BY <1>3 DEF ResponseShape
<1>4. ASSUME NEW reason, RefuseAdapter(reason) PROVE Goal
  <2> HIDE DEF Goal
  <2> QED BY <1>1, <1>4 DEF RefuseAdapter
<1>5. ASSUME AcceptAdapter PROVE Goal
  <2> HIDE DEF Goal
  <2> QED BY <1>3, <1>5 DEF AcceptAdapter
<1>6. ASSUME MeasureNode PROVE Goal
  <2>1. \/ \E reason : PassThrough(reason)
        \/ \E at : pipeline' = [pipeline EXCEPT !.at = at]
    <3> HIDE DEF Goal
    <3> QED BY <1>6 DEF MeasureNode
  <2> HIDE DEF Goal
  <2> QED BY <1>1, <1>3, <2>1
<1>7. ASSUME EnterStage PROVE Goal
  <2>1. \/ \E reason : PassThrough(reason)
        \/ \E at : pipeline' = [pipeline EXCEPT !.at = at]
    BY <1>7 DEF EnterStage
  <2> HIDE DEF Goal
  <2> QED BY <1>1, <1>3, <2>1
<1>8. ASSUME NEW used, NEW reason, Use(used, reason) PROVE Goal
  <2> HIDE DEF Goal
  <2> QED BY <1>1, <1>2, <1>8 DEF Use
<1>9. ASSUME NEW n \in Amount, ConsumeOperations(n) \/ ReserveAllocation(n) PROVE Goal
  <2> HIDE DEF Goal
  <2> QED BY <1>8, <1>9 DEF ConsumeOperations, ReserveAllocation
<1>10. ASSUME RecurseTooDeep \/ CheckpointInside PROVE Goal
  <2> HIDE DEF Goal
  <2> QED BY <1>8, <1>10 DEF RecurseTooDeep, CheckpointInside
<1>11. ASSUME Abort \/ TimePasses PROVE Goal
  <2> HIDE DEF Goal
  <2> QED BY <1>2, <1>11 DEF Abort, TimePasses
<1>12. ASSUME CallbackThrows PROVE Goal
  <2> HIDE DEF Goal
  <2> QED BY <1>1, <1>12 DEF CallbackThrows
<1>13. ASSUME NEW answer, CallbackAnswers(answer) PROVE Goal
  <2>1. CASE Checkpoint # "ok"
    <3> HIDE DEF Goal
    <3> QED BY <1>1, <1>13, <2>1 DEF CallbackAnswers
  <2>2. CASE Checkpoint = "ok" /\ answer # "ok"
    <3> HIDE DEF Goal
    <3> QED BY <1>1, <1>13, <2>2 DEF CallbackAnswers
  <2>3. CASE Checkpoint = "ok" /\ answer = "ok"
    <3>1. CompleteStage(pipeline.completed + 1)
      BY <1>13, <2>3 DEF CallbackAnswers
    <3> QED BY <2>3, <3>1 DEF CompleteStage, ResponseShape
  <2> QED BY <2>1, <2>2, <2>3
<1> HIDE DEF Goal
<1>14. Goal
  BY <1>4, <1>5, <1>6, <1>7, <1>9, <1>10, <1>11, <1>12, <1>13 DEF PipelineStep
<1> QED BY <1>14 DEF Goal

\* A step of the binding: it alone moves the attempt, or else the pipeline.
LEMMA ResponseStepEffect ==
    ASSUME ResponseShape, [ResponseNext]_responseVars
    PROVE  /\ ResponseShape'
           /\ pipeline'.decision # pipeline.decision => PipelineStep
           /\ aborted /\ attempt'.at # attempt.at => attempt'.at \notin
                {"authorize", "decode", "pipeline", "serialize"}
<1> DEFINE AttemptOnly ==
        /\ UNCHANGED pipeline
        /\ DOMAIN attempt' = DOMAIN attempt
        /\ attempt' = [f \in DOMAIN attempt' |-> attempt'[f]]
        /\ aborted /\ attempt'.at # attempt.at => attempt'.at \notin
                {"authorize", "decode", "pipeline", "serialize"}
           PipelineOnly ==
        /\ UNCHANGED attempt
        /\ DOMAIN pipeline' = DOMAIN pipeline
        /\ pipeline' = [f \in DOMAIN pipeline' |-> pipeline'[f]]
        /\ pipeline'.decision # pipeline.decision => PipelineStep
<1>1. ASSUME NEW reason, KeepChunks(reason), UNCHANGED pipeline PROVE AttemptOnly
  BY <1>1 DEF KeepChunks, ResponseShape
<1>2. ASSUME NEW at \in {"select", "to-authorize", "collect", "to-decode",
                         "to-pipeline", "to-serialize"},
             Proceed(at), UNCHANGED pipeline
      PROVE  AttemptOnly
  BY <1>2 DEF Proceed, ResponseShape
<1>3. ASSUME NEW at \in {"authorize", "decode", "pipeline", "serialize"}, Begin(at)
      PROVE  AttemptOnly
  BY <1>3 DEF Begin, Proceed, ResponseShape, pipelineVars
<1>4. ASSUME NEW size, NEW standard, CollectChunk(size, standard) \/ Serialize(size, standard)
      PROVE  AttemptOnly
  <2>1. CASE \E reason : KeepChunks(reason)
    <3>1. UNCHANGED pipeline
      BY <1>4 DEF CollectChunk, Serialize, pipelineVars
    <3> HIDE DEF AttemptOnly
    <3> QED BY <1>1, <2>1, <3>1
  <2>2. CASE attempt' = [attempt EXCEPT !.collected = @ + 1, !.bytes = @ + size]
    BY <1>4, <2>2 DEF CollectChunk, Serialize, pipelineVars, ResponseShape
  <2>3. CASE attempt' = [attempt EXCEPT !.at = "done",
                    !.decision = "transformed", !.reason = "transformed",
                    !.output = size]
    BY <1>4, <2>3 DEF CollectChunk, Serialize, pipelineVars, ResponseShape
  <2> QED BY <1>4, <2>1, <2>2, <2>3 DEF CollectChunk, Serialize
<1>5. ASSUME RunPipeline PROVE PipelineOnly
  <2>1. PipelineStep /\ UNCHANGED attempt
    BY <1>5 DEF RunPipeline
  <2> QED BY <2>1, PipelineStepEffect
<1>6. ASSUME StartPipeline PROVE PipelineOnly
  BY <1>6 DEF StartPipeline, ResponseShape
<1>7. ASSUME AbortBinding
      PROVE  AttemptOnly
  BY <1>7 DEF AbortBinding, ResponseShape
<1>8. ASSUME UNCHANGED responseVars
      PROVE  AttemptOnly
  BY <1>8 DEF responseVars, ResponseShape
<1>9. ASSUME NEW valid, StartBinding(valid) PROVE AttemptOnly
  <2> HIDE DEF AttemptOnly
  <2> QED BY <1>1, <1>2, <1>9 DEF StartBinding, pipelineVars
<1>10. ASSUME NEW answer \in {"match", "miss", "ambiguous", "malformed", "exception"},
              Select(answer) PROVE AttemptOnly
  <2> HIDE DEF AttemptOnly
  <2> QED BY <1>1, <1>2, <1>10 DEF Select, pipelineVars
<1>11. ASSUME NEW answer \in {"eligible", "denied", "malformed", "exception"},
              Authorize(answer) PROVE AttemptOnly
  <2> HIDE DEF AttemptOnly
  <2> QED BY <1>1, <1>2, <1>11 DEF Authorize, pipelineVars
<1>12. ASSUME Cancelled \/ TooManyChunks \/ SerializeThrows \/ EndPipeline
      PROVE  AttemptOnly
  <2> HIDE DEF AttemptOnly
  <2> QED BY <1>1, <1>2, <1>12
          DEF Cancelled, TooManyChunks, SerializeThrows, EndPipeline, pipelineVars
<1>13. ASSUME NEW ok \in BOOLEAN, JoinChunks(ok) \/ Decode(ok) PROVE AttemptOnly
  <2> HIDE DEF AttemptOnly
  <2> QED BY <1>1, <1>2, <1>13 DEF JoinChunks, Decode, pipelineVars
<1>14. AttemptOnly \/ PipelineOnly
  <2> HIDE DEF AttemptOnly, PipelineOnly
  <2> QED BY <1>3, <1>4, <1>5, <1>6, <1>7, <1>8, <1>9, <1>10, <1>11, <1>12, <1>13
          DEF ResponseNext
<1> QED BY <1>14 DEF ResponseShape

\* In every behaviour run and attempt are records of their fields.
LEMMA ResponseShapeHolds == ResponseSpec => []ResponseShape
<1>1. ResponseInit => ResponseShape
  BY DEF ResponseInit, PipelineInit, NewRun, ResponseShape
<1> QED BY <1>1, ResponseStepEffect, PTL DEF ResponseSpec

\* Once the run is cancelled or its time is spent it does not transform,
\* whatever its callbacks answer, throw and swallow.
THEOREM StoppedStaysUntransformed == ResponseSpec => StoppedNeverTransforms
<1>1. ResponseShape /\ [ResponseNext]_responseVars =>
        [pipeline.decision = "none" /\ pipeline'.decision = "transformed"
            => ~aborted /\ ~late]_pipelineVars
  <2> SUFFICES ASSUME ResponseShape, [ResponseNext]_responseVars,
                      pipeline.decision = "none", pipeline'.decision = "transformed"
               PROVE  ~aborted /\ ~late
    OBVIOUS
  <2>1. PipelineStep
    BY ResponseStepEffect
  <2>2. Checkpoint = "ok"
    BY <2>1, PipelineStepEffect
  <2> QED BY <2>2, CheckpointPasses
<1> QED BY <1>1, ResponseShapeHolds, PTL DEF ResponseSpec, StoppedNeverTransforms

\* Once the signal is cancelled neither authorization nor decoder, pipeline or
\* serializer begins to work on the response.
THEOREM CancelReachesNothing == ResponseSpec => CancelledReachesNothing
<1>1. ResponseShape /\ [ResponseNext]_responseVars =>
        [aborted /\ attempt'.at # attempt.at => attempt'.at \notin
            {"authorize", "decode", "pipeline", "serialize"}]_responseVars
  BY ResponseStepEffect
<1> QED BY <1>1, ResponseShapeHolds, PTL DEF ResponseSpec, CancelledReachesNothing

-----------------------------------------------------------------------------
(* AdapterConformance                                                      *)

-----------------------------------------------------------------------------
(* The inductive invariant                                                 *)

ConformanceStage == Capability \union
    {"declaration", "detect", "detectInvalid", "validate", "validateInvalid",
     "fingerprint", "validateAlternateRepresentation", "verdict",
     "conformant", "refused"}

OpeningStage ==
    {"detect", "detectInvalid", "validate", "validateInvalid", "fingerprint"}

\* The stages the run is through with when it is at stage s.
PassedAt(s) ==
    CASE s = "detectInvalid" -> {"detect"}
      [] s = "validate" -> {"detect", "detectInvalid"}
      [] s = "validateInvalid" -> {"detect", "detectInvalid", "validate"}
      [] s = "fingerprint" -> OpeningStage \ {"fingerprint"}
      [] s = "plan" -> OpeningStage
      [] s = "materialize" -> OpeningStage \union {"plan"}
      [] s = "validateOutput" -> OpeningStage \union {"plan", "materialize"}
      [] s = "alternateRepresentation" ->
            OpeningStage \union {"plan", "materialize", "validateOutput"}
      [] s = "validateAlternateRepresentation" -> OpeningStage \union Capability
      [] s \in {"verdict", "conformant"} ->
            OpeningStage \union Capability \union {"validateAlternateRepresentation"}
      [] OTHER -> {}

\* Undelivered, of stages q that answered nothing and results h.
Lacks(s, q, h) == \E needed \in Needs(s) : needed \in q \ h

\* What makes stage t settled, of stages a that agreed.
SettledStage(t, a, q, h) ==
    /\ t \in Owed => t \in a \union q \/ Lacks(t, q, h)
    /\ t \in Capability /\ Promises(t) => Allowed(t) \/ Lacks(t, q, h)
    /\ t \in {"plan", "materialize"} /\ Promises(t) =>
            t \in h \union q \/ Lacks(t, q, h)

\* What holds of a run at stage s that has collected no issue.
CleanAt(s, a, q, h) ==
    /\ s # "declaration" => DeclarationHolds
    /\ h \subseteq PassedAt(s)
    /\ \A t \in PassedAt(s) : SettledStage(t, a, q, h)
    /\ s = "validateAlternateRepresentation" =>
            /\ Promises("alternateRepresentation")
            /\ Allowed("alternateRepresentation")

CleanRun(s) == CleanAt(s, agreed, silent, holding)

ConformanceInv ==
    /\ adapter \in Adapter /\ scenario \in Scenario
    /\ stage \in ConformanceStage /\ clean \in BOOLEAN /\ changed \in BOOLEAN
    /\ stage = "conformant" => clean
    /\ clean /\ stage # "refused" => ~changed /\ CleanRun(stage)

-----------------------------------------------------------------------------

\* The adapter and the scenario stay, so that what holds of a run at its next
\* stage holds there.
LEMMA ConformanceGoesOn ==
    ASSUME ConformanceInv, UNCHANGED <<adapter, scenario>>,
           stage' \in ConformanceStage \ {"conformant"},
           clean' \in BOOLEAN, changed' \in BOOLEAN,
           clean' /\ stage' # "refused" =>
                ~changed' /\ CleanAt(stage', agreed', silent', holding')
    PROVE  ConformanceInv'
<1>1. Owed' = Owed
  BY DEF Owed, Promises
<1>2. CleanAt(stage', agreed', silent', holding') => CleanRun(stage)'
  BY <1>1 DEF CleanRun, CleanAt, SettledStage, Lacks, DeclarationHolds, Promises, Allowed
<1> QED BY <1>2 DEF ConformanceInv

\* A run goes on with what it has: what was settled stays settled, and the
\* stages that are passed now have to be.
LEMMA PassStage ==
    ASSUME NEW s \in ConformanceStage, NEW next \in ConformanceStage,
           CleanRun(s), DeclarationHolds,
           agreed \subseteq agreed', silent \subseteq silent',
           holding \subseteq holding', holding' \subseteq holding \union {s},
           PassedAt(s) \subseteq PassedAt(next),
           holding' \subseteq PassedAt(next),
           \A t \in PassedAt(next) \ PassedAt(s) :
                SettledStage(t, agreed', silent', holding'),
           next = "validateAlternateRepresentation" =>
                /\ Promises("alternateRepresentation")
                /\ Allowed("alternateRepresentation")
    PROVE  CleanAt(next, agreed', silent', holding')
<1>1. ASSUME NEW t \in PassedAt(s)
      PROVE  SettledStage(t, agreed', silent', holding')
  <2>1. s \notin Needs(t)
    BY DEF PassedAt, OpeningStage, Needs, ConformanceStage, Capability
  <2>2. Lacks(t, silent, holding) => Lacks(t, silent', holding')
    BY <2>1 DEF Lacks
  <2>3. SettledStage(t, agreed, silent, holding)
    BY DEF CleanRun, CleanAt
  <2> QED BY <2>2, <2>3 DEF SettledStage
<1> QED BY <1>1 DEF CleanAt

\* An opening stage that ends without an issue has settled itself.
LEMMA PassOpening ==
    ASSUME ConformanceInv, clean, NEW s \in OpeningStage, stage = s,
           s \in agreed' \union silent', silent \subseteq silent', agreed \subseteq agreed',
           holding' = holding, NEW next \in OpeningStage \union {"plan"},
           PassedAt(s) \subseteq PassedAt(next), s \in PassedAt(next),
           \A t \in PassedAt(next) \ PassedAt(s) : t = s \/ t \notin Owed
    PROVE  CleanAt(next, agreed', silent', holding')
<1>1. CleanRun(s) /\ s \in ConformanceStage /\ next \in ConformanceStage
      /\ s \notin {"declaration", "refused"}
  BY DEF ConformanceInv, OpeningStage, ConformanceStage, Capability
<1>2. DeclarationHolds /\ holding \subseteq PassedAt(s)
  BY <1>1 DEF CleanRun, CleanAt
<1>3. \A t \in PassedAt(next) : t \in OpeningStage /\ t \notin Capability
  BY DEF PassedAt, OpeningStage, Capability
<1>4. ASSUME NEW t \in PassedAt(next) \ PassedAt(s)
      PROVE  SettledStage(t, agreed', silent', holding')
  BY <1>3, <1>4 DEF SettledStage, Capability
<1>5. next # "validateAlternateRepresentation"
  BY DEF OpeningStage
<1> QED BY <1>1, <1>2, <1>4, <1>5, PassStage

\* The stages before the capabilities.
LEMMA OpeningKeeps ==
    ASSUME ConformanceInv,
           \/ \E captured \in BOOLEAN : Declare(captured)
           \/ \E first, second \in StageAnswer, touched \in BOOLEAN :
                Detect(first, second, touched)
           \/ \E first, second \in StageAnswer, captured, touched \in BOOLEAN :
                \/ Validate(first, second, touched, captured)
                \/ Fingerprint(first, second, touched, captured)
           \/ \E answer \in StageAnswer, captured, touched \in BOOLEAN :
                RefuseInvalid(answer, touched, captured)
    PROVE  ConformanceInv'
<1> DEFINE CleanNext == clean' /\ stage' # "refused" =>
                ~changed' /\ CleanAt(stage', agreed', silent', holding')
<1>0. /\ clean \in BOOLEAN /\ changed \in BOOLEAN /\ scenario.invalidInput \in BOOLEAN
      /\ clean /\ stage # "refused" => ~changed
  BY DEF ConformanceInv, Scenario
<1>1. ASSUME NEW captured \in BOOLEAN, Declare(captured) PROVE ConformanceInv'
  <2>1. CleanNext
    BY <1>1 DEF Declare, EndStage, CleanRun, CleanAt, PassedAt, ConformanceInv
  <2>2. stage' \in ConformanceStage \ {"conformant"} /\ clean' \in BOOLEAN
    BY <1>0, <1>1 DEF Declare, EndStage, ConformanceStage, DeclarationHolds
  <2> QED BY <1>0, <1>1, <2>1, <2>2, ConformanceGoesOn DEF Declare, EndStage
<1>2. ASSUME NEW first \in StageAnswer, NEW second \in StageAnswer,
             NEW touched \in BOOLEAN, Detect(first, second, touched)
      PROVE  ConformanceInv'
  <2>1. /\ stage = "detect" /\ holding' = holding /\ silent' = silent
        /\ stage' \in {"refused", "detectInvalid", "validate"}
        /\ stage' = "validate" => ~scenario.invalidInput
        /\ UNCHANGED <<adapter, scenario>>
        /\ clean' \in BOOLEAN /\ changed' \in BOOLEAN
        /\ agreed \subseteq agreed'
        /\ clean' => clean /\ ~changed' /\ "detect" \in agreed'
    BY <1>0, <1>2 DEF Detect, EndStage, ChangeValues, Remember, Alike, Accepted
  <2>2. CleanNext
    <3> SUFFICES ASSUME clean', stage' # "refused"
                 PROVE  CleanAt(stage', agreed', silent', holding')
      BY <2>1
    <3>1. CASE stage' = "detectInvalid"
      BY <2>1, <3>1, PassOpening DEF OpeningStage, PassedAt
    <3>2. CASE stage' = "validate"
      BY <2>1, <3>2, PassOpening DEF OpeningStage, PassedAt, Owed, Capability
    <3> QED BY <2>1, <3>1, <3>2
  <2> QED BY <2>1, <2>2, ConformanceGoesOn DEF ConformanceStage
<1>3. ASSUME NEW first \in StageAnswer, NEW second \in StageAnswer,
             NEW captured \in BOOLEAN, NEW touched \in BOOLEAN,
             Validate(first, second, touched, captured)
      PROVE  ConformanceInv'
  <2>1. /\ stage = "validate" /\ holding' = holding
        /\ stage' \in {"refused", "validateInvalid", "fingerprint"}
        /\ stage' = "fingerprint" => ~scenario.invalidInput
        /\ UNCHANGED <<adapter, scenario>>
        /\ clean' \in BOOLEAN /\ changed' \in BOOLEAN
        /\ agreed \subseteq agreed' /\ silent \subseteq silent'
        /\ clean' /\ stage' # "refused" =>
                clean /\ ~changed' /\ "validate" \in agreed' \union silent'
    BY <1>0, <1>3 DEF Validate, EndStage, ChangeValues, Remember, Alike, Unheard, Accepted
  <2>2. CleanNext
    <3> SUFFICES ASSUME clean', stage' # "refused"
                 PROVE  CleanAt(stage', agreed', silent', holding')
      BY <2>1
    <3>1. CASE stage' = "validateInvalid"
      BY <2>1, <3>1, PassOpening DEF OpeningStage, PassedAt
    <3>2. CASE stage' = "fingerprint"
      BY <2>1, <3>2, PassOpening DEF OpeningStage, PassedAt, Owed, Capability
    <3> QED BY <2>1, <3>1, <3>2
  <2> QED BY <2>1, <2>2, ConformanceGoesOn DEF ConformanceStage
<1>4. ASSUME NEW first \in StageAnswer, NEW second \in StageAnswer,
             NEW captured \in BOOLEAN, NEW touched \in BOOLEAN,
             Fingerprint(first, second, touched, captured)
      PROVE  ConformanceInv'
  <2>1. /\ stage = "fingerprint" /\ holding' = holding /\ silent' = silent
        /\ stage' \in {"refused", "plan"}
        /\ UNCHANGED <<adapter, scenario>>
        /\ clean' \in BOOLEAN /\ changed' \in BOOLEAN
        /\ agreed \subseteq agreed'
        /\ clean' => clean /\ ~changed' /\ "fingerprint" \in agreed'
    BY <1>0, <1>4 DEF Fingerprint, EndStage, ChangeValues, Remember
  <2>2. CleanNext
    BY <2>1, PassOpening DEF OpeningStage, PassedAt
  <2> QED BY <2>1, <2>2, ConformanceGoesOn DEF ConformanceStage, Capability
<1>5. ASSUME NEW s \in {"detectInvalid", "validateInvalid"}, NEW next, NEW refusals,
             NEW answer \in StageAnswer, NEW captured \in BOOLEAN,
             NEW touched \in BOOLEAN,
             <<s, next>> \in {<<"detectInvalid", "validate">>,
                              <<"validateInvalid", "fingerprint">>},
             Refuse(s, next, refusals, answer, touched, captured)
      PROVE  ConformanceInv'
  <2>1. /\ stage = s /\ holding' = holding /\ silent' = silent /\ stage' = next
        /\ UNCHANGED <<adapter, scenario>>
        /\ clean' \in BOOLEAN /\ changed' \in BOOLEAN
        /\ agreed \subseteq agreed'
        /\ clean' => clean /\ ~changed' /\ s \in agreed'
    <3>1. (answer \in refusals) \in BOOLEAN
      OBVIOUS
    <3> QED BY <1>0, <1>5, <3>1 DEF Refuse, EndStage, ChangeValues, Remember
  <2>2. CleanNext
    <3>1. CASE s = "detectInvalid" /\ next = "validate"
      BY <2>1, <3>1, PassOpening DEF OpeningStage, PassedAt
    <3>2. CASE s = "validateInvalid" /\ next = "fingerprint"
      BY <2>1, <3>2, PassOpening DEF OpeningStage, PassedAt
    <3> QED BY <1>5, <3>1, <3>2
  <2>3. next \in ConformanceStage \ {"conformant"}
    BY <1>5 DEF ConformanceStage
  <2> QED BY <2>1, <2>2, <2>3, ConformanceGoesOn
<1> QED BY <1>1, <1>2, <1>3, <1>4, <1>5 DEF RefuseInvalid

\* The run has what a promised capability needs, for the adapter promises that
\* as well, or it was not given to it: nothing else that is promised is skipped.
LEMMA PromisedIsRun ==
    ASSUME ConformanceInv, clean, NEW c \in Capability, stage = c, Promises(c)
    PROVE  Runs(c) \/ Lacks(c, silent, holding)
<1>1. DeclarationHolds /\ c \in DOMAIN adapter /\ adapter[c] \in Declaration
  BY ConformanceAssumption DEF ConformanceInv, CleanRun, CleanAt, Capability
<1>2. Implements(c)
  BY <1>1 DEF DeclarationHolds, Implements, Declaration, Promises
<1>3. ASSUME NEW t \in PassedAt(c) \intersect {"plan", "materialize"}, Promises(t)
      PROVE  t \in holding \union silent \/ Lacks(t, silent, holding)
  BY <1>3 DEF ConformanceInv, CleanRun, CleanAt, SettledStage, Capability
<1>4. CASE c = "materialize"
  <2>1. "plan" \in holding \union silent
    BY <1>1, <1>3, <1>4 DEF PassedAt, DeclarationHolds, Lacks, Needs
  <2> QED BY <1>2, <1>4, <2>1 DEF Runs, Ready, Lacks, Needs
<1>5. CASE c = "validateOutput"
  <2>1. "materialize" \in holding \union silent \/ "plan" \in silent \ holding
    BY <1>1, <1>3, <1>5 DEF PassedAt, DeclarationHolds, Lacks, Needs
  <2> QED BY <1>2, <1>5, <2>1 DEF Runs, Ready, Lacks, Needs
<1>6. CASE c \in {"plan", "alternateRepresentation"}
  BY <1>2, <1>6 DEF Runs, Ready
<1> QED BY <1>4, <1>5, <1>6 DEF Capability

\* A capability that is settled is passed.
LEMMA PassCapability ==
    ASSUME ConformanceInv, clean, NEW c \in Capability, stage = c,
           agreed \subseteq agreed', silent \subseteq silent',
           holding \subseteq holding', holding' \subseteq holding \union {c},
           SettledStage(c, agreed', silent', holding'), NEW next,
           \/ next = StageAfter(c)
           \/ /\ next = "validateAlternateRepresentation"
              /\ c = "alternateRepresentation" /\ Promises(c) /\ Allowed(c),
           next = "verdict" =>
              SettledStage("validateAlternateRepresentation", agreed', silent', holding')
    PROVE  CleanAt(next, agreed', silent', holding')
<1>1. CleanRun(c) /\ DeclarationHolds /\ c \in ConformanceStage
      /\ holding \subseteq PassedAt(c)
  BY DEF ConformanceInv, CleanRun, CleanAt, ConformanceStage, Capability
<1>2. /\ next \in ConformanceStage
      /\ PassedAt(next) = PassedAt(c) \union {c}
            \union (IF next = "verdict" THEN {"validateAlternateRepresentation"} ELSE {})
  BY DEF PassedAt, StageAfter, Capability, ConformanceStage, OpeningStage
<1>3. \A t \in PassedAt(next) \ PassedAt(c) :
            SettledStage(t, agreed', silent', holding')
  BY <1>2
<1>4. next = "validateAlternateRepresentation" =>
            /\ Promises("alternateRepresentation")
            /\ Allowed("alternateRepresentation")
  BY DEF StageAfter, Capability
<1> QED BY <1>1, <1>2, <1>3, <1>4, PassStage

\* Without a promise of an alternate representation none is validated.
LEMMA NothingToValidate ==
    ASSUME ~Promises("alternateRepresentation"), NEW a, NEW q, NEW h
    PROVE  SettledStage("validateAlternateRepresentation", a, q, h)
  BY DEF SettledStage, Owed, Capability, OpeningStage

\* The stages of the declared capabilities, and the verdict.
LEMMA DeclaredKeeps ==
    ASSUME ConformanceInv,
           \/ \E c \in Capability :
                \/ SkipCapability(c) \/ Exclude(c)
                \/ \E first, second \in StageAnswer, captured, touched \in BOOLEAN :
                      Exercise(c, first, second, touched, captured)
           \/ \E c \in {"validateOutput", "validateAlternateRepresentation"},
                first, second \in StageAnswer, captured, touched \in BOOLEAN :
                      ValidateDetached(c, first, second, touched, captured)
    PROVE  ConformanceInv'
<1> DEFINE CleanNext == clean' /\ stage' # "refused" =>
                ~changed' /\ CleanAt(stage', agreed', silent', holding')
<1>0. /\ clean \in BOOLEAN /\ changed \in BOOLEAN
      /\ clean /\ stage # "refused" => ~changed
      /\ \A c \in Capability : StageAfter(c) \in ConformanceStage \ {"conformant", "refused"}
      /\ \A c \in Capability : c # "refused"
  BY DEF ConformanceInv, StageAfter, ConformanceStage, Capability
<1>1. ASSUME NEW c \in Capability, SkipCapability(c) PROVE ConformanceInv'
  <2>1. CleanNext
    <3> SUFFICES ASSUME clean
                 PROVE  ~changed /\ CleanAt(StageAfter(c), agreed', silent', holding')
      BY <1>0, <1>1 DEF SkipCapability, EndStage
    <3>1. /\ stage = c /\ UNCHANGED <<holding, changed, agreed, silent>>
          /\ Promises(c) => Lacks(c, silent, holding)
      BY <1>1, PromisedIsRun DEF SkipCapability, Runs
    <3>2. SettledStage(c, agreed', silent', holding')
      BY <3>1 DEF SettledStage, Owed, Capability, OpeningStage
    <3>3. ASSUME StageAfter(c) = "verdict"
          PROVE  SettledStage("validateAlternateRepresentation", agreed', silent', holding')
      <4>1. c = "alternateRepresentation"
        BY <3>3 DEF StageAfter, Capability
      <4>2. ~Promises(c)
        BY <3>1, <4>1 DEF Lacks, Needs
      <4> QED BY <4>1, <4>2, NothingToValidate
    <3>4. CleanAt(StageAfter(c), agreed', silent', holding')
      BY <3>1, <3>2, <3>3, PassCapability
    <3> QED BY <1>0, <3>1, <3>4
  <2> QED BY <1>0, <1>1, <2>1, ConformanceGoesOn DEF SkipCapability, EndStage
<1>2. ASSUME NEW c \in Capability, Exclude(c) PROVE ConformanceInv'
  <2>1. ~clean'
    BY <1>2 DEF Exclude, EndStage
  <2> QED BY <1>0, <1>2, <2>1, ConformanceGoesOn DEF Exclude, EndStage
<1>3. ASSUME NEW c \in Capability, NEW first \in StageAnswer,
             NEW second \in StageAnswer, NEW captured \in BOOLEAN,
             NEW touched \in BOOLEAN, Exercise(c, first, second, touched, captured)
      PROVE  ConformanceInv'
  <2>0. /\ stage = c /\ Promises(c) /\ Allowed(c)
        /\ UNCHANGED <<adapter, scenario>>
        /\ clean' \in BOOLEAN /\ changed' \in BOOLEAN
        /\ stage' = IF c = "alternateRepresentation" /\ Accepted(first)
                    THEN "validateAlternateRepresentation" ELSE StageAfter(c)
    BY <1>0, <1>3 DEF Exercise, EndStage, ChangeValues, Runs, Accepted
  <2>1. CleanNext
    <3> SUFFICES ASSUME clean'
                 PROVE  ~changed' /\ CleanAt(stage', agreed', silent', holding')
      OBVIOUS
    <3>1. /\ clean /\ ~changed'
          /\ Alike(first, second) \/ Unheard(first, second)
      BY <1>0, <1>3, <2>0 DEF Exercise, EndStage, ChangeValues
    <3>2. /\ agreed' = IF Alike(first, second) THEN agreed \union {c} ELSE agreed
          /\ silent' = IF Unheard(first, second) THEN silent \union {c} ELSE silent
          /\ holding' = IF Accepted(first) THEN holding \union {c} ELSE holding
      BY <1>3, <2>0 DEF Exercise, Remember
    <3>3. c \in agreed' \union silent' /\ (Accepted(first) \/ c \in silent')
      BY <3>1, <3>2 DEF Alike, Unheard, Accepted
    <3>4. SettledStage(c, agreed', silent', holding')
      BY <2>0, <3>2, <3>3 DEF SettledStage
    <3>5. ASSUME stage' = "verdict"
          PROVE  SettledStage("validateAlternateRepresentation", agreed', silent', holding')
      <4>1. c = "alternateRepresentation" /\ ~Accepted(first)
        BY <2>0, <3>5 DEF StageAfter, Capability
      <4>2. holding \subseteq PassedAt(c)
        BY <1>0, <2>0, <3>1 DEF ConformanceInv, CleanRun, CleanAt
      <4>3. c \notin holding
        BY <4>1, <4>2 DEF PassedAt, OpeningStage
      <4>4. c \in silent' \ holding'
        BY <3>2, <3>3, <4>1, <4>3
      <4>5. Lacks("validateAlternateRepresentation", silent', holding')
        BY <4>1, <4>4 DEF Lacks, Needs
      <4> QED BY <4>5 DEF SettledStage
    <3>6. /\ agreed \subseteq agreed' /\ silent \subseteq silent'
          /\ holding \subseteq holding' /\ holding' \subseteq holding \union {c}
      BY <3>2
    <3>7. CleanAt(stage', agreed', silent', holding')
      BY <2>0, <3>1, <3>4, <3>5, <3>6, PassCapability
    <3> QED BY <3>1, <3>7
  <2>2. stage' \in ConformanceStage \ {"conformant"}
    BY <1>0, <2>0 DEF ConformanceStage
  <2> QED BY <2>0, <2>1, <2>2, ConformanceGoesOn
<1>4. ASSUME NEW c \in {"validateOutput", "validateAlternateRepresentation"},
             NEW first \in StageAnswer, NEW second \in StageAnswer,
             NEW captured \in BOOLEAN, NEW touched \in BOOLEAN,
             ValidateDetached(c, first, second, touched, captured)
      PROVE  ConformanceInv'
  <2> DEFINE unheard == /\ "nothing" \in {first, second}
                        /\ "throws" \notin {first, second}
  <2>0. /\ stage = c /\ stage' = StageAfter(c)
        /\ UNCHANGED <<adapter, scenario, holding>>
        /\ clean' \in BOOLEAN /\ changed' \in BOOLEAN
        /\ c = "validateOutput" => Allowed(c)
        /\ agreed \subseteq agreed' /\ silent \subseteq silent'
        /\ clean' => clean /\ ~changed' /\ c \in agreed' \union silent'
    <3>1. unheard \in BOOLEAN /\ Alike(first, second) \in BOOLEAN
      BY DEF Alike, Accepted
    <3>2. /\ stage = c /\ stage' = StageAfter(c)
          /\ UNCHANGED <<adapter, scenario, holding>>
          /\ c = "validateOutput" => Allowed(c)
          /\ clean' = (clean /\ (Alike(first, second) \/ unheard) /\ ~touched /\ captured)
          /\ changed' = (changed \/ touched)
          /\ agreed' = IF captured /\ Alike(first, second) THEN agreed \union {c} ELSE agreed
          /\ silent' = IF captured /\ unheard THEN silent \union {c} ELSE silent
      BY <1>4 DEF ValidateDetached, EndStage, ChangeValues, Remember, Runs
    <3> HIDE DEF unheard
    <3> QED BY <1>0, <3>1, <3>2
  <2>1. CleanNext
    <3> SUFFICES ASSUME clean' PROVE CleanAt(stage', agreed', silent', holding')
      BY <2>0
    <3>1. CASE c = "validateOutput"
      <4>1. SettledStage(c, agreed', silent', holding')
        BY <2>0, <3>1 DEF SettledStage
      <4>2. c \in Capability /\ StageAfter(c) # "verdict"
        BY <3>1 DEF Capability, StageAfter
      <4> QED BY <2>0, <4>1, <4>2, PassCapability
    <3>2. CASE c = "validateAlternateRepresentation"
      <4>1. stage' = "verdict"
        BY <2>0, <3>2 DEF StageAfter
      <4>2. SettledStage(c, agreed', silent', holding')
        BY <2>0, <3>2 DEF SettledStage, Capability
      <4>3. CleanRun(c) /\ DeclarationHolds /\ holding \subseteq PassedAt(c)
        BY <2>0, <3>2 DEF ConformanceInv, CleanRun, CleanAt
      <4>4. /\ PassedAt("verdict") = PassedAt(c) \union {c}
            /\ c \in ConformanceStage /\ "verdict" \in ConformanceStage
        BY <3>2 DEF PassedAt, ConformanceStage
      <4> QED BY <2>0, <4>1, <4>2, <4>3, <4>4, PassStage
    <3> QED BY <3>1, <3>2
  <2>2. stage' \in ConformanceStage \ {"conformant"}
    BY <2>0 DEF ConformanceStage, StageAfter, Capability
  <2> QED BY <2>0, <2>1, <2>2, ConformanceGoesOn
<1> QED BY <1>1, <1>2, <1>3, <1>4

\* The verdict sums up the stages that ran.
LEMMA VerdictKeeps ==
    ASSUME ConformanceInv, ReachVerdict
    PROVE  ConformanceInv'
<1>1. CleanRun("verdict") => CleanRun("conformant")
  BY DEF CleanRun, CleanAt, PassedAt
<1>2. Owed' = Owed
  BY DEF ReachVerdict, Owed, Promises
<1>3. CleanAt(stage', agreed, silent, holding) => CleanRun(stage)'
  BY <1>2 DEF ReachVerdict, CleanRun, CleanAt, SettledStage, Lacks, DeclarationHolds,
              Promises, Allowed
<1> QED BY <1>1, <1>3 DEF ReachVerdict, ConformanceInv, ConformanceStage, CleanRun

\* The invariant holds throughout.
LEMMA ConformanceAlways == ConformanceSpec => []ConformanceInv
<1>1. ConformanceInit => ConformanceInv
  BY DEF ConformanceInit, ConformanceInv, CleanRun, CleanAt, PassedAt, ConformanceStage
<1>2. ConformanceInv /\ [ConformanceNext]_conformanceVars => ConformanceInv'
  <2> SUFFICES ASSUME ConformanceInv, [ConformanceNext]_conformanceVars
               PROVE  ConformanceInv'
    OBVIOUS
  <2>1. CASE ConformanceNext
    BY <2>1, OpeningKeeps, DeclaredKeeps, VerdictKeeps DEF ConformanceNext
  <2>2. CASE UNCHANGED conformanceVars
    <3>1. Owed' = Owed
      BY <2>2 DEF conformanceVars, Owed, Promises
    <3>2. CleanRun(stage) => CleanRun(stage)'
      BY <2>2, <3>1 DEF conformanceVars, CleanRun, CleanAt, SettledStage, Lacks,
                        DeclarationHolds, Promises, Allowed
    <3> QED BY <2>2, <3>2 DEF conformanceVars, ConformanceInv
  <2> QED BY <2>1, <2>2
<1> QED BY <1>1, <1>2, PTL DEF ConformanceSpec

\* A conformant adapter has earned it: every stage it owes has answered twice
\* alike where its promises allow it to run, or answered nothing, or lacked the
\* result of a stage that answered nothing; and nothing was changed.
THEOREM VerdictIsEarned == ConformanceSpec => []ConformantEarned
<1>1. ConformanceInv => ConformantEarned
  <2> SUFFICES ASSUME ConformanceInv, stage = "conformant" PROVE ConformantEarned
    BY DEF ConformantEarned
  <2>1. ~changed /\ CleanRun("conformant")
    BY DEF ConformanceInv
  <2>2. \A t : Undelivered(t) <=> Lacks(t, silent, holding)
    BY DEF Undelivered, Lacks
  <2>3. Owed \subseteq PassedAt("conformant") /\ Capability \subseteq PassedAt("conformant")
    BY DEF Owed, PassedAt, OpeningStage
  <2>4. \A t \in PassedAt("conformant") : SettledStage(t, agreed, silent, holding)
    BY <2>1 DEF CleanRun, CleanAt
  <2>5. \A s \in Owed : s \in agreed \union silent \/ Undelivered(s)
    BY <2>2, <2>3, <2>4 DEF SettledStage
  <2>6. \A c \in Capability : Promises(c) => Allowed(c) \/ Undelivered(c)
    BY <2>2, <2>3, <2>4 DEF SettledStage
  <2> QED BY <2>1, <2>5, <2>6 DEF ConformantEarned
<1> QED BY <1>1, ConformanceAlways, PTL

-----------------------------------------------------------------------------
(* LoopbackExchange                                                        *)

-----------------------------------------------------------------------------
(* The cache                                                               *)

\* What both limits leave is a part of the cache that is within them.
LEMMA KeptFits ==
    ASSUME NEW X, IsFiniteSet(X), NEW keys \in Seq(X), NEW bytesOf \in [X -> Nat],
           maxCacheTotalBytes \in Nat, maxCacheEntries \in Nat
    PROVE  /\ Kept(keys, bytesOf) \in Seq(X)
           /\ ToSet(Kept(keys, bytesOf)) \subseteq ToSet(keys)
           /\ Len(Kept(keys, bytesOf)) <= maxCacheEntries
           /\ CacheBytes(Kept(keys, bytesOf), bytesOf) <= maxCacheTotalBytes
<1> DEFINE Rest(n) == SubSeq(keys, n + 1, Len(keys))
           Fits(n) == /\ CacheBytes(Rest(n), bytesOf) <= maxCacheTotalBytes
                      /\ Len(Rest(n)) <= maxCacheEntries
           F == {n \in 0..Len(keys) : Fits(n)}
<1>1. Len(keys) \in Nat
  OBVIOUS
<1>2. Rest(Len(keys)) = <<>>
  BY <1>1
<1>3. Fits(Len(keys))
  <2>1. ToSet(<<>>) = {} /\ Len(<<>>) = 0
    BY DEF ToSet
  <2>2. CacheBytes(<<>>, bytesOf) = 0
    BY <2>1, SumEmpty DEF CacheBytes
  <2>3. CacheBytes(Rest(Len(keys)), bytesOf) = 0 /\ Len(Rest(Len(keys))) = 0
    <3> HIDE DEF Rest
    <3> QED BY <1>2, <2>1, <2>2
  <2> HIDE DEF Rest
  <2> QED BY <2>3
<1>4. F \in SUBSET Nat /\ F # {}
  <2> HIDE DEF Fits
  <2> QED BY <1>1, <1>3
<1>5. PICK d \in F : d = Min(F)
  <2> HIDE DEF F
  <2> QED BY <1>4, LeastNumber DEF Min
<1>6. d \in 0..Len(keys) /\ Fits(d)
  BY <1>5
<1>7. Kept(keys, bytesOf) = Rest(d)
  BY <1>5 DEF Kept
<1>8. Rest(d) \in Seq(X) /\ ToSet(Rest(d)) \subseteq ToSet(keys)
  <2>1. /\ Rest(d) \in Seq(X) /\ Len(Rest(d)) = Len(keys) - d
        /\ \A i \in 1..(Len(keys) - d) : Rest(d)[i] = keys[d + i]
    <3>1. d + 1 \in 1..(Len(keys) + 1) /\ Len(keys) \in d..Len(keys)
      BY <1>1, <1>6
    <3>2. /\ Rest(d) \in Seq(X)
          /\ Len(Rest(d)) = IF d + 1 <= Len(keys) THEN Len(keys) - (d + 1) + 1 ELSE 0
          /\ \A i \in 1..(Len(keys) - (d + 1) + 1) : Rest(d)[i] = keys[(d + 1) + i - 1]
      BY <3>1, SubSeqProperties
    <3>3. \A i \in Nat : (d + 1) + i - 1 = d + i
      BY <1>6
    <3> HIDE DEF Rest
    <3> QED BY <1>1, <1>6, <3>2, <3>3
  <2>2. \A i \in 1..(Len(keys) - d) : d + i \in 1..Len(keys)
    BY <1>1, <1>6
  <2> DEFINE r == Rest(d)
  <2>3. DOMAIN keys = 1..Len(keys) /\ DOMAIN r = 1..(Len(keys) - d)
    BY <1>1, <1>6, <2>1
  <2> HIDE DEF r, Rest
  <2>4. ToSet(r) \subseteq ToSet(keys)
    BY <2>1, <2>2, <2>3 DEF ToSet, r
  <2> QED BY <2>1, <2>4 DEF r
<1> QED BY <1>6, <1>7, <1>8

-----------------------------------------------------------------------------
(* The inductive invariant                                                 *)

Books == [count : [Settlement -> Nat], total : Nat, log : Seq(Exchange),
          cache : Seq(Exchange), bytesOf : [Exchange -> Nat], evicted : Int]

Way == [at : {"page", "request", "body", "answer", "refusal", "lost"},
        sent : Nat, bytes : Nat]

ExchangeTypeOK ==
    /\ dispatched \in [Exchange -> {"new", "posted"} \union DispatchOutcome]
    /\ wire \in [Exchange -> Way]
    /\ books \in Books
    /\ server \in [status : {"stopped", "listening", "stopping", "crashed"},
                   dispatched : Nat, refused : Nat]

\* What an exchange is to be counted as, from what its caller saw and from the
\* sizes on the wire.
BookedAs(x) ==
    IF dispatched[x] \in {"delivered", "overLimit"}
    THEN IF Oversized(x) THEN "refused" ELSE "completed"
    ELSE dispatched[x]

SettledAs(o) == {x \in Exchange : BookedAs(x) = o}

\* What the server has answered, as far as that is known: the answer is on its
\* way, or has come.
Handled == {x \in Exchange : wire[x].at = "answer"}

\* An answer that has come stays what it was.
WayOK == \A x \in Exchange : dispatched[x] \in {"delivered", "overLimit"} =>
                                    wire[x].at = "answer"

CountsOK ==
    /\ \A o \in Settlement : books.count[o] = Cardinality(SettledAs(o))
    /\ books.total = SumFunctionOnSet(books.count, Settlement)

HandledOK == Cardinality(Handled) <= server.dispatched

CacheOK ==
    /\ CacheBytes(books.cache, books.bytesOf) <= maxCacheTotalBytes
    /\ Len(books.cache) <= maxCacheEntries /\ Len(books.log) <= maxLogEntries
    /\ \A x \in ToSet(books.cache) :
            BookedAs(x) = "completed" /\ books.bytesOf[x] = wire[x].bytes

ExchangeInv == ExchangeTypeOK /\ WayOK /\ CountsOK /\ HandledOK /\ CacheOK

-----------------------------------------------------------------------------

\* An exchange settles: its outcome, and only that, counts one more.
LEMMA SettlingCounts ==
    ASSUME ExchangeInv, NEW x \in Exchange, dispatched[x] \in {"new", "posted"},
           NEW q \in DispatchOutcome, Settle(x, q), UNCHANGED wire,
           NEW o \in Settlement, BookedAs(x)' = o, NEW b \in Books,
           b.total = books.total + 1,
           b.count = [books.count EXCEPT ![o] = @ + 1], books' = b
    PROVE  CountsOK'
<1> USE ExchangeAssumption DEF ExchangeInv, ExchangeTypeOK
<1>1. \A p \in Settlement : IsFiniteSet(SettledAs(p)) /\ SettledAs(p) \subseteq Exchange
  BY FS_Subset DEF SettledAs
<1>0. \A y \in Exchange \ {x} : BookedAs(y)' = BookedAs(y)
  BY DEF Settle, BookedAs, Oversized
<1>2. x \notin SettledAs(o) /\ \A p \in Settlement : x \notin SettledAs(p)
  BY DEF SettledAs, BookedAs, Settlement
<1>3. SettledAs(o)' = SettledAs(o) \union {x}
  BY <1>0 DEF SettledAs
<1>4. Cardinality(SettledAs(o)') = Cardinality(SettledAs(o)) + 1
  <2>1. IsFiniteSet(SettledAs(o)) /\ x \notin SettledAs(o)
    BY <1>1, <1>2
  <2>2. Cardinality(SettledAs(o) \union {x}) = Cardinality(SettledAs(o)) + 1
    BY <2>1, FS_AddElement
  <2> QED BY <1>3, <2>2
<1>5. \A p \in Settlement \ {o} : SettledAs(p)' = SettledAs(p)
  BY <1>0, <1>2 DEF SettledAs
<1> DEFINE count == books.count
           next == [count EXCEPT ![o] = @ + 1]
<1>6. count \in [Settlement -> Nat] /\ next \in [Settlement -> Nat]
  <2>1. count \in [Settlement -> Nat]
    BY DEF Books
  <2> HIDE DEF count
  <2> QED BY <2>1
<1>7. \A p \in Settlement : next[p] = Cardinality(SettledAs(p)')
  <2>1. \A p \in Settlement : count[p] = Cardinality(SettledAs(p))
    BY DEF CountsOK
  <2> HIDE DEF count
  <2> QED BY <1>4, <1>5, <1>6, <2>1
<1>8. IsFiniteSet(Settlement)
  <2>1. IsFiniteSet({"completed"} \union {"refused"} \union {"failed"} \union {"cancelled"})
    BY FS_Singleton, FS_Union
  <2>2. Settlement = {"completed"} \union {"refused"} \union {"failed"} \union {"cancelled"}
    BY DEF Settlement
  <2> QED BY <2>1, <2>2
<1>9. SumFunctionOnSet(next, Settlement) = SumFunctionOnSet(count, Settlement) + 1
  <2>1. next[o] = count[o] + 1 /\ \A p \in Settlement \ {o} : next[p] = count[p]
    BY <1>6
  <2>2. IsFiniteSet(Settlement \ {o})
    BY <1>8, FS_Subset
  <2> HIDE DEF count, next
  <2>3. /\ SumFunctionOnSet(next, Settlement) =
             next[o] + SumFunctionOnSet(next, Settlement \ {o})
        /\ SumFunctionOnSet(count, Settlement) =
             count[o] + SumFunctionOnSet(count, Settlement \ {o})
    BY <1>6, <1>8, SumRemove
  <2>4. SumFunctionOnSet(next, Settlement \ {o}) = SumFunctionOnSet(count, Settlement \ {o})
    BY <2>1, <2>2, SumAgree
  <2>5. SumFunctionOnSet(count, Settlement \ {o}) \in Nat /\ count[o] \in Nat
    BY <1>6, <2>2, SumType
  <2> QED BY <2>1, <2>3, <2>4, <2>5
<1>10. books'.count = next /\ books'.total = SumFunctionOnSet(next, Settlement)
  BY <1>9 DEF CountsOK
<1> HIDE DEF next
<1> QED BY <1>7, <1>10 DEF CountsOK

\* A log entry more, and one less where the log is full.
LEMMA CountedFields ==
    ASSUME ExchangeInv, NEW x \in Exchange, NEW o \in Settlement
    PROVE  LET b == Counted(books, x, o)
           IN /\ b \in Books /\ b.total = books.total + 1
              /\ b.count = [books.count EXCEPT ![o] = @ + 1]
              /\ b.cache = books.cache /\ b.bytesOf = books.bytesOf
              /\ Len(b.log) <= maxLogEntries
<1> USE ExchangeAssumption DEF ExchangeInv, ExchangeTypeOK
<1>1. /\ books.log \in Seq(Exchange) /\ Len(books.log) <= maxLogEntries
      /\ maxLogEntries \in Nat \ {0}
      /\ books.count \in [Settlement -> Nat] /\ books.total \in Nat
  BY DEF Books, CacheOK
<1> DEFINE log == Append(books.log, x)
           kept == IF Len(log) > maxLogEntries THEN Tail(log) ELSE log
           total == books.total + 1
           count == [books.count EXCEPT ![o] = @ + 1]
<1>2. kept \in Seq(Exchange) /\ Len(kept) <= maxLogEntries
  <2>1. log \in Seq(Exchange) /\ Len(log) = Len(books.log) + 1 /\ Len(books.log) \in Nat
    BY <1>1
  <2> HIDE DEF log
  <2>2. Tail(log) \in Seq(Exchange) /\ Len(Tail(log)) = Len(log) - 1
    BY <2>1, HeadTailProperties
  <2> QED BY <1>1, <2>1, <2>2
<1>3. total \in Nat /\ count \in [Settlement -> Nat]
  <2>1. books.total \in Nat /\ books.count \in [Settlement -> Nat]
    BY <1>1
  <2>2. books.count[o] + 1 \in Nat
    BY <2>1
  <2> QED BY <2>1, <2>2
<1>4. Counted(books, x, o) =
        [[books EXCEPT !.log = kept] EXCEPT !.total = total, !.count = count]
  BY DEF Counted, Logged, Books
<1> HIDE DEF kept, total, count
<1>5. LET b == [[books EXCEPT !.log = kept] EXCEPT !.total = total, !.count = count]
      IN /\ b \in Books /\ b.total = total /\ b.count = count
         /\ b.cache = books.cache /\ b.bytesOf = books.bytesOf /\ b.log = kept
  BY <1>2, <1>3 DEF Books
<1> QED BY <1>2, <1>4, <1>5 DEF total, count

\* An answer counts once it has been handled, and what is no answer any more
\* does not count.
LEMMA HandledStays ==
    ASSUME ExchangeInv, server.dispatched <= server'.dispatched,
           server'.dispatched \in Nat, Handled' \subseteq Handled
    PROVE  HandledOK'
<1>1. IsFiniteSet(Handled) /\ Handled \subseteq Exchange
  BY ExchangeAssumption, FS_Subset DEF Handled
<1>2. /\ Cardinality(Handled') <= Cardinality(Handled)
      /\ Cardinality(Handled) \in Nat /\ Cardinality(Handled') \in Nat
  BY <1>1, FS_Subset, FS_CardinalityType
<1>3. server.dispatched \in Nat /\ Cardinality(Handled) <= server.dispatched
  BY DEF ExchangeInv, ExchangeTypeOK, HandledOK
<1> QED BY <1>2, <1>3 DEF HandledOK

\* An exchange is on its way: nothing settles and nothing is booked.
LEMMA WayKeeps ==
    ASSUME ExchangeInv, UNCHANGED books, HandledOK',
           dispatched' \in [Exchange -> {"new", "posted"} \union DispatchOutcome],
           wire' \in [Exchange -> Way],
           server' \in [status : {"stopped", "listening", "stopping", "crashed"},
                        dispatched : Nat, refused : Nat],
           \A x \in Exchange : \/ dispatched'[x] = dispatched[x]
                               \/ dispatched[x] = "new" /\ dispatched'[x] = "posted",
           \A x \in Exchange : wire[x].at = "answer" /\ dispatched[x] \in DispatchOutcome =>
                                    wire'[x] = wire[x]
    PROVE  ExchangeInv'
<1>0. \A x \in Exchange : dispatched[x] \in {"delivered", "overLimit"} =>
                                wire[x].at = "answer" /\ wire'[x] = wire[x]
  BY DEF ExchangeInv, WayOK, DispatchOutcome
<1>1. \A o \in Settlement : SettledAs(o)' = SettledAs(o)
  <2>1. \A x \in Exchange : BookedAs(x)' = BookedAs(x) \/
                             {BookedAs(x), BookedAs(x)'} \subseteq {"new", "posted"}
    BY <1>0 DEF BookedAs, Oversized
  <2> QED BY <2>1 DEF SettledAs, Settlement
<1>2. CountsOK'
  BY <1>1 DEF ExchangeInv, CountsOK
<1>3. CacheOK'
  <2>1. ToSet(books.cache) \subseteq Exchange
    BY DEF ExchangeInv, ExchangeTypeOK, Books, ToSet
  <2>2. \A x \in Exchange : BookedAs(x) = "completed" =>
                /\ BookedAs(x)' = "completed" /\ wire'[x] = wire[x]
    <3>1. \A x \in Exchange : BookedAs(x) = "completed" =>
                dispatched[x] \in {"delivered", "overLimit"}
      BY DEF BookedAs, ExchangeInv, ExchangeTypeOK, DispatchOutcome
    <3> QED BY <1>0, <3>1 DEF BookedAs, Oversized
  <2> QED BY <2>1, <2>2 DEF ExchangeInv, CacheOK
<1>4. WayOK'
  BY <1>0 DEF WayOK
<1> QED BY <1>2, <1>3, <1>4 DEF ExchangeInv, ExchangeTypeOK

\* The page and its connections.
LEMMA ConnectionKeeps ==
    ASSUME ExchangeInv, NEW x \in Exchange,
           \/ \E sent \in RequestBytes : DispatchPosts(x, sent) /\ x \notin signalled
           \/ AbortExchange(x) \/ RefuseRequest(x) \/ ReadBody(x)
           \/ LoseExchange(x) \/ BodyBreaksOff(x)
    PROVE  ExchangeInv'
<1> USE DEF ExchangeInv, ExchangeTypeOK
<1>1. /\ UNCHANGED books
      /\ dispatched' \in [Exchange -> {"new", "posted"} \union DispatchOutcome]
      /\ \A y \in Exchange : \/ dispatched'[y] = dispatched[y]
                             \/ dispatched[y] = "new" /\ dispatched'[y] = "posted"
  BY DEF DispatchPosts, AbortExchange, RefuseRequest, ReadBody, LoseExchange,
         BodyBreaksOff, Settle
<1>2. /\ wire' \in [Exchange -> Way]
      /\ \A y \in Exchange : wire'[y].at = "answer" => wire[y].at = "answer"
      /\ \A y \in Exchange : wire[y].at = "answer" /\ dispatched[y] \in DispatchOutcome =>
                                    wire'[y] = wire[y]
  <2>1. CASE \E sent \in RequestBytes : DispatchPosts(x, sent) /\ x \notin signalled
    <3>1. PICK sent \in RequestBytes : DispatchPosts(x, sent) /\ x \notin signalled
      BY <2>1
    <3>2. sent \in Nat
      BY ExchangeAssumption
    <3>3. [at |-> "request", sent |-> sent, bytes |-> 0] \in Way
      BY <3>2 DEF Way
    <3>4. /\ wire' = [wire EXCEPT ![x] = [at |-> "request", sent |-> sent, bytes |-> 0]]
          /\ dispatched[x] = "new"
      BY <3>1 DEF DispatchPosts
    <3> QED BY <3>3, <3>4 DEF DispatchOutcome
  <2>2. CASE AbortExchange(x)
    BY <2>2 DEF AbortExchange
  <2>3. CASE RefuseRequest(x) \/ ReadBody(x)
    <3>1. PICK place \in {"refusal", "body"} : Reach(x, place, 0)
      BY <2>3 DEF RefuseRequest, ReadBody
    <3>2. wire[x].at = "request"
      BY <2>3 DEF RefuseRequest, ReadBody
    <3> QED BY <3>1, <3>2 DEF Reach, Way
  <2>4. CASE LoseExchange(x)
    BY <2>4 DEF LoseExchange, Reach, Way
  <2>5. CASE BodyBreaksOff(x)
    BY <2>5 DEF BodyBreaksOff, Way
  <2> QED BY <2>1, <2>2, <2>3, <2>4, <2>5
<1>3. /\ server' \in [status : {"stopped", "listening", "stopping", "crashed"},
                       dispatched : Nat, refused : Nat]
      /\ server'.dispatched = server.dispatched
  <2>1. CASE RefuseRequest(x)
    <3> DEFINE n == server.refused + 1
    <3>1. server' = [server EXCEPT !.refused = n] /\ n \in Nat
      BY <2>1 DEF RefuseRequest
    <3> HIDE DEF n
    <3> QED BY <3>1
  <2>2. CASE BodyBreaksOff(x)
    BY <2>2 DEF BodyBreaksOff
  <2>3. CASE UNCHANGED server
    BY <2>3
  <2> QED BY <2>1, <2>2, <2>3 DEF DispatchPosts, AbortExchange, ReadBody, LoseExchange
<1>4. HandledOK'
  <2>1. Handled' \subseteq Handled
    BY <1>2 DEF Handled
  <2>2. server.dispatched <= server'.dispatched /\ server'.dispatched \in Nat
    BY <1>3
  <2> QED BY <2>1, <2>2, HandledStays
<1> QED BY <1>1, <1>2, <1>3, <1>4, WayKeeps

\* The server starts, stops, and answers what it has read.
LEMMA ServerKeeps ==
    ASSUME ExchangeInv,
           \/ StartServer \/ StopServer
           \/ \E x \in Exchange, bytes \in EnvelopeBytes : HandlePost(x, bytes)
    PROVE  ExchangeInv'
<1> USE DEF ExchangeInv, ExchangeTypeOK
<1>1. CASE StartServer \/ StopServer
  <2>1. /\ UNCHANGED <<dispatched, wire, books>>
        /\ server' \in [status : {"stopped", "listening", "stopping", "crashed"},
                         dispatched : Nat, refused : Nat]
        /\ server'.dispatched = server.dispatched
    BY <1>1 DEF StartServer, StopServer
  <2>2. HandledOK'
    <3>1. Handled' = Handled
      BY <2>1 DEF Handled
    <3>2. server.dispatched <= server'.dispatched /\ server'.dispatched \in Nat
      BY <2>1
    <3> QED BY <3>1, <3>2, HandledStays
  <2> QED BY <2>1, <2>2, WayKeeps
<1>2. ASSUME NEW x \in Exchange, NEW bytes \in EnvelopeBytes, HandlePost(x, bytes)
      PROVE  ExchangeInv'
  <2> DEFINE n == server.dispatched + 1
             m == IF bytes > maxServedBytes THEN 1 ELSE bytes
  <2>1. /\ server' = [server EXCEPT !.dispatched = n]
        /\ wire' = [wire EXCEPT ![x].at = "answer", ![x].bytes = m]
        /\ wire[x].at = "body" /\ UNCHANGED <<dispatched, books>>
    BY <1>2 DEF HandlePost, Reach
  <2>2. n \in Nat /\ m \in Nat
    BY ExchangeAssumption
  <2> HIDE DEF m
  <2>8. /\ wire' \in [Exchange -> Way] /\ wire'[x].at = "answer"
        /\ \A y \in Exchange \ {x} : wire'[y] = wire[y]
    BY <2>1, <2>2 DEF Way
  <2>3. IsFiniteSet(Handled) /\ Handled \subseteq Exchange
    BY ExchangeAssumption, FS_Subset DEF Handled
  <2>4. Handled' = Handled \union {x}
    BY <2>8 DEF Handled
  <2>5. Cardinality(Handled') <= Cardinality(Handled) + 1 /\ Cardinality(Handled) \in Nat
    <3>1. Cardinality(Handled) \in Nat
      BY <2>3, FS_CardinalityType
    <3>2. CASE x \in Handled
      <4>1. Handled' = Handled
        BY <2>4, <3>2
      <4> QED BY <3>1, <4>1
    <3>3. CASE x \notin Handled
      <4>1. Cardinality(Handled \union {x}) = Cardinality(Handled) + 1
        BY <2>3, <3>3, FS_AddElement
      <4> QED BY <2>4, <3>1, <4>1
    <3> QED BY <3>1, <3>2, <3>3
  <2>6. server'.dispatched = n
    <3> HIDE DEF n
    <3> QED BY <2>1
  <2>7. HandledOK'
    <3>1. Cardinality(Handled) <= server.dispatched /\ server.dispatched \in Nat
      BY DEF HandledOK
    <3>2. Cardinality(Handled') \in Nat
      BY <2>3, <2>4, FS_AddElement, FS_CardinalityType
    <3> QED BY <2>5, <2>6, <3>1, <3>2 DEF HandledOK
  <2>9. server' \in [status : {"stopped", "listening", "stopping", "crashed"},
                      dispatched : Nat, refused : Nat]
    <3> HIDE DEF n
    <3> QED BY <2>1, <2>2
  <2>10. \A y \in Exchange : wire[y].at = "answer" => wire'[y] = wire[y]
    BY <2>1, <2>8
  <2> HIDE DEF n
  <2> QED BY <2>1, <2>7, <2>8, <2>9, <2>10, WayKeeps
<1> QED BY <1>1, <1>2

\* What the page settles itself, failed or cancelled.
LEMMA SettlesUnanswered ==
    ASSUME ExchangeInv, NEW x \in Exchange, dispatched[x] \in {"new", "posted"},
           NEW o \in {"failed", "cancelled"}, Settle(x, o), Record(x, o),
           UNCHANGED <<wire, server>>
    PROVE  ExchangeInv'
<1> USE DEF ExchangeInv, ExchangeTypeOK
<1> DEFINE b == Counted(books, x, o)
<1>1. /\ o \in Settlement /\ o \in DispatchOutcome
      /\ dispatched' = [dispatched EXCEPT ![x] = o] /\ books' = b
  BY DEF Settle, Record, Settlement, DispatchOutcome
<1>0. /\ BookedAs(x)' = o
      /\ \A y \in Exchange : BookedAs(y) = "completed" => BookedAs(y)' = "completed"
  BY <1>1 DEF BookedAs, Oversized
<1>2. /\ b \in Books /\ b.total = books.total + 1
      /\ b.count = [books.count EXCEPT ![o] = @ + 1]
      /\ b.cache = books.cache /\ b.bytesOf = books.bytesOf
      /\ Len(b.log) <= maxLogEntries
  BY <1>1, CountedFields
<1> HIDE DEF b
<1>3. CountsOK'
  BY <1>0, <1>1, <1>2, SettlingCounts
<1>4. HandledOK'
  <2>1. Handled' \subseteq Handled
    BY DEF Handled
  <2>2. server.dispatched <= server'.dispatched /\ server'.dispatched \in Nat
    OBVIOUS
  <2> QED BY <2>1, <2>2, HandledStays
<1>5. CacheOK'
  <2>1. ToSet(books.cache) \subseteq Exchange
    BY DEF Books, ToSet
  <2> QED BY <1>0, <1>1, <1>2, <2>1 DEF CacheOK
<1>6. WayOK'
  BY <1>1 DEF WayOK
<1>7. ExchangeTypeOK'
  BY <1>1, <1>2
<1> QED BY <1>3, <1>4, <1>5, <1>6, <1>7

\* An answer that was received is cached, or too large to be.
LEMMA AnswerSettles ==
    ASSUME ExchangeInv, NEW x \in Exchange, PostAnswers(x)
    PROVE  ExchangeInv'
<1> USE DEF ExchangeInv, ExchangeTypeOK
<1> DEFINE bytes == wire[x].bytes
           q == IF bytes > maxResponseBytes THEN "overLimit" ELSE "delivered"
           o == IF Oversized(x) THEN "refused" ELSE "completed"
           c == Counted(books, x, o)
           b == IF o = "refused" THEN c ELSE AdmitCache(c, x, bytes)
<1>1. /\ o \in {"refused", "completed"} /\ o \in Settlement /\ bytes \in Nat
      /\ q \in {"delivered", "overLimit"} /\ q \in DispatchOutcome
      /\ dispatched[x] = "posted" /\ wire[x].at = "answer"
      /\ Settle(x, q) /\ UNCHANGED <<wire, server>>
  BY DEF PostAnswers, Settlement, DispatchOutcome, Way
<1>10. books' = b
  BY DEF PostAnswers, RecordCompleted
<1>11. dispatched' = [dispatched EXCEPT ![x] = q]
  BY <1>1 DEF Settle
<1>2. /\ c \in Books /\ c.total = books.total + 1
      /\ c.count = [books.count EXCEPT ![o] = @ + 1]
      /\ c.cache = books.cache /\ c.bytesOf = books.bytesOf
      /\ Len(c.log) <= maxLogEntries
  BY <1>1, CountedFields
<1>12. /\ Oversized(x)' = Oversized(x)
       /\ o = IF Oversized(x) THEN "refused" ELSE "completed"
  BY <1>1 DEF Oversized
<1> HIDE DEF o, q, bytes, c
<1>13. /\ BookedAs(x)' = o
       /\ \A y \in Exchange : BookedAs(y) = "completed" =>
                                    y # x /\ BookedAs(y)' = "completed"
  <2>1. BookedAs(x)' = o
    BY <1>1, <1>11, <1>12 DEF BookedAs
  <2>2. BookedAs(x) # "completed"
    BY <1>1 DEF BookedAs
  <2>3. \A y \in Exchange \ {x} : dispatched'[y] = dispatched[y]
    BY <1>11
  <2>4. \A y \in Exchange \ {x} : BookedAs(y)' = BookedAs(y)
    BY <1>1, <2>3 DEF BookedAs, Oversized
  <2> QED BY <2>1, <2>2, <2>4
<1>3. /\ b \in Books /\ b.total = c.total /\ b.count = c.count /\ b.log = c.log
      /\ CacheBytes(b.cache, b.bytesOf) <= maxCacheTotalBytes
      /\ Len(b.cache) <= maxCacheEntries
      /\ \A y \in ToSet(b.cache) :
            /\ BookedAs(y) = "completed" \/ (y = x /\ o = "completed")
            /\ b.bytesOf[y] = wire[y].bytes
  <2>1. CASE o = "refused"
    <3>1. b = c
      BY <2>1
    <3>2. /\ CacheBytes(c.cache, c.bytesOf) <= maxCacheTotalBytes
          /\ Len(c.cache) <= maxCacheEntries
          /\ \A y \in ToSet(c.cache) :
                BookedAs(y) = "completed" /\ c.bytesOf[y] = wire[y].bytes
      BY <1>2 DEF CacheOK
    <3> HIDE DEF b
    <3> QED BY <1>2, <3>1, <3>2
  <2>2. CASE o = "completed"
    <3> DEFINE grown == Append(KeysWithout(c.cache, {x}), x)
               bytesOf == [c.bytesOf EXCEPT ![x] = bytes]
               keys == Kept(grown, bytesOf)
               kept == [y \in Exchange |-> IF y \in ToSet(keys) THEN bytesOf[y] ELSE 0]
               evicted == c.evicted + Len(grown) - Len(keys)
    <3>1. /\ grown \in Seq(Exchange) /\ bytesOf \in [Exchange -> Nat]
          /\ ToSet(grown) \subseteq ToSet(books.cache) \union {x}
      <4>1. c.cache \in Seq(Exchange) /\ c.bytesOf \in [Exchange -> Nat]
        BY <1>2 DEF Books
      <4>2. /\ KeysWithout(c.cache, {x}) \in Seq(Exchange)
            /\ ToSet(KeysWithout(c.cache, {x})) \subseteq ToSet(c.cache)
        BY <4>1, KeysWithoutFacts
      <4>3. /\ grown \in Seq(Exchange)
            /\ ToSet(grown) = ToSet(KeysWithout(c.cache, {x})) \union {x}
        <5> DEFINE others == KeysWithout(c.cache, {x})
        <5>1. others \in Seq(Exchange)
          BY <4>2
        <5> HIDE DEF others
        <5>2. /\ Append(others, x) \in Seq(Exchange)
              /\ ToSet(Append(others, x)) = ToSet(others) \union {x}
          BY <5>1, AppendSet
        <5> QED BY <5>2 DEF others
      <4>4. bytesOf \in [Exchange -> Nat]
        BY <1>1, <4>1
      <4> HIDE DEF grown, bytesOf
      <4> QED BY <1>2, <4>2, <4>3, <4>4
    <3>9. bytesOf[x] = wire[x].bytes /\ \A y \in Exchange \ {x} : bytesOf[y] = books.bytesOf[y]
      BY <1>2 DEF Books, bytes
    <3> HIDE DEF grown, bytesOf
    <3>2. /\ keys \in Seq(Exchange) /\ ToSet(keys) \subseteq ToSet(grown)
          /\ Len(keys) <= maxCacheEntries
          /\ CacheBytes(keys, bytesOf) <= maxCacheTotalBytes
      <4>1. maxCacheTotalBytes \in Nat /\ maxCacheEntries \in Nat
        BY ExchangeAssumption
      <4> QED BY <3>1, <4>1, ExchangeAssumption, KeptFits
    <3> HIDE DEF keys
    <3>3. /\ ToSet(keys) \subseteq Exchange /\ kept \in [Exchange -> Nat]
          /\ \A y \in ToSet(keys) : kept[y] = bytesOf[y]
      BY <3>1, <3>2 DEF ToSet
    <3>4. CacheBytes(keys, kept) = CacheBytes(keys, bytesOf)
      <4>1. \A y \in ToSet(keys) : kept[y] = bytesOf[y]
        BY <3>3
      <4>2. IsFiniteSet(ToSet(keys))
        BY <3>3, ExchangeAssumption, FS_Subset
      <4> HIDE DEF kept
      <4> QED BY <4>1, <4>2, SumAgree DEF CacheBytes
    <3>5. evicted \in Int
      BY <1>2, <3>1, <3>2 DEF Books
    <3>6. b = [c EXCEPT !.cache = keys, !.bytesOf = kept, !.evicted = evicted]
      BY <2>2 DEF AdmitCache, Cached, grown, bytesOf, keys
    <3> HIDE DEF kept, evicted, b
    <3>7. /\ b \in Books /\ b.total = c.total /\ b.count = c.count /\ b.log = c.log
          /\ b.cache = keys /\ b.bytesOf = kept
      BY <1>2, <3>2, <3>3, <3>5, <3>6 DEF Books
    <3>8. \A y \in ToSet(b.cache) :
            (BookedAs(y) = "completed" \/ y = x) /\ b.bytesOf[y] = wire[y].bytes
      <4> SUFFICES ASSUME NEW y \in ToSet(keys)
                   PROVE  (BookedAs(y) = "completed" \/ y = x) /\ kept[y] = wire[y].bytes
        BY <3>7
      <4>1. y \in Exchange /\ kept[y] = bytesOf[y] /\ (y \in ToSet(books.cache) \/ y = x)
        BY <3>1, <3>2, <3>3
      <4>2. CASE y = x
        BY <3>9, <4>1, <4>2
      <4>3. CASE y # x
        BY <3>9, <4>1, <4>3 DEF CacheOK
      <4> QED BY <4>2, <4>3
    <3> QED BY <2>2, <3>2, <3>4, <3>7, <3>8
  <2> QED BY <1>1, <2>1, <2>2
<1> HIDE DEF b
<1>4. CountsOK'
  BY <1>1, <1>2, <1>3, <1>10, <1>13, SettlingCounts
<1>5. HandledOK'
  <2>1. Handled' \subseteq Handled
    BY <1>1 DEF Handled
  <2>2. server.dispatched <= server'.dispatched /\ server'.dispatched \in Nat
    BY <1>1
  <2> QED BY <2>1, <2>2, HandledStays
<1>6. CacheOK'
  <2>1. ToSet(b.cache) \subseteq Exchange
    BY <1>3 DEF Books, ToSet
  <2>2. Len(b.log) <= maxLogEntries
    BY <1>2, <1>3
  <2> QED BY <1>1, <1>3, <1>10, <1>13, <2>1, <2>2 DEF CacheOK
<1>7. dispatched' \in [Exchange -> {"new", "posted"} \union DispatchOutcome]
  BY <1>1, <1>11
<1>8. WayOK'
  BY <1>1, <1>11 DEF WayOK
<1> QED BY <1>1, <1>3, <1>4, <1>5, <1>6, <1>7, <1>8, <1>10

\* A reset empties the log and the cache.
LEMMA ResetKeeps ==
    ASSUME ExchangeInv, ResetVolatile
    PROVE  ExchangeInv'
<1> USE DEF ExchangeInv, ExchangeTypeOK
<1> DEFINE none == [x \in Exchange |-> 0]
           b == [books EXCEPT !.log = <<>>, !.cache = <<>>, !.bytesOf = none]
<1>1. books' = b /\ UNCHANGED <<dispatched, wire, server>>
  BY DEF ResetVolatile
<1>2. none \in [Exchange -> Nat]
  OBVIOUS
<1> HIDE DEF none
<1>3. /\ b \in Books /\ b.total = books.total /\ b.count = books.count
      /\ b.cache = <<>> /\ b.log = <<>> /\ b.bytesOf = none
  <2>1. <<>> \in Seq(Exchange)
    OBVIOUS
  <2> QED BY <1>2, <2>1 DEF Books
<1> HIDE DEF b
<1>4. CountsOK' /\ HandledOK'
  BY <1>1, <1>3 DEF CountsOK, HandledOK, SettledAs, Handled, BookedAs, Oversized
<1>5. CacheOK'
  <2>1. ToSet(<<>>) = {} /\ Len(<<>>) = 0
    BY DEF ToSet
  <2>2. CacheBytes(<<>>, none) = 0
    BY <2>1, SumEmpty DEF CacheBytes
  <2> QED BY <1>1, <1>3, <2>1, <2>2, ExchangeAssumption DEF CacheOK
<1>6. WayOK'
  BY <1>1 DEF WayOK
<1> QED BY <1>1, <1>3, <1>4, <1>5, <1>6

\* Nothing has been dispatched, and the books are empty.
LEMMA ExchangeStarts ==
    ASSUME ExchangeInit
    PROVE  ExchangeInv
<1> USE DEF ExchangeInit
<1>1. ToSet(<<>>) = {} /\ Len(<<>>) = 0 /\ <<>> \in Seq(Exchange)
  BY DEF ToSet
<1>2. ExchangeTypeOK
  BY <1>1 DEF ExchangeTypeOK, Books, Way
<1>3. books.count = [o \in Settlement |-> 0] /\ books.total = 0
  OBVIOUS
<1>4. IsFiniteSet(Settlement)
  <2>1. IsFiniteSet({"completed"} \union {"refused"} \union {"failed"} \union {"cancelled"})
    BY FS_Singleton, FS_Union
  <2>2. Settlement = {"completed"} \union {"refused"} \union {"failed"} \union {"cancelled"}
    BY DEF Settlement
  <2> QED BY <2>1, <2>2
<1>5. \A o \in Settlement : Cardinality(SettledAs(o)) = 0
  <2>1. \A o \in Settlement : SettledAs(o) = {}
    BY DEF SettledAs, BookedAs, Settlement
  <2> QED BY <2>1, FS_EmptySet
<1>6. SumFunctionOnSet(books.count, Settlement) = 0
  <2> DEFINE count == books.count
  <2>0. \A o \in Settlement : count[o] = 0
    BY <1>3
  <2> HIDE DEF count
  <2>1. \A S \in SUBSET Settlement : IsFiniteSet(S)
    BY <1>4, FS_Subset
  <2>2. \A S \in SUBSET Settlement : \A o \in S :
            SumFunctionOnSet(count, S) = SumFunctionOnSet(count, S \ {o})
    <3> SUFFICES ASSUME NEW S \in SUBSET Settlement, NEW o \in S
                 PROVE  SumFunctionOnSet(count, S) = SumFunctionOnSet(count, S \ {o})
      OBVIOUS
    <3>1. IsFiniteSet(S) /\ IsFiniteSet(S \ {o})
      BY <2>1
    <3>2. /\ SumFunctionOnSet(count, S) = count[o] + SumFunctionOnSet(count, S \ {o})
          /\ SumFunctionOnSet(count, S \ {o}) \in Nat
      BY <2>0, <3>1, SumRemove, SumType
    <3> QED BY <2>0, <3>2
  <2> DEFINE A == Settlement \ {"completed"}
             B == A \ {"refused"}
             C == B \ {"failed"}
  <2>3. C \ {"cancelled"} = {}
    BY DEF Settlement
  <2>4. SumFunctionOnSet(count, Settlement) = SumFunctionOnSet(count, C \ {"cancelled"})
    <3>0. /\ Settlement \in SUBSET Settlement /\ A \in SUBSET Settlement
          /\ B \in SUBSET Settlement /\ C \in SUBSET Settlement
          /\ "completed" \in Settlement /\ "refused" \in A /\ "failed" \in B
          /\ "cancelled" \in C
      BY DEF Settlement
    <3> HIDE DEF A, B, C
    <3>1. SumFunctionOnSet(count, Settlement) = SumFunctionOnSet(count, A)
      BY <2>2, <3>0 DEF A
    <3>2. SumFunctionOnSet(count, A) = SumFunctionOnSet(count, B)
      BY <2>2, <3>0 DEF B
    <3>3. SumFunctionOnSet(count, B) = SumFunctionOnSet(count, C)
      BY <2>2, <3>0 DEF C
    <3>4. SumFunctionOnSet(count, C) = SumFunctionOnSet(count, C \ {"cancelled"})
      BY <2>2, <3>0
    <3> QED BY <3>1, <3>2, <3>3, <3>4
  <2> QED BY <2>3, <2>4, SumEmpty DEF count
<1>7. CountsOK
  BY <1>3, <1>5, <1>6 DEF CountsOK
<1>8. HandledOK
  <2>1. Handled = {}
    BY DEF Handled
  <2> QED BY <2>1, FS_EmptySet DEF HandledOK
<1>9. CacheOK
  <2>1. CacheBytes(<<>>, books.bytesOf) = 0
    BY <1>1, SumEmpty DEF CacheBytes
  <2> QED BY <1>1, <2>1, ExchangeAssumption DEF CacheOK
<1>10. WayOK
  BY DEF WayOK
<1> QED BY <1>2, <1>7, <1>8, <1>9, <1>10 DEF ExchangeInv

\* The invariant holds throughout.
LEMMA ExchangeAlways == ExchangeSpec => []ExchangeInv
<1>1. ExchangeInv /\ [ExchangeNext]_exchangeVars => ExchangeInv'
  <2> SUFFICES ASSUME ExchangeInv, [ExchangeNext]_exchangeVars PROVE ExchangeInv'
    OBVIOUS
  <2>1. ASSUME NEW x \in Exchange,
               \/ DispatchFails(x)
               \/ \E sent \in RequestBytes : DispatchPosts(x, sent) /\ x \in signalled
               \/ PostFails(x) \/ PostUnusable(x)
        PROVE  ExchangeInv'
    BY <2>1, SettlesUnanswered DEF DispatchFails, DispatchPosts, PostFails, PostUnusable
  <2>2. CASE UNCHANGED exchangeVars
    BY <2>2 DEF exchangeVars, ExchangeInv, ExchangeTypeOK, CountsOK, HandledOK,
                CacheOK, WayOK, SettledAs, Handled, BookedAs, Oversized
  <2>3. CASE ExchangeNext
    BY <2>1, <2>3, ConnectionKeeps, ServerKeeps, AnswerSettles, ResetKeeps
       DEF ExchangeNext
  <2> QED BY <2>2, <2>3
<1>2. ExchangeInit => ExchangeInv
  BY ExchangeStarts
<1> QED BY <1>1, <1>2, PTL DEF ExchangeSpec

\* Whatever aborts, breaks off or stops: each dispatch that settles is booked
\* once, from what its caller saw and the sizes on the wire; the server has
\* handled every one that was answered, and the cache is bounded and true.
THEOREM DispatchesAreAccounted == ExchangeSpec => []ExchangeAccounted
<1>1. ExchangeInv => ExchangeAccounted
  <2> SUFFICES ASSUME ExchangeInv PROVE ExchangeAccounted
    OBVIOUS
  <2>0. \A x \in Exchange : dispatched[x] \in {"new", "posted"} \union DispatchOutcome
    BY DEF ExchangeInv, ExchangeTypeOK
  <2>1. SettledAs("completed") = Arrived \ TooLarge
    BY <2>0 DEF SettledAs, BookedAs, Arrived, TooLarge, DispatchOutcome
  <2>2. SettledAs("refused") = TooLarge
    BY <2>0 DEF SettledAs, BookedAs, Arrived, TooLarge, DispatchOutcome
  <2>3. \A o \in {"failed", "cancelled"} :
            SettledAs(o) = {x \in Exchange : dispatched[x] = o}
    BY <2>0 DEF SettledAs, BookedAs, DispatchOutcome
  <2>4. Cardinality(Arrived) <= server.dispatched
    <3>1. IsFiniteSet(Handled) /\ Arrived \subseteq Handled
      BY ExchangeAssumption, FS_Subset DEF Handled, Arrived, ExchangeInv, WayOK
    <3>2. IsFiniteSet(Arrived) /\ Cardinality(Arrived) <= Cardinality(Handled)
      BY <3>1, FS_Subset
    <3>3. Cardinality(Arrived) \in Nat /\ Cardinality(Handled) \in Nat
      BY <3>1, <3>2, FS_CardinalityType
    <3>4. Cardinality(Handled) <= server.dispatched /\ server.dispatched \in Nat
      BY DEF ExchangeInv, ExchangeTypeOK, HandledOK
    <3> QED BY <3>2, <3>3, <3>4
  <2>5. /\ \A o \in Settlement : books.count[o] = Cardinality(SettledAs(o))
        /\ books.total = SumFunctionOnSet(books.count, Settlement)
    BY DEF ExchangeInv, CountsOK
  <2>6. \A x \in ToSet(books.cache) :
            x \in Arrived \ TooLarge /\ books.bytesOf[x] = wire[x].bytes
    <3>1. ToSet(books.cache) \subseteq Exchange
      BY DEF ExchangeInv, ExchangeTypeOK, Books, ToSet
    <3>2. \A x \in ToSet(books.cache) :
              BookedAs(x) = "completed" /\ books.bytesOf[x] = wire[x].bytes
      BY DEF ExchangeInv, CacheOK
    <3> QED BY <2>1, <3>1, <3>2 DEF SettledAs
  <2>7. {"completed", "refused", "failed", "cancelled"} \subseteq Settlement
    BY DEF Settlement
  <2> QED BY <2>1, <2>2, <2>3, <2>4, <2>5, <2>6, <2>7
          DEF ExchangeInv, CacheOK, ExchangeAccounted
<1> QED BY <1>1, ExchangeAlways, PTL

-----------------------------------------------------------------------------
(* TransformAuthority                                                      *)

\* The generations are numbers, and a grant carries none of the future.
GenerationsOK ==
    /\ safety.generation \in Nat /\ optIn.generation \in Nat
    /\ grant # NoGrant => /\ grant.optIn \in Nat
                          /\ grant.optIn <= optIn.generation

\* Every use of the lock or of the intent leaves the grant behind.
LeftBehind ==
    withdrawn /\ grant # NoGrant => grant.optIn < optIn.generation

\* The inductive invariant.
AuthorityInv ==
    GenerationsOK /\ LeftBehind /\ withdrawn \in BOOLEAN /\ GrantEndsWithIntent

-----------------------------------------------------------------------------
(* Lemmas: what the three chains of early returns may answer                *)

\* No refusal of the local permission is an authorization.
LEMMA LocalNeverAuthorizes ==
    ASSUME NEW locked, NEW capable, NEW denied
    PROVE  LocalVerdict(locked, capable, denied) # "authorized"
<1> DEFINE recorded == optIn.recorded
           rules == <<
        <<locked, "emergency-disabled">>,
        <<~capable, "capability-disabled">>,
        <<~recorded, "local-opt-in-required">>,
        <<denied, "adapter-denylisted">>,
        <<TRUE, "allowed">>>>
<1>1. /\ 5 \in Nat /\ DOMAIN rules = 1..5
      /\ \A i \in 1..5 : rules[i][2] # "authorized"
  <2> HIDE DEF recorded
  <2> QED OBVIOUS
<1>2. \E i \in 1..5 : rules[i][1]
  <2>1. rules[5][1]
    OBVIOUS
  <2> QED BY <2>1
<1>3. LocalVerdict(locked, capable, denied) = FirstRule(rules)
  BY DEF LocalVerdict
<1> HIDE DEF rules
<1>4. PICK i \in 1..5 : FirstRule(rules) = rules[i][2]
  BY <1>1, <1>2, FirstRuleIsFirst, Zenon
<1> QED BY <1>1, <1>3, <1>4

\* Nor is one of the approval.
LEMMA ApprovalNeverAuthorizes ==
    ASSUME NEW differs
    PROVE  ApprovalVerdict(differs) # "authorized"
<1> DEFINE early == authorityNow < validFrom
           expired == authorityNow >= validUntil
           rules == <<
        <<revokedApproval, "approval-revoked">>,
        <<early, "approval-not-yet-valid">>,
        <<expired, "approval-expired">>,
        <<differs # {}, "approval-mismatch">>,
        <<TRUE, "approved">>>>
<1>1. /\ 5 \in Nat /\ DOMAIN rules = 1..5
      /\ \A i \in 1..5 : rules[i][2] # "authorized"
  <2> HIDE DEF early, expired
  <2> QED OBVIOUS
<1>2. \E i \in 1..5 : rules[i][1]
  <2>1. rules[5][1]
    OBVIOUS
  <2> QED BY <2>1
<1>3. ApprovalVerdict(differs) = FirstRule(rules)
  BY DEF ApprovalVerdict
<1> HIDE DEF rules
<1>4. PICK i \in 1..5 : FirstRule(rules) = rules[i][2]
  BY <1>1, <1>2, FirstRuleIsFirst, Zenon
<1> QED BY <1>1, <1>3, <1>4

\* A grant authorizes only under the generations it was issued under.
LEMMA GrantAuthorizes ==
    ASSUME NEW g, NEW sameSession, GrantVerdict(g, sameSession) = "authorized"
    PROVE  g # NoGrant /\ GrantGenerations(g)
<1> DEFINE early == authorityNow < g.issuedAt
           expired == authorityNow >= g.expiresAt
           current == GrantGenerations(g)
           outside == g.issuedAt < validFrom \/ g.expiresAt > validUntil
                        \/ g.differs # {}
           rules == <<
        <<early, "grant-invalid">>,
        <<expired, "grant-expired">>,
        <<~sameSession, "grant-session-mismatch">>,
        <<~current, "grant-generation-mismatch">>,
        <<outside, "grant-binding-mismatch">>,
        <<TRUE, "authorized">>>>
<1>1. g # NoGrant
  BY DEF GrantVerdict
<1>2. FirstRule(rules) = "authorized"
  BY <1>1 DEF GrantVerdict
<1>3. /\ 6 \in Nat /\ DOMAIN rules = 1..6 /\ rules[4][1] = ~current
      /\ \A i \in 1..5 : rules[i][2] # "authorized"
  <2> HIDE DEF early, expired, current, outside
  <2> QED OBVIOUS
<1>4. \E i \in 1..6 : rules[i][1]
  <2>1. rules[6][1]
    OBVIOUS
  <2> QED BY <2>1
<1> HIDE DEF rules
<1>5. PICK i \in 1..6 : /\ \A j \in 1..(i - 1) : ~rules[j][1]
                        /\ FirstRule(rules) = rules[i][2]
  BY <1>3, <1>4, FirstRuleIsFirst, Zenon
<1>6. i \notin 1..5
  BY <1>2, <1>3, <1>5
<1>7. 4 \in 1..(i - 1)
  BY <1>6
<1>8. ~rules[4][1]
  BY <1>5, <1>7
<1> QED BY <1>1, <1>3, <1>8

\* What the evaluation authorizes was granted under both current generations.
LEMMA EvaluationAuthorizes ==
    ASSUME NEW locked, NEW capable, NEW denied, NEW differs, NEW sameSession,
           Evaluate(locked, capable, denied, differs, sameSession) = "authorized"
    PROVE  grant # NoGrant /\ grant.optIn = optIn.generation
<1>1. GrantVerdict(grant, sameSession) = "authorized"
  BY LocalNeverAuthorizes, ApprovalNeverAuthorizes DEF Evaluate
<1> QED BY <1>1, GrantAuthorizes DEF GrantGenerations

-----------------------------------------------------------------------------
(* Theorem                                                                  *)

\* Every call that touches the intent moves its generation on.
LEMMA TouchedMovesOn ==
    ASSUME AuthorityInv, Touched, UNCHANGED grant,
           optIn'.generation = optIn.generation + 1, safety'.generation \in Nat
    PROVE  AuthorityInv'
<1>1. optIn.generation \in Nat
  BY DEF AuthorityInv, GenerationsOK
<1>2. grant # NoGrant => grant.optIn \in Nat /\ grant.optIn < optIn'.generation
  BY <1>1 DEF AuthorityInv, GenerationsOK
<1>3. GenerationsOK' /\ LeftBehind'
  BY <1>1, <1>2 DEF GenerationsOK, LeftBehind
<1> QED BY <1>3 DEF Touched, AuthorityInv, GrantEndsWithIntent

\* In every behaviour a grant carries the generations of its issue.
LEMMA AuthorityInvHolds == AuthoritySpec => []AuthorityInv
<1>1. AuthorityInit => AuthorityInv
  <2> SUFFICES ASSUME AuthorityInit PROVE AuthorityInv
    OBVIOUS
  <2>1. GenerationsOK
    BY DEF AuthorityInit, GenerationsOK
  <2>2. LeftBehind
    BY DEF AuthorityInit, LeftBehind
  <2>3. GrantEndsWithIntent /\ withdrawn \in BOOLEAN
    BY DEF AuthorityInit, GrantEndsWithIntent
  <2> QED BY <2>1, <2>2, <2>3 DEF AuthorityInv
<1>2. AuthorityInv /\ [AuthorityNext]_authorityVars => AuthorityInv'
  <2> SUFFICES ASSUME AuthorityInv, [AuthorityNext]_authorityVars
               PROVE  AuthorityInv'
    OBVIOUS
  <2>0. safety.generation \in Nat /\ optIn.generation \in Nat
    BY DEF AuthorityInv, GenerationsOK
  <2>1. CASE RecordOptIn
    BY <2>0, <2>1, TouchedMovesOn DEF RecordOptIn
  <2>2. CASE RevokeOptIn
    BY <2>0, <2>2, TouchedMovesOn DEF RevokeOptIn, Revoked
  <2>3. CASE EmergencyDisable
    <3>1. /\ Touched /\ UNCHANGED grant
          /\ optIn' = Revoked(optIn)
          /\ safety'.generation = safety.generation + 1
      BY <2>3 DEF EmergencyDisable
    <3>2. optIn'.generation = optIn.generation + 1
      BY <3>1 DEF Revoked
    <3> QED BY <2>0, <3>1, <3>2, TouchedMovesOn
  <2>4. CASE Tick
    BY <2>4 DEF Tick, AuthorityInv, GenerationsOK, LeftBehind, GrantEndsWithIntent
  <2>5. ASSUME NEW expires \in AuthorityTime, NEW differs \in SUBSET Bound,
               IssueGrant(expires, differs)
        PROVE  AuthorityInv'
    <3>1. /\ grant'.optIn = optIn.generation /\ withdrawn' = FALSE
          /\ decision' = "none" /\ UNCHANGED <<safety, optIn>>
      BY <2>5 DEF IssueGrant
    <3>2. GenerationsOK'
      BY <2>0, <3>1 DEF GenerationsOK
    <3>3. LeftBehind'
      BY <3>1 DEF LeftBehind
    <3>4. GrantEndsWithIntent' /\ withdrawn' \in BOOLEAN
      BY <3>1 DEF GrantEndsWithIntent
    <3> QED BY <3>2, <3>3, <3>4 DEF AuthorityInv
  <2>6. CASE RevokeApproval
    BY <2>6 DEF RevokeApproval, AuthorityInv, GenerationsOK, LeftBehind,
                GrantEndsWithIntent
  <2>7. CASE EvaluateLiveAuthorization
    <3>1. PICK locked \in BOOLEAN, capable \in BOOLEAN, denied \in BOOLEAN,
               sameSession \in BOOLEAN, differs \in SUBSET Bound :
               decision' = Evaluate(locked, capable, denied, differs, sameSession)
      BY <2>7 DEF EvaluateLiveAuthorization
    <3>2. UNCHANGED <<safety, optIn, grant, withdrawn>>
      BY <2>7 DEF EvaluateLiveAuthorization
    <3>3. decision' = "authorized" =>
             grant # NoGrant /\ grant.optIn = optIn.generation
      BY <3>1, EvaluationAuthorizes
    <3>4. decision' = "authorized" => ~withdrawn
      BY <2>0, <3>3 DEF AuthorityInv, LeftBehind
    <3> QED BY <3>2, <3>4
            DEF AuthorityInv, GenerationsOK, LeftBehind, GrantEndsWithIntent
  <2>8. CASE UNCHANGED authorityVars
    BY <2>8 DEF authorityVars, AuthorityInv, GenerationsOK, LeftBehind,
                GrantEndsWithIntent
  <2> QED BY <2>1, <2>2, <2>3, <2>4, <2>5, <2>6, <2>7, <2>8 DEF AuthorityNext
<1> QED BY <1>1, <1>2, PTL DEF AuthoritySpec

\* Whatever the order of recording, revoking, locking and evaluating, a grant
\* issued before the last use of lock or intent authorizes nothing: the intent
\* that is recorded again has another generation.
THEOREM GrantEnds == AuthoritySpec => []GrantEndsWithIntent
BY AuthorityInvHolds, PTL DEF AuthorityInv

-----------------------------------------------------------------------------
(* LaneActivityPanel                                                       *)

USE PanelAssumption

-----------------------------------------------------------------------------
(* The inductive invariant                                                 *)

Somewhere == Route \union {CHOOSE r \in Route : TRUE}
Lane == Target \union {Invalid}
Place == [load : Nat, route : Somewhere, visit : Nat]
Document == [route : Somewhere, script : BOOLEAN, knownRoute : Somewhere,
             ref : Nat, load : Nat, visit : Nat]
PanelBinding == [tab : LaneTab, lane : Lane, ref : Nat, where : Place]
PanelAnswerRecord == [status : {"stale", "answered", "unavailable"}, ref : Nat,
                      where : Place]
Question == [id : Nat, surface : Surface, kind : {"discover", "sample"},
             tab : LaneTab, lane : Lane, bound : PanelBinding \union {NoBinding},
             answer : PanelAnswerRecord \union {NoAnswer}]

PanelTypeOK ==
    /\ document \in [LaneTab -> Document]
    /\ visits \in Nat /\ refs \in Nat /\ questions \in Nat /\ target \in Lane
    /\ binding \in [Surface -> PanelBinding \union {NoBinding}]
    /\ shown \in [Surface -> [lane : Lane, bound : Place, sampled : Place]
                                \union {NoObservation}]
    /\ asked \subseteq Question

\* What a reference stands for, wherever it is remembered: by the script of a
\* document, in a binding, in a question about one, or in an answer.
DocumentMark(d) == <<d.ref, d.load, d.knownRoute>>
BoundMark(b) == <<b.ref, b.where.load, b.where.route>>
UsableAnswer(q) == q.answer # NoAnswer /\ q.answer.status = "answered"

DocumentMarks == {DocumentMark(document[t]) : t \in LaneTab}
BindingMarks == {BoundMark(binding[s]) : s \in {x \in Surface : binding[x] # NoBinding}}
QuestionMarks == {BoundMark(q.bound) : q \in {x \in asked : x.kind = "sample"}}
AnswerMarks == {BoundMark(q.answer) : q \in {x \in asked : UsableAnswer(x)}}
Marks == DocumentMarks \union BindingMarks \union QuestionMarks \union AnswerMarks

\* A reference stands for one document at one route.
MarksOK == /\ \A m \in Marks : m[1] \in 0..refs
           /\ \A m, n \in Marks : m[1] = n[1] => m = n

\* A sample is asked for a binding, and answered only under its reference.
AnswersOK ==
    \A q \in asked :
        q.kind = "sample" => /\ q.bound \in PanelBinding
                             /\ UsableAnswer(q) => q.answer.ref = q.bound.ref

PanelInv == PanelTypeOK /\ MarksOK /\ AnswersOK /\ SampledWhereBound

-----------------------------------------------------------------------------
(* Lemmas: what a step does to the marks                                   *)

\* Marks that were there before, and one of a reference just created.
LEMMA MarksKeep ==
    ASSUME MarksOK, refs \in Nat, NEW m,
           \/ Marks' \subseteq Marks /\ refs' = refs
           \/ Marks' \subseteq Marks \union {m} /\ m[1] = refs + 1 /\ refs' = refs + 1
    PROVE  MarksOK'
<1>1. \A x \in Marks : x[1] \in 0..refs /\ x[1] # refs + 1
  BY DEF MarksOK
<1>2. \A x, y \in Marks : x[1] = y[1] => x = y
  BY DEF MarksOK
<1>3. CASE Marks' \subseteq Marks /\ refs' = refs
  BY <1>1, <1>2, <1>3 DEF MarksOK
<1>4. CASE Marks' \subseteq Marks \union {m} /\ m[1] = refs + 1 /\ refs' = refs + 1
  <2>1. \A x \in Marks' : x[1] \in 0..refs'
    BY <1>1, <1>4
  <2>2. \A x, y \in Marks' : x[1] = y[1] => x = y
    BY <1>1, <1>2, <1>4
  <2> QED BY <2>1, <2>2 DEF MarksOK
<1> QED BY <1>3, <1>4

\* Questions that are gone leave no marks, and those that stay their own.
LEMMA FewerQuestions ==
    ASSUME PanelInv, asked' \subseteq asked
    PROVE  /\ QuestionMarks' \subseteq QuestionMarks
           /\ AnswerMarks' \subseteq AnswerMarks
           /\ AnswersOK' /\ asked' \subseteq Question
  BY DEF PanelInv, PanelTypeOK, QuestionMarks, AnswerMarks, AnswersOK, UsableAnswer

\* A document is loaded, or navigates, or goes away.
LEMMA PageKeeps ==
    ASSUME PanelInv, PanelPage
    PROVE  PanelInv'
<1> USE DEF PanelInv, PanelTypeOK
<1>1. PICK t \in LaneTab : \/ \E route \in Route : LoadDocument(t, route)
                                             \/ NavigateWithin(t, route)
                           \/ LeaveSite(t)
  BY DEF PanelPage
<1>2. UNCHANGED <<target, binding, shown, asked, questions>>
  BY <1>1 DEF LoadDocument, NavigateWithin, LeaveSite, Elsewhere
<1>3. /\ BindingMarks' = BindingMarks /\ QuestionMarks' = QuestionMarks
      /\ AnswerMarks' = AnswerMarks
  BY <1>2 DEF BindingMarks, QuestionMarks, AnswerMarks, UsableAnswer
<1>4. AnswersOK' /\ SampledWhereBound'
  BY <1>2 DEF AnswersOK, UsableAnswer, SampledWhereBound, Samples
<1>5. CASE \E route \in Route : LoadDocument(t, route)
  <2>1. PICK route \in Route : LoadDocument(t, route)
    BY <1>5
  <2> DEFINE d == Fresh(route, refs + 1, visits + 1)
  <2>2. /\ d \in Document /\ DocumentMark(d) = <<refs + 1, visits + 1, route>>
    BY DEF Fresh, Document, Somewhere, DocumentMark
  <2>3. /\ document' = [document EXCEPT ![t] = d] /\ refs' = refs + 1
        /\ visits' = visits + 1
    BY <2>1 DEF LoadDocument, Visited
  <2> HIDE DEF d
  <2>4. DocumentMarks' \subseteq DocumentMarks \union {DocumentMark(d)}
    BY <2>3 DEF DocumentMarks
  <2>5. MarksOK'
    <3> DEFINE m == DocumentMark(d)
    <3>1. m[1] = refs + 1 /\ Marks' \subseteq Marks \union {m}
      BY <1>3, <2>2, <2>4 DEF Marks
    <3> HIDE DEF m
    <3> QED BY <2>3, <3>1, MarksKeep
  <2>6. PanelTypeOK'
    BY <1>2, <2>2, <2>3
  <2> QED BY <1>4, <2>5, <2>6
<1>6. CASE LeaveSite(t) \/ \E route \in Route : NavigateWithin(t, route)
  <2>1. PICK d : /\ document' = [document EXCEPT ![t] = d]
                 /\ d \in Document /\ DocumentMark(d) = DocumentMark(document[t])
    <3>1. document[t] \in Document
      OBVIOUS
    <3>2. CASE LeaveSite(t)
      <4> DEFINE d == [document[t] EXCEPT !.script = FALSE]
      <4>1. document' = [document EXCEPT ![t] = d]
        BY <3>2 DEF LeaveSite
      <4>2. d \in Document /\ DocumentMark(d) = DocumentMark(document[t])
        BY <3>1 DEF Document, DocumentMark
      <4> HIDE DEF d
      <4> QED BY <4>1, <4>2
    <3>3. ASSUME NEW route \in Route, NavigateWithin(t, route)
          PROVE  \E d : /\ document' = [document EXCEPT ![t] = d]
                        /\ d \in Document
                        /\ DocumentMark(d) = DocumentMark(document[t])
      <4> DEFINE d == [document[t] EXCEPT !.route = route, !.visit = visits + 1]
      <4>1. document' = [document EXCEPT ![t] = d]
        BY <3>3 DEF NavigateWithin
      <4>2. visits + 1 \in Nat /\ route \in Somewhere
        BY DEF Somewhere
      <4>3. /\ d \in Document /\ d.ref = document[t].ref
            /\ d.load = document[t].load /\ d.knownRoute = document[t].knownRoute
        BY <3>1, <4>2 DEF Document
      <4> HIDE DEF d
      <4> QED BY <4>1, <4>3 DEF DocumentMark
    <3> QED BY <1>6, <3>2, <3>3
  <2>2. refs' = refs /\ visits' \in Nat
    <3>1. refs' = refs /\ (visits' = visits \/ visits' = visits + 1)
      BY <1>6 DEF LeaveSite, NavigateWithin, Visited
    <3> QED BY <3>1
  <2>3. DocumentMarks' \subseteq DocumentMarks
    BY <2>1 DEF DocumentMarks
  <2>4. MarksOK'
    <3>1. Marks' \subseteq Marks
      BY <1>3, <2>3 DEF Marks
    <3> QED BY <2>2, <3>1, MarksKeep
  <2>5. PanelTypeOK'
    BY <1>2, <2>1, <2>2
  <2> QED BY <1>4, <2>4, <2>5
<1> QED BY <1>1, <1>5, <1>6

\* The popup asks, and edits its target.
LEMMA UserKeeps ==
    ASSUME PanelInv, PanelUser
    PROVE  PanelInv'
<1> USE DEF PanelInv, PanelTypeOK
<1>1. UNCHANGED <<document, visits, refs>>
  BY DEF PanelUser, Bind, BindNothing, Sample, EditTarget, ClosePopup, Ask
<1>2. DocumentMarks' = DocumentMarks
  BY <1>1 DEF DocumentMarks
<1>3. ASSUME NEW s \in Surface, NEW q \in Question, Ask(q), UNCHANGED binding,
             q.answer = NoAnswer,
             q.kind = "sample" => binding[s] # NoBinding /\ q.bound = binding[s]
      PROVE  PanelInv'
  <2>1. /\ asked' = asked \union {q} /\ questions' = questions + 1
        /\ UNCHANGED <<target, shown>>
    BY <1>3 DEF Ask
  <2>2. BindingMarks' = BindingMarks /\ SampledWhereBound'
    BY <1>3, <2>1 DEF BindingMarks, SampledWhereBound, Samples
  <2>3. AnswerMarks' \subseteq AnswerMarks /\ AnswersOK'
    <3>1. q.kind = "sample" => q.bound \in PanelBinding
      BY <1>3
    <3> QED BY <1>3, <2>1, <3>1 DEF AnswerMarks, AnswersOK, UsableAnswer
  <2>4. QuestionMarks' \subseteq QuestionMarks \union BindingMarks
    BY <1>3, <2>1 DEF QuestionMarks, BindingMarks
  <2>5. MarksOK'
    <3>1. Marks' \subseteq Marks
      BY <1>2, <2>2, <2>3, <2>4 DEF Marks
    <3> QED BY <1>1, <3>1, MarksKeep
  <2>6. PanelTypeOK'
    BY <1>1, <1>3, <2>1
  <2> QED BY <2>2, <2>3, <2>5, <2>6
<1>4. ASSUME asked' \subseteq asked, UNCHANGED questions, target' \in Lane,
             \A s \in Surface :
                \/ binding'[s] = NoBinding /\ shown'[s] = NoObservation
                \/ binding'[s] = binding[s] /\ shown'[s] = shown[s],
             binding' = [s \in Surface |-> binding'[s]],
             shown' = [s \in Surface |-> shown'[s]]
      PROVE  PanelInv'
  <2>1. BindingMarks' \subseteq BindingMarks
    BY <1>4 DEF BindingMarks
  <2>2. SampledWhereBound'
    BY <1>4 DEF SampledWhereBound, Samples
  <2>3. MarksOK'
    <3>1. Marks' \subseteq Marks
      BY <1>2, <1>4, <2>1, FewerQuestions DEF Marks
    <3> QED BY <1>1, <3>1, MarksKeep
  <2>4. PanelTypeOK'
    <3>1. /\ binding' \in [Surface -> PanelBinding \union {NoBinding}]
          /\ shown' \in [Surface -> [lane : Lane, bound : Place, sampled : Place]
                                \union {NoObservation}]
      BY <1>4
    <3> QED BY <1>1, <1>4, <3>1, FewerQuestions
  <2> QED BY <1>4, <2>2, <2>3, <2>4, FewerQuestions
<1>5. ASSUME NEW s \in Surface, NEW t \in LaneTab, Bind(s, t) PROVE PanelInv'
  <2> DEFINE q == [id |-> questions, surface |-> s, kind |-> "discover", tab |-> t,
            lane |-> target, bound |-> NoBinding, answer |-> NoAnswer]
  <2>1. Ask(q) /\ UNCHANGED binding
    BY <1>5 DEF Bind
  <2>2. q \in Question /\ q.answer = NoAnswer /\ q.kind # "sample"
    BY DEF Question
  <2> HIDE DEF q
  <2> QED BY <1>3, <2>1, <2>2
<1>6. ASSUME NEW s \in Surface, Sample(s) PROVE PanelInv'
  <2> DEFINE q == [id |-> questions, surface |-> s, kind |-> "sample",
            tab |-> binding[s].tab, lane |-> binding[s].lane,
            bound |-> binding[s], answer |-> NoAnswer]
  <2>1. Ask(q) /\ UNCHANGED binding /\ binding[s] # NoBinding
    BY <1>6 DEF Sample
  <2>2. binding[s] \in PanelBinding
    BY <2>1
  <2>3. q \in Question /\ q.answer = NoAnswer /\ q.bound = binding[s]
    BY <2>2 DEF Question, PanelBinding
  <2> HIDE DEF q
  <2> QED BY <1>3, <2>1, <2>3
<1>7. ASSUME NEW s \in Surface, BindNothing(s) PROVE PanelInv'
  BY <1>4, <1>7 DEF BindNothing, Cleared
<1>8. ASSUME NEW lane \in Lane, EditTarget(lane) PROVE PanelInv'
  BY <1>4, <1>8 DEF EditTarget
<1>9. ASSUME ClosePopup PROVE PanelInv'
  BY <1>4, <1>9 DEF ClosePopup, Lane
<1> QED BY <1>5, <1>6, <1>7, <1>8, <1>9 DEF PanelUser, Lane

\* The content script rotates its reference when it is asked at a new route.
LEMMA CurrentMark ==
    ASSUME NEW d \in Document, refs \in Nat
    PROVE  LET c == Current(d)
           IN /\ c \in Document /\ Where(c) \in Place
              /\ DocumentMark(c) = <<c.ref, Where(c).load, Where(c).route>>
              /\ \/ c = d \/ c.ref = refs + 1
<1>1. CASE d.route = d.knownRoute
  BY <1>1 DEF Current, Document, DocumentMark, Where, Place
<1>2. CASE d.route # d.knownRoute
  <2> DEFINE c == [d EXCEPT !.knownRoute = d.route, !.ref = refs + 1]
  <2>1. /\ c \in Document /\ c.ref = refs + 1 /\ c.knownRoute = d.route
        /\ c.load = d.load /\ c.route = d.route /\ c.visit = d.visit
    <3>1. refs + 1 \in Nat /\ d.route \in Somewhere
      BY DEF Document
    <3> DEFINE n == refs + 1
    <3>2. n \in Nat
      BY <3>1
    <3> HIDE DEF n
    <3>3. LET e == [d EXCEPT !.knownRoute = d.route, !.ref = n]
          IN /\ e \in Document /\ e.ref = n /\ e.knownRoute = d.route
             /\ e.load = d.load /\ e.route = d.route /\ e.visit = d.visit
      BY <3>1, <3>2 DEF Document
    <3> QED BY <3>3 DEF n
  <2>2. Where(c) = [load |-> d.load, route |-> d.route, visit |-> d.visit]
    BY <2>1 DEF Where
  <2>3. Current(d) = c
    BY <1>2 DEF Current
  <2> HIDE DEF c
  <2>4. DocumentMark(c) = <<c.ref, Where(c).load, Where(c).route>>
    BY <2>1, <2>2 DEF DocumentMark
  <2> QED BY <2>1, <2>2, <2>3, <2>4 DEF Place, Document
<1> QED BY <1>1, <1>2

\* A question gets its answer.
LEMMA AnsweredFields ==
    ASSUME NEW q \in Question, NEW a \in PanelAnswerRecord
    PROVE  LET p == [q EXCEPT !.answer = a]
           IN /\ p \in Question /\ p.answer = a /\ p.kind = q.kind
              /\ p.bound = q.bound
  BY DEF Question

\* An answer that says the tab was unavailable leaves no mark.
LEMMA UnavailableKeeps ==
    ASSUME PanelInv, NEW q \in asked, NEW d \in Document, Answered(q, "unavailable", d),
           UNCHANGED <<document, visits, refs, target, binding, shown, questions>>
    PROVE  PanelInv'
<1> USE DEF PanelInv, PanelTypeOK
<1> DEFINE a == [status |-> "unavailable", ref |-> d.ref, where |-> Where(d)]
           p == [q EXCEPT !.answer = a]
<1>1. q \in Question /\ a \in PanelAnswerRecord
  BY DEF PanelAnswerRecord, Where, Place, Document
<1>2. /\ p \in Question /\ p.answer = a /\ p.kind = q.kind /\ p.bound = q.bound
  BY <1>1, AnsweredFields
<1>3. asked' = (asked \ {q}) \union {p}
  BY DEF Answered
<1>4. p.answer.status = "unavailable"
  BY <1>2
<1> HIDE DEF p, a
<1>5. /\ DocumentMarks' = DocumentMarks /\ BindingMarks' = BindingMarks
      /\ SampledWhereBound'
  BY DEF DocumentMarks, BindingMarks, SampledWhereBound, Samples
<1>6. QuestionMarks' \subseteq QuestionMarks
  BY <1>2, <1>3 DEF QuestionMarks
<1>7. AnswerMarks' \subseteq AnswerMarks /\ AnswersOK'
  BY <1>2, <1>3, <1>4 DEF AnswerMarks, AnswersOK, UsableAnswer
<1>8. MarksOK'
  <2>1. Marks' \subseteq Marks
    BY <1>5, <1>6, <1>7 DEF Marks
  <2> QED BY <2>1, MarksKeep
<1>9. PanelTypeOK'
  BY <1>2, <1>3
<1> QED BY <1>5, <1>7, <1>8, <1>9

\* The content script answers under the reference of where it is now.
LEMMA AnswerKeeps ==
    ASSUME PanelInv, NEW q \in asked, AnswerQuestion(q) \/ AnswerUnusable(q)
    PROVE  PanelInv'
<1> USE DEF PanelInv, PanelTypeOK
<1>1. q \in Question /\ q.tab \in LaneTab /\ document[q.tab] \in Document
  <2>1. q \in Question
    OBVIOUS
  <2>2. q.tab \in LaneTab
    BY <2>1 DEF Question
  <2> QED BY <2>1, <2>2
<1>2. CASE AnswerUnusable(q)
  BY <1>1, <1>2, UnavailableKeeps DEF AnswerUnusable
<1>3. CASE AnswerQuestion(q) /\ ~document[q.tab].script
  BY <1>1, <1>3, UnavailableKeeps DEF AnswerQuestion
<1>4. CASE AnswerQuestion(q) /\ document[q.tab].script
  <2> DEFINE t == q.tab
             d == Current(document[t])
             status == IF q.kind = "sample" /\ q.bound.ref # d.ref
                       THEN "stale" ELSE "answered"
             a == [status |-> status, ref |-> d.ref, where |-> Where(d)]
             p == [q EXCEPT !.answer = a]
  <2>1. /\ document' = [document EXCEPT ![t] = d]
        /\ refs' = (IF d.ref > refs THEN d.ref ELSE refs)
        /\ asked' = (asked \ {q}) \union {p}
        /\ UNCHANGED <<visits, target, binding, shown, questions>>
    BY <1>4 DEF AnswerQuestion, Answered
  <2>2. /\ d \in Document /\ Where(d) \in Place
        /\ DocumentMark(d) = <<d.ref, Where(d).load, Where(d).route>>
        /\ d = document[t] \/ d.ref = refs + 1
    BY <1>1, CurrentMark
  <2>3. d.ref \in Nat
    <3> HIDE DEF d
    <3> QED BY <2>2 DEF Document
  <2>4. a \in PanelAnswerRecord /\ BoundMark(a) = DocumentMark(d)
    BY <2>2, <2>3 DEF PanelAnswerRecord, BoundMark
  <2>5. /\ p \in Question /\ p.answer = a /\ p.kind = q.kind /\ p.bound = q.bound
    BY <1>1, <2>4, AnsweredFields
  <2>6. q.kind = "sample" /\ a.status = "answered" => a.ref = q.bound.ref
    OBVIOUS
  <2> HIDE DEF p, a, status, d
  <2>7. /\ BindingMarks' = BindingMarks /\ SampledWhereBound'
    BY <2>1 DEF BindingMarks, SampledWhereBound, Samples
  <2>8. DocumentMarks' \subseteq DocumentMarks \union {DocumentMark(d)}
    BY <2>1 DEF DocumentMarks
  <2>9. QuestionMarks' \subseteq QuestionMarks
    BY <2>1, <2>5 DEF QuestionMarks
  <2>10. AnswerMarks' \subseteq AnswerMarks \union {DocumentMark(d)}
    BY <2>1, <2>4, <2>5 DEF AnswerMarks, UsableAnswer
  <2>11. AnswersOK'
    BY <2>1, <2>5, <2>6 DEF AnswersOK, UsableAnswer
  <2>12. Marks' \subseteq Marks \union {DocumentMark(d)}
    BY <2>7, <2>8, <2>9, <2>10 DEF Marks
  <2>13. MarksOK'
    <3>1. CASE d = document[t]
      <4>1. DocumentMark(d) \in Marks
        BY <1>1, <3>1 DEF Marks, DocumentMarks
      <4>2. d.ref <= refs
        <5>1. DocumentMark(d)[1] = d.ref
          BY DEF DocumentMark
        <5>2. DocumentMark(d)[1] \in 0..refs
          BY <4>1 DEF MarksOK
        <5> QED BY <5>1, <5>2
      <4>3. refs' = refs
        BY <2>1, <2>3, <4>2
      <4> QED BY <2>12, <4>1, <4>3, MarksKeep
    <3>2. CASE d.ref = refs + 1
      <4> DEFINE m == DocumentMark(d)
      <4>1. refs' = refs + 1 /\ m[1] = refs + 1
        BY <2>1, <3>2 DEF DocumentMark
      <4> HIDE DEF m
      <4>2. Marks' \subseteq Marks \union {m}
        BY <2>12 DEF m
      <4> QED BY <4>1, <4>2, MarksKeep
    <3> QED BY <2>2, <3>1, <3>2
  <2>14. PanelTypeOK'
    <3>1. document' \in [LaneTab -> Document] /\ asked' \subseteq Question
      BY <1>1, <2>1, <2>2, <2>5
    <3>2. refs' \in Nat
      BY <2>1, <2>3
    <3> QED BY <2>1, <3>1, <3>2
  <2> QED BY <2>7, <2>11, <2>13, <2>14
<1> QED BY <1>2, <1>3, <1>4

\* The popup binds, or shows, what it is answered.
LEMMA AcceptKeeps ==
    ASSUME PanelInv, NEW q \in asked, AcceptDiscovery(q) \/ AcceptSample(q)
    PROVE  PanelInv'
<1> USE DEF PanelInv, PanelTypeOK
<1>1. /\ asked' = asked \ {q} /\ q.answer # NoAnswer
      /\ UNCHANGED <<document, visits, refs, target, questions>>
  BY DEF AcceptDiscovery, AcceptSample
<1>2. q \in Question /\ q.surface \in Surface /\ q.answer \in PanelAnswerRecord
  <2>1. q \in Question
    OBVIOUS
  <2> QED BY <1>1, <2>1 DEF Question
<1>3. /\ DocumentMarks' = DocumentMarks /\ QuestionMarks' \subseteq QuestionMarks
      /\ AnswerMarks' \subseteq AnswerMarks /\ AnswersOK' /\ asked' \subseteq Question
  BY <1>1, FewerQuestions DEF DocumentMarks
<1>4. ASSUME NEW b \in PanelBinding \union {NoBinding},
             NEW o \in [lane : Lane, bound : Place, sampled : Place]
                            \union {NoObservation},
             binding' = [binding EXCEPT ![q.surface] = b],
             shown' = [shown EXCEPT ![q.surface] = o],
             b # NoBinding => BoundMark(b) \in Marks,
             o # NoObservation => /\ o.sampled.load = o.bound.load
                                  /\ o.sampled.route = o.bound.route
      PROVE  PanelInv'
  <2>1. BindingMarks' \subseteq Marks
    BY <1>2, <1>4 DEF BindingMarks, Marks
  <2>2. SampledWhereBound'
    BY <1>2, <1>4 DEF SampledWhereBound, Samples
  <2>3. MarksOK'
    <3>1. Marks' \subseteq Marks
      BY <1>3, <2>1 DEF Marks
    <3> QED BY <1>1, <3>1, MarksKeep
  <2>4. PanelTypeOK'
    BY <1>1, <1>2, <1>3, <1>4
  <2> QED BY <1>3, <2>2, <2>3, <2>4
<1>5. CASE q.answer.status # "answered"
  <2>1. Cleared(q.surface)
    BY <1>5 DEF AcceptDiscovery, AcceptSample
  <2> QED BY <1>4, <2>1 DEF Cleared
<1>6. CASE q.answer.status = "answered" /\ AcceptDiscovery(q)
  <2> DEFINE b == [tab |-> q.tab, lane |-> q.lane,
                   ref |-> q.answer.ref, where |-> q.answer.where]
  <2>1. /\ binding' = [binding EXCEPT ![q.surface] = b]
        /\ shown' = [shown EXCEPT ![q.surface] = NoObservation]
    BY <1>6 DEF AcceptDiscovery
  <2>2. b \in PanelBinding /\ BoundMark(b) = BoundMark(q.answer)
    BY <1>2 DEF PanelBinding, Question, PanelAnswerRecord, BoundMark
  <2>3. BoundMark(q.answer) \in Marks
    BY <1>1, <1>6 DEF Marks, AnswerMarks, UsableAnswer
  <2> HIDE DEF b
  <2> QED BY <1>4, <2>1, <2>2, <2>3
<1>7. CASE q.answer.status = "answered" /\ AcceptSample(q)
  <2> DEFINE o == [lane |-> q.lane, bound |-> q.bound.where,
                   sampled |-> q.answer.where]
  <2>1. /\ binding' = [binding EXCEPT ![q.surface] = q.bound]
        /\ shown' = [shown EXCEPT ![q.surface] = o]
        /\ q.kind = "sample"
    BY <1>7 DEF AcceptSample
  <2>2. /\ BoundMark(q.answer) \in Marks /\ BoundMark(q.bound) \in Marks
        /\ q.answer.ref = q.bound.ref
    BY <1>1, <1>7, <2>1 DEF Marks, AnswerMarks, QuestionMarks, UsableAnswer, AnswersOK
  <2>3. BoundMark(q.answer) = BoundMark(q.bound)
    <3>1. BoundMark(q.answer)[1] = q.answer.ref /\ BoundMark(q.bound)[1] = q.bound.ref
      BY DEF BoundMark
    <3> QED BY <2>2, <3>1 DEF MarksOK
  <2>4. o.sampled.load = o.bound.load /\ o.sampled.route = o.bound.route
    BY <2>3 DEF BoundMark
  <2>5. q.bound \in PanelBinding /\ q.lane \in Lane
    BY <1>2, <2>1 DEF AnswersOK, Question
  <2>6. o \in [lane : Lane, bound : Place, sampled : Place]
    BY <1>2, <2>5 DEF PanelBinding, PanelAnswerRecord
  <2> HIDE DEF o
  <2> QED BY <1>4, <2>1, <2>2, <2>4, <2>5, <2>6
<1> QED BY <1>5, <1>6, <1>7

\* No tab has a script, and nothing is bound or asked.
LEMMA PanelStarts ==
    ASSUME PanelInit
    PROVE  PanelInv
<1> DEFINE e == [Fresh(CHOOSE r \in Route : TRUE, 0, 0) EXCEPT !.script = FALSE]
<1>1. /\ e \in Document /\ DocumentMark(e) = <<0, 0, CHOOSE r \in Route : TRUE>>
  BY DEF Document, DocumentMark, Fresh, Somewhere
<1>2. document = [t \in LaneTab |-> e]
  BY DEF PanelInit
<1> HIDE DEF e
<1>3. PanelTypeOK
  BY <1>1, <1>2 DEF PanelTypeOK, PanelInit, Lane
<1>4. /\ BindingMarks = {} /\ QuestionMarks = {} /\ AnswerMarks = {}
      /\ \A m \in DocumentMarks : m = DocumentMark(e)
  BY <1>2 DEF PanelInit, BindingMarks, QuestionMarks, AnswerMarks, DocumentMarks
<1>5. MarksOK
  <2>1. \A m \in Marks : m = DocumentMark(e)
    BY <1>4 DEF Marks
  <2>2. DocumentMark(e)[1] = 0 /\ refs = 0
    BY <1>1 DEF PanelInit
  <2> QED BY <2>1, <2>2 DEF MarksOK
<1>6. AnswersOK /\ SampledWhereBound
  BY DEF PanelInit, AnswersOK, SampledWhereBound, Samples
<1> QED BY <1>3, <1>5, <1>6 DEF PanelInv

\* The invariant holds throughout.
LEMMA PanelAlways == PanelSpec => []PanelInv
<1>1. PanelInv /\ [PanelNext]_panelVars => PanelInv'
  <2> SUFFICES ASSUME PanelInv, [PanelNext]_panelVars PROVE PanelInv'
    OBVIOUS
  <2>1. CASE PanelNext
    BY <2>1, PageKeeps, UserKeeps, AnswerKeeps, AcceptKeeps DEF PanelNext, PanelAnswer
  <2>2. CASE UNCHANGED panelVars
    BY <2>2 DEF panelVars, PanelInv, PanelTypeOK, MarksOK, AnswersOK, UsableAnswer,
                SampledWhereBound, Samples, Marks, DocumentMarks, BindingMarks,
                QuestionMarks, AnswerMarks
  <2> QED BY <2>1, <2>2
<1>2. PanelInit => PanelInv
  BY PanelStarts
<1> QED BY <1>1, <1>2, PTL DEF PanelSpec

\* A sample shown or exported was taken in the document and at the route that
\* its binding was made for, whatever the tab did in between.
THEOREM SamplesStayWhereBound == PanelSpec => []SampledWhereBound
<1>1. PanelInv => SampledWhereBound
  BY DEF PanelInv
<1> QED BY <1>1, PanelAlways, PTL

-----------------------------------------------------------------------------
(* ChatGptLaneActivity                                                     *)

USE ActivityAssumption

\* An observation that is exact and saw nothing was of a quiet page.
ObservationHonest ==
    observation # NoEvidence =>
        /\ observation.at \in Nat
        /\ observation.exact /\ observation.active = {} => observation.quiet

\* A recovery that was verified saw the conversation that had been witnessed.
RecoveryHonest ==
    recovery # NoEvidence /\ recovery.status = "verified" => recovery.continues

\* The inductive invariant.
ActivityInv == activityNow \in Nat /\ ObservationHonest /\ RecoveryHonest

-----------------------------------------------------------------------------
(* Lemmas: what the two chains of early returns need for their last answer  *)

\* A recovery is verified only of the witnessed root and generation.
LEMMA VerifiedContinues ==
    ASSUME NEW w, NEW t, RecoveryStatus(w, t) = "verified"
    PROVE  w.generation = generation /\ w.root = root
<1> DEFINE other == w.generation # generation
           early == t < w.at
           elsewhere == w.root # root
           rules == <<
        <<other, "stale_generation">>,
        <<early, "stale_observation">>,
        <<elsewhere, "attention_required">>,
        <<TRUE, "verified">>>>
<1>1. /\ 4 \in Nat /\ DOMAIN rules = 1..4
      /\ rules[1][1] = other /\ rules[3][1] = elsewhere
      /\ \A i \in 1..3 : rules[i][2] # "verified"
  <2> HIDE DEF other, early, elsewhere
  <2> QED OBVIOUS
<1>2. \E i \in 1..4 : rules[i][1]
  <2>1. rules[4][1]
    OBVIOUS
  <2> QED BY <2>1
<1>3. FirstRule(rules) = "verified"
  BY DEF RecoveryStatus
<1> HIDE DEF rules
<1>4. PICK i \in 1..4 : /\ \A j \in 1..(i - 1) : ~rules[j][1]
                        /\ FirstRule(rules) = rules[i][2]
  <2>1. 4 \in Nat /\ DOMAIN rules = 1..4
    BY <1>1
  <2> QED BY <1>2, <2>1, FirstRuleIsFirst, Zenon
<1>5. i \notin 1..3
  BY <1>1, <1>3, <1>4
<1>6. 1 \in 1..(i - 1) /\ 3 \in 1..(i - 1)
  BY <1>5
<1>7. ~other /\ ~elsewhere
  BY <1>1, <1>4, <1>6
<1> QED BY <1>7

\* The way to sleep is clear only after every other answer was excluded.
LEMMA ClearExcludes ==
    ASSUME Transition = "clear"
    PROVE  /\ recovery.generation = generation /\ recovery.status = "verified"
           /\ observation.generation = generation
           /\ ~(observation.at > activityNow)
           /\ ~(activityNow - observation.at > maxActivityAge)
           /\ observation.active = {} /\ observation.exact
<1> DEFINE why == IF recovery.generation # generation
                  THEN "mismatched" ELSE "recovery_required"
           holds == RecoveryHolds
           other == observation.generation # generation
           ahead == observation.at > activityNow
           old == activityNow - observation.at > maxActivityAge
           busy == observation.active # {}
           unsure == ~observation.exact \/ observation.unknown # {}
           rules == <<
        <<~holds, why>>,
        <<other, "mismatched">>,
        <<ahead, "unknown">>,
        <<old, "stale">>,
        <<busy, "blocked">>,
        <<unsure, "unknown">>,
        <<TRUE, "clear">>>>
<1>0. why # "clear"
  OBVIOUS
<1>1. /\ 7 \in Nat /\ DOMAIN rules = 1..7
      /\ rules[1][1] = ~holds /\ rules[2][1] = other /\ rules[3][1] = ahead
      /\ rules[4][1] = old /\ rules[5][1] = busy /\ rules[6][1] = unsure
      /\ \A i \in 1..6 : rules[i][2] # "clear"
  <2> HIDE DEF why, holds, other, ahead, old, busy, unsure
  <2> QED BY <1>0
<1>2. \E i \in 1..7 : rules[i][1]
  <2>1. rules[7][1]
    OBVIOUS
  <2> QED BY <2>1
<1>3. FirstRule(rules) = "clear"
  BY DEF Transition
<1> HIDE DEF rules
<1>4. PICK i \in 1..7 : /\ \A j \in 1..(i - 1) : ~rules[j][1]
                        /\ FirstRule(rules) = rules[i][2]
  <2>1. 7 \in Nat /\ DOMAIN rules = 1..7
    BY <1>1
  <2> QED BY <1>2, <2>1, FirstRuleIsFirst, Zenon
<1>5. i \notin 1..6
  BY <1>1, <1>3, <1>4
<1>6. \A j \in 1..6 : j \in 1..(i - 1)
  BY <1>5
<1>7. /\ ~rules[1][1] /\ ~rules[2][1] /\ ~rules[3][1]
      /\ ~rules[4][1] /\ ~rules[5][1] /\ ~rules[6][1]
  BY <1>4, <1>6
<1>8. holds /\ ~other /\ ~ahead /\ ~old /\ ~busy /\ ~unsure
  <2> HIDE DEF holds, other, ahead, old, busy, unsure
  <2> QED BY <1>1, <1>7
<1> QED BY <1>8 DEF RecoveryHolds

-----------------------------------------------------------------------------
(* Theorem                                                                  *)

\* In every behaviour kept evidence is honest.
LEMMA ActivityInvHolds == ActivitySpec => []ActivityInv
<1>1. ActivityInit => ActivityInv
  BY DEF ActivityInit, ActivityInv, ObservationHonest, RecoveryHonest
<1>2. ActivityInv /\ [ActivityNext]_activityVars => ActivityInv'
  <2> SUFFICES ASSUME ActivityInv, [ActivityNext]_activityVars
               PROVE  ActivityInv'
    OBVIOUS
  <2> USE DEF ActivityInv, ObservationHonest, RecoveryHonest, Evidence, PageState
  <2>1. CASE PageChanges
    BY <2>1 DEF PageChanges
  <2>2. CASE GenerationAdvances
    BY <2>2 DEF GenerationAdvances
  <2>3. CASE TimeAdvances
    BY <2>3 DEF TimeAdvances
  <2>4. CASE CreateWitness
    BY <2>4 DEF CreateWitness
  <2>5. CASE AssessRecovery
    <3>1. PICK t \in ActivityTime :
             /\ recovery'.status = RecoveryStatus(witness, t)
             /\ recovery'.continues = /\ witness.generation = generation
                                      /\ witness.root = root
      BY <2>5 DEF AssessRecovery
    <3>2. recovery'.status = "verified" => recovery'.continues
      BY <3>1, VerifiedContinues
    <3>3. UNCHANGED <<observation, activityNow>>
      BY <2>5 DEF AssessRecovery
    <3> QED BY <3>2, <3>3
  <2>6. CASE SampleByProducer
    <3>1. /\ observation'.active = SeenByScript
          /\ observation'.exact = (SeenByScript # {})
          /\ observation'.at = activityNow
          /\ UNCHANGED <<recovery, activityNow>>
      BY <2>6 DEF SampleByProducer
    <3> QED BY <3>1
  <2>7. CASE SampleBySentinel
    <3>1. PICK t \in {activityNow, activityNow + 1}, exact \in BOOLEAN :
             observation' = [generation |-> generation, at |-> t,
                             active |-> activity, unknown |-> {},
                             exact |-> exact, quiet |-> activity = {}]
      BY <2>7 DEF SampleBySentinel
    <3>2. UNCHANGED <<recovery, activityNow>>
      BY <2>7 DEF SampleBySentinel
    <3>3. /\ observation'.active = activity /\ observation'.quiet = (activity = {})
          /\ observation'.at = t /\ t \in Nat
      BY <3>1
    <3> QED BY <3>2, <3>3
  <2>8. CASE UNCHANGED activityVars
    BY <2>8 DEF activityVars
  <2> QED BY <2>1, <2>2, <2>3, <2>4, <2>5, <2>6, <2>7, <2>8 DEF ActivityNext
<1> QED BY <1>1, <1>2, PTL DEF ActivitySpec

\* Evidence that allows sleep is of this generation, recent, of a page that
\* was quiet, and of the conversation that was witnessed.
LEMMA ActivityInvSuffices == ActivityInv => SleepIsEarned
<1> SUFFICES ASSUME ActivityInv, recovery # NoEvidence, observation # NoEvidence,
                    Transition = "clear"
             PROVE  /\ observation.quiet /\ observation.generation = generation
                    /\ observation.at \in
                          (activityNow - maxActivityAge)..activityNow
                    /\ recovery.generation = generation /\ recovery.continues
  BY DEF SleepIsEarned, Freezable
<1>1. observation.quiet /\ recovery.continues
  BY ClearExcludes DEF ActivityInv, ObservationHonest, RecoveryHonest
<1>2. observation.at \in Nat /\ activityNow \in Nat /\ maxActivityAge \in Nat
  BY DEF ActivityInv, ObservationHonest
<1>3. observation.at \in (activityNow - maxActivityAge)..activityNow
  BY <1>2, ClearExcludes
<1> QED BY <1>1, <1>3, ClearExcludes

\* A lane may sleep only on evidence of this generation, however page, lane,
\* clock and evidence interleave.
THEOREM Sleep == ActivitySpec => []SleepIsEarned
BY ActivityInvHolds, ActivityInvSuffices, PTL

=============================================================================
