------------------------- MODULE ChromiumStaticHost -------------------------
(***************************************************************************)
(* The service worker of the Chromium extension (static/background.js),    *)
(* its popup (static/popup.js) and the effect requests of planned lanes    *)
(* (src/effect.ts) over a browser whose tabs change under them.            *)
(*                                                                         *)
(* A command is a sequence of awaited browser calls: one step of the model *)
(* is one call together with the code that runs until the next await.      *)
(* Commands interleave with each other and with the user and the browser,  *)
(* who open no new tab here but change and close those there are.  Any     *)
(* call may be rejected.                                                   *)
(***************************************************************************)
EXTENDS ChromiumLanePlan, FiniteSets

CONSTANTS
    Tab,                \* ids of the browser's tabs
    ForeignProjection,  \* a projection reference that is no tab's
    Slot,               \* commands that can be under way at once
    LaneOfPlan,         \* lanes a descriptor, binding or request may name
    GenerationOfPlan,   \* their generations
    ApplicationFacts,   \* what an application may report of itself
    Hold,               \* why tabs may be held, in this instance
    MAX_CHROMIUM_PROJECTIONS,
    Gone, Unlisted, Idle

ASSUME HostAssumption ==
    /\ ForeignProjection \notin Tab
    /\ MAX_CHROMIUM_PROJECTIONS \in Nat \ {0}
    /\ Hold \subseteq {"none", "pinned", "audible", "unknown"}
    /\ Gone \notin TabState /\ Unlisted \notin ChromiumProjections
    /\ \A f \in ApplicationFacts :
            /\ f.recovery \in Recovery
            /\ f.freeze \in Eligibility /\ f.discard \in Eligibility

VARIABLES
    tabs,       \* the browser's tabs
    listed,     \* what the last list command answered, by tab: the reading
                \*   from which the next command is made
    commands    \* the command in each slot

hostVars == <<tabs, listed, commands>>

Open == {t \in Tab : tabs[t] # Gone}

\* A command just received.  did: its browser operation was carried out;
\* touched: while it ran, another command changed its tab or it was closed;
\* sound: the request was planned as the documents demand (see PlanIsSound).
Command(type, t) ==
    [type |-> type, tab |-> t, projection |-> t, effect |-> "none",
     protected |-> type \in {"keep-warm", "apply-effect"},
     pc |-> "get", answer |-> "none",
     did |-> FALSE, touched |-> FALSE, sound |-> FALSE]

HostInit ==
    /\ tabs \in [Tab -> [place : {"hidden"}, hold : {"none"},
                         residency : {"loaded"}, auto : {TRUE}]]
    /\ listed = [t \in Tab |-> Unlisted]
    /\ commands = [s \in Slot |-> Idle]

-----------------------------------------------------------------------------
(* Steps of a command                                                      *)

\* The step of slot s after which it is at pc.
Continue(s, pc) == commands' = [commands EXCEPT ![s].pc = pc]

Answer(s, answer) ==
    commands' = [commands EXCEPT ![s].pc = "answered", ![s].answer = answer]

\* The step of slot s that changes its tab to the value and goes on to pc.
Change(s, value, pc) ==
    LET t == commands[s].tab
    IN /\ tabs' = [tabs EXCEPT ![t] = value]
       /\ commands' = [o \in Slot |->
            IF o = s THEN [commands[s] EXCEPT !.pc = pc, !.did = TRUE]
            ELSE IF commands[o] # Idle /\ commands[o].tab = t
                 THEN [commands[o] EXCEPT !.touched = TRUE]
                 ELSE commands[o]]

Discards(c) == c.type = "discard" \/ c.effect = "discard"
Warms(c) == c.type = "keep-warm" \/ c.effect = "keep_warm"

\* keepWarm after it has read the tab, or after the protecting update.
WarmNext(tab) == IF tab.residency = "discarded" THEN "reload" ELSE "window"

At(s, pc) == commands[s] # Idle /\ commands[s].pc = pc

\* The browser rejects the call that slot s makes, or its window has gone.
Rejected(s) ==
    /\ commands[s] # Idle
    /\ \/ /\ commands[s].pc \in {"request", "request-window", "get"}
          /\ Answer(s, "tab-unavailable")
       \/ /\ commands[s].pc \in {"discard", "protect", "reload", "activate",
                                 "focus"}
          /\ Answer(s, "operation-failed")
       \/ /\ commands[s].pc = "discard"
          /\ Answer(s, "discard-unavailable")
       \/ /\ commands[s].pc \in {"protect", "activate"}
          /\ Answer(s, "tab-unavailable")
       \/ /\ commands[s].pc = "window"
          /\ Answer(s, "window-unavailable")
    /\ UNCHANGED <<tabs, listed>>

\* applyPlannedEffect reads tab and window before it enters the path of the
\* plain command.
ReadRequestedTab(s) ==
    /\ At(s, "request")
    /\ commands[s].tab \in Open
    /\ Continue(s, "request-window")
    /\ UNCHANGED <<tabs, listed>>

\* Faulty variant of MatchRequest: the projection of the request is not read.
MatchRequestTab(s) ==
    /\ At(s, "request-window")
    /\ Continue(s, "get")
    /\ UNCHANGED <<tabs, listed>>

MatchRequest(s) ==
    /\ At(s, "request-window")
    /\ IF commands[s].projection = commands[s].tab
       THEN Continue(s, "get")
       ELSE Answer(s, "projection-mismatch")
    /\ UNCHANGED <<tabs, listed>>

\* Faulty variant of GetTab: a tab that may not be discarded counts as done.
GetTabLenient(s) ==
    LET c == commands[s]
        tab == tabs[c.tab]
    IN /\ At(s, "get")
       /\ c.tab \in Open
       /\ Continue(s,
             CASE Discards(c) -> IF ManualDiscardEligible(tab) THEN "discard"
                                                              ELSE "window"
               [] Warms(c) -> IF tab.auto THEN "protect" ELSE WarmNext(tab)
               [] c.type = "wake" -> "activate"
               [] c.type = "set-protection" -> "protect")
       /\ UNCHANGED <<tabs, listed>>

\* freshTab, and what the command decides on the copy it gets.
GetTab(s) ==
    LET c == commands[s]
        tab == tabs[c.tab]
    IN /\ At(s, "get")
       /\ c.tab \in Open
       /\ IF Discards(c) /\ ~ManualDiscardEligible(tab)
          THEN Answer(s, "discard-refused")
          ELSE Continue(s,
                 CASE Discards(c) -> "discard"
                   [] Warms(c) -> IF tab.auto THEN "protect" ELSE WarmNext(tab)
                   [] c.type = "wake" -> "activate"
                   [] c.type = "set-protection" -> "protect")
       /\ UNCHANGED <<tabs, listed>>

\* chrome.tabs.discard: Chrome itself refuses an active or discarded tab.
DiscardTab(s) ==
    LET tab == tabs[commands[s].tab]
    IN /\ At(s, "discard")
       /\ commands[s].tab \in Open
       /\ tab.place = "hidden" /\ tab.residency # "discarded"
       /\ Change(s, [tab EXCEPT !.residency = "discarded"], "window")
       /\ UNCHANGED listed

\* Faulty variant of Protect: keepWarm decides on the copy it read before the
\* update, which it updated because the tab was loaded and discardable.
ProtectStale(s) ==
    LET c == commands[s]
        tab == tabs[c.tab]
    IN /\ At(s, "protect")
       /\ c.tab \in Open
       /\ Change(s, [tab EXCEPT !.auto = ~c.protected], "window")
       /\ UNCHANGED listed

\* chrome.tabs.update {autoDiscardable}: the copy it answers with decides
\* whether keepWarm reloads.
Protect(s) ==
    LET c == commands[s]
        tab == tabs[c.tab]
    IN /\ At(s, "protect")
       /\ c.tab \in Open
       /\ Change(s, [tab EXCEPT !.auto = ~c.protected],
                 IF Warms(c) THEN WarmNext(tab) ELSE "window")
       /\ UNCHANGED listed

Reload(s) ==
    LET tab == tabs[commands[s].tab]
    IN /\ At(s, "reload")
       /\ commands[s].tab \in Open
       /\ Change(s, [tab EXCEPT !.residency = "loading"], "refetch")
       /\ UNCHANGED listed

\* freshTab after a reload: if it finds none, the older copy is reported.
Refetch(s) ==
    /\ At(s, "refetch")
    /\ Continue(s, "window")
    /\ UNCHANGED <<tabs, listed>>

Woken(tab) == IF tab.residency \in {"discarded", "frozen"} THEN "loading"
                                                          ELSE tab.residency

\* wakeTab activates the tab and then focuses its window.
Activate(s) ==
    LET tab == tabs[commands[s].tab]
    IN /\ At(s, "activate")
       /\ commands[s].tab \in Open
       /\ Change(s, [tab EXCEPT !.place = "active", !.residency = Woken(tab)],
                 "focus")
       /\ UNCHANGED listed

Focus(s) ==
    LET tab == tabs[commands[s].tab]
    IN /\ At(s, "focus")
       /\ commands[s].tab \in Open
       /\ Change(s, [tab EXCEPT !.place =
                        IF @ = "active" THEN "foreground" ELSE @], "window")
       /\ UNCHANGED listed

\* freshProjection of the copy at hand succeeds.
ProjectResult(s) ==
    /\ At(s, "window")
    /\ Answer(s, "ok")
    /\ UNCHANGED <<tabs, listed>>

HostStep(s) ==
    \/ Rejected(s) \/ ReadRequestedTab(s) \/ MatchRequest(s) \/ GetTab(s)
    \/ DiscardTab(s) \/ Protect(s) \/ Reload(s) \/ Refetch(s)
    \/ Activate(s) \/ Focus(s) \/ ProjectResult(s)

-----------------------------------------------------------------------------
(* Where commands come from                                                *)

\* A reading serves one command here: two commands made from one reading are
\* two made from equal readings.
Receive(s, command) ==
    /\ commands[s] = Idle
    /\ commands' = [commands EXCEPT ![s] = command]
    /\ listed' = [t \in Tab |-> Unlisted]
    /\ UNCHANGED tabs

\* listProjections, one awaited reading of tabs and windows, on behalf of a
\* command to come: at most MAX_CHROMIUM_PROJECTIONS of the open tabs.
ListProjections ==
    /\ \E s \in Slot : commands[s] = Idle
    /\ \E shown \in SUBSET Open :
          /\ \/ shown = Open /\ Cardinality(Open) <= MAX_CHROMIUM_PROJECTIONS
             \/ /\ Cardinality(Open) > MAX_CHROMIUM_PROJECTIONS
                /\ Cardinality(shown) = MAX_CHROMIUM_PROJECTIONS
          /\ listed' = [t \in Tab |-> IF t \in shown
                            THEN ProjectChromiumTab(tabs[t]) ELSE Unlisted]
    /\ UNCHANGED <<tabs, commands>>

\* The buttons of the card that the popup shows for a listed tab.
Press(s, t) ==
    /\ listed[t] # Unlisted
    /\ LET shown == listed[t]
           discarded == shown.residency = "discarded"
       IN \/ /\ shown.auto \/ discarded
             /\ Receive(s, Command("keep-warm", t))
          \/ /\ ~shown.auto /\ ~discarded
             /\ Receive(s, Command("set-protection", t))
          \/ /\ discarded
             /\ Receive(s, Command("wake", t))
          \/ /\ ~discarded /\ shown.manualDiscard
             /\ Receive(s, Command("discard", t))

\* What the documents demand of a planned discard: the consumer asked for it,
\* for this very generation, the application allows it and nothing holds the
\* tab that the plan was made for.
PlanIsSound(descriptor, bound, projection, request, application) ==
    /\ request.intent = "reclaimable"
    /\ \A x \in {bound, request} :
            SameLane(x, descriptor) /\ SameGeneration(x, descriptor)
    /\ descriptor.state \in {"active", "parked"}
    /\ application.recovery \in {"verified", "recoverable"}
    /\ application.discard = "allowed" /\ application.blockers = {}
    /\ projection.residency \in {"background", "frozen"}
    /\ projection.blockers = {}

\* Every request createChromiumEffectRequestV1 makes of some plan, with the
\* projection it was planned from.
PlannedRequests ==
    {[projection |-> p,
      effect |-> PlanBoundChromiumResidency(d, b, "tab", p, r, a),
      sound |-> PlanIsSound(d, b, p, r, a)] :
        p \in ChromiumProjections,
        d \in [laneRef : LaneOfPlan, generation : GenerationOfPlan,
               state : {"active", "recovery_needed"}],
        b \in [laneRef : LaneOfPlan, generation : GenerationOfPlan,
               tab : {"tab"}],
        r \in [laneRef : LaneOfPlan, generation : GenerationOfPlan,
               intent : Intent],
        a \in ApplicationFacts}

\* An effect request for tab t under the reference of a projection.
EffectCommand(t, projection, effect, sound) ==
    [Command("apply-effect", t) EXCEPT !.projection = projection,
        !.effect = effect, !.sound = sound, !.pc = "request"]

RequestEffect(s, t) ==
    \E plan \in PlannedRequests :
        /\ plan.projection = listed[t]
        /\ plan.effect \in {"keep_warm", "discard"}
        /\ Receive(s, EffectCommand(t, t, plan.effect, plan.sound))

\* A well-formed request that names a projection which is not the tab's.
RequestMismatched(s, t, effect) ==
    Receive(s, EffectCommand(t, ForeignProjection, effect, FALSE))

\* The reply or receipt has been read.
Finish(s) ==
    /\ At(s, "answered")
    /\ commands' = [commands EXCEPT ![s] = Idle]
    /\ UNCHANGED <<tabs, listed>>

Commanded(s) ==
    \/ Finish(s)
    \/ \E t \in Tab :
        \/ Press(s, t) \/ RequestEffect(s, t)
        \/ \E effect \in {"keep_warm", "discard"} :
                RequestMismatched(s, t, effect)

-----------------------------------------------------------------------------
(* The user and the browser                                                *)

\* The user changes how a tab is shown and used.
UserStep(t) ==
    /\ t \in Open
    /\ \/ \E place \in {"hidden", "active", "foreground"} :
            tabs' = [tabs EXCEPT ![t].place = place,
                        ![t].residency = IF place = "hidden" THEN @
                                                             ELSE Woken(tabs[t])]
       \/ \E hold \in Hold :
            tabs' = [tabs EXCEPT ![t].hold = hold]
    /\ UNCHANGED <<listed, commands>>

\* Chrome loads, freezes and, where it may, discards tabs by itself.
BrowserStep(t) ==
    /\ t \in Open
    /\ \/ /\ tabs[t].residency = "loading"
          /\ tabs' = [tabs EXCEPT ![t].residency = "loaded"]
       \/ /\ tabs[t].residency = "loaded" /\ tabs[t].place = "hidden"
          /\ tabs' = [tabs EXCEPT ![t].residency = "frozen"]
       \/ /\ tabs[t].residency \in {"loaded", "frozen"}
          /\ tabs[t].place = "hidden" /\ tabs[t].hold = "none" /\ tabs[t].auto
          /\ tabs' = [tabs EXCEPT ![t].residency = "discarded"]
    /\ UNCHANGED <<listed, commands>>

CloseTab(t) ==
    /\ t \in Open
    /\ tabs' = [tabs EXCEPT ![t] = Gone]
    /\ commands' = [s \in Slot |->
            IF commands[s] # Idle /\ commands[s].tab = t
            THEN [commands[s] EXCEPT !.touched = TRUE] ELSE commands[s]]
    /\ UNCHANGED listed

HostNext ==
    \/ \E s \in Slot : HostStep(s) \/ Commanded(s)
    \/ ListProjections
    \/ \E t \in Tab : UserStep(t) \/ BrowserStep(t) \/ CloseTab(t)

HostSpec == HostInit /\ [][HostNext]_hostVars

-----------------------------------------------------------------------------
(* Properties                                                              *)

\* A planned effect discards a tab only if the plan, made from an earlier
\* reading, was sound in every respect: the right generation of the lane, the
\* application's permission, nothing of the browser against it.  The second
\* gate, the fresh reading, does not repair a plan that was not.
PlannedDiscardAllowed ==
    [][\A s \in Slot :
         /\ At(s, "discard") /\ commands[s].type = "apply-effect"
         /\ commands'[s].did
         => /\ commands[s].sound
            /\ commands[s].projection = commands[s].tab]_hostVars

\* The outcome of the receipt for an answer (end of applyPlannedEffect).
Outcome(answer) ==
    CASE answer = "ok" -> "applied"
      [] answer = "discard-refused" -> "refused"
      [] answer = "projection-mismatch" -> "stale_projection"
      [] OTHER -> "browser_error"

\* What a receipt says is what the browser did for this request: an applied
\* discard was carried out, by this command and no other, and a refused or
\* stale request has changed nothing.
ReceiptTruth ==
    \A s \in Slot :
        At(s, "answered") /\ commands[s].type = "apply-effect" =>
            LET c == commands[s] IN
            /\ Outcome(c.answer) = "applied" /\ c.effect = "discard" => c.did
            /\ Outcome(c.answer) \in {"refused", "stale_projection"} => ~c.did

\* When keep-warm succeeds, undisturbed by other commands on its tab, then
\* the tab is protected and is not left discarded: Chrome may have discarded
\* it between the reading and the protecting update.
KeptWarm ==
    \A s \in Slot :
        /\ At(s, "answered") /\ Warms(commands[s])
        /\ commands[s].answer = "ok" /\ ~commands[s].touched
        => LET tab == tabs[commands[s].tab]
           IN tab # Gone /\ ~tab.auto /\ tab.residency # "discarded"

=============================================================================
