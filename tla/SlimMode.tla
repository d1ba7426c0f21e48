------------------------------- MODULE SlimMode -------------------------------
(***************************************************************************)
(* The Firefox slim-mode content controller: it discovers the turns of a   *)
(* conversation page, hides or removes the older ones, watches the page    *)
(* for changes and falls back to the stock page when the layout drifts.    *)
(*                                                                         *)
(* One content script lives from a load of the page to the next reload;    *)
(* the session configuration outlives it.  The wait for the background's   *)
(* authorization is the only await: a request is two steps, and anything   *)
(* may happen in between.  The page is the sequence of its turn elements   *)
(* and placeholders; heights, counters and the status chip with its status *)
(* and reason are left out.                                                *)
(* slim.applied says that lastAppliedSignature is the one of the turns the *)
(* page has now: a change of the turns never brings an old signature back. *)
(* slim.timer is "off", or tells one setting of the apply timer from the   *)
(* next: every schedule of an application restarts the delay.              *)
(***************************************************************************)
EXTENDS Integers, FiniteSets, SequencesExt

CONSTANTS GenuinePage,       \* what the site may render: sequences of turns
          MaxElements,       \* bound of the model: elements of the page
          MaxPending,        \* bound of the model: requests awaiting an answer
          MAX_TURN_GROUPS, DEFAULT_TURN_GROUPS, RevealIncrement,
          MAX_PLACEHOLDERS, DriftFailureLimit,
          NoConfig

SlimModes == {"render-suppressed", "latest-window"}
TurnGroups == 1..MAX_TURN_GROUPS
Config == [mode : SlimModes, groups : TurnGroups]

\* The site renders turns; placeholders are the controller's own.
ASSUME SlimAssumption ==
    /\ MAX_TURN_GROUPS \in Nat \ {0} /\ DEFAULT_TURN_GROUPS \in TurnGroups
    /\ {RevealIncrement, DriftFailureLimit} \subseteq Nat \ {0}
    /\ MAX_PLACEHOLDERS \in Nat
    /\ GenuinePage \subseteq Seq([role : {"user", "assistant"},
                                  streaming : BOOLEAN, suppressed : {FALSE}])
    /\ NoConfig \notin Config

VARIABLES page,       \* the elements of the conversation, in document order
          layout,     \* "coherent", or "broken": discovery cannot read it
          config,     \* the session configuration kept in sessionStorage
          slim,       \* the controller's variables
          pending,    \* requests awaiting transformAuthorization
          reloading   \* a reload of the page has been scheduled

slimVars == <<page, layout, config, slim, pending, reloading>>

Placeholder == [role |-> "placeholder", streaming |-> FALSE, suppressed |-> FALSE]

InitialDrift == [everApplied |-> FALSE, failures |-> 0, route |-> "settled"]

(***************************************************************************)
(* A content script that has just been loaded.  It reads the session       *)
(* configuration; a configuration other than stock waits for authorization.*)
(***************************************************************************)
Booted(saved) ==
    [mode |-> IF saved = NoConfig THEN "stock" ELSE saved.mode,
     groups |-> IF saved = NoConfig THEN DEFAULT_TURN_GROUPS ELSE saved.groups,
     destructive |-> FALSE, drift |-> InitialDrift, applied |-> FALSE,
     observing |-> FALSE, timer |-> "off", knowsUrl |-> TRUE]

AwaitedAtBoot(saved) ==
    IF saved = NoConfig THEN {} ELSE {[saved EXCEPT !.mode = "boot"]}

SlimInit ==
    /\ page \in GenuinePage /\ layout = "coherent"
    /\ config = NoConfig /\ slim = Booted(NoConfig)
    /\ pending = {} /\ reloading = FALSE

Reload ==
    /\ reloading
    /\ page' \in GenuinePage /\ slim' = Booted(config)
    /\ pending' = AwaitedAtBoot(config) /\ reloading' = FALSE
    /\ UNCHANGED <<layout, config>>

-----------------------------------------------------------------------------
(* Discovery and the window planned from it. *)

Turns(p) == {i \in DOMAIN p : p[i].role # "placeholder"}
Users(p, i) == Cardinality({j \in Turns(p) : j <= i /\ p[j].role = "user"})
Discovered == layout = "coherent" /\ Turns(page) # {}

\* The last groups of turns, and every group that is still streaming.
Retained(p, groups) ==
    {i \in Turns(p) :
        \/ Users(p, i) > Users(p, Len(p)) - groups
        \/ \E j \in Turns(p) : p[j].streaming /\ Users(p, j) = Users(p, i)}

Suppressed(p, keep) ==
    [i \in DOMAIN p |->
        [p[i] EXCEPT !.suppressed = i \in Turns(p) \ keep]]

Unsuppressed(p) == [i \in DOMAIN p |-> [p[i] EXCEPT !.suppressed = FALSE]]

\* A range of removed turns begins where no removed turn comes right before.
BeginsRange(p, keep, i) ==
    LET earlier == {j \in Turns(p) : j < i}
    IN  earlier = {} \/ \E j \in earlier \cap keep : \A k \in earlier : k <= j

Windowed(p, keep) ==
    FlattenSeq([i \in DOMAIN p |->
        IF i \notin Turns(p) \/ i \in keep
        THEN <<[p[i] EXCEPT !.suppressed = FALSE]>>
        ELSE IF BeginsRange(p, keep, i) /\ (i = 1 \/ (i - 1) \in Turns(p))
             THEN <<Placeholder>> ELSE <<>>])

Placeholders(p) == Cardinality(DOMAIN p \ Turns(p))

-----------------------------------------------------------------------------
(* reduceSlimDrift: what a success, a change of route, an application and  *)
(* a failure of discovery make of the drift state.                         *)

DriftSettled(drift) == [drift EXCEPT !.failures = 0, !.route = "settled"]
DriftRouted(drift) == [drift EXCEPT !.failures = 0, !.route = "grace"]
DriftApplied(drift) == [DriftSettled(drift) EXCEPT !.everApplied = TRUE]

\* FAULTY: a failure after the mode was applied is counted, not retried.
DriftFailedUnretried(drift) ==
    LET next == [drift EXCEPT !.failures = @ + 1]
    IN  [state |-> next, failOpen |-> next.failures >= DriftFailureLimit,
         retry |-> FALSE]

DriftFailed(drift) ==
    IF drift.route = "grace"
    THEN [state |-> drift, failOpen |-> FALSE, retry |-> TRUE]
    ELSE IF ~drift.everApplied
         THEN [state |-> drift, failOpen |-> FALSE, retry |-> FALSE]
         ELSE LET next == [drift EXCEPT !.failures = @ + 1, !.route = "settled"]
                  over == next.failures >= DriftFailureLimit
              IN  [state |-> next, failOpen |-> over, retry |-> ~over]

\* The grace after a change of route ends with time.
GraceEnds ==
    /\ slim.drift.route = "grace"
    /\ slim' = [slim EXCEPT !.drift.route = "settled"]
    /\ UNCHANGED <<page, layout, config, pending, reloading>>

-----------------------------------------------------------------------------
(* The controller. *)

\* scheduleApply: a timer that is set already starts over.
Scheduled(s) ==
    [s EXCEPT !.timer = IF s.mode = "stock" THEN @
                        ELSE IF @ = "armed" THEN "rearmed" ELSE "armed"]

\* failOpen and what it leaves of a page p.
FailOpen(s, p) ==
    LET halted == [s EXCEPT !.observing = FALSE, !.timer = "off",
                            !.drift = InitialDrift]
    IN  /\ config' = NoConfig
        /\ IF s.destructive
           THEN /\ slim' = halted /\ page' = p /\ reloading' = TRUE
           ELSE /\ slim' = [halted EXCEPT !.mode = "stock", !.applied = FALSE]
                /\ page' = Unsuppressed(p)
                /\ UNCHANGED reloading

\* A change of URL seen by applySlimMode: whether turns were removed from
\* the page that is shown now is read off its placeholders.
Rerouted(s) ==
    IF s.knowsUrl THEN s
    ELSE [s EXCEPT !.knowsUrl = TRUE, !.applied = FALSE,
                   !.destructive = Placeholders(page) > 0,
                   !.drift = DriftRouted(@)]

DiscoveryFails(s) ==
    LET decision == DriftFailed(s.drift)
        next == [s EXCEPT !.drift = decision.state]
    IN  IF decision.failOpen THEN FailOpen(next, page)
        ELSE /\ slim' = IF decision.retry THEN Scheduled(next) ELSE next
             /\ UNCHANGED <<page, config, reloading>>

Applied(s, same) == [s EXCEPT !.drift = DriftApplied(@), !.applied = same]

\* FAULTY: the destructive mark is set once all removals have succeeded.
RemoveTurnsMarkedLate(s) ==
    LET windowed == Windowed(page, Retained(page, s.groups))
        removed == windowed # Unsuppressed(page)
    IN  IF Placeholders(windowed) > MAX_PLACEHOLDERS
        THEN FailOpen([s EXCEPT !.observing = TRUE], windowed)
        ELSE /\ page' = windowed
             /\ slim' = Applied([s EXCEPT !.observing = TRUE,
                                          !.destructive = @ \/ removed], ~removed)
             /\ UNCHANGED <<config, reloading>>

\* latest-window: the placeholder budget is checked after the removals; the
\* mark that they happened is set before the first of them.
RemoveTurns(s) ==
    LET windowed == Windowed(page, Retained(page, s.groups))
        removed == windowed # Unsuppressed(page)
        marked == [s EXCEPT !.observing = TRUE, !.destructive = @ \/ removed]
    IN  IF Placeholders(windowed) > MAX_PLACEHOLDERS
        THEN FailOpen(marked, windowed)
        ELSE /\ page' = windowed /\ slim' = Applied(marked, ~removed)
             /\ UNCHANGED <<config, reloading>>

\* The apply timer fires: applySlimMode, from end to end.
Apply ==
    /\ slim.timer # "off"
    /\ LET s == Rerouted([slim EXCEPT !.timer = "off"])
           settled == [s EXCEPT !.drift = DriftSettled(@)]
       IN  IF ~Discovered THEN DiscoveryFails(s)
           ELSE IF s.applied
           THEN slim' = settled /\ UNCHANGED <<page, config, reloading>>
           ELSE IF s.mode = "latest-window" THEN RemoveTurns(settled)
           ELSE /\ page' = Suppressed(page, Retained(page, s.groups))
                /\ slim' = Applied(settled, TRUE)
                /\ UNCHANGED <<config, reloading>>
    /\ UNCHANGED <<layout, pending>>

RestoreStock ==
    /\ config' = NoConfig
    /\ IF slim.destructive
       THEN /\ slim' = [slim EXCEPT !.observing = FALSE, !.timer = "off"]
            /\ reloading' = TRUE /\ UNCHANGED page
       ELSE /\ slim' = [Booted(NoConfig) EXCEPT !.knowsUrl = slim.knowsUrl]
            /\ page' = Unsuppressed(page) /\ UNCHANGED reloading
    /\ UNCHANGED <<layout, pending>>

\* setSlimMode up to its await.
SetSlimMode(mode, groups) ==
    /\ Cardinality(pending) < MaxPending
    /\ pending' = pending \cup {[mode |-> mode, groups |-> groups]}
    /\ UNCHANGED <<page, layout, config, slim, reloading>>

RevealPrevious ==
    /\ slim.mode # "stock" /\ slim.groups < MAX_TURN_GROUPS
    /\ SetSlimMode(slim.mode,
                   IF slim.groups + RevealIncrement > MAX_TURN_GROUPS
                   THEN MAX_TURN_GROUPS ELSE slim.groups + RevealIncrement)

\* setSlimMode after its await.  The mode, the page and the destructive mark
\* are those of now, not of the request.
Denied(request) ==
    /\ request \in pending /\ pending' = pending \ {request}
    /\ IF request.mode = "boot" THEN FailOpen(slim, page)
       ELSE UNCHANGED <<page, config, slim, reloading>>
    /\ UNCHANGED layout

Watching(s) == Scheduled([s EXCEPT !.observing = TRUE])

Authorized(request) ==
    /\ request \in pending /\ pending' = pending \ {request}
    /\ IF request.mode = "boot"
       THEN slim' = Watching(slim) /\ UNCHANGED <<config, reloading>>
       ELSE /\ config' = request
            /\ IF /\ slim.destructive
                  /\ <<slim.mode, slim.groups>> # <<request.mode, request.groups>>
               THEN /\ slim' = [slim EXCEPT !.observing = FALSE]
                    /\ reloading' = TRUE
               ELSE /\ slim' = Watching([slim EXCEPT
                                   !.mode = request.mode, !.groups = request.groups,
                                   !.drift = InitialDrift, !.applied = FALSE])
                    /\ UNCHANGED reloading
    /\ UNCHANGED <<page, layout>>

\* FAULTY: the mode is taken up although the configuration was not written.
Unwritable(request) ==
    /\ request \in pending /\ request.mode # "boot"
    /\ pending' = pending \ {request}
    /\ slim' = Watching([slim EXCEPT !.mode = request.mode, !.groups = request.groups])
    /\ UNCHANGED <<page, layout, config, reloading>>

\* Authorized, but the session storage does not take the configuration.
Unrecorded(request) ==
    /\ request \in pending /\ request.mode # "boot"
    /\ pending' = pending \ {request}
    /\ UNCHANGED <<page, layout, config, slim, reloading>>

-----------------------------------------------------------------------------
(* The page changes by itself; a mutation the observer sees restarts the   *)
(* timer.                                                                  *)

Observed(s) == IF s.observing THEN Scheduled(s) ELSE s

Shows(p) ==
    page' = p /\ slim' = [Observed(slim) EXCEPT !.applied = @ /\ p = page]

TurnArrives ==
    /\ Len(page) < MaxElements
    /\ \E role \in {"user", "assistant"} :
          Shows(Append(page, [role |-> role, suppressed |-> FALSE,
                              streaming |-> role = "assistant"]))
    /\ UNCHANGED <<layout, config, pending, reloading>>

StreamEnds ==
    /\ \E i \in DOMAIN page :
          page[i].streaming /\ Shows([page EXCEPT ![i].streaming = FALSE])
    /\ UNCHANGED <<layout, config, pending, reloading>>

LayoutChanges ==
    /\ layout' = IF layout = "coherent" THEN "broken" ELSE "coherent"
    /\ Shows(page)
    /\ UNCHANGED <<config, pending, reloading>>

\* A mutation the observer sees that is none of the turns'.
Mutates ==
    /\ slim.observing /\ slim' = Scheduled(slim)
    /\ UNCHANGED <<page, layout, config, pending, reloading>>

\* The site shows another conversation, at once or when it has rendered it.
Navigate ==
    /\ \E p \in GenuinePage \cup {page} :
          /\ page' = p
          /\ slim' = [(IF p = page THEN slim ELSE Observed(slim)) EXCEPT
                         !.knowsUrl = FALSE]
    /\ UNCHANGED <<layout, config, pending, reloading>>

-----------------------------------------------------------------------------

SlimUser ==
    \/ \E mode \in SlimModes, groups \in TurnGroups : SetSlimMode(mode, groups)
    \/ RevealPrevious
    \/ RestoreStock

SlimAnswer == \E request \in pending :
                  Denied(request) \/ Authorized(request) \/ Unrecorded(request)

SlimPage == TurnArrives \/ StreamEnds \/ LayoutChanges \/ Mutates \/ Navigate

SlimNext == SlimUser \/ SlimAnswer \/ SlimPage \/ Apply \/ GraceEnds \/ Reload

SlimSpec == SlimInit /\ [][SlimNext]_slimVars

\* A timer that is set and not restarted fires, time passes and a scheduled
\* reload happens.
SlimFairness ==
    /\ \A set \in {"armed", "rearmed"} :
          <>[](slim.timer = set) => []<><<Apply>>_slimVars
    /\ WF_slimVars(GraceEnds) /\ WF_slimVars(Reload)

-----------------------------------------------------------------------------

\* While turns are missing from the page, the controller knows it: it will
\* not claim to restore in place what only a reload brings back, whatever
\* failed in the middle of a removal and wherever the site navigated.
RemovalRemembered == Placeholders(page) > 0 => slim.destructive

\* As long as turns are missing and no reload is on its way, the session
\* configuration that a reload would recover from has been written.
RecoveryRecorded == Placeholders(page) > 0 /\ ~reloading => config # NoConfig

\* The apply timer is not restarted for ever before it can fire: the page is
\* quiet for the length of the delay time and again.
Quiet ==
    \/ []<>(slim.timer = "off")
    \/ <>[](slim.timer = "armed") \/ <>[](slim.timer = "rearmed")

\* On a page that does not mutate without a pause for ever, a layout that broke
\* after the mode had been applied does not leave the page half slimmed: unless
\* the layout comes back, the site navigates again or a new request starts
\* over, the retries end in stock or in a reload.
DriftEnds ==
    Quiet =>
    ((layout = "broken" /\ slim.drift.everApplied /\ slim.mode # "stock")
        ~> (layout = "coherent" \/ ~slim.knowsUrl \/ ~slim.drift.everApplied
                \/ slim.mode = "stock" \/ reloading))

=============================================================================
