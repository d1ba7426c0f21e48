--------------------------- MODULE LaneActivityPanel ---------------------------
(***************************************************************************)
(* The Firefox lane-activity diagnostic: the popup binds a lane target to  *)
(* the document a tab shows and samples its activity, the background       *)
(* routes both questions to that tab, and the content script answers under *)
(* a private reference that stands for one document at one route.          *)
(*                                                                         *)
(* Every question is a chain of promises, so the tab may navigate or       *)
(* reload, and the user may edit the target, before an answer is used.     *)
(* The panel and the diagnostic export of the popup hold bindings of their *)
(* own and share the input fields.  The fields of an observation other     *)
(* than its lane target are the business of ChatGptLaneActivity.           *)
(***************************************************************************)
EXTENDS Integers, FiniteSets

CONSTANTS LaneTab,        \* tabs
          Route,          \* locations within the site
          Target,         \* lane references with their generations
          Surface,        \* the panel and the diagnostic export
          maxVisits,      \* bound of the model: navigations of all tabs
          maxAsked,       \* bound of the model: questions of all surfaces
          NoBinding, NoObservation, NoAnswer

ASSUME PanelAssumption == maxVisits \in Nat /\ maxAsked \in Nat

VARIABLES document,   \* for each tab: what it shows, what its script knows,
                      \* and (history) the load and the visit it shows
          visits,     \* the navigations of all tabs so far
          refs,       \* the number of projection references created so far
          target,     \* the lane target in the input fields, or Invalid
          binding,    \* for each surface
          shown,      \* for each surface: the observation accepted last
          asked,      \* the questions that await an answer
          questions   \* the number of questions asked so far

panelVars == <<document, visits, refs, target, binding, shown, asked, questions>>

Invalid == "invalid"

\* createFirefoxChatGptDocumentProjectionState: a reference for a new script.
Fresh(route, ref, visit) ==
    [route |-> route, script |-> TRUE, knownRoute |-> route, ref |-> ref,
     load |-> visit, visit |-> visit]

\* History: where an answer was given.
Where(d) == [load |-> d.load, route |-> d.route, visit |-> d.visit]

PanelInit ==
    /\ document = [t \in LaneTab |-> [Fresh(CHOOSE r \in Route : TRUE, 0, 0) EXCEPT
                                       !.script = FALSE]]
    /\ visits = 0 /\ refs = 0 /\ target \in Target
    /\ binding = [s \in Surface |-> NoBinding]
    /\ shown = [s \in Surface |-> NoObservation]
    /\ asked = {} /\ questions = 0

-----------------------------------------------------------------------------
(* The tab. *)

Visited == visits < maxVisits /\ visits' = visits + 1
Elsewhere == UNCHANGED <<target, binding, shown, asked, questions>>

\* A page of the site is loaded and its content script starts.
LoadDocument(t, route) ==
    /\ Visited /\ refs' = refs + 1
    /\ document' = [document EXCEPT ![t] = Fresh(route, refs + 1, visits + 1)]
    /\ Elsewhere

\* The site changes its route within the document.  Nothing tells the script.
NavigateWithin(t, route) ==
    /\ document[t].script /\ route # document[t].route /\ Visited
    /\ document' = [document EXCEPT ![t].route = route, ![t].visit = visits + 1]
    /\ UNCHANGED refs /\ Elsewhere

\* The tab leaves the site: no content script answers any more.
LeaveSite(t) ==
    /\ document[t].script
    /\ document' = [document EXCEPT ![t].script = FALSE]
    /\ UNCHANGED <<visits, refs>> /\ Elsewhere

-----------------------------------------------------------------------------
(* The popup asks. *)

Ask(question) ==
    /\ questions < maxAsked /\ questions' = questions + 1
    /\ asked' = asked \cup {question}
    /\ UNCHANGED <<document, visits, refs, target, shown>>

Cleared(s) ==
    /\ binding' = [binding EXCEPT ![s] = NoBinding]
    /\ shown' = [shown EXCEPT ![s] = NoObservation]

\* Bind the target to the document of the active tab t.
Bind(s, t) ==
    /\ target # Invalid
    /\ Ask([id |-> questions, surface |-> s, kind |-> "discover", tab |-> t,
            lane |-> target, bound |-> NoBinding, answer |-> NoAnswer])
    /\ UNCHANGED binding

BindNothing(s) ==
    /\ target = Invalid /\ Cleared(s)
    /\ UNCHANGED <<document, visits, refs, target, asked, questions>>

Sample(s) ==
    /\ binding[s] # NoBinding
    /\ Ask([id |-> questions, surface |-> s, kind |-> "sample",
            tab |-> binding[s].tab, lane |-> binding[s].lane,
            bound |-> binding[s], answer |-> NoAnswer])
    /\ UNCHANGED binding

\* An edit of the input fields clears both bindings.
EditTarget(lane) ==
    /\ lane # target /\ target' = lane
    /\ binding' = [s \in Surface |-> NoBinding]
    /\ shown' = [s \in Surface |-> NoObservation]
    /\ UNCHANGED <<document, visits, refs, asked, questions>>

\* Closing the popup ends its scripts; it opens with empty fields.
ClosePopup ==
    /\ target' = Invalid /\ asked' = {}
    /\ binding' = [s \in Surface |-> NoBinding]
    /\ shown' = [s \in Surface |-> NoObservation]
    /\ UNCHANGED <<document, visits, refs, questions>>

-----------------------------------------------------------------------------
(* The content script and the background answer. *)

\* FAULTY: a reference once created stands for the document at every route.
CurrentOfDocument(d) == d

\* The script compares its route with the one it saw last and rotates its
\* reference when they differ.
Current(d) ==
    IF d.route = d.knownRoute THEN d
    ELSE [d EXCEPT !.knownRoute = d.route, !.ref = refs + 1]

Answered(q, status, d) ==
    asked' = (asked \ {q}) \cup
        {[q EXCEPT !.answer = [status |-> status, ref |-> d.ref, where |-> Where(d)]]}

\* The content script of the tab answers, and the background turns the answer
\* into a receipt that repeats the question.
AnswerQuestion(q) ==
    /\ q \in asked /\ q.answer = NoAnswer
    /\ LET d == Current(document[q.tab])
       IN  IF document[q.tab].script
           THEN /\ document' = [document EXCEPT ![q.tab] = d]
                /\ refs' = IF d.ref > refs THEN d.ref ELSE refs
                /\ Answered(q, IF q.kind = "sample" /\ q.bound.ref # d.ref
                               THEN "stale" ELSE "answered", d)
           ELSE /\ Answered(q, "unavailable", document[q.tab])
                /\ UNCHANGED <<document, refs>>
    /\ UNCHANGED <<visits, target, binding, shown, questions>>

\* An answer that is no well-formed record, or a message that failed.
AnswerUnusable(q) ==
    /\ q \in asked /\ q.answer = NoAnswer
    /\ Answered(q, "unavailable", document[q.tab])
    /\ UNCHANGED <<document, visits, refs, target, binding, shown, questions>>

-----------------------------------------------------------------------------
(* The popup takes an answer. *)

\* The binding becomes that of the answer, whatever happened meanwhile.
AcceptDiscovery(q) ==
    /\ q \in asked /\ q.answer # NoAnswer /\ q.kind = "discover"
    /\ asked' = asked \ {q}
    /\ IF q.answer.status # "answered" THEN Cleared(q.surface)
       ELSE /\ binding' = [binding EXCEPT ![q.surface] =
                              [tab |-> q.tab, lane |-> q.lane,
                               ref |-> q.answer.ref, where |-> q.answer.where]]
            /\ shown' = [shown EXCEPT ![q.surface] = NoObservation]
    /\ UNCHANGED <<document, visits, refs, target, questions>>

\* So it does with a sample: the binding is the one the question was asked
\* with.
AcceptSample(q) ==
    /\ q \in asked /\ q.answer # NoAnswer /\ q.kind = "sample"
    /\ asked' = asked \ {q}
    /\ IF q.answer.status # "answered" THEN Cleared(q.surface)
       ELSE /\ binding' = [binding EXCEPT ![q.surface] = q.bound]
            /\ shown' = [shown EXCEPT ![q.surface] =
                            [lane |-> q.lane, bound |-> q.bound.where,
                             sampled |-> q.answer.where]]
    /\ UNCHANGED <<document, visits, refs, target, questions>>

-----------------------------------------------------------------------------

PanelPage ==
    \E t \in LaneTab :
        \/ \E route \in Route : LoadDocument(t, route) \/ NavigateWithin(t, route)
        \/ LeaveSite(t)

PanelUser ==
    \/ \E s \in Surface :
          (\E t \in LaneTab : Bind(s, t)) \/ BindNothing(s) \/ Sample(s)
    \/ \E lane \in Target \cup {Invalid} : EditTarget(lane)
    \/ ClosePopup

PanelAnswer ==
    \E q \in asked : \/ AnswerQuestion(q) \/ AnswerUnusable(q)
                     \/ AcceptDiscovery(q) \/ AcceptSample(q)

PanelNext == PanelPage \/ PanelUser \/ PanelAnswer

PanelSpec == PanelInit /\ [][PanelNext]_panelVars

Samples == {shown[s] : s \in Surface} \ {NoObservation}

\* A sample that is shown or exported was taken in the document and at the
\* route that the binding was made for, however the tab navigated between the
\* two questions: activity of one conversation is never put down to another.
SampledWhereBound ==
    \A o \in Samples : o.sampled.load = o.bound.load /\ o.sampled.route = o.bound.route

\* docs/firefox-chatgpt-lane-activity-panel.md says that a change of route
\* rotates the epoch and that a later sample of the older binding is stale: a
\* sample would belong to the very visit that was bound.
SampledInVisit == \A o \in Samples : o.sampled.visit = o.bound.visit

\* docs/firefox-chatgpt-lane-activity-panel.md says that a change of an input
\* clears the binding: a binding would be one for the target in the fields.
BoundToTarget ==
    \A s \in Surface : binding[s] # NoBinding => binding[s].lane = target

=============================================================================
