------------------------- MODULE AdapterConformance -------------------------
(***************************************************************************)
(* runAdapterConformance (core/src/conformance.ts): one scenario exercises *)
(* every stage of an adapter, most of them twice, and calls the adapter    *)
(* conformant if no issue was collected.                                   *)
(*                                                                         *)
(* The adapter is anybody's: a call may throw, refuse, answer nothing,     *)
(* answer otherwise the second time, and change the values it was given.   *)
(* Of the issues is kept whether there is one; their codes and texts are   *)
(* left out.  A value is captured before a stage and compared after it:    *)
(* what a stage does to the values handed to another one is outside of the *)
(* comparison and of this model.                                           *)
(***************************************************************************)
EXTENDS FiniteSets

CONSTANTS
    Adapter     \* what the adapters under test declare, by capability

Capability == {"plan", "materialize", "validateOutput",
               "alternateRepresentation"}

\* A capability as declared and as implemented: "undeclared" is a method of
\* an unsupported capability, "missing" a declaration without a method.
Declaration == {"unsupported", "undeclared", "missing", "synthetic-only",
                "supported"}

Scenario == [synthetic : BOOLEAN, invalidInput : BOOLEAN,
             planOptions : BOOLEAN, alternateOptions : BOOLEAN]

\* What a stage answers: one of two values, a refusal, null (of the other
\* stages also undefined) where an answer was due, or an exception.
StageAnswer == {"one", "other", "refused", "nothing", "throws"}

ASSUME ConformanceAssumption == Adapter \subseteq [Capability -> Declaration]

VARIABLES
    adapter, scenario,
    stage,          \* the stage to come, or the verdict
    clean,          \* no issue has been collected
    holding,        \* the results a later stage works on
    changed,        \* history: some stage has changed a value it was given
    agreed,         \* history: the stages that answered as they should, twice
    silent          \* history: the stages that answered nothing, once or
                    \*   twice, and raised no issue by that

conformanceVars ==
    <<adapter, scenario, stage, clean, holding, changed, agreed, silent>>

ConformanceInit ==
    /\ adapter \in Adapter /\ scenario \in Scenario
    /\ stage = "declaration"
    /\ clean = TRUE /\ changed = FALSE /\ holding = {}
    /\ agreed = {} /\ silent = {}

Promises(c) == adapter[c] \notin {"unsupported", "undeclared"}
Implements(c) == adapter[c] \in {"undeclared", "synthetic-only", "supported"}

-----------------------------------------------------------------------------
(* Helpers                                                                 *)

\* A stage ends, with an issue unless ok, and the run goes on with next.
EndStage(ok, next) ==
    /\ clean' = (clean /\ ok)
    /\ stage' = next
    /\ UNCHANGED <<adapter, scenario>>

ChangeValues(touched) == changed' = (changed \/ touched)

Remember(ok, silence) ==
    /\ agreed' = IF ok THEN agreed \union {stage} ELSE agreed
    /\ silent' = IF silence THEN silent \union {stage} ELSE silent

Accepted(a) == a \in {"one", "other"}

\* What two calls answer is compared if there are two answers, and an answer
\* is looked at if there is one.
Alike(first, second) == Accepted(first) /\ second = first
Unheard(first, second) ==
    \/ Accepted(first) /\ second = "nothing"
    \/ first = "nothing" /\ second # "throws"

\* executionAllowed
Allowed(c) == adapter[c] = "synthetic-only" => scenario.synthetic

\* The stages after the declared capability c, in their order.
StageAfter(c) ==
    CASE c = "plan" -> "materialize"
      [] c = "materialize" -> "validateOutput"
      [] c = "validateOutput" -> "alternateRepresentation"
      [] OTHER -> "verdict"

\* Faulty variant of DeclarationHolds: the capabilities are looked at one by
\* one, not what they need of each other.
DeclarationHoldsApart ==
    \A c \in Capability : adapter[c] \notin {"undeclared", "missing"}

DeclarationHolds ==
    /\ \A c \in Capability : adapter[c] \notin {"undeclared", "missing"}
    /\ Promises("materialize") => Promises("plan")
    /\ Promises("validateOutput") => Promises("materialize")

-----------------------------------------------------------------------------
(* Stages every adapter has                                                *)

\* A valid input that cannot be captured ends the run.
Declare(captured) ==
    /\ stage = "declaration"
    /\ EndStage(DeclarationHolds /\ captured,
                IF captured THEN "detect" ELSE "refused")
    /\ UNCHANGED <<holding, changed, agreed, silent>>

\* detect, twice on the valid input; an exception or a null of the first call
\* ends the run, one of the second does not.
Detect(first, second, touched) ==
    /\ stage = "detect"
    /\ EndStage(Alike(first, second) /\ ~touched,
                IF first \in {"nothing", "throws"} THEN "refused"
                ELSE IF scenario.invalidInput THEN "detectInvalid"
                ELSE "validate")
    /\ Remember(Alike(first, second), FALSE)
    /\ ChangeValues(touched) /\ UNCHANGED holding

\* detect or validate, once on the invalid input: it must refuse.
Refuse(s, next, refusals, answer, touched, captured) ==
    /\ stage = s
    /\ EndStage(answer \in refusals /\ ~touched /\ captured, next)
    /\ Remember(answer \in refusals, FALSE)
    /\ ChangeValues(touched) /\ UNCHANGED holding

RefuseInvalid(answer, touched, captured) ==
    \/ Refuse("detectInvalid", "validate", {"refused", "nothing"},
              answer, touched, captured)
    \/ Refuse("validateInvalid", "fingerprint", {"refused"},
              answer, touched, captured)

\* validate, twice on the valid input; the source of the later stages is what
\* the first call returned, and two answers are captured to be compared.
Validate(first, second, touched, captured) ==
    /\ stage = "validate"
    /\ EndStage(/\ \/ Alike(first, second) /\ captured
                   \/ Unheard(first, second)
                /\ ~touched,
                IF ~Accepted(first) THEN "refused"
                ELSE IF scenario.invalidInput THEN "validateInvalid"
                ELSE "fingerprint")
    /\ Remember(Alike(first, second), Unheard(first, second))
    /\ ChangeValues(touched) /\ UNCHANGED holding

\* fingerprint, twice under one try: an exception or a call that answers
\* nothing ends the run.  One value has the identity of the adapter.
Fingerprint(first, second, touched, captured) ==
    /\ stage = "fingerprint"
    /\ LET ok == first = "one" /\ second = first
       IN /\ EndStage(ok /\ ~touched /\ captured,
                IF {"nothing", "throws"} \intersect {first, second} # {}
                THEN "refused" ELSE "plan")
          /\ Remember(ok, FALSE)
    /\ ChangeValues(touched) /\ UNCHANGED holding

-----------------------------------------------------------------------------
(* Declared capabilities                                                   *)

\* What the capability needs besides its method.
Ready(c) ==
    CASE c = "materialize" -> "plan" \in holding
      [] c = "validateOutput" -> "materialize" \in holding
      [] OTHER -> TRUE

\* A promise without its method is an issue of the declaration; a result that
\* an earlier stage did not deliver is none of this stage.
SkipCapability(c) ==
    /\ stage = c
    /\ \/ ~Promises(c) \/ ~Implements(c) \/ ~Ready(c)
    /\ EndStage(TRUE, StageAfter(c))
    /\ UNCHANGED <<holding, changed, agreed, silent>>

Runs(c) == stage = c /\ Promises(c) /\ Implements(c) /\ Ready(c)

\* The scenario has the options of the stage.
Given(c) ==
    CASE c = "plan" -> scenario.planOptions
      [] c = "alternateRepresentation" -> scenario.alternateOptions
      [] OTHER -> TRUE

\* A synthetic-only capability without a synthetic scenario, or a scenario
\* without options: the stage has an issue instead of a run.
Exclude(c) ==
    /\ Runs(c)
    /\ ~(Allowed(c) /\ Given(c))
    /\ EndStage(FALSE, StageAfter(c))
    /\ UNCHANGED <<holding, changed, agreed, silent>>

\* plan, materialize or alternateRepresentation, twice under one try.  What
\* the first call returned is worked on even if the second one throws.
Exercise(c, first, second, touched, captured) ==
    /\ c # "validateOutput" /\ Runs(c) /\ Allowed(c) /\ Given(c)
    /\ EndStage(/\ Alike(first, second) \/ Unheard(first, second)
                /\ ~touched /\ captured,
                IF c = "alternateRepresentation" /\ Accepted(first)
                THEN "validateAlternateRepresentation" ELSE StageAfter(c))
    /\ Remember(Alike(first, second), Unheard(first, second))
    /\ holding' = IF Accepted(first) THEN holding \union {c} ELSE holding
    /\ ChangeValues(touched)

\* validateDetachedTwice: each call on a copy of its own.  If one of them
\* answers nothing, the other's answer is not looked at.
ValidateDetached(c, first, second, touched, captured) ==
    /\ \/ c = "validateOutput" /\ Runs(c) /\ Allowed(c)
       \/ c = "validateAlternateRepresentation" /\ stage = c
    /\ touched => captured
    /\ LET unheard == /\ "nothing" \in {first, second}
                      /\ "throws" \notin {first, second}
       IN /\ EndStage(/\ Alike(first, second) \/ unheard
                      /\ ~touched /\ captured, StageAfter(c))
          /\ Remember(captured /\ Alike(first, second), captured /\ unheard)
    /\ ChangeValues(touched) /\ UNCHANGED holding

ReachVerdict ==
    /\ stage = "verdict"
    /\ stage' = IF clean THEN "conformant" ELSE "refused"
    /\ UNCHANGED <<adapter, scenario, clean, holding, changed, agreed, silent>>

\* Only the action of the current stage looks at the answers there may be.
ConformanceNext ==
    \/ \E captured \in BOOLEAN : Declare(captured)
    \/ /\ stage = "detect"
       /\ \E first, second \in StageAnswer, touched \in BOOLEAN :
                Detect(first, second, touched)
    \/ /\ stage \in {"validate", "fingerprint"}
       /\ \E first, second \in StageAnswer, captured, touched \in BOOLEAN :
                \/ Validate(first, second, touched, captured)
                \/ Fingerprint(first, second, touched, captured)
    \/ /\ stage \in {"detectInvalid", "validateInvalid"}
       /\ \E answer \in StageAnswer, captured, touched \in BOOLEAN :
                RefuseInvalid(answer, touched, captured)
    \/ \E c \in {stage} \intersect Capability :
          \/ SkipCapability(c) \/ Exclude(c)
          \/ \E first, second \in StageAnswer, captured, touched \in BOOLEAN :
                Exercise(c, first, second, touched, captured)
    \/ \E c \in {stage} \intersect {"validateOutput", "validateAlternateRepresentation"},
          first, second \in StageAnswer, captured, touched \in BOOLEAN :
                ValidateDetached(c, first, second, touched, captured)
    \/ ReachVerdict

ConformanceSpec == ConformanceInit /\ [][ConformanceNext]_conformanceVars

-----------------------------------------------------------------------------
(* Properties                                                              *)

\* The stages an adapter owes, in this scenario and by its promises.
Owed ==
    {"detect", "validate", "fingerprint"}
      \union (IF scenario.invalidInput THEN {"detectInvalid", "validateInvalid"}
                                      ELSE {})
      \union {c \in Capability : Promises(c)}
      \union (IF Promises("alternateRepresentation")
              THEN {"validateAlternateRepresentation"} ELSE {})

\* The stages whose results a stage works on, directly or not.
Needs(s) ==
    CASE s = "materialize" -> {"plan"}
      [] s = "validateOutput" -> {"plan", "materialize"}
      [] s = "validateAlternateRepresentation" -> {"alternateRepresentation"}
      [] OTHER -> {}

\* A result the stage needs was not given, and that was not objected to.
Undelivered(s) == \E needed \in Needs(s) : needed \in silent \ holding

\* Every stage a conformant adapter owes has answered as it should, twice
\* alike and in a context the promise allows, whatever other capability or
\* option that took, but for the stages that answered nothing and those left
\* without a result by that; it refused the invalid input, and no stage changed
\* a value it was given.
ConformantEarned ==
    stage = "conformant" =>
        /\ \A s \in Owed : s \in agreed \union silent \/ Undelivered(s)
        /\ \A c \in Capability : Promises(c) => Allowed(c) \/ Undelivered(c)
        /\ ~changed

\* docs/adapter-contracts.md:54: a conformant adapter has been exercised, not
\* only found to have its methods.
ConformantExercised == stage = "conformant" => Owed \subseteq agreed

=============================================================================
