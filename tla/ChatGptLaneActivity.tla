-------------------------- MODULE ChatGptLaneActivity --------------------------
(***************************************************************************)
(* When may a ChatGPT lane be put to sleep?  The adapter answers from two  *)
(* kinds of evidence: a continuity witness (the root of the conversation   *)
(* graph, taken once and compared later) and an activity observation of    *)
(* the page.  Both are taken at one moment and used at another, of a lane  *)
(* whose generation may have moved on in between.                          *)
(*                                                                         *)
(* Activity is the set of what goes on in the page.  An observation has    *)
(* what it saw going on, what it could not tell, and (history) whether     *)
(* nothing went on.                                                        *)
(***************************************************************************)
EXTENDS EarlyReturns, Integers, FiniteSets

CONSTANTS Root,            \* conversation graphs, told apart by their root
          LaneGeneration,  \* bound of the model: generations of the lane
          ActivityTime,    \* bound of the model: an interval from 0
          maxActivityAge,
          NoEvidence

ASSUME ActivityAssumption ==
    /\ LaneGeneration \subseteq Nat \ {0} /\ ActivityTime \subseteq Nat
    /\ maxActivityAge \in Nat \ {0}

VARIABLES generation,    \* of the lane's descriptor
          root,          \* of the conversation that the page shows
          activity,      \* what goes on in the page
          legible,       \* the page has its conversation markers and one composer
          witness, recovery, observation,
          activityNow

activityVars == <<generation, root, activity, legible, witness, recovery,
                  observation, activityNow>>

Activities == {"generation", "composer", "composition", "modal", "media",
               "download", "transient"}

\* Bound of the model: at most one thing goes on at a time.
Ongoing == {{}} \cup {{a} : a \in {"generation", "download"}}

ActivityInit ==
    /\ generation = 1 /\ root \in Root /\ activity = {} /\ legible = TRUE
    /\ witness = NoEvidence /\ recovery = NoEvidence /\ observation = NoEvidence
    /\ activityNow = 0

Evidence == <<witness, recovery, observation>>
PageState == <<root, activity, legible>>

-----------------------------------------------------------------------------
(* The page and the lane change; the clock of an assessment moves on. *)

PageChanges ==
    /\ \/ root' \in Root /\ activity' = {} /\ legible' = TRUE
       \/ activity' \in Ongoing /\ UNCHANGED <<root, legible>>
       \/ legible' = ~legible /\ UNCHANGED <<root, activity>>
    /\ UNCHANGED <<generation, Evidence, activityNow>>

GenerationAdvances ==
    /\ generation + 1 \in LaneGeneration /\ generation' = generation + 1
    /\ UNCHANGED <<PageState, Evidence, activityNow>>

TimeAdvances ==
    /\ activityNow + 1 \in ActivityTime /\ activityNow' = activityNow + 1
    /\ UNCHANGED <<generation, PageState, Evidence>>

-----------------------------------------------------------------------------
(* Evidence is taken. *)

CreateWitness ==
    /\ witness' = [generation |-> generation, root |-> root, at |-> activityNow]
    /\ UNCHANGED <<generation, PageState, recovery, observation, activityNow>>

\* assessChatGptLaneRecoveryV1 at an observation time t; continues is history:
\* the conversation is the one witnessed for this generation.
RecoveryStatus(w, t) ==
    FirstRule(<<
        <<w.generation # generation, "stale_generation">>,
        <<t < w.at, "stale_observation">>,
        <<w.root # root, "attention_required">>,
        <<TRUE, "verified">>>>)

AssessRecovery ==
    /\ witness # NoEvidence
    /\ \E t \in ActivityTime :
          recovery' = [generation |-> generation,
                       status |-> RecoveryStatus(witness, t),
                       continues |-> /\ witness.generation = generation
                                     /\ witness.root = root]
    /\ UNCHANGED <<generation, PageState, witness, observation, activityNow>>

\* classifyFirefoxChatGptLaneActivityV1: what the page script can tell.
SeenByScript == activity \cap
        (Activities \ ({"download", "transient"}
                           \cup IF legible THEN {} ELSE {"composer"}))

UntoldByScript ==
    {"download", "transient"}
        \cup (IF "media" \in activity THEN {} ELSE {"media"})
        \cup (IF legible THEN {} ELSE {"composer"} \cup ({"generation"} \ activity))

\* The probe of the extension's page script.
SampleByProducer ==
    /\ observation' = [generation |-> generation, at |-> activityNow,
                       active |-> SeenByScript, unknown |-> UntoldByScript,
                       exact |-> SeenByScript # {}, quiet |-> activity = {}]
    /\ UNCHANGED <<generation, PageState, witness, recovery, activityNow>>

\* External: a sentinel that sees everything, with a clock that may be ahead.
SampleBySentinel ==
    /\ \E t \in {activityNow, activityNow + 1}, exact \in BOOLEAN :
          observation' = [generation |-> generation, at |-> t, active |-> activity,
                          unknown |-> {}, exact |-> exact, quiet |-> activity = {}]
    /\ UNCHANGED <<generation, PageState, witness, recovery, activityNow>>

ActivityNext ==
    \/ PageChanges \/ GenerationAdvances \/ TimeAdvances
    \/ CreateWitness \/ AssessRecovery \/ SampleByProducer \/ SampleBySentinel

ActivitySpec == ActivityInit /\ [][ActivityNext]_activityVars

-----------------------------------------------------------------------------

\* FAULTY: a recovery that was verified for an earlier generation counts.
RecoveryHoldsForever == recovery.status = "verified"

RecoveryHolds == recovery.generation = generation /\ recovery.status = "verified"

\* assessChatGptLaneTransitionV1 on the evidence at hand.
Transition ==
    FirstRule(<<
        <<~RecoveryHolds, IF recovery.generation # generation
                          THEN "mismatched" ELSE "recovery_required">>,
        <<observation.generation # generation, "mismatched">>,
        <<observation.at > activityNow, "unknown">>,
        <<activityNow - observation.at > maxActivityAge, "stale">>,
        <<observation.active # {}, "blocked">>,
        <<~observation.exact \/ observation.unknown # {}, "unknown">>,
        <<TRUE, "clear">>>>)

Freezable ==
    recovery # NoEvidence /\ observation # NoEvidence /\ Transition = "clear"

\* A lane may sleep only on evidence of this generation of it: it was seen
\* with nothing going on, not long ago, and it showed the conversation that
\* had been witnessed for this generation when it was last compared.
SleepIsEarned ==
    Freezable =>
        /\ observation.quiet /\ observation.generation = generation
        /\ observation.at \in (activityNow - maxActivityAge)..activityNow
        /\ recovery.generation = generation /\ recovery.continues

=============================================================================
