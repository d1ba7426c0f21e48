-------------------------- MODULE FailOpenPipeline --------------------------
(***************************************************************************)
(* runFailOpenPipeline (core/src/orchestration.ts) with its budget ledger  *)
(* (orchestration-runtime.ts): six stages over the callbacks of an adapter *)
(* that may throw, answer nonsense, swallow the exceptions it is meant to  *)
(* pass on, overrun its budget or have the run cancelled.  All of it is    *)
(* one synchronous call: only callbacks and the clock act in between.      *)
(***************************************************************************)
EXTENDS EarlyReturns, Naturals

CONSTANTS
    PipelineInput,  \* records of the nodes of an input, the allocation that
                    \*   a copy of it takes, and whether it is plain data
    Amount,         \* operations or bytes that a callback may ask for at once
    maxNodes, maxOperations, maxAllocated,
    NoFault         \* of a run without an injected fault

ASSUME PipelineAssumption ==
    /\ PipelineInput \subseteq [nodes : Nat \ {0}, bytes : Nat, plain : BOOLEAN]
    /\ Amount \subseteq Nat
    /\ maxNodes \in Nat \ {0} /\ maxOperations \in Nat \ {0}
    /\ maxAllocated \in Nat

PIPELINE_STAGES == <<"detect", "validate-input", "fingerprint", "plan",
                     "materialize", "validate-output">>

\* What the callback of a stage may answer; malformed answers that are read
\* as such, and a value where the code reads none.
Answers(stage) ==
    CASE stage = "detect" -> {"ok", "miss", "ambiguous", "malformed"}
      [] stage \in {"validate-input", "plan", "validate-output"} ->
            {"ok", "invalid", "malformed"}
      [] stage = "fingerprint" -> {"ok", "malformed"}
      [] stage = "materialize" -> {"ok"}

VARIABLES
    pipeline,   \* the run: its input, the number of completed stages, the
                \*   point it is at, its decision and reason
    ledger,     \* nodes, operations and allocated bytes of BudgetLedger
    late,       \* the clock says that the time budget is spent
    aborted     \* cancellation.aborted

pipelineVars == <<pipeline, ledger, late, aborted>>

FaultMode == {"throw", "cancel", "budget"}

\* A run on an input; at is "idle" until a caller starts it.
NewRun(input, at, fault) ==
    [input |-> input, completed |-> 0, at |-> at, fault |-> fault,
     decision |-> "none", reason |-> "none"]

EmptyLedger == [nodes |-> 0, operations |-> 0, allocated |-> 0]

\* An injected fault is a stage and a mode.
PipelineInit(at) ==
    /\ \E input \in PipelineInput,
          fault \in ((1..6) \X FaultMode) \union {NoFault} :
            pipeline = NewRun(input, at, fault)
    /\ ledger = EmptyLedger
    /\ late = FALSE /\ aborted \in BOOLEAN

Stage == PIPELINE_STAGES[pipeline.completed + 1]

\* passThrough: the caller keeps its authoritative input.
PassThrough(reason) ==
    pipeline' = [pipeline EXCEPT !.at = "done", !.decision = "pass-through",
                                 !.reason = reason]

\* BudgetLedger.checkpoint.
Checkpoint ==
    FirstRule(<< <<aborted, "cancelled">>,
                 <<late, "budget-time-exceeded">>,
                 <<TRUE, "ok">> >>)

Overrun(l) ==
    FirstRule(<< <<l.operations > maxOperations, "budget-operation-exceeded">>,
                 <<l.allocated > maxAllocated, "budget-allocation-exceeded">>,
                 <<TRUE, "ok">> >>)

\* Counters grow no further than one above their limit here.
Charge(counter, amount, limit) ==
    IF counter + amount > limit THEN limit + 1 ELSE counter + amount

\* capturePipelineAdapter and capturePipelineCapabilities refuse the adapter.
RefuseAdapter(reason) ==
    /\ pipeline.at = "start"
    /\ PassThrough(reason)
    /\ UNCHANGED <<ledger, late, aborted>>

AcceptAdapter ==
    /\ pipeline.at = "start"
    /\ pipeline' = [pipeline EXCEPT !.at = "measure"]
    /\ UNCHANGED <<ledger, late, aborted>>

\* measureInput: a checkpoint, an operation and a node per value.
MeasureNode ==
    /\ pipeline.at = "measure"
    /\ LET measured ==
             [ledger EXCEPT !.nodes = @ + 1,
                 !.operations = Charge(@, 1, maxOperations)]
           reason ==
             FirstRule(<< <<Checkpoint # "ok", Checkpoint>>,
                          <<Overrun(measured) # "ok", Overrun(measured)>>,
                          <<measured.nodes > maxNodes,
                            "budget-node-count-exceeded">>,
                          <<~pipeline.input.plain
                              /\ measured.nodes = pipeline.input.nodes,
                            "input-schema-unsupported">>,
                          <<TRUE, "ok">> >>)
       IN /\ ledger' = measured
          /\ IF reason # "ok" THEN PassThrough(reason)
             ELSE pipeline' = [pipeline EXCEPT !.at =
                    IF measured.nodes = pipeline.input.nodes THEN "enter"
                                                             ELSE "measure"]
    /\ UNCHANGED <<late, aborted>>

\* injectFault of the stage to come.
Injected ==
    IF pipeline.fault = NoFault \/ pipeline.fault[1] # pipeline.completed + 1
    THEN "ok"
    ELSE CASE pipeline.fault[2] = "throw" -> "fault-injected"
           [] pipeline.fault[2] = "cancel" -> "cancelled"
           [] pipeline.fault[2] = "budget" -> "budget-operation-exceeded"

\* Before detect, the input is copied and the copy frozen: an operation per
\* node each, and the allocation of the copy.
Copied ==
    IF pipeline.completed # 0 THEN ledger
    ELSE [ledger EXCEPT
            !.operations = Charge(@, 2 * pipeline.input.nodes, maxOperations),
            !.allocated = Charge(@, pipeline.input.bytes, maxAllocated)]

\* What comes before the callback of a stage.
EnterStage ==
    /\ pipeline.at = "enter"
    /\ LET reason ==
             FirstRule(<< <<Checkpoint # "ok", Checkpoint>>,
                          <<Injected # "ok", Injected>>,
                          <<Overrun(Copied) # "ok", Overrun(Copied)>>,
                          <<TRUE, "ok">> >>)
       IN /\ ledger' = IF Checkpoint = "ok" /\ Injected = "ok" THEN Copied
                                                               ELSE ledger
          /\ IF reason # "ok" THEN PassThrough(reason)
             ELSE pipeline' = [pipeline EXCEPT !.at = "callback"]
    /\ UNCHANGED <<late, aborted>>

\* A callback uses its context.  What the context throws the callback passes
\* on, or catches.
Use(used, reason) ==
    /\ pipeline.at = "callback"
    /\ ledger' = used
    /\ \/ reason # "ok" /\ PassThrough(reason)
       \/ UNCHANGED pipeline
    /\ UNCHANGED <<late, aborted>>

ConsumeOperations(n) ==
    LET used == [ledger EXCEPT !.operations = Charge(@, n, maxOperations)]
    IN Use(used, IF used.operations > maxOperations
                 THEN "budget-operation-exceeded" ELSE "ok")

ReserveAllocation(n) ==
    LET used == [ledger EXCEPT !.allocated = Charge(@, n, maxAllocated)]
    IN Use(used, IF used.allocated > maxAllocated
                 THEN "budget-allocation-exceeded" ELSE "ok")

RecurseTooDeep == Use(ledger, "budget-recursion-exceeded")

CheckpointInside == Use(ledger, Checkpoint)

\* Whoever holds the signal cancels while a callback runs.
Abort ==
    /\ pipeline.at = "callback" /\ ~aborted
    /\ aborted' = TRUE
    /\ UNCHANGED <<pipeline, ledger, late>>

TimePasses ==
    /\ pipeline.at \notin {"idle", "done"} /\ ~late
    /\ late' = TRUE
    /\ UNCHANGED <<pipeline, ledger, aborted>>

CallbackThrows ==
    /\ pipeline.at = "callback"
    /\ PassThrough(<<Stage, "exception">>)
    /\ UNCHANGED <<ledger, late, aborted>>

CompleteStage(completed) ==
    IF completed = Len(PIPELINE_STAGES)
    THEN pipeline' = [pipeline EXCEPT !.at = "done", !.completed = completed,
                            !.decision = "transformed", !.reason = "transformed"]
    ELSE pipeline' = [pipeline EXCEPT !.at = "enter", !.completed = completed]

\* Faulty variant of CallbackAnswers: no checkpoint after the callback.
CallbackAnswersUnchecked(answer) ==
    /\ pipeline.at = "callback" /\ answer \in Answers(Stage)
    /\ IF answer # "ok" THEN PassThrough(<<Stage, answer>>)
       ELSE CompleteStage(pipeline.completed + 1)
    /\ UNCHANGED <<ledger, late, aborted>>

\* The answer is looked at after another checkpoint.
CallbackAnswers(answer) ==
    /\ pipeline.at = "callback" /\ answer \in Answers(Stage)
    /\ IF Checkpoint # "ok" THEN PassThrough(Checkpoint)
       ELSE IF answer # "ok" THEN PassThrough(<<Stage, answer>>)
       ELSE CompleteStage(pipeline.completed + 1)
    /\ UNCHANGED <<ledger, late, aborted>>

PipelineStep ==
    \/ \E reason \in {"configuration-invalid", "adapter-capability-rejected"} :
            RefuseAdapter(reason)
    \/ AcceptAdapter \/ MeasureNode \/ EnterStage
    \/ \E n \in Amount : ConsumeOperations(n) \/ ReserveAllocation(n)
    \/ RecurseTooDeep \/ CheckpointInside
    \/ Abort \/ TimePasses \/ CallbackThrows
    \/ \E answer \in {"ok", "invalid", "miss", "ambiguous", "malformed"} :
            CallbackAnswers(answer)

-----------------------------------------------------------------------------
(* Properties                                                              *)

\* Once the run is cancelled or its time is spent, whenever before its end
\* that happens and whatever the callbacks swallow, the result is the
\* unchanged input.
StoppedNeverTransforms ==
    [][pipeline.decision = "none" /\ pipeline'.decision = "transformed"
         => ~aborted /\ ~late]_pipelineVars

\* docs/fail-open-pipeline.md: a breach of a budget maps to a budget reason.
\* It does not if the callback swallows the exception, since no checkpoint
\* looks at these counters again.
BreachNeverTransforms ==
    pipeline.decision = "transformed" => Overrun(ledger) = "ok"

=============================================================================
