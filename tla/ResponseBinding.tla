--------------------------- MODULE ResponseBinding ---------------------------
(***************************************************************************)
(* prepareResponseBinding (core/src/response-binding.ts): one response is  *)
(* selected, authorized, collected within limits, decoded, handed to the   *)
(* fail-open pipeline and serialized; whatever goes wrong, the caller      *)
(* keeps the chunks it had.  runPipeline is the run of FailOpenPipeline,   *)
(* under the same cancellation signal.                                     *)
(***************************************************************************)
EXTENDS FailOpenPipeline

CONSTANTS
    ChunkSize,      \* byte lengths of chunks
    OutputSize,     \* byte lengths of what serialize may return
    maxChunks, maxBodyBytes, maxOutputBytes

ASSUME BindingLimitAssumption ==
    /\ ChunkSize \subseteq Nat /\ OutputSize \subseteq Nat
    /\ maxChunks \in Nat /\ maxBodyBytes \in Nat /\ maxOutputBytes \in Nat

VARIABLES
    attempt,    \* the run: the point it is at, chunks and bytes collected,
                \*   its decision, reason and output
    authority   \* what selector and authorization last said: not part of
                \*   the code

responseVars == <<pipeline, ledger, late, aborted, attempt, authority>>

\* chunks is the number that the response has; those looked at are counted.
ResponseInit ==
    /\ PipelineInit("idle")
    /\ \E chunks \in 0..(maxChunks + 1) :
        attempt = [at |-> "start", chunks |-> chunks,
                   collected |-> 0, bytes |-> 0, output |-> 0,
                   decision |-> "none", reason |-> "none"]
    /\ authority = [select |-> "none", authorize |-> "none"]

\* passThrough: the caller keeps its chunks.
KeepChunks(reason) ==
    attempt' = [attempt EXCEPT !.at = "done", !.decision = "pass-through",
                               !.reason = reason]

Proceed(at) == attempt' = [attempt EXCEPT !.at = at]

\* The configuration is looked at, and the signal for the first time.
StartBinding(valid) ==
    /\ attempt.at = "start"
    /\ IF ~valid THEN KeepChunks("configuration-invalid")
       ELSE IF aborted THEN KeepChunks("cancelled")
       ELSE Proceed("select")
    /\ UNCHANGED <<pipelineVars, authority>>

Select(answer) ==
    /\ attempt.at = "select"
    /\ authority' = [authority EXCEPT !.select = answer]
    /\ CASE answer = "exception" -> KeepChunks("selector-exception")
         [] answer = "malformed" -> KeepChunks("selector-invalid")
         [] answer = "miss" -> KeepChunks("selector-miss")
         [] answer = "ambiguous" -> KeepChunks("selector-ambiguous")
         [] answer = "match" -> Proceed("to-authorize")
    /\ UNCHANGED pipelineVars

\* The signal is looked at before the authorization, before each chunk, and
\* before decode, pipeline and serialize.
Watched == {"to-authorize", "collect", "to-decode", "to-pipeline",
            "to-serialize"}

Cancelled ==
    /\ attempt.at \in Watched /\ aborted
    /\ attempt.at = "collect" =>
            /\ attempt.chunks <= maxChunks
            /\ attempt.collected < attempt.chunks
    /\ KeepChunks("cancelled")
    /\ UNCHANGED <<pipelineVars, authority>>

\* Faulty variant of Begin: the signal is not looked at.
BeginUnwatched(at) ==
    /\ attempt.at = "to-" \o at
    /\ Proceed(at)
    /\ UNCHANGED <<pipelineVars, authority>>

Begin(at) ==
    /\ attempt.at = "to-" \o at /\ ~aborted
    /\ Proceed(at)
    /\ UNCHANGED <<pipelineVars, authority>>

Authorize(answer) ==
    /\ attempt.at = "authorize"
    /\ authority' = [authority EXCEPT !.authorize = answer]
    /\ CASE answer = "exception" -> KeepChunks("authorization-exception")
         [] answer = "malformed" -> KeepChunks("authorization-invalid")
         [] answer = "denied" -> KeepChunks("authorization-denied")
         [] answer = "eligible" -> Proceed("collect")
    /\ UNCHANGED pipelineVars

TooManyChunks ==
    /\ attempt.at = "collect" /\ attempt.chunks > maxChunks
    /\ KeepChunks("chunk-limit-exceeded")
    /\ UNCHANGED <<pipelineVars, authority>>

CollectChunk(size, standard) ==
    /\ attempt.at = "collect" /\ attempt.chunks <= maxChunks
    /\ attempt.collected < attempt.chunks /\ ~aborted
    /\ IF ~standard THEN KeepChunks("chunk-invalid")
       ELSE IF attempt.bytes + size > maxBodyBytes
            THEN KeepChunks("body-byte-limit-exceeded")
            ELSE attempt' = [attempt EXCEPT !.collected = @ + 1,
                                            !.bytes = @ + size]
    /\ UNCHANGED <<pipelineVars, authority>>

\* All chunks are copied into one array, which may fail.
JoinChunks(fits) ==
    /\ attempt.at = "collect" /\ attempt.chunks <= maxChunks
    /\ attempt.collected = attempt.chunks
    /\ IF fits THEN Proceed("to-decode")
               ELSE KeepChunks("body-byte-limit-exceeded")
    /\ UNCHANGED <<pipelineVars, authority>>

Decode(succeeds) ==
    /\ attempt.at = "decode"
    /\ IF succeeds THEN Proceed("to-pipeline")
                   ELSE KeepChunks("decode-exception")
    /\ UNCHANGED <<pipelineVars, authority>>

\* runPipeline, which never throws and never answers anything malformed.
StartPipeline ==
    /\ attempt.at = "pipeline" /\ pipeline.at = "idle"
    /\ pipeline' = [pipeline EXCEPT !.at = "start"]
    /\ UNCHANGED <<attempt, ledger, late, aborted, authority>>

RunPipeline == attempt.at = "pipeline" /\ PipelineStep
               /\ UNCHANGED <<attempt, authority>>

EndPipeline ==
    /\ attempt.at = "pipeline" /\ pipeline.at = "done"
    /\ IF pipeline.decision = "pass-through"
       THEN KeepChunks("pipeline-pass-through")
       ELSE Proceed("to-serialize")
    /\ UNCHANGED <<pipelineVars, authority>>

\* The output is copied before it is returned.
Serialize(size, standard) ==
    /\ attempt.at = "serialize"
    /\ IF ~standard THEN KeepChunks("serialize-invalid")
       ELSE IF size > maxOutputBytes
            THEN KeepChunks("output-byte-limit-exceeded")
            ELSE attempt' = [attempt EXCEPT !.at = "done",
                    !.decision = "transformed", !.reason = "transformed",
                    !.output = size]
    /\ UNCHANGED <<pipelineVars, authority>>

SerializeThrows ==
    /\ attempt.at = "serialize"
    /\ KeepChunks("serialize-exception")
    /\ UNCHANGED <<pipelineVars, authority>>

\* The signal's owner acts while a callback of the binding runs.
AbortBinding ==
    /\ attempt.at \in {"select", "authorize", "decode", "serialize"} /\ ~aborted
    /\ aborted' = TRUE
    /\ UNCHANGED <<pipeline, ledger, late, attempt, authority>>

ResponseNext ==
    \/ \E valid \in BOOLEAN : StartBinding(valid)
    \/ \E answer \in {"match", "miss", "ambiguous", "malformed", "exception"} :
            Select(answer)
    \/ Cancelled
    \/ \E at \in {"authorize", "decode", "pipeline", "serialize"} : Begin(at)
    \/ \E answer \in {"eligible", "denied", "malformed", "exception"} :
            Authorize(answer)
    \/ TooManyChunks
    \/ \E size \in ChunkSize, standard \in BOOLEAN : CollectChunk(size, standard)
    \/ \E fits \in BOOLEAN : JoinChunks(fits)
    \/ \E succeeds \in BOOLEAN : Decode(succeeds)
    \/ StartPipeline \/ RunPipeline \/ EndPipeline
    \/ \E size \in OutputSize, standard \in BOOLEAN : Serialize(size, standard)
    \/ SerializeThrows \/ AbortBinding
    \/ attempt.at = "done" /\ UNCHANGED responseVars

ResponseSpec == ResponseInit /\ [][ResponseNext]_responseVars

-----------------------------------------------------------------------------
(* Properties                                                              *)

\* Once cancelled, the response reaches no further dependency: neither the
\* decoder nor the pipeline nor the serializer begins to work on it.
CancelledReachesNothing ==
    [][aborted /\ attempt'.at # attempt.at => attempt'.at \notin
            {"authorize", "decode", "pipeline", "serialize"}]_responseVars

=============================================================================
