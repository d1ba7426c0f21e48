------------------------------ MODULE MCStores ------------------------------
(***************************************************************************)
(* Instances of the bounded stores, and of the making of snapshots, which  *)
(* share no state; the initial state chooses the one that runs.            *)
(*   notices  the Android hint store: three events for a ring of three, a  *)
(*            window of two duplicates, one pending projection             *)
(*   hints    the completion-hint ledger: two devices, three notices for a *)
(*            queue of two                                                 *)
(*   cache    three keys for two entries and two byte totals; seeds that   *)
(*            are envelopes, keyless, foreign or other values              *)
(*   snapshot every forest of four nodes, with at most one wrong link,     *)
(*            seen from one of them                                        *)
(***************************************************************************)
EXTENDS NotificationHints, CompletionHintLedger, SnapshotCache,
        SyntheticSnapshot, TLC

VARIABLE part

MCHintTiming ==
    {[issuedAt |-> i, expiresAt |-> x, observedAt |-> o, now |-> n] :
        <<i, x, o, n>> \in
            {<<2, 4, 2, 3>>, <<2, 4, 2, 4>>, <<4, 6, 2, 2>>, <<2, 4, 1, 3>>,
             <<2, 4, 4, 2>>, <<2, 2, 2, 2>>, <<2, 5, 2, 3>>}}

MCCacheKey == {<<1, 1>>, <<1, 2>>, <<2, 1>>}
MCEnvelopeSize == {[serialized |-> 1, accounted |-> 3],
                   [serialized |-> 2, accounted |-> 4],
                   [serialized |-> 3, accounted |-> 5]}
MCSeed == {[form |-> f, identity |-> 1, size |-> [serialized |-> 2, accounted |-> 3],
            capturedAt |-> 0, expiresAt |-> 9] :
               f \in {"envelope", "keyless", "value", "foreign"}}

RestSnapshot ==
    /\ chat = NoPlan /\ chatPlan = NoPlan /\ chatSnapshot = NoSnapshot
    /\ chatStage = "refused"

MCInit ==
    /\ part \in {"notices", "hints", "cache", "snapshot"}
    /\ Init /\ HintLedgerInit
    /\ CacheInit(IF part = "cache" THEN MCSeed ELSE {})
    /\ IF part = "snapshot" THEN SyntheticInit({1, Unresolved})
                            ELSE RestSnapshot

\* The parts that do not run stay as they are.
Others(p) ==
    /\ part = p /\ UNCHANGED part
    /\ p # "notices" => UNCHANGED vars
    /\ p # "hints" => UNCHANGED hintLedgerVars
    /\ p # "cache" => UNCHANGED cacheVars
    /\ p # "snapshot" => UNCHANGED syntheticVars

MCNext ==
    \/ Others("notices") /\ Next
    \/ Others("hints") /\ HintLedgerNext
    \/ Others("cache") /\ CacheNext
    \/ Others("snapshot") /\ SyntheticNext

MCSpec == MCInit /\ [][MCNext]_<<part, vars, hintLedgerVars, cacheVars,
                                     syntheticVars>>

\* Event signatures are interchangeable.
Symmetry == Permutations(Event)

=============================================================================
