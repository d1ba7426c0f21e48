-------------------------- MODULE MCApplicationLanes --------------------------
(***************************************************************************)
(* The two in-memory owners of application-lane state, which share nothing *)
(* but the lane references of their callers; the initial state chooses the *)
(* one that runs.  The runtime: three lanes for two places, three request  *)
(* ids, two event ids for a ring of one, two generations, two times.  The  *)
(* ledger: three lanes, two remembered, one leased; lifetimes of one or    *)
(* two ticks; every call may bring any time up to MaxSafeInteger.          *)
(***************************************************************************)
EXTENDS ApplicationLaneRuntime, ApplicationLaneInteractionLedger, TLC

VARIABLE part

MCGeneration == 1..2
MCTime == 1..2
MCState == {"active", "parked"}
MCCapabilitySet == {{"events", "observe"}, {"activate"}}
MCOperation == {"status", "observe"}

MCInit == part \in {"runtime", "ledger"} /\ Init /\ LedgerInit

MCNext ==
    /\ UNCHANGED part
    /\ \/ part = "runtime" /\ Next /\ UNCHANGED ledgerVars
       \/ part = "ledger" /\ LedgerNext /\ UNCHANGED vars

MCSpec == MCInit /\ [][MCNext]_<<part, vars, ledgerVars>>

\* The lease references are the event ids by another name and the
\* leased lanes are the runtime's, so that both parts share one symmetry.
Symmetry == Permutations(LaneRef) \union Permutations(RequestId)
                \union Permutations(EventId)

=============================================================================
