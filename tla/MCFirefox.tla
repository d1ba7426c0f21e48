------------------------------ MODULE MCFirefox ------------------------------
(***************************************************************************)
(* Instances of the Firefox extension's parts, which share no state; the   *)
(* initial state chooses the one that runs.                                *)
(*   observation  two requests meet a limit of one active stream, two      *)
(*                paths a limit of one class                               *)
(*   slim         a page of four turn groups, with a reply that streams,   *)
(*                and a page of one                                        *)
(* No symmetry, so that liveness may be checked.                           *)
(***************************************************************************)
EXTENDS FirefoxObservation, SlimMode

VARIABLE part

El(r, s) == [role |-> r, streaming |-> s, suppressed |-> FALSE]
MCPages ==
    {<<El("user", FALSE), El("user", FALSE), El("assistant", TRUE),
       El("user", FALSE), El("user", FALSE)>>,
     <<El("user", FALSE)>>}

MCInit ==
    /\ part \in {"observation", "slim"} /\ Init
    /\ SlimInit /\ (part = "slim" \/ page = <<El("user", FALSE)>>)

MCNext ==
    /\ UNCHANGED part
    /\ \/ part = "observation" /\ Next /\ UNCHANGED slimVars
       \/ part = "slim" /\ SlimNext /\ UNCHANGED vars

\* Each part's fairness asks something of a run only while that part runs.
MCFairSpec ==
    /\ MCInit
    /\ [][MCNext]_<<part, vars, slimVars>>
    /\ WF_vars(part = "observation" /\ QueueStep) /\ SlimFairness

=============================================================================
