--------------------------- MODULE OneShotReferences ---------------------------
(***************************************************************************)
(* What an owner of request references promises, whatever it does with     *)
(* them: a reference is issued once in the owner's life, to one holder     *)
(* which then waits for nothing else; it is admitted only while its holder *)
(* waits for it; and a holder may stop waiting at any time.                *)
(***************************************************************************)

CONSTANTS
    Holder,
    Reference

VARIABLES
    issued,         \* the references issued so far
    waiting,        \* for each holder, the reference it waits for, if any
    admitted        \* the references admitted so far

referenceVars == <<issued, waiting, admitted>>

Init ==
    /\ issued = {} /\ admitted = {}
    /\ waiting = [h \in Holder |-> {}]

\* What the holder waited for before is given up.
Issue(h, r) ==
    /\ r \notin issued
    /\ issued' = issued \union {r}
    /\ waiting' = [waiting EXCEPT ![h] = {r}]
    /\ UNCHANGED admitted

Admit(h, r) ==
    /\ r \in waiting[h]
    /\ admitted' = admitted \union {r}
    /\ waiting' = [waiting EXCEPT ![h] = {}]
    /\ UNCHANGED issued

GiveUp(holders) ==
    /\ waiting' = [h \in Holder |-> IF h \in holders THEN {} ELSE waiting[h]]
    /\ UNCHANGED <<issued, admitted>>

Next ==
    \/ \E h \in Holder, r \in Reference : Issue(h, r) \/ Admit(h, r)
    \/ \E holders \in SUBSET Holder : GiveUp(holders)

Spec == Init /\ [][Next]_referenceVars

=============================================================================
