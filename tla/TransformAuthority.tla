-------------------------- MODULE TransformAuthority --------------------------
(***************************************************************************)
(* What may authorize a transformation of a live page in the Firefox       *)
(* extension: the emergency lock with its generation, the recorded opt-in  *)
(* intent with its own, the clearers of volatile state that the lock runs, *)
(* and evaluateLiveAuthorization, which decides over an approval and a     *)
(* volatile grant.                                                         *)
(*                                                                         *)
(* In this build nothing calls the evaluation and the lock is never off.   *)
(* Its caller is therefore external: it hands over the current state of    *)
(* the two controllers, a lock that a later build might have released, and *)
(* the grant it holds.  The identities that an approval and a grant are    *)
(* bound to (build, origin, response class, adapter, capabilities) are the *)
(* members of Bound; a set of those that differ stands for their values.   *)
(***************************************************************************)
EXTENDS EarlyReturns, Integers

CONSTANTS Bound,             \* what a request is compared with
          AuthorityTime,     \* bound of the model: an interval from 0
          maxGeneration,     \* bound of the model: calls of the controllers
          validFrom, validUntil,    \* of the approval
          NoGrant

ASSUME AuthorityAssumption ==
    /\ AuthorityTime \subseteq Nat /\ validFrom \in Nat /\ validUntil > validFrom
    /\ maxGeneration \in Nat

VARIABLES safety,       \* the transform-safety controller
          optIn,        \* the opt-in controller
          grant,        \* the volatile grant, or NoGrant
          revokedApproval,
          authorityNow,
          decision,     \* of the last evaluation
          withdrawn     \* history: intent or lock was touched since the grant

authorityVars ==
    <<safety, optIn, grant, revokedApproval, authorityNow, decision, withdrawn>>

AuthorityInit ==
    /\ safety = [generation |-> 0, clears |-> 0, clearFailures |-> 0]
    /\ optIn = [recorded |-> FALSE, generation |-> 0]
    /\ grant = NoGrant /\ revokedApproval = FALSE /\ authorityNow = 0
    /\ decision = "none" /\ withdrawn = FALSE

Touched == withdrawn' = TRUE /\ decision' = "none"
Budgeted == optIn.generation + safety.generation < maxGeneration

\* record(): the exact acknowledgements, or it throws and changes nothing.
RecordOptIn ==
    /\ Budgeted /\ Touched
    /\ optIn' = [recorded |-> TRUE, generation |-> optIn.generation + 1]
    /\ UNCHANGED <<safety, grant, revokedApproval, authorityNow>>

Revoked(o) == [recorded |-> FALSE, generation |-> o.generation + 1]

RevokeOptIn ==
    /\ Budgeted /\ Touched /\ optIn' = Revoked(optIn)
    /\ UNCHANGED <<safety, grant, revokedApproval, authorityNow>>

\* clearAllVolatileTransformState runs every registered clearer, whatever the
\* others throw, that of the opt-in among them; a failure of any is told once.
ClearFailures == {0, 1}

\* emergencyDisable: clears, then locks again under a new generation.
EmergencyDisable ==
    /\ Budgeted /\ Touched
    /\ optIn' = Revoked(optIn)
    /\ \E failures \in ClearFailures :
          safety' = [generation |-> safety.generation + 1,
                     clears |-> safety.clears + 1,
                     clearFailures |-> safety.clearFailures + failures]
    /\ UNCHANGED <<grant, revokedApproval, authorityNow>>

Tick ==
    /\ authorityNow + 1 \in AuthorityTime /\ authorityNow' = authorityNow + 1
    /\ decision' = "none"
    /\ UNCHANGED <<safety, optIn, grant, revokedApproval, withdrawn>>

-----------------------------------------------------------------------------
(* External: who issues grants and withdraws approvals. *)

IssueGrant(expires, differs) ==
    /\ expires > authorityNow
    /\ grant' = [issuedAt |-> authorityNow, expiresAt |-> expires,
                 safety |-> safety.generation, optIn |-> optIn.generation,
                 differs |-> differs]
    /\ withdrawn' = FALSE /\ decision' = "none"
    /\ UNCHANGED <<safety, optIn, revokedApproval, authorityNow>>

RevokeApproval ==
    /\ ~revokedApproval /\ revokedApproval' = TRUE /\ decision' = "none"
    /\ UNCHANGED <<safety, optIn, grant, authorityNow, withdrawn>>

-----------------------------------------------------------------------------

\* What is decided before the approval is looked at.
LocalVerdict(locked, capable, denied) ==
    FirstRule(<<
        <<locked, "emergency-disabled">>,
        <<~capable, "capability-disabled">>,
        <<~optIn.recorded, "local-opt-in-required">>,
        <<denied, "adapter-denylisted">>,
        <<TRUE, "allowed">>>>)

\* FAULTY: of the two generations only that of the lock is compared.
GrantGenerationsHalf(g) == g.safety = safety.generation

GrantGenerations(g) == g.safety = safety.generation /\ g.optIn = optIn.generation

ApprovalVerdict(differs) ==
    FirstRule(<<
        <<revokedApproval, "approval-revoked">>,
        <<authorityNow < validFrom, "approval-not-yet-valid">>,
        <<authorityNow >= validUntil, "approval-expired">>,
        <<differs # {}, "approval-mismatch">>,
        <<TRUE, "approved">>>>)

GrantVerdict(g, sameSession) ==
    IF g = NoGrant THEN "grant-missing"
    ELSE FirstRule(<<
        <<authorityNow < g.issuedAt, "grant-invalid">>,
        <<authorityNow >= g.expiresAt, "grant-expired">>,
        <<~sameSession, "grant-session-mismatch">>,
        <<~GrantGenerations(g), "grant-generation-mismatch">>,
        <<g.issuedAt < validFrom \/ g.expiresAt > validUntil \/ g.differs # {},
          "grant-binding-mismatch">>,
        <<TRUE, "authorized">>>>)

\* evaluateLiveAuthorization on the controllers' current states; an input, an
\* approval or a grant that is missing or malformed is denied in its place and
\* left out, but for the missing grant.
Evaluate(locked, capable, denied, differs, sameSession) ==
    LET permission == LocalVerdict(locked, capable, denied)
        approval == ApprovalVerdict(differs)
    IN  IF permission # "allowed" THEN permission
        ELSE IF approval # "approved" THEN approval
        ELSE GrantVerdict(grant, sameSession)

EvaluateLiveAuthorization ==
    /\ \E locked, capable, denied, sameSession \in BOOLEAN,
          differs \in SUBSET Bound :
            decision' = Evaluate(locked, capable, denied, differs, sameSession)
    /\ UNCHANGED <<safety, optIn, grant, revokedApproval, authorityNow, withdrawn>>

AuthorityNext ==
    \/ RecordOptIn \/ RevokeOptIn \/ EmergencyDisable \/ Tick
    \/ \E expires \in AuthorityTime, differs \in SUBSET Bound :
          IssueGrant(expires, differs)
    \/ RevokeApproval
    \/ EvaluateLiveAuthorization

AuthoritySpec == AuthorityInit /\ [][AuthorityNext]_authorityVars

-----------------------------------------------------------------------------

\* A grant does not survive what it was granted under: once the lock was used
\* or the intent revoked, even if the intent is recorded again, the old grant
\* authorizes nothing.
GrantEndsWithIntent == decision = "authorized" => ~withdrawn

=============================================================================
