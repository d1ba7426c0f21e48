------------------- MODULE ApplicationLaneInteractionLedger -------------------
(***************************************************************************)
(* The ledger of interaction leases over application lanes                 *)
(* (packages/core/src/application-lane-interaction.ts).                    *)
(*                                                                         *)
(* A lease says who, human or agent, may act on the current generation of  *)
(* a lane until it expires.  The ledger owns no clock: every call brings   *)
(* the caller's time, and nothing makes those times grow.  It remembers    *)
(* the highest generation accepted for each lane, so that a stale          *)
(* descriptor can neither act nor roll a lane back.                        *)
(*                                                                         *)
(* A call refused before it touches the ledger (a malformed value, a       *)
(* request that does not match its descriptor, a lifetime over the limit,  *)
(* lane_capacity, stale_generation) is a stuttering step.                  *)
(***************************************************************************)
EXTENDS Naturals, FiniteSets

CONSTANTS
    LeasedLane,         \* lane references
    LeaseRef,           \* lease references
    LeasedGeneration,   \* lane generations a descriptor may carry
    maxActiveLeases,
    maxTrackedLanes,
    maxLeaseTtlMs,
    MaxSafeInteger,     \* the largest time the arithmetic may reach
    NoLease, NoRef

ASSUME LeaseInputAssumption ==
    /\ LeasedGeneration \subseteq Nat \ {0}
    /\ NoRef \notin LeaseRef

\* parseOptions
ASSUME LeaseLimitAssumption ==
    /\ maxActiveLeases \in Nat \ {0}
    /\ maxTrackedLanes \in Nat \ {0}
    /\ maxActiveLeases <= maxTrackedLanes
    /\ maxLeaseTtlMs \in Nat \ {0}
    /\ MaxSafeInteger \in Nat

Owner == {"human", "agent"}
LeaseTime == 0..MaxSafeInteger
Ttl == 1..maxLeaseTtlMs

Lease == [laneGeneration : LeasedGeneration, leaseRef : LeaseRef,
          owner : Owner, issuedAtMs : LeaseTime, expiresAtMs : LeaseTime]

ASSUME LeaseAbsenceAssumption == NoLease \notin Lease

VARIABLES
    leases,             \* the lease of each lane, or NoLease
    generations,        \* the remembered generation of each lane, 0 if none
    call                \* history: the last call that reached the ledger

ledgerVars == <<leases, generations, call>>

Tracked == {l \in LeasedLane : generations[l] # 0}
Held(ls) == {l \in LeasedLane : ls[l] # NoLease}

Call(op, ref, now) == [op |-> op, leaseRef |-> ref, now |-> now]

LedgerInit ==
    /\ leases = [l \in LeasedLane |-> NoLease]
    /\ generations = [l \in LeasedLane |-> 0]
    /\ call = Call("none", NoRef, 0)

-----------------------------------------------------------------------------
(* Helpers                                                                 *)

\* acceptGeneration lets generation g of lane l in.
Accepts(l, g) ==
    /\ generations[l] = 0 => Cardinality(Tracked) < maxTrackedLanes
    /\ generations[l] <= g

\* Faulty variant of Surviving: a newer generation inherits the lease.
SurvivingAnyGeneration(l, g, now) ==
    [k \in LeasedLane |->
        IF leases[k] # NoLease /\ leases[k].expiresAtMs <= now
        THEN NoLease ELSE leases[k]]

\* The leases left when generation g of lane l has been accepted and the
\* expired leases of all lanes are pruned (acceptGeneration, pruneExpired).
Surviving(l, g, now) ==
    [k \in LeasedLane |->
        IF \/ leases[k] # NoLease /\ leases[k].expiresAtMs <= now
           \/ k = l /\ generations[l] < g
        THEN NoLease ELSE leases[k]]

Remember(l, g) == generations' = [generations EXCEPT ![l] = g]

\* createLease
NewLease(g, ref, owner, issued, now, ttl) ==
    [laneGeneration |-> g, leaseRef |-> ref, owner |-> owner,
     issuedAtMs |-> issued, expiresAtMs |-> now + ttl]

-----------------------------------------------------------------------------
(* acquire                                                                 *)

HasCapacity(ls) == Cardinality(Held(ls)) < maxActiveLeases

\* An unseen lane meets a full ledger (lease_capacity): expired leases go,
\* the lane is not remembered.
AcquireOnFullLedger(l, g, ref, now) ==
    /\ Accepts(l, g) /\ generations[l] = 0
    /\ ~HasCapacity(Surviving(l, g, now))
    /\ leases' = Surviving(l, g, now)
    /\ UNCHANGED generations
    /\ call' = Call("acquire", ref, now)

\* The call reaches the decision on the lane's own lease.
Reaches(l, g, now) ==
    /\ Accepts(l, g)
    /\ generations[l] = 0 => HasCapacity(Surviving(l, g, now))

\* Faulty variant of MayReplace: any owner replaces an agent.
AnyoneMayReplace(lease, owner) == lease.owner = "agent"

MayReplace(lease, owner) == lease.owner = "agent" /\ owner = "human"

IsRenewal(lease, ref, owner) ==
    /\ lease # NoLease
    /\ lease.owner = owner
    /\ lease.leaseRef = ref

\* lease_acquired or human_preempted_agent
AcquireGrant(l, g, ref, owner, ttl, now) ==
    LET live == Surviving(l, g, now)
    IN /\ Reaches(l, g, now)
       /\ IF live[l] = NoLease THEN HasCapacity(live)
                               ELSE MayReplace(live[l], owner)
       /\ leases' = [live EXCEPT ![l] = NewLease(g, ref, owner, now, now, ttl)]
       /\ Remember(l, g)
       /\ call' = Call("acquire", ref, now)

\* lease_renewed: the original issue time stays.
AcquireRenew(l, g, ref, owner, ttl, now) ==
    LET live == Surviving(l, g, now)
    IN /\ Reaches(l, g, now)
       /\ IsRenewal(live[l], ref, owner)
       /\ live[l].issuedAtMs <= now
       /\ leases' = [live EXCEPT
                ![l] = NewLease(g, ref, owner, @.issuedAtMs, now, ttl)]
       /\ Remember(l, g)
       /\ call' = Call("acquire", ref, now)

\* lease_capacity on a known lane, human_holds_lease, lease_conflict, or the
\* exception on a renewal whose clock regressed: the generation and the
\* pruning stand, nothing is granted.
AcquireRefused(l, g, ref, owner, now) ==
    LET live == Surviving(l, g, now)
    IN /\ Reaches(l, g, now)
       /\ IF live[l] = NoLease THEN ~HasCapacity(live)
          ELSE /\ ~MayReplace(live[l], owner)
               /\ IsRenewal(live[l], ref, owner) => live[l].issuedAtMs > now
       /\ leases' = live
       /\ Remember(l, g)
       /\ call' = Call("acquire", ref, now)

\* The expiry must be a safe integer before anything else is looked at.
Acquire(l, g, ref, owner, ttl, now) ==
    /\ now + ttl <= MaxSafeInteger
    /\ \/ AcquireOnFullLedger(l, g, ref, now)
       \/ AcquireGrant(l, g, ref, owner, ttl, now)
       \/ AcquireRenew(l, g, ref, owner, ttl, now)
       \/ AcquireRefused(l, g, ref, owner, now)

-----------------------------------------------------------------------------
(* humanActivity, inspect, revoke, resetSession                            *)

\* The three calls remember a lane they see for the first time, even if they
\* do nothing else to it.
Visit(l, g, op, ref, now) ==
    /\ Accepts(l, g)
    /\ Remember(l, g)
    /\ call' = Call(op, ref, now)

HumanActivity(l, g, now) ==
    LET live == Surviving(l, g, now)
    IN /\ Visit(l, g, "humanActivity", NoRef, now)
       /\ leases' = IF live[l] # NoLease /\ live[l].owner = "agent"
                    THEN [live EXCEPT ![l] = NoLease] ELSE live

Inspect(l, g, now) ==
    /\ Visit(l, g, "inspect", NoRef, now)
    /\ leases' = Surviving(l, g, now)

\* Another reference than the lease's own is refused: lease_ref_mismatch.
Revoke(l, g, ref, now) ==
    LET live == Surviving(l, g, now)
    IN /\ Visit(l, g, "revoke", ref, now)
       /\ leases' = IF live[l] # NoLease /\ live[l].leaseRef = ref
                    THEN [live EXCEPT ![l] = NoLease] ELSE live

\* resetSession and its alias clear
ResetSession ==
    /\ leases' = [l \in LeasedLane |-> NoLease]
    /\ generations' = [l \in LeasedLane |-> 0]
    /\ call' = Call("reset", NoRef, 0)

-----------------------------------------------------------------------------

LedgerNext ==
    \/ \E l \in LeasedLane, g \in LeasedGeneration, now \in LeaseTime :
        \/ \E ref \in LeaseRef, owner \in Owner, ttl \in Ttl :
                Acquire(l, g, ref, owner, ttl, now)
        \/ HumanActivity(l, g, now)
        \/ Inspect(l, g, now)
        \/ \E ref \in LeaseRef : Revoke(l, g, ref, now)
    \/ ResetSession

LedgerSpec == LedgerInit /\ [][LedgerNext]_ledgerVars

-----------------------------------------------------------------------------
(* Properties                                                              *)

LedgerTypeOK ==
    /\ leases \in [LeasedLane -> Lease \union {NoLease}]
    /\ generations \in [LeasedLane -> LeasedGeneration \union {0}]
    /\ call \in [op : {"none", "acquire", "humanActivity", "inspect",
                       "revoke", "reset"},
                 leaseRef : LeaseRef \union {NoRef}, now : LeaseTime]

\* A lease is always of the newest generation its lane was seen at, and it
\* has not run out before it began: no path keeps a lease across an accepted
\* generation, not even when the acquisition that brought it is denied.
LeaseIsCurrent ==
    \A l \in LeasedLane : leases[l] # NoLease =>
        /\ leases[l].laneGeneration = generations[l]
        /\ leases[l].issuedAtMs < leases[l].expiresAtMs

\* Both bounds of the ledger hold, though they are tested at different points
\* of acquire and pruning runs between the tests.
LedgerWithinLimits ==
    /\ Cardinality(Held(leases)) <= maxActiveLeases
    /\ Cardinality(Tracked) <= maxTrackedLanes

\* The anti-replay fence: between resets a lane once seen stays remembered
\* and its generation never goes back.
GenerationFence ==
    [][\/ generations' = [l \in LeasedLane |-> 0]
       \/ \A l \in LeasedLane : generations'[l] >= generations[l]]_ledgerVars

\* A human lease that has not expired at the time of the call goes only with
\* its generation, by its own reference (revocation or renewal), or with the
\* session; in particular no agent's call removes or replaces it.
HumanLeaseHeld ==
    [][\A l \in LeasedLane :
        (/\ leases[l] # NoLease
         /\ leases[l].owner = "human"
         /\ leases'[l] # leases[l]
         /\ generations'[l] = generations[l])
        => \/ leases[l].expiresAtMs <= call'.now
           \/ /\ call'.op \in {"revoke", "acquire"}
              /\ call'.leaseRef = leases[l].leaseRef]_ledgerVars

\* Ownership of one generation changes hands without a gap only when a human
\* preempts an agent: otherwise the new lease was issued after the old one
\* expired, and a renewal keeps the issue time, whatever clocks callers have.
Handover ==
    [][\A l \in LeasedLane :
        LET old == leases[l]
            new == leases'[l]
        IN (/\ old # NoLease /\ new # NoLease
            /\ generations'[l] = generations[l]
            /\ old.expiresAtMs > call'.now
            /\ new # old)
           => \/ /\ old.leaseRef = new.leaseRef /\ old.owner = new.owner
                 /\ old.issuedAtMs = new.issuedAtMs
              \/ old.owner = "agent" /\ new.owner = "human"]_ledgerVars

\* Ownership passes only by expiry, renewal, revocation, a new generation or
\* the end of the session, and by preemption only from an agent to a human.
LeasesPassOrderly == HumanLeaseHeld /\ Handover

=============================================================================
