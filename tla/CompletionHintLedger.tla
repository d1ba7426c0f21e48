------------------------ MODULE CompletionHintLedger ------------------------
(***************************************************************************)
(* BoundedCompletionHintLedger (core/src/completion-hints.ts): a bounded   *)
(* queue of notification hints that devices send in numbered envelopes.    *)
(* Envelopes come in any order, late, twice or never: every call of admit  *)
(* brings any well-formed envelope and any time.                           *)
(***************************************************************************)
EXTENDS EarlyReturns, Naturals

CONSTANTS
    HintDevice,      \* identifiers of devices
    Notice,          \* what the duplicate key of a hint is made of: package,
                     \*   notification key, posting time and kind
    HintTiming,      \* times that come together in a call: records of
                     \*   issuedAt, expiresAt, observedAt and now
    MaxSequence,     \* bound: sequence numbers go from 1 to MaxSequence
    maxQueueEntries, maxSequenceGap, maxPastAge, maxFutureSkew, maxLifetime,
    NoSequence       \* of a device the ledger does not remember

ASSUME HintAssumption ==
    /\ MaxSequence \in Nat /\ NoSequence \notin Nat
    /\ maxQueueEntries \in Nat \ {0} /\ maxSequenceGap \in Nat \ {0}
    /\ maxPastAge \in Nat /\ maxFutureSkew \in Nat /\ maxLifetime \in Nat
    /\ HintTiming \subseteq [issuedAt : Nat, expiresAt : Nat,
                             observedAt : Nat, now : Nat]

VARIABLES
    hintQueue,      \* hints in the order of admission
    dedupe,         \* keys of hints that count as queued
    lastSequence,   \* by device
    admitted        \* by device, the numbers the ledger has taken since it
                    \*   was last cleared, in order: not part of the code

hintLedgerVars == <<hintQueue, dedupe, lastSequence, admitted>>

CompletionHint == [notice : Notice, observedAt : {t.observedAt : t \in HintTiming}]

DedupeKey(hint) == hint.notice

HintLedgerInit ==
    /\ hintQueue = <<>> /\ dedupe = {}
    /\ lastSequence = [d \in HintDevice |-> NoSequence]
    /\ admitted = [d \in HintDevice |-> <<>>]

\* parseCompletionHintEnvelope: an envelope lives, and not for too long.
WellFormed(timing) ==
    /\ timing.expiresAt > timing.issuedAt
    /\ timing.expiresAt - timing.issuedAt <= maxLifetime

\* Faulty variant of Replayed: the number seen last passes again.
ReplayedOffByOne(device, sequence) ==
    lastSequence[device] # NoSequence /\ sequence < lastSequence[device]

Replayed(device, sequence) ==
    lastSequence[device] # NoSequence /\ sequence <= lastSequence[device]

BeyondGap(device, sequence) ==
    /\ lastSequence[device] # NoSequence
    /\ sequence > lastSequence[device] + maxSequenceGap

Verdict(device, sequence, hint, timing) ==
    FirstRule(<<
        <<~WellFormed(timing), "rejected">>,
        <<timing.expiresAt <= timing.now, "expired">>,
        <<timing.issuedAt > timing.now + maxFutureSkew, "rejected">>,
        <<hint.observedAt + maxPastAge < timing.now, "stale">>,
        <<hint.observedAt > timing.now + maxFutureSkew, "rejected">>,
        <<Replayed(device, sequence), "replayed">>,
        <<BeyondGap(device, sequence), "gap">>,
        <<DedupeKey(hint) \in dedupe, "duplicate">>,
        <<TRUE, "accepted">> >>)

Keys(hints) == {DedupeKey(hints[i]) : i \in DOMAIN hints}

\* The number of oldest hints that no longer fit.
Excess(queue) ==
    IF Len(queue) > maxQueueEntries THEN Len(queue) - maxQueueEntries ELSE 0

Enqueue(hint) ==
    LET grown == Append(hintQueue, hint)
        evicted == SubSeq(grown, 1, Excess(grown))
    IN /\ hintQueue' = SubSeq(grown, Excess(grown) + 1, Len(grown))
       /\ dedupe' = (dedupe \union {DedupeKey(hint)}) \ Keys(evicted)

\* An envelope that is neither refused nor expired, stale or seen before
\* moves the number of its device, also when its hint is queued already.
Admit(device, sequence, hint, timing) ==
    LET verdict == Verdict(device, sequence, hint, timing)
    IN /\ verdict \in {"accepted", "duplicate"}
       /\ lastSequence' = [lastSequence EXCEPT ![device] = sequence]
       /\ admitted' = [admitted EXCEPT ![device] = Append(@, sequence)]
       /\ \/ verdict = "accepted" /\ Enqueue(hint)
          \/ verdict = "duplicate" /\ UNCHANGED <<hintQueue, dedupe>>

\* drain(limit) hands out the oldest hints, which may then be queued again.
Drain(limit) ==
    LET n == IF limit < Len(hintQueue) THEN limit ELSE Len(hintQueue)
    IN /\ n > 0
       /\ hintQueue' = SubSeq(hintQueue, n + 1, Len(hintQueue))
       /\ dedupe' = dedupe \ Keys(SubSeq(hintQueue, 1, n))
       /\ UNCHANGED <<lastSequence, admitted>>

ClearHintLedger ==
    /\ hintQueue' = <<>> /\ dedupe' = {}
    /\ lastSequence' = [d \in HintDevice |-> NoSequence]
    /\ admitted' = [d \in HintDevice |-> <<>>]

HintLedgerNext ==
    \/ \E device \in HintDevice, sequence \in 1..MaxSequence, notice \in Notice,
          timing \in HintTiming :
            Admit(device, sequence,
                  [notice |-> notice, observedAt |-> timing.observedAt], timing)
    \/ \E limit \in 1..maxQueueEntries : Drain(limit)
    \/ ClearHintLedger

HintLedgerSpec == HintLedgerInit /\ [][HintLedgerNext]_hintLedgerVars

-----------------------------------------------------------------------------
(* Properties                                                              *)

\* The two records of what is queued agree, and no hint is queued twice: a
\* key left behind by an eviction or a drain would suppress its hint for ever,
\* one lost too early would let a second copy in.
QueuedOnce ==
    /\ dedupe = Keys(hintQueue)
    /\ \A i, j \in DOMAIN hintQueue :
          DedupeKey(hintQueue[i]) = DedupeKey(hintQueue[j]) => i = j
    /\ Len(hintQueue) <= maxQueueEntries

\* However envelopes are repeated and reordered, no number of a device is
\* taken twice until the ledger is cleared, and no gap of more than
\* maxSequenceGap is ever bridged: draining the queue or finding a duplicate
\* forgets no number, and a refused envelope uses none up.
TakenInOrder ==
    \A d \in HintDevice :
        /\ lastSequence[d] = IF admitted[d] = <<>> THEN NoSequence
                             ELSE admitted[d][Len(admitted[d])]
        /\ \A i \in 2..Len(admitted[d]) :
              admitted[d][i] - admitted[d][i - 1] \in 1..maxSequenceGap

=============================================================================
