-------------------------- MODULE SyntheticCompanion --------------------------
(***************************************************************************)
(* The volatile working set of one companion session                       *)
(* (packages/core/src/companion-runtime.ts): pages and search results of   *)
(* synthetic conversations kept under fixed limits.                        *)
(*                                                                         *)
(* dispatch prepares a request, waits for the caller's beforeCommit hook   *)
(* and only then commits, so that requests in flight overlap: between a    *)
(* request's preparation and its commit its conversation may be closed,    *)
(* evicted, drop out of the accepted adapters or expire, and the session   *)
(* may be revoked.  Generations per conversation and an epoch of the       *)
(* session let a commit detect that.                                       *)
(*                                                                         *)
(* Entries, text, serialized and accounted bytes of a record are limited   *)
(* in one and the same way; one size stands for the four.  A request that  *)
(* is refused before it is in flight changes nothing, but for the expiry   *)
(* of the session or of its conversation, and is otherwise a stuttering    *)
(* step.  All sources are valid; a source that failed validation is        *)
(* refused by every operation that could make it resident.                 *)
(***************************************************************************)
EXTENDS Integers, Sequences, FiniteSets, SequencesExt, InsertionOrder

CONSTANTS
    Conversation,       \* the admitted sources
    Item,               \* page ranges of an open or page, ids of a search
    SizeOf,             \* the size of the record made for an item
    Slot,               \* places of requests in flight
    sessionTtlMs,       \* when the session ends, counted from its creation
    expiresAt,          \* when each source's representation expires
    maxInFlightRequests,
    maxQueuedPageRequests,
    maxResidentConversations,
    maxResidentRecords,
    maxResidentSize,
    maxResidentPagesPerConversation,
    maxResidentSearchesPerConversation,
    MaxClock,           \* bound on time
    MaxGeneration,      \* bound on generations in a live session
    NoConversation, NoItem, NoRequest

ASSUME SourceAssumption ==
    /\ SizeOf \in [Item -> Nat]
    /\ sessionTtlMs \in Nat \ {0}
    /\ expiresAt \in [Conversation -> Nat]
    /\ NoConversation \notin Conversation /\ NoItem \notin Item
    /\ MaxClock \in Nat /\ MaxGeneration \in Nat

ASSUME PolicyAssumption ==
    /\ maxInFlightRequests \in Nat \ {0}
    /\ maxQueuedPageRequests \in Nat \ {0}
    /\ maxResidentConversations \in Nat \ {0}
    /\ maxResidentRecords \in Nat \ {0}
    /\ maxResidentSize \in Nat \ {0}
    /\ maxResidentPagesPerConversation \in Nat \ {0}
    /\ maxResidentSearchesPerConversation \in Nat \ {0}

Kind == {"page", "search"}

\* A record is its key: kind, conversation, generation and range or search id.
Record == [kind : Kind, conversation : Conversation, generation : Nat,
           item : Item]

\* page stands for open too.  read stands for entry, code, navigate, status
\* and list, which commit no state: their conversation decides only between
\* two answers and is left out.
Operation == {"page", "search", "read", "close", "revoke"}

\* What #prepare captured of a request in flight.
Prepared == [operation : Operation,
             conversation : Conversation \union {NoConversation},
             generation : Nat, epoch : Nat,
             item : Item \union {NoItem}]

ASSUME AbsenceAssumption == NoRequest \notin Prepared

VARIABLES
    clock,
    active,             \* #active
    sessionEpoch,       \* #sessionEpoch
    accepted,           \* the sources whose adapter is in #acceptedAdapters
    generation,         \* #generations
    conversationOrder,  \* #residentConversations, by last access
    recordKeys,         \* recordKeys of each resident conversation
    records,            \* #records, by last access
    residentSize,       \* the running total of the records' sizes
    request,            \* the prepared request in each slot
    lost                \* history: slots whose conversation was evicted,
                        \*   released or drifted since the preparation

resident == <<conversationOrder, recordKeys, records, residentSize>>
session == <<active, sessionEpoch>>
vars == <<clock, session, accepted, generation, resident, request, lost>>

Init ==
    /\ clock = 0
    /\ active = TRUE
    /\ sessionEpoch = 0
    /\ accepted \in SUBSET Conversation
    /\ generation = [c \in Conversation |-> 0]
    /\ conversationOrder = <<>>
    /\ recordKeys = [c \in Conversation |-> {}]
    /\ records = <<>>
    /\ residentSize = 0
    /\ request = [s \in Slot |-> NoRequest]
    /\ lost = {}

-----------------------------------------------------------------------------
(* Helpers                                                                 *)

Total(keys) == SumFunctionOnSet([k \in keys |-> SizeOf[k.item]], keys)
Excess(n, limit) == IF n > limit THEN n - limit ELSE 0
First(seq, n) == ToSet(SubSeq(seq, 1, n))

InFlight == {s \in Slot : request[s] # NoRequest}
QueuedPages == {s \in InFlight : request[s].operation = "page"}

Bump(cs) ==
    generation' = [c \in Conversation |-> IF c \in cs THEN generation[c] + 1
                                                      ELSE generation[c]]

\* Faulty variant of Release: the removed records still count.
ReleaseUnsubtracted(cs) ==
    LET keys == UNION {recordKeys[c] : c \in cs}
    IN /\ records' = KeysWithout(records, keys)
       /\ recordKeys' = [c \in Conversation |-> recordKeys[c] \ keys]
       /\ conversationOrder' = KeysWithout(conversationOrder, cs)
       /\ residentSize' = residentSize
       /\ Bump(cs)

\* #releaseConversation of every conversation of cs, resident or not.
Release(cs) ==
    LET keys == UNION {recordKeys[c] : c \in cs}
    IN /\ records' = KeysWithout(records, keys)
       /\ recordKeys' = [c \in Conversation |-> recordKeys[c] \ keys]
       /\ conversationOrder' = KeysWithout(conversationOrder, cs)
       /\ residentSize' = residentSize - Total(keys)
       /\ Bump(cs)

\* The session ends, revoked or expired (#clearResident).
EndSession ==
    /\ active' = FALSE
    /\ sessionEpoch' = sessionEpoch + 1
    /\ conversationOrder' = <<>>
    /\ recordKeys' = [c \in Conversation |-> {}]
    /\ records' = <<>>
    /\ residentSize' = 0
    /\ Bump(Conversation)

-----------------------------------------------------------------------------
(* #admit                                                                  *)

\* The resident conversations that leave so that own may be resident.
CrowdedOut(own) ==
    LET others == KeysWithout(conversationOrder, {own})
    IN First(others, Excess(Len(others) + 1, maxResidentConversations))

MaximumKind(kind) ==
    IF kind = "page" THEN maxResidentPagesPerConversation
                     ELSE maxResidentSearchesPerConversation

\* The older records of its kind that the record of its conversation replaces.
Replaced(rec) ==
    LET sameKind == {k \in recordKeys[rec.conversation] : k.kind = rec.kind} \ {rec}
        listed == KeysWithout(records, ToSet(records) \ sameKind)
    IN First(listed, Excess(Len(listed) + 1, MaximumKind(rec.kind)))

\* Removals by key, by conversation and by kind.
Outgoing(rec) ==
    ({rec} \intersect ToSet(records))
        \union (UNION {recordKeys[c] : c \in CrowdedOut(rec.conversation)})
        \union Replaced(rec)

\* rec fits when the records of removed have gone.
Fits(rec, removed) ==
    /\ Len(records) + 1 - Cardinality(removed) <= maxResidentRecords
    /\ residentSize + SizeOf[rec.item] - Total(removed) <= maxResidentSize

\* ... and then the oldest records of any conversation, until rec fits.
Removals(rec) ==
    LET outgoing == Outgoing(rec)
        others == KeysWithout(records, outgoing)
        n == CHOOSE i \in 0..Len(others) :
                /\ Fits(rec, outgoing \union First(others, i))
                /\ \A j \in 0..(i - 1) :
                        ~Fits(rec, outgoing \union First(others, j))
    IN outgoing \union First(others, n)

\* The conversations that lose their last record to own.
Emptied(own, removed) ==
    {c \in ToSet(conversationOrder) \ {own} : recordKeys[c] \subseteq removed}

\* A record over the limit by itself is refused (resident-limit); any other
\* fits once enough records have gone.
Admissible(rec) == SizeOf[rec.item] <= maxResidentSize

Admit(rec) ==
    LET own == rec.conversation
        removed == Removals(rec)
        dropped == Emptied(own, removed)
    IN /\ records' = Append(KeysWithout(records, removed), rec)
       /\ residentSize' = residentSize - Total(removed) + SizeOf[rec.item]
       /\ recordKeys' = [c \in Conversation |->
                IF c \in dropped THEN {}
                ELSE (recordKeys[c] \ removed)
                        \union (IF c = own THEN {rec} ELSE {})]
       /\ conversationOrder' =
                Append(KeysWithout(conversationOrder, dropped \union {own}), own)
       /\ Bump(dropped)

-----------------------------------------------------------------------------
(* dispatch, up to the wait for beforeCommit                               *)

\* The checks before #prepare pass.
MayDispatch(op) ==
    /\ active
    /\ clock < sessionTtlMs
    /\ Cardinality(InFlight) < maxInFlightRequests
    /\ op = "page" => Cardinality(QueuedPages) < maxQueuedPageRequests

\* session-expired
DispatchExpired ==
    /\ active
    /\ clock >= sessionTtlMs
    /\ EndSession
    /\ UNCHANGED <<clock, accepted, request>>

\* conversation-expired
SourceExpired(c) ==
    /\ MayDispatch("read")
    /\ c \in accepted
    /\ clock >= expiresAt[c]
    /\ Release({c})
    /\ UNCHANGED <<clock, session, accepted, request>>

Start(s, op, c, g, item) ==
    /\ MayDispatch(op)
    /\ request[s] = NoRequest
    /\ request' = [request EXCEPT ![s] =
            [operation |-> op, conversation |-> c, generation |-> g,
             epoch |-> sessionEpoch, item |-> item]]
    /\ UNCHANGED <<clock, session, accepted, generation, resident>>

\* #sourceState admits the conversation.
Readable(c) == c \in accepted /\ clock < expiresAt[c]

\* open, page, search
Prepare(s, kind, c, item) ==
    /\ Readable(c)
    /\ Start(s, kind, c, generation[c], item)

PrepareRead(s) == Start(s, "read", NoConversation, 0, NoItem)

\* close looks at neither adapter nor freshness.
PrepareClose(s, c) == Start(s, "close", c, generation[c], NoItem)

PrepareRevoke(s) == Start(s, "revoke", NoConversation, 0, NoItem)

-----------------------------------------------------------------------------
(* dispatch, once beforeCommit has settled                                 *)

Finish(s) == request' = [request EXCEPT ![s] = NoRequest]

\* Faulty variant of StillCurrent: only the epoch is compared.
StillCurrentInSession(q) == active /\ sessionEpoch = q.epoch

StillCurrent(q) ==
    /\ active
    /\ sessionEpoch = q.epoch
    /\ q.conversation # NoConversation =>
            generation[q.conversation] = q.generation

RecordOf(q) == [kind |-> q.operation, conversation |-> q.conversation,
                generation |-> q.generation, item |-> q.item]

\* request-cancelled: beforeCommit failed, or the request is outdated; and the
\* refusal of a record over the limit.
Cancel(s) ==
    /\ s \in InFlight
    /\ Finish(s)
    /\ UNCHANGED <<clock, session, accepted, generation, resident>>

CommitRecord(s) ==
    /\ s \in InFlight
    /\ StillCurrent(request[s])
    /\ request[s].operation \in Kind
    /\ Admissible(RecordOf(request[s]))
    /\ Admit(RecordOf(request[s]))
    /\ Finish(s)
    /\ UNCHANGED <<clock, session, accepted>>

CommitRead(s) ==
    /\ s \in InFlight
    /\ StillCurrent(request[s])
    /\ request[s].operation = "read"
    /\ Finish(s)
    /\ UNCHANGED <<clock, session, accepted, generation, resident>>

CommitClose(s) ==
    /\ s \in InFlight
    /\ StillCurrent(request[s])
    /\ request[s].operation = "close"
    /\ Release({request[s].conversation})
    /\ Finish(s)
    /\ UNCHANGED <<clock, session, accepted>>

CommitRevoke(s) ==
    /\ s \in InFlight
    /\ StillCurrent(request[s])
    /\ request[s].operation = "revoke"
    /\ EndSession
    /\ Finish(s)
    /\ UNCHANGED <<clock, accepted>>

-----------------------------------------------------------------------------
(* updateAcceptedAdapters and the passage of time                          *)

\* Faulty variant of UpdateAcceptedAdapters: what drifted is not released.
UpdateAcceptedAdaptersOnly(cs) ==
    /\ accepted' = cs
    /\ UNCHANGED <<clock, session, generation, resident, request>>

UpdateAcceptedAdapters(cs) ==
    /\ accepted' = cs
    /\ Release(Conversation \ cs)
    /\ UNCHANGED <<clock, session, request>>

Tick ==
    /\ clock < MaxClock
    /\ clock' = clock + 1
    /\ UNCHANGED <<session, accepted, generation, resident, request>>

-----------------------------------------------------------------------------

\* How the history follows a step.
Watch ==
    lost' = {s \in Slot :
        /\ request'[s] # NoRequest
        /\ request[s] # NoRequest
        /\ request[s].conversation # NoConversation
        /\ LET c == request[s].conversation
           IN \/ s \in lost
              \/ c \in ToSet(conversationOrder) \ ToSet(conversationOrder')
              \/ c \in accepted \ accepted'}

Step ==
    \/ DispatchExpired
    \/ \E c \in Conversation : SourceExpired(c)
    \/ \E s \in Slot :
        \/ \E kind \in Kind, c \in Conversation, item \in Item :
                Prepare(s, kind, c, item)
        \/ PrepareRead(s)
        \/ \E c \in Conversation : PrepareClose(s, c)
        \/ PrepareRevoke(s)
        \/ Cancel(s)
        \/ CommitRecord(s)
        \/ CommitRead(s)
        \/ CommitClose(s)
        \/ CommitRevoke(s)
    \/ \E cs \in SUBSET Conversation : UpdateAcceptedAdapters(cs)
    \/ Tick

\* MaxGeneration bounds every generation; the end of the session, which
\* raises them all once, is never held back.
Bounded ==
    \/ sessionEpoch' # sessionEpoch
    \/ \A c \in Conversation : generation'[c] \in {generation[c]} \union 0..MaxGeneration

Next == Step /\ Watch /\ Bounded

Spec == Init /\ [][Next]_vars

-----------------------------------------------------------------------------
(* Properties                                                              *)

TypeOK ==
    /\ clock \in 0..MaxClock
    /\ active \in BOOLEAN
    /\ sessionEpoch \in 0..1
    /\ accepted \subseteq Conversation
    /\ generation \in [Conversation -> 0..(MaxGeneration + 1)]
    /\ conversationOrder \in Seq(Conversation)
    /\ DOMAIN recordKeys = Conversation
    /\ \A c \in Conversation : recordKeys[c] \subseteq Record
    /\ records \in Seq(Record)
    /\ residentSize \in Nat
    /\ request \in [Slot -> Prepared \union {NoRequest}]
    /\ lost \subseteq Slot

\* Three accounts of the working set agree after every mix of admission,
\* replacement, eviction and release: each record is listed once by its own
\* conversation, a conversation is resident exactly while it has records, and
\* the running total is the size of the records.
WorkingSetAgrees ==
    /\ \A c \in Conversation :
            recordKeys[c] = {k \in ToSet(records) : k.conversation = c}
    /\ ToSet(conversationOrder) = {c \in Conversation : recordKeys[c] # {}}
    /\ Len(conversationOrder) = Cardinality(ToSet(conversationOrder))
    /\ Len(records) = Cardinality(ToSet(records))
    /\ residentSize = Total(ToSet(records))

\* Admission plans its removals before it changes anything; whatever it plans,
\* every limit of the policy holds afterwards.
WithinLimits ==
    /\ Len(conversationOrder) <= maxResidentConversations
    /\ Len(records) <= maxResidentRecords
    /\ residentSize <= maxResidentSize
    /\ \A c \in Conversation, kind \in Kind :
            Cardinality({k \in recordKeys[c] : k.kind = kind})
                <= MaximumKind(kind)

\* After every commit the accounts agree and the limits hold.
WorkingSetBounded == WorkingSetAgrees /\ WithinLimits

\* What is resident is of the current generation of an accepted source of a
\* live session, so that the generation inside every cursor a client holds
\* says whether its page can still be there.
ResidentIsCurrent ==
    \A k \in ToSet(records) :
        /\ active
        /\ k.conversation \in accepted
        /\ k.generation = generation[k.conversation]

\* A request prepared before its conversation left the working set or the
\* accepted adapters does not commit a record, even if the conversation has
\* come back in the meantime.
NoLateRepopulation ==
    [][\A s \in lost : request'[s] = NoRequest =>
            ToSet(records') \subseteq ToSet(records)]_vars

\* A session that ended stays ended, with nothing resident, whatever was in
\* flight when it ended.
EndedForGood ==
    [][~active => ~active' /\ conversationOrder' = <<>> /\ records' = <<>>
                    /\ residentSize' = 0]_vars

\* A request that waits at beforeCommit while its conversation, its source or
\* its session goes away brings nothing back when it settles.
LateWorkIsDropped == NoLateRepopulation /\ EndedForGood

\* Delayed page work cannot repopulate an expired working set
\* (docs/synthetic-companion.md:121).
ExpiredNotRepopulated ==
    [][\A k \in ToSet(records') \ ToSet(records) :
            clock < sessionTtlMs /\ clock < expiresAt[k.conversation]]_vars

=============================================================================
