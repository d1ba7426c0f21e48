----------------------- MODULE ApplicationLaneRuntime -----------------------
(***************************************************************************)
(* The bounded in-memory owner of the application-lane protocol            *)
(* (packages/core/src/application-lane-runtime.ts).                        *)
(*                                                                         *)
(* A lane is one managed live view of an application.  It has a durable    *)
(* reference and a generation: each time the browser projection behind it  *)
(* is lost and reacquired the generation grows.  The runtime keeps, per    *)
(* lane, the newest descriptor, the newest event, a ring of recent event   *)
(* ids, and the requests that still wait for a reply.  Its inputs come     *)
(* from transports that may delay, repeat and reorder them, so every       *)
(* operation below accepts any well-formed input.                          *)
(*                                                                         *)
(* A call that the code refuses returns an outcome and leaves the maps as  *)
(* they are: it is a stuttering step here, and the comment of the action   *)
(* names the refusals.  The content-free counters of the runtime are read  *)
(* by snapshot() alone and are left out.                                   *)
(***************************************************************************)
EXTENDS Naturals, Sequences, FiniteSets

CONSTANTS
    LaneRef,                    \* lane references
    RequestId,                  \* request identifiers
    EventId,                    \* event identifiers
    Generation,                 \* lane generations a peer may name
    Time,                       \* observation times (ISO text, compared as text)
    State,                      \* lane states
    CapabilitySet,              \* capability lists a descriptor may carry
    Operation,                  \* operations a consumer asks for
    maxLanes,
    maxPendingRequests,
    maxPendingRequestsPerLane,
    maxRecentEventIdsPerLane,
    NoDescriptor, NoEvent, NoRequest

ASSUME InputAssumption ==
    /\ Generation \subseteq Nat \ {0}
    /\ Time \subseteq Nat
    /\ Operation \subseteq {"status", "observe", "activate", "screenshot"}

ASSUME LimitAssumption ==
    /\ maxLanes \in Nat \ {0}
    /\ maxPendingRequests \in Nat \ {0}
    /\ maxPendingRequestsPerLane \in Nat \ {0}
    /\ maxRecentEventIdsPerLane \in Nat \ {0}

Descriptor == [generation : Generation, capabilities : CapabilitySet,
               state : State, observedAt : Time]

Event == [eventId : EventId, laneGeneration : Generation, observedAt : Time]

Request == [laneRef : LaneRef, laneGeneration : Generation,
            operation : Operation]

ASSUME AbsenceAssumption ==
    /\ NoDescriptor \notin Descriptor
    /\ NoEvent \notin Event
    /\ NoRequest \notin Request

VARIABLES
    descriptor,         \* newest descriptor of each retained lane
    lastEvent,          \* newest admitted event, unless a newer fact replaced it
    pendingIds,         \* ids of the requests a lane waits for
    recentEventIds,     \* ring of admitted event ids, oldest first
    recentEventIdSet,   \* the same ids as a set, for the duplicate test
    pending             \* the runtime-wide map from request id to request

vars == <<descriptor, lastEvent, pendingIds, recentEventIds,
          recentEventIdSet, pending>>
eventVars == <<lastEvent, recentEventIds, recentEventIdSet>>

(***************************************************************************)
(* A reply.  fits abstracts what the runtime measures on the payload: of   *)
(* an "observe" reply, that the content is within the requested budget; of *)
(* a "status" reply, that the nested descriptor repeats lane, generation,  *)
(* state and time of the reply.  Other replies carry nothing measured.     *)
(***************************************************************************)
Response == [requestId : RequestId, laneRef : LaneRef,
             laneGeneration : Generation, operation : Operation,
             ok : BOOLEAN, state : State, observedAt : Time,
             capabilities : CapabilitySet, fits : BOOLEAN]

Lanes == {l \in LaneRef : descriptor[l] # NoDescriptor}
Pending == {r \in RequestId : pending[r] # NoRequest}

Init ==
    /\ descriptor = [l \in LaneRef |-> NoDescriptor]
    /\ lastEvent = [l \in LaneRef |-> NoEvent]
    /\ pendingIds = [l \in LaneRef |-> {}]
    /\ recentEventIds = [l \in LaneRef |-> <<>>]
    /\ recentEventIdSet = [l \in LaneRef |-> {}]
    /\ pending = [r \in RequestId |-> NoRequest]

-----------------------------------------------------------------------------
(* Helpers                                                                 *)

\* The lane is retained and g is its current generation: the negation is
\* unknown-lane, stale-generation or future-generation.
IsCurrent(l, g) ==
    /\ l \in Lanes
    /\ descriptor[l].generation = g

\* Faulty variant of KeepEvent: a newer descriptor leaves the event standing.
KeepAnyEvent(e, t) == e

\* The event survives a descriptor observed at time t.
KeepEvent(e, t) == IF e # NoEvent /\ e.observedAt < t THEN NoEvent ELSE e

\* The pending map without the requests of lane l.
ClearPending(l) ==
    [r \in RequestId |-> IF r \in pendingIds[l] THEN NoRequest ELSE pending[r]]

ConsumePending(r, l) ==
    /\ pending' = [pending EXCEPT ![r] = NoRequest]
    /\ pendingIds' = [pendingIds EXCEPT ![l] = @ \ {r}]

RequiredCapability(op) ==
    CASE op = "status" -> {}
      [] op = "observe" -> {"observe"}
      [] op = "activate" -> {"activate"}
      [] OTHER -> {"screenshot"}

-----------------------------------------------------------------------------
(* upsertDescriptor                                                        *)

InsertLane(l, d) ==
    /\ l \notin Lanes
    /\ Cardinality(Lanes) < maxLanes
    /\ descriptor' = [descriptor EXCEPT ![l] = d]
    /\ UNCHANGED <<eventVars, pendingIds, pending>>

\* Faulty variant of AdvanceDescriptor: other content at the same time wins.
AdvanceDescriptorOrEqual(l, d) ==
    /\ IsCurrent(l, d.generation)
    /\ descriptor[l].observedAt <= d.observedAt
    /\ descriptor' = [descriptor EXCEPT ![l] = d]
    /\ lastEvent' = [lastEvent EXCEPT ![l] = KeepEvent(@, d.observedAt)]
    /\ UNCHANGED <<pendingIds, recentEventIds, recentEventIdSet, pending>>

\* A later observation of the current generation.  An older one is refused
\* (stale-observation), and so is different content at the same time
\* (descriptor-conflict).
AdvanceDescriptor(l, d) ==
    /\ IsCurrent(l, d.generation)
    /\ descriptor[l].observedAt < d.observedAt
    /\ descriptor' = [descriptor EXCEPT ![l] = d]
    /\ lastEvent' = [lastEvent EXCEPT ![l] = KeepEvent(@, d.observedAt)]
    /\ UNCHANGED <<pendingIds, recentEventIds, recentEventIdSet, pending>>

\* A newer generation takes the lane over whatever the observation time.
ReplaceGeneration(l, d) ==
    /\ l \in Lanes
    /\ descriptor[l].generation < d.generation
    /\ pending' = ClearPending(l)
    /\ pendingIds' = [pendingIds EXCEPT ![l] = {}]
    /\ descriptor' = [descriptor EXCEPT ![l] = d]
    /\ lastEvent' = [lastEvent EXCEPT ![l] = NoEvent]
    /\ recentEventIds' = [recentEventIds EXCEPT ![l] = <<>>]
    /\ recentEventIdSet' = [recentEventIdSet EXCEPT ![l] = {}]

UpsertDescriptor(l, d) ==
    InsertLane(l, d) \/ AdvanceDescriptor(l, d) \/ ReplaceGeneration(l, d)

-----------------------------------------------------------------------------
(* admitEvent: refused as unknown-lane, stale-generation,                  *)
(* future-generation, capability-unavailable, duplicate-event or           *)
(* stale-observation.                                                      *)

\* Faulty variant of RememberEventId: the id that leaves the ring stays in
\* the set.
RememberEventIdForever(l, id) ==
    LET pushed == Append(recentEventIds[l], id)
        full == Len(pushed) > maxRecentEventIdsPerLane
    IN /\ recentEventIds' =
            [recentEventIds EXCEPT ![l] = IF full THEN Tail(pushed) ELSE pushed]
       /\ recentEventIdSet' = [recentEventIdSet EXCEPT ![l] = @ \union {id}]

RememberEventId(l, id) ==
    LET pushed == Append(recentEventIds[l], id)
        full == Len(pushed) > maxRecentEventIdsPerLane
    IN /\ recentEventIds' =
            [recentEventIds EXCEPT ![l] = IF full THEN Tail(pushed) ELSE pushed]
       /\ recentEventIdSet' =
            [recentEventIdSet EXCEPT
                ![l] = (@ \union {id}) \ (IF full THEN {Head(pushed)} ELSE {})]

AdmitEvent(l, e) ==
    /\ IsCurrent(l, e.laneGeneration)
    /\ "events" \in descriptor[l].capabilities
    /\ e.eventId \notin recentEventIdSet[l]
    /\ e.observedAt >= descriptor[l].observedAt
    /\ lastEvent[l] # NoEvent => e.observedAt >= lastEvent[l].observedAt
    /\ lastEvent' = [lastEvent EXCEPT ![l] = e]
    /\ RememberEventId(l, e.eventId)
    /\ UNCHANGED <<descriptor, pendingIds, pending>>

-----------------------------------------------------------------------------
(* beginRequest: refused as unknown-lane, stale-generation,                *)
(* future-generation, capability-unavailable, duplicate-request or         *)
(* capacity.                                                               *)

BeginRequest(r, q) ==
    /\ IsCurrent(q.laneRef, q.laneGeneration)
    /\ RequiredCapability(q.operation) \subseteq
            descriptor[q.laneRef].capabilities
    /\ r \notin Pending
    /\ Cardinality(Pending) < maxPendingRequests
    /\ Cardinality(pendingIds[q.laneRef]) < maxPendingRequestsPerLane
    /\ pending' = [pending EXCEPT ![r] = q]
    /\ pendingIds' = [pendingIds EXCEPT ![q.laneRef] = @ \union {r}]
    /\ UNCHANGED <<descriptor, eventVars>>

-----------------------------------------------------------------------------
(* acceptResponse: refused without effect as unknown-lane,                 *)
(* stale-generation, future-generation, unknown-request or                 *)
(* response-mismatch.                                                      *)

\* Faulty variant of Matches: a reply that names another lane is taken.
MatchesAnyLane(q, p) ==
    /\ p.laneGeneration = q.laneGeneration
    /\ p.operation = q.operation

\* matchApplicationLaneResponseV1, but for the observation budget.
Matches(q, p) ==
    /\ p.laneRef = q.laneRef
    /\ p.laneGeneration = q.laneGeneration
    /\ p.operation = q.operation

\* What the payload of a reply fails: an observation over its budget, a
\* status whose nested descriptor contradicts the reply.
PayloadRefused(p) == p.ok /\ p.operation \in {"observe", "status"} /\ ~p.fits

DescriptorFromResponse(d, p) ==
    [d EXCEPT !.state = p.state,
              !.observedAt = p.observedAt,
              !.capabilities = IF p.ok /\ p.operation = "status"
                               THEN p.capabilities ELSE @]

\* The reply belongs to the pending request that has its id.
IsAnswer(p) ==
    /\ IsCurrent(p.laneRef, p.laneGeneration)
    /\ p.requestId \in Pending
    /\ Matches(pending[p.requestId], p)

\* The reply consumes its request but its payload becomes no state:
\* response-budget-exceeded, or response-mismatch for a status reply.
RefusePayload(p) ==
    /\ IsAnswer(p)
    /\ PayloadRefused(p)
    /\ ConsumePending(p.requestId, p.laneRef)
    /\ UNCHANGED <<descriptor, eventVars>>

\* A reply that is not newer than the descriptor completes its request and
\* changes no fact; equal time with other facts is descriptor-conflict.
AcceptResponse(p) ==
    /\ IsAnswer(p)
    /\ ~PayloadRefused(p)
    /\ ConsumePending(p.requestId, p.laneRef)
    /\ IF p.observedAt > descriptor[p.laneRef].observedAt
       THEN /\ descriptor' = [descriptor EXCEPT
                    ![p.laneRef] = DescriptorFromResponse(@, p)]
            /\ lastEvent' = [lastEvent EXCEPT
                    ![p.laneRef] = KeepEvent(@, p.observedAt)]
       ELSE UNCHANGED <<descriptor, lastEvent>>
    /\ UNCHANGED <<recentEventIds, recentEventIdSet>>

-----------------------------------------------------------------------------
(* cancelRequest, releaseLane, clear                                       *)

CancelRequest(r) ==
    /\ r \in Pending
    /\ ConsumePending(r, pending[r].laneRef)
    /\ UNCHANGED <<descriptor, eventVars>>

ReleaseLane(l) ==
    /\ l \in Lanes
    /\ pending' = ClearPending(l)
    /\ descriptor' = [descriptor EXCEPT ![l] = NoDescriptor]
    /\ lastEvent' = [lastEvent EXCEPT ![l] = NoEvent]
    /\ pendingIds' = [pendingIds EXCEPT ![l] = {}]
    /\ recentEventIds' = [recentEventIds EXCEPT ![l] = <<>>]
    /\ recentEventIdSet' = [recentEventIdSet EXCEPT ![l] = {}]

Clear ==
    /\ pending' = [r \in RequestId |->
            IF \E l \in Lanes : r \in pendingIds[l]
            THEN NoRequest ELSE pending[r]]
    /\ descriptor' = [l \in LaneRef |-> NoDescriptor]
    /\ lastEvent' = [l \in LaneRef |-> NoEvent]
    /\ pendingIds' = [l \in LaneRef |-> {}]
    /\ recentEventIds' = [l \in LaneRef |-> <<>>]
    /\ recentEventIdSet' = [l \in LaneRef |-> {}]

-----------------------------------------------------------------------------

Next ==
    \/ \E l \in LaneRef, d \in Descriptor : UpsertDescriptor(l, d)
    \/ \E l \in LaneRef, e \in Event : AdmitEvent(l, e)
    \/ \E r \in RequestId, q \in Request : BeginRequest(r, q)
    \/ \E p \in Response : RefusePayload(p)
    \/ \E p \in Response : AcceptResponse(p)
    \/ \E r \in RequestId : CancelRequest(r)
    \/ \E l \in LaneRef : ReleaseLane(l)
    \/ Clear

Spec == Init /\ [][Next]_vars

-----------------------------------------------------------------------------
(* Properties                                                              *)

\* Every variable has its type; a lane that is not retained holds nothing.
TypeOK ==
    /\ descriptor \in [LaneRef -> Descriptor \union {NoDescriptor}]
    /\ lastEvent \in [LaneRef -> Event \union {NoEvent}]
    /\ pendingIds \in [LaneRef -> SUBSET RequestId]
    /\ recentEventIds \in [LaneRef -> Seq(EventId)]
    /\ recentEventIdSet \in [LaneRef -> SUBSET EventId]
    /\ pending \in [RequestId -> Request \union {NoRequest}]
    /\ \A l \in LaneRef \ Lanes :
            /\ lastEvent[l] = NoEvent
            /\ pendingIds[l] = {}
            /\ recentEventIds[l] = <<>>
            /\ recentEventIdSet[l] = {}

\* The two records of who waits for what agree, and no request outlives the
\* generation it was begun under: r is in the global map for lane l exactly
\* when lane l lists it, and then l is retained at the request's generation.
\* Replacement, release, cancellation and every kind of reply keep both sides.
PendingOwnership ==
    \A r \in RequestId, l \in LaneRef :
        /\ r \in pendingIds[l] <=> r \in Pending /\ pending[r].laneRef = l
        /\ r \in pendingIds[l] => IsCurrent(l, pending[r].laneGeneration)

\* The four limits of the constructor hold together whatever the order of
\* insertions, replacements, events and requests.
WithinLimits ==
    /\ Cardinality(Lanes) <= maxLanes
    /\ Cardinality(Pending) <= maxPendingRequests
    /\ \A l \in LaneRef :
            /\ Cardinality(pendingIds[l]) <= maxPendingRequestsPerLane
            /\ Len(recentEventIds[l]) <= maxRecentEventIdsPerLane

\* The duplicate test reads the set and eviction follows the ring: they hold
\* the same ids, each once, and the standing event is the newest of them.
DuplicateWindow ==
    \A l \in LaneRef :
        LET ring == recentEventIds[l]
        IN /\ recentEventIdSet[l] = {ring[i] : i \in 1..Len(ring)}
           /\ \A i, j \in 1..Len(ring) : ring[i] = ring[j] => i = j
           /\ lastEvent[l] # NoEvent =>
                /\ ring # <<>>
                /\ lastEvent[l].eventId = ring[Len(ring)]

\* The event a snapshot shows beside a descriptor belongs to its generation
\* and was not observed before it, though descriptors and replies advance
\* the descriptor independently of events.
EventNotSuperseded ==
    \A l \in LaneRef :
        lastEvent[l] # NoEvent =>
            /\ IsCurrent(l, lastEvent[l].laneGeneration)
            /\ lastEvent[l].observedAt >= descriptor[l].observedAt

\* While a lane is retained its descriptor only moves forward in
\* (generation, observedAt), and at one such point it never changes its
\* content: a delayed descriptor or reply cannot roll a lane back, and two
\* contradictory facts of one instant cannot alternate.
TruthMovesForward ==
    [][\A l \in Lanes : descriptor'[l] # NoDescriptor =>
            \/ descriptor'[l] = descriptor[l]
            \/ descriptor'[l].generation > descriptor[l].generation
            \/ /\ descriptor'[l].generation = descriptor[l].generation
               /\ descriptor'[l].observedAt > descriptor[l].observedAt]_vars

=============================================================================
