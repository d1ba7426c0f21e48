----------------------- MODULE ApplicationLanes_proofs -----------------------
(***************************************************************************)
(* Proofs about the two in-memory owners of application-lane state,        *)
(* ApplicationLaneRuntime and ApplicationLaneInteractionLedger, for every  *)
(* value of their constants.  They share nothing: the first part is about  *)
(* the runtime, the second about the ledger.                               *)
(***************************************************************************)
EXTENDS ApplicationLaneRuntime, ApplicationLaneInteractionLedger,
        FiniteSetTheorems, SequenceTheorems, TLAPS

(***************************************************************************)
(* The runtime                                                             *)
(***************************************************************************)

USE InputAssumption, LimitAssumption, AbsenceAssumption

-----------------------------------------------------------------------------
(* Lemmas                                                                  *)

\* The descriptor after a reply is a descriptor of the same generation.
LEMMA ResponseDescriptor ==
    ASSUME NEW d \in Descriptor, NEW p \in Response
    PROVE  /\ DescriptorFromResponse(d, p) \in Descriptor
           /\ DescriptorFromResponse(d, p).generation = d.generation
           /\ DescriptorFromResponse(d, p).observedAt = p.observedAt
  BY DEF DescriptorFromResponse, Descriptor, Response

\* An event that is kept is an event or none; none stays none.
LEMMA KeepEventType ==
    ASSUME NEW e \in Event \union {NoEvent}, NEW t \in Time
    PROVE  KeepEvent(e, t) \in Event \union {NoEvent}
           /\ (e = NoEvent => KeepEvent(e, t) = NoEvent)
  BY DEF KeepEvent

\* Pushing an id, and dropping the oldest one, both yield a ring of ids.
LEMMA PushType ==
    ASSUME NEW ring \in Seq(EventId), NEW id \in EventId
    PROVE  /\ Append(ring, id) \in Seq(EventId)
           /\ Append(ring, id) # <<>>
           /\ Tail(Append(ring, id)) \in Seq(EventId)
<1>1. Append(ring, id) \in Seq(EventId) /\ Append(ring, id) # <<>>
  BY AppendProperties
<1> QED BY <1>1, HeadTailProperties

-----------------------------------------------------------------------------
(* The type invariant                                                      *)

\* At the start no lane is retained and nothing is held.
LEMMA InitType == Init => TypeOK
  BY DEF Init, TypeOK, Lanes

\* Every method keeps the types, and leaves nothing with an absent lane.
LEMMA NextType == TypeOK /\ [Next]_vars => TypeOK'
<1> SUFFICES ASSUME TypeOK, [Next]_vars PROVE TypeOK'
  OBVIOUS
<1> USE DEF TypeOK, Lanes
<1>1. ASSUME NEW l \in LaneRef, NEW d \in Descriptor, InsertLane(l, d)
      PROVE  TypeOK'
  BY <1>1 DEF InsertLane, eventVars
<1>2. ASSUME NEW l \in LaneRef, NEW d \in Descriptor, AdvanceDescriptor(l, d)
      PROVE  TypeOK'
  BY <1>2 DEF AdvanceDescriptor, KeepEvent, IsCurrent
<1>3. ASSUME NEW l \in LaneRef, NEW d \in Descriptor, ReplaceGeneration(l, d)
      PROVE  TypeOK'
  BY <1>3 DEF ReplaceGeneration, ClearPending
<1>4. ASSUME NEW l \in LaneRef, NEW e \in Event, AdmitEvent(l, e)
      PROVE  TypeOK'
  <2>1. e.eventId \in EventId
    BY DEF Event
  <2>2. recentEventIds' \in [LaneRef -> Seq(EventId)]
    <3>1. recentEventIds[l] \in Seq(EventId)
      OBVIOUS
    <3>2. recentEventIds'[l] \in Seq(EventId)
      BY <1>4, <2>1, <3>1, PushType DEF AdmitEvent, RememberEventId
    <3> QED BY <1>4, <3>2 DEF AdmitEvent, RememberEventId
  <2>3. recentEventIdSet' \in [LaneRef -> SUBSET EventId]
    BY <1>4, <2>1 DEF AdmitEvent, RememberEventId
  <2>4. \A k \in LaneRef \ Lanes : /\ recentEventIds'[k] = recentEventIds[k]
                                   /\ recentEventIdSet'[k] = recentEventIdSet[k]
    BY <1>4 DEF AdmitEvent, RememberEventId, IsCurrent
  <2>5. lastEvent' \in [LaneRef -> Event \union {NoEvent}]
    BY <1>4 DEF AdmitEvent
  <2>6. /\ UNCHANGED <<descriptor, pendingIds, pending>>
        /\ \A k \in LaneRef \ Lanes : lastEvent'[k] = lastEvent[k]
    BY <1>4 DEF AdmitEvent, IsCurrent
  <2> QED BY <2>2, <2>3, <2>4, <2>5, <2>6
<1>5. ASSUME NEW r \in RequestId, NEW q \in Request, BeginRequest(r, q)
      PROVE  TypeOK'
  BY <1>5 DEF BeginRequest, Request, IsCurrent, eventVars
<1>6. ASSUME NEW p \in Response, RefusePayload(p)
      PROVE  TypeOK'
  <2>1. p.laneRef \in LaneRef /\ p.requestId \in RequestId
    BY DEF Response
  <2>2. /\ pending' = [pending EXCEPT ![p.requestId] = NoRequest]
        /\ pendingIds' = [pendingIds EXCEPT
                ![p.laneRef] = pendingIds[p.laneRef] \ {p.requestId}]
        /\ UNCHANGED <<descriptor, lastEvent, recentEventIds, recentEventIdSet>>
    BY <1>6 DEF RefusePayload, ConsumePending, eventVars
  <2>3. pending' \in [RequestId -> Request \union {NoRequest}]
    BY <2>1, <2>2
  <2>4. /\ pendingIds' \in [LaneRef -> SUBSET RequestId]
        /\ \A k \in LaneRef : pendingIds'[k] \subseteq pendingIds[k]
    BY <2>1, <2>2
  <2>5. ASSUME NEW k \in LaneRef \ Lanes'
        PROVE  /\ lastEvent'[k] = NoEvent
               /\ pendingIds'[k] = {}
               /\ recentEventIds'[k] = <<>>
               /\ recentEventIdSet'[k] = {}
    <3>1. k \in LaneRef \ Lanes
      BY <2>2
    <3> QED BY <2>2, <2>4, <3>1
  <2> QED BY <2>2, <2>3, <2>4, <2>5
<1>7. ASSUME NEW p \in Response, AcceptResponse(p)
      PROVE  TypeOK'
  <2>1. p.laneRef \in Lanes /\ p.requestId \in RequestId
        /\ descriptor[p.laneRef] \in Descriptor
    BY <1>7 DEF AcceptResponse, IsAnswer, IsCurrent, Response, Pending
  <2>2. DescriptorFromResponse(descriptor[p.laneRef], p) \in Descriptor
    BY <2>1, ResponseDescriptor
  <2>3. /\ descriptor' \in [LaneRef -> Descriptor \union {NoDescriptor}]
        /\ \A k \in LaneRef : descriptor'[k] = NoDescriptor
                                <=> descriptor[k] = NoDescriptor
    <3> DEFINE new == DescriptorFromResponse(descriptor[p.laneRef], p)
    <3>1. new \in Descriptor
      BY <2>2
    <3> HIDE DEF new
    <3>2. \/ descriptor' = [descriptor EXCEPT ![p.laneRef] = new]
          \/ descriptor' = descriptor
      BY <1>7 DEF AcceptResponse, new
    <3>3. /\ descriptor \in [LaneRef -> Descriptor \union {NoDescriptor}]
          /\ p.laneRef \in LaneRef
          /\ descriptor[p.laneRef] # NoDescriptor
      BY <2>1 DEF Lanes
    <3>4. NoDescriptor \notin Descriptor
      BY AbsenceAssumption
    <3> HIDE DEF TypeOK, Lanes
    <3> QED BY <3>1, <3>2, <3>3, <3>4
  <2>4. /\ lastEvent' \in [LaneRef -> Event \union {NoEvent}]
        /\ \A k \in LaneRef : lastEvent[k] = NoEvent => lastEvent'[k] = NoEvent
    <3>1. p.observedAt \in Time
      BY DEF Response
    <3>2. lastEvent[p.laneRef] \in Event \union {NoEvent}
      BY <2>1
    <3> DEFINE kept == KeepEvent(lastEvent[p.laneRef], p.observedAt)
    <3>3. /\ kept \in Event \union {NoEvent}
          /\ lastEvent[p.laneRef] = NoEvent => kept = NoEvent
      BY <3>1, <3>2, KeepEventType
    <3> HIDE DEF kept
    <3>4. \/ lastEvent' = [lastEvent EXCEPT ![p.laneRef] = kept]
          \/ lastEvent' = lastEvent
      BY <1>7 DEF AcceptResponse, kept
    <3>5. lastEvent \in [LaneRef -> Event \union {NoEvent}]
      OBVIOUS
    <3> HIDE DEF TypeOK, Lanes
    <3> QED BY <3>3, <3>4, <3>5
  <2>5. /\ pending' \in [RequestId -> Request \union {NoRequest}]
        /\ pendingIds' \in [LaneRef -> SUBSET RequestId]
        /\ \A k \in LaneRef : pendingIds'[k] \subseteq pendingIds[k]
    BY <1>7, <2>1 DEF AcceptResponse, ConsumePending
  <2>6. UNCHANGED <<recentEventIds, recentEventIdSet>>
    BY <1>7 DEF AcceptResponse
  <2>7. Lanes' = Lanes
    BY <2>3
  <2>8. ASSUME NEW k \in LaneRef \ Lanes'
        PROVE  /\ lastEvent'[k] = NoEvent
               /\ pendingIds'[k] = {}
               /\ recentEventIds'[k] = <<>>
               /\ recentEventIdSet'[k] = {}
    <3>1. k \in LaneRef \ Lanes
      BY <2>7
    <3>2. lastEvent[k] = NoEvent /\ pendingIds[k] = {}
      BY <3>1
    <3> QED BY <2>4, <2>5, <2>6, <3>1, <3>2
  <2> QED BY <2>3, <2>4, <2>5, <2>6, <2>8
<1>8. ASSUME NEW r \in RequestId, CancelRequest(r)
      PROVE  TypeOK'
  BY <1>8 DEF CancelRequest, ConsumePending, eventVars, Pending, Request
<1>9. ASSUME NEW l \in LaneRef, ReleaseLane(l)
      PROVE  TypeOK'
  BY <1>9 DEF ReleaseLane, ClearPending
<1>10. CASE Clear
  BY <1>10 DEF Clear
<1>11. CASE UNCHANGED vars
  BY <1>11 DEF vars
<1> QED
  BY <1>1, <1>2, <1>3, <1>4, <1>5, <1>6, <1>7, <1>8, <1>9, <1>10, <1>11
     DEF Next, UpsertDescriptor

\* Type correctness of the runtime, and that an absent lane holds nothing:
\* no event, no request and no remembered id survives a lane's release.
THEOREM TypeCorrect == Spec => []TypeOK
  BY InitType, NextType, PTL DEF Spec

-----------------------------------------------------------------------------
(* Ownership of pending requests                                           *)

\* PendingOwnership is inductive relative to the types: each action changes
\* the global map and the lane's list together, and the generation of a lane
\* only where it empties that list.

\* IsCurrent and the ownership of one pair, after the step.
WillBeCurrent(k, g) == k \in Lanes' /\ descriptor'[k].generation = g

WillBeOwned(s, k) ==
    /\ s \in pendingIds'[k] <=> s \in Pending' /\ pending'[s].laneRef = k
    /\ s \in pendingIds'[k] => WillBeCurrent(k, pending'[s].laneGeneration)

\* Ownership is a matter of one request and one lane at a time.
LEMMA PairwiseOwnership ==
    ASSUME \A s \in RequestId, k \in LaneRef : WillBeOwned(s, k)
    PROVE  PendingOwnership'
  BY DEF WillBeOwned, WillBeCurrent, PendingOwnership, IsCurrent

\* At the start there is nothing to own.
LEMMA InitOwnership == Init => PendingOwnership
  BY DEF Init, PendingOwnership, Pending

\* Consuming a request of lane l keeps ownership while lanes stay current.
LEMMA ConsumeOwnership ==
    ASSUME TypeOK, PendingOwnership,
           NEW l \in LaneRef, NEW r \in pendingIds[l], ConsumePending(r, l),
           \A k \in LaneRef, g \in Generation : IsCurrent(k, g) => WillBeCurrent(k, g)
    PROVE  PendingOwnership'
<1>1. r \in RequestId
  BY DEF TypeOK
<1>2. \A s \in RequestId : s # r => pending'[s] = pending[s]
  BY DEF ConsumePending, TypeOK
<1>3. pending'[r] = NoRequest
  BY <1>1 DEF ConsumePending, TypeOK
<1>4. \A k \in LaneRef : pendingIds'[k] = IF k = l THEN pendingIds[k] \ {r}
                                                   ELSE pendingIds[k]
  BY DEF ConsumePending, TypeOK
<1>5. ASSUME NEW s \in RequestId, NEW k \in LaneRef
      PROVE  WillBeOwned(s, k)
  <2>1. CASE s = r
    <3>1. s \notin Pending' /\ s \notin pendingIds'[k]
      <4>1. s \in pendingIds[k] => k = l
        BY <2>1 DEF PendingOwnership
      <4> QED BY <1>3, <1>4, <2>1, <4>1 DEF Pending
    <3> QED BY <3>1 DEF WillBeOwned
  <2>2. CASE s # r
    <3>1. /\ pending'[s] = pending[s]
          /\ s \in pendingIds'[k] <=> s \in pendingIds[k]
      BY <1>2, <1>4, <2>2
    <3>2. s \in pendingIds[k] => pending[s].laneGeneration \in Generation
      BY DEF PendingOwnership, Pending, TypeOK, Request
    <3> QED BY <3>1, <3>2 DEF PendingOwnership, Pending, WillBeOwned
  <2> QED BY <2>1, <2>2
<1> QED BY <1>5, PairwiseOwnership

\* A step that leaves the requests alone keeps ownership while lanes stay
\* current.
LEMMA SameRequests ==
    ASSUME PendingOwnership, UNCHANGED <<pending, pendingIds>>,
           \A k \in LaneRef : \A g : IsCurrent(k, g) => WillBeCurrent(k, g)
    PROVE  PendingOwnership'
<1>1. ASSUME NEW s \in RequestId, NEW k \in LaneRef PROVE WillBeOwned(s, k)
  BY DEF PendingOwnership, Pending, WillBeOwned
<1> QED BY <1>1, PairwiseOwnership

\* Dropping every request of lane l keeps ownership, whatever becomes of l.
LEMMA DropOwnership ==
    ASSUME TypeOK, PendingOwnership, NEW l \in LaneRef,
           pending' = ClearPending(l),
           pendingIds' = [pendingIds EXCEPT ![l] = {}],
           \A k \in LaneRef \ {l} : descriptor'[k] = descriptor[k]
    PROVE  PendingOwnership'
<1>1. ASSUME NEW s \in RequestId, NEW k \in LaneRef
      PROVE  WillBeOwned(s, k)
  <2>1. pending'[s] = IF s \in pendingIds[l] THEN NoRequest ELSE pending[s]
    BY DEF ClearPending
  <2>2. pendingIds'[k] = IF k = l THEN {} ELSE pendingIds[k]
    BY DEF TypeOK
  <2>3. CASE k = l
    BY <2>1, <2>2, <2>3 DEF PendingOwnership, Pending, WillBeOwned
  <2>4. CASE k # l
    <3>1. s \in pendingIds[k] => s \notin pendingIds[l]
      BY <2>4 DEF PendingOwnership
    <3>2. s \in pendingIds'[k] <=> s \in Pending' /\ pending'[s].laneRef = k
      BY <2>1, <2>2, <2>4, <3>1 DEF PendingOwnership, Pending
    <3>3. \A g : IsCurrent(k, g) <=> WillBeCurrent(k, g)
      BY <2>4 DEF IsCurrent, Lanes, WillBeCurrent
    <3> QED BY <2>1, <2>2, <2>4, <3>1, <3>2, <3>3
          DEF PendingOwnership, WillBeOwned
  <2> QED BY <2>3, <2>4
<1> QED BY <1>1, PairwiseOwnership

\* Every method keeps the global map and the per-lane sets in agreement.
LEMMA NextOwnership ==
    TypeOK /\ PendingOwnership /\ [Next]_vars => PendingOwnership'
<1> SUFFICES ASSUME TypeOK, PendingOwnership, [Next]_vars
             PROVE  PendingOwnership'
  OBVIOUS
<1>1. ASSUME NEW l \in LaneRef, NEW d \in Descriptor, InsertLane(l, d)
      PROVE  PendingOwnership'
  <2>1. UNCHANGED <<pending, pendingIds>> /\ l \notin Lanes
    BY <1>1 DEF InsertLane
  <2>2. \A k \in LaneRef \ {l} : descriptor'[k] = descriptor[k]
    BY <1>1 DEF InsertLane, TypeOK
  <2>3. \A k \in LaneRef : \A g : IsCurrent(k, g) => WillBeCurrent(k, g)
    BY <2>1, <2>2 DEF IsCurrent, Lanes, WillBeCurrent
  <2> QED BY <2>1, <2>3, SameRequests
<1>2. ASSUME NEW l \in LaneRef, NEW d \in Descriptor, AdvanceDescriptor(l, d)
      PROVE  PendingOwnership'
  <2>1. UNCHANGED <<pending, pendingIds>>
    BY <1>2 DEF AdvanceDescriptor
  <2>2. \A k \in LaneRef : \A g : IsCurrent(k, g) => WillBeCurrent(k, g)
    BY <1>2 DEF AdvanceDescriptor, IsCurrent, Lanes, TypeOK,
                       WillBeCurrent
  <2> QED BY <2>1, <2>2, SameRequests
<1>3. ASSUME NEW l \in LaneRef, NEW d \in Descriptor, ReplaceGeneration(l, d)
      PROVE  PendingOwnership'
  BY <1>3, DropOwnership DEF ReplaceGeneration, TypeOK
<1>4. ASSUME NEW l \in LaneRef, NEW e \in Event, AdmitEvent(l, e)
      PROVE  PendingOwnership'
  BY <1>4 DEF AdmitEvent, PendingOwnership, Pending, IsCurrent, Lanes
<1>5. ASSUME NEW r \in RequestId, NEW q \in Request, BeginRequest(r, q)
      PROVE  PendingOwnership'
  <2>1. /\ q.laneRef \in LaneRef
        /\ pending' = [pending EXCEPT ![r] = q]
        /\ pendingIds' = [pendingIds EXCEPT ![q.laneRef] = @ \union {r}]
        /\ UNCHANGED descriptor /\ IsCurrent(q.laneRef, q.laneGeneration)
        /\ r \notin Pending /\ q # NoRequest
    BY <1>5 DEF BeginRequest, Request
  <2>2. ASSUME NEW s \in RequestId, NEW k \in LaneRef
        PROVE  WillBeOwned(s, k)
    <3>1. \A g : IsCurrent(k, g) <=> WillBeCurrent(k, g)
      BY <2>1 DEF IsCurrent, Lanes, WillBeCurrent
    <3>2. CASE s = r
      BY <2>1, <3>1, <3>2 DEF PendingOwnership, Pending, TypeOK, WillBeOwned
    <3>3. CASE s # r
      BY <2>1, <3>1, <3>3 DEF PendingOwnership, Pending, TypeOK, WillBeOwned
    <3> QED BY <3>2, <3>3
  <2> QED BY <2>2, PairwiseOwnership
<1>6. ASSUME NEW p \in Response, RefusePayload(p)
      PROVE  PendingOwnership'
  <2>1. /\ p.laneRef \in LaneRef
        /\ p.requestId \in pendingIds[p.laneRef]
        /\ ConsumePending(p.requestId, p.laneRef)
        /\ UNCHANGED descriptor
    BY <1>6 DEF RefusePayload, IsAnswer, Matches, PendingOwnership, Response,
                Pending
  <2> QED BY <2>1, ConsumeOwnership DEF IsCurrent, Lanes, WillBeCurrent
<1>7. ASSUME NEW p \in Response, AcceptResponse(p)
      PROVE  PendingOwnership'
  <2>1. /\ p.laneRef \in LaneRef /\ p.laneRef \in Lanes
        /\ p.requestId \in pendingIds[p.laneRef]
        /\ ConsumePending(p.requestId, p.laneRef)
    BY <1>7 DEF AcceptResponse, IsAnswer, Matches, PendingOwnership, Response,
                Pending, IsCurrent
  <2>2. descriptor[p.laneRef] \in Descriptor
    BY <2>1 DEF TypeOK, Lanes
  <2>3. /\ DescriptorFromResponse(descriptor[p.laneRef], p) \in Descriptor
        /\ DescriptorFromResponse(descriptor[p.laneRef], p).generation
                = descriptor[p.laneRef].generation
    BY <2>2, ResponseDescriptor
  <2>4. \A k \in LaneRef : \A g : IsCurrent(k, g) => WillBeCurrent(k, g)
    <3> DEFINE d == DescriptorFromResponse(descriptor[p.laneRef], p)
    <3>1. d \in Descriptor /\ d.generation = descriptor[p.laneRef].generation
      BY <2>3
    <3>2. \/ descriptor' = [descriptor EXCEPT ![p.laneRef] = d]
          \/ descriptor' = descriptor
      BY <1>7 DEF AcceptResponse
    <3>3. d # NoDescriptor
      BY <3>1
    <3> HIDE DEF d
    <3> QED BY <2>1, <3>1, <3>2, <3>3 DEF IsCurrent, Lanes, TypeOK, WillBeCurrent
  <2> QED BY <2>1, <2>4, ConsumeOwnership
<1>8. ASSUME NEW r \in RequestId, CancelRequest(r)
      PROVE  PendingOwnership'
  <2>1. /\ pending[r].laneRef \in LaneRef
        /\ r \in pendingIds[pending[r].laneRef]
        /\ ConsumePending(r, pending[r].laneRef)
        /\ UNCHANGED descriptor
    BY <1>8 DEF CancelRequest, PendingOwnership, Pending, TypeOK, Request
  <2> QED BY <2>1, ConsumeOwnership DEF IsCurrent, Lanes, WillBeCurrent
<1>9. ASSUME NEW l \in LaneRef, ReleaseLane(l)
      PROVE  PendingOwnership'
  BY <1>9, DropOwnership DEF ReleaseLane, TypeOK
<1>10. CASE Clear
  <2>1. ASSUME NEW s \in RequestId PROVE pending'[s] = NoRequest
    <3>1. CASE s \in Pending
      <4>1. s \in pendingIds[pending[s].laneRef] /\ pending[s].laneRef \in Lanes
        BY <3>1 DEF PendingOwnership, Pending, TypeOK, Request, IsCurrent
      <4> QED BY <1>10, <4>1 DEF Clear
    <3>2. CASE s \notin Pending
      BY <1>10, <3>2 DEF Clear, Pending
    <3> QED BY <3>1, <3>2
  <2>2. \A k \in LaneRef : pendingIds'[k] = {}
    BY <1>10 DEF Clear
  <2> QED BY <2>1, <2>2 DEF PendingOwnership, Pending
<1>11. CASE UNCHANGED vars
  BY <1>11 DEF vars, PendingOwnership, Pending, IsCurrent, Lanes
<1> QED
  BY <1>1, <1>2, <1>3, <1>4, <1>5, <1>6, <1>7, <1>8, <1>9, <1>10, <1>11
     DEF Next, UpsertDescriptor

\* The global map and the lanes' lists never disagree on who waits for what,
\* and no request outlives the generation it was begun under.
THEOREM Ownership == Spec => []PendingOwnership
  BY InitType, NextType, InitOwnership, NextOwnership, PTL DEF Spec

-----------------------------------------------------------------------------
(* The duplicate window                                                    *)

\* A ring within its limit, the set of its ids and the event that stands
\* beside it: what DuplicateWindow says of one lane, and the limit, without
\* which the pushed id might be the one that leaves.
RingFits(ring, set, event) ==
    /\ Len(ring) <= maxRecentEventIdsPerLane
    /\ set = {ring[i] : i \in 1..Len(ring)}
    /\ \A i, j \in 1..Len(ring) : ring[i] = ring[j] => i = j
    /\ event # NoEvent => /\ ring # <<>>
                          /\ event.eventId = ring[Len(ring)]

RingsFit ==
    \A l \in LaneRef : RingFits(recentEventIds[l], recentEventIdSet[l],
                                lastEvent[l])

\* The ring and the set of ids after RememberEventId.
Pushed(ring, id) ==
    IF Len(Append(ring, id)) > maxRecentEventIdsPerLane
    THEN Tail(Append(ring, id)) ELSE Append(ring, id)
PushedSet(ring, set, id) ==
    (set \union {id}) \ (IF Len(Append(ring, id)) > maxRecentEventIdsPerLane
                         THEN {Head(Append(ring, id))} ELSE {})

\* The ring keeps its limit, and the ids stay distinct and equal to the set,
\* when a new id is pushed and the oldest perhaps dropped.
LEMMA RingPush ==
    ASSUME NEW ring \in Seq(EventId), NEW set, NEW old, NEW e \in Event,
           RingFits(ring, set, old), e.eventId \notin set
    PROVE  RingFits(Pushed(ring, e.eventId), PushedSet(ring, set, e.eventId), e)
<1> DEFINE id == e.eventId
           pushed == Append(ring, id)
           new == Pushed(ring, id)
           newSet == PushedSet(ring, set, id)
<1> SUFFICES /\ Len(new) <= maxRecentEventIdsPerLane
             /\ newSet = {new[i] : i \in 1..Len(new)}
             /\ \A i, j \in 1..Len(new) : new[i] = new[j] => i = j
             /\ new # <<>>
             /\ new[Len(new)] = id
  BY DEF RingFits
<1>1. /\ new = IF Len(pushed) > maxRecentEventIdsPerLane
                THEN Tail(pushed) ELSE pushed
      /\ newSet = (set \union {id})
                      \ (IF Len(pushed) > maxRecentEventIdsPerLane
                         THEN {Head(pushed)} ELSE {})
      /\ pushed = Append(ring, id)
      /\ id \in EventId
  BY DEF Pushed, PushedSet, Event
<1>2. /\ Len(ring) <= maxRecentEventIdsPerLane
      /\ set = {ring[i] : i \in 1..Len(ring)}
      /\ \A i, j \in 1..Len(ring) : ring[i] = ring[j] => i = j
      /\ id \notin set
  BY DEF RingFits
<1> HIDE DEF id, pushed, new, newSet
<1>3. /\ pushed \in Seq(EventId)
      /\ Len(pushed) = Len(ring) + 1
      /\ \A i \in 1..Len(ring) : pushed[i] = ring[i]
      /\ pushed[Len(pushed)] = id
      /\ pushed # <<>>
      /\ Len(ring) \in Nat
  BY <1>1, SMT
<1>4. \A i, j \in 1..Len(pushed) : pushed[i] = pushed[j] => i = j
  BY <1>3, <1>2, SMT
<1>5. set \union {id} = {pushed[i] : i \in 1..Len(pushed)}
  BY <1>3, <1>2, SMT
<1>6. CASE ~(Len(pushed) > maxRecentEventIdsPerLane)
  <2>1. new = pushed /\ newSet = set \union {id}
    BY <1>1, <1>6
  <2>2. newSet = {new[i] : i \in 1..Len(new)}
    BY <1>5, <2>1, Zenon
  <2>3. Len(new) <= maxRecentEventIdsPerLane
    BY <1>3, <1>6, <2>1
  <2> QED BY <1>3, <1>4, <2>1, <2>2, <2>3
<1>7. CASE Len(pushed) > maxRecentEventIdsPerLane
  <2>1. /\ new = Tail(pushed)
        /\ new \in Seq(EventId)
        /\ Len(new) = Len(ring)
        /\ \A i \in 1..Len(new) : new[i] = pushed[i + 1]
        /\ Head(pushed) = pushed[1]
    BY <1>1, <1>3, <1>7, SMT
  <2>2. Len(ring) >= 1 /\ new # <<>>
    BY <1>3, <1>7, <2>1, SMT
  <2>3. \A i, j \in 1..Len(new) : new[i] = new[j] => i = j
    BY <1>3, <1>4, <2>1, SMT
  <2>4. newSet = {new[i] : i \in 1..Len(new)}
    <3>1. newSet = {pushed[i] : i \in 1..Len(pushed)} \ {pushed[1]}
      BY <1>1, <1>5, <1>7, <2>1
    <3>2. ASSUME NEW x \in newSet 
                PROVE \E i \in 1..Len(new) : x = new[i]
      <4>1. PICK i \in 1..Len(pushed) : x = pushed[i] /\ i # 1
        BY <3>1, <3>2
      <4>2. i - 1 \in 1..Len(new) /\ x = new[i - 1]
        BY <1>3, <2>1, <4>1, SMT
      <4> QED BY <4>2
    <3>3. ASSUME NEW i \in 1..Len(new) PROVE new[i] \in newSet
      <4>1. i + 1 \in 1..Len(pushed) /\ 1 \in 1..Len(pushed) /\ i + 1 # 1
        BY <1>3, <2>1, SMT
      <4> QED BY <1>4, <2>1, <3>1, <4>1
    <3> DEFINE ids == {new[i] : i \in 1..Len(new)}
    <3>4. newSet \subseteq ids
      BY <3>2, Zenon
    <3>5. ids \subseteq newSet
      BY <3>3, Zenon
    <3> QED BY <3>4, <3>5, Zenon
  <2>5. Len(new) <= maxRecentEventIdsPerLane
    BY <1>2, <2>1
  <2>6. new[Len(new)] = id
    BY <1>3, <2>1, <2>2
  <2> QED BY <2>1, <2>2, <2>3, <2>4, <2>5, <2>6
<1> QED BY <1>6, <1>7

\* An empty ring fits an empty set and no event.
LEMMA EmptyRing == RingFits(<<>>, {}, NoEvent)
  BY SMT DEF RingFits

\* The fit of one lane, after the step.
WillFit(k) == RingFits(recentEventIds'[k], recentEventIdSet'[k], lastEvent'[k])

\* Rings fit their sets if each lane's does.
LEMMA LanewiseFit ==
    ASSUME \A k \in LaneRef : WillFit(k)
    PROVE  RingsFit'
  BY DEF WillFit, RingsFit

\* At the start every ring is empty.
LEMMA InitRings == Init => RingsFit
  BY EmptyRing DEF Init, RingsFit

\* A step that leaves the rings alone and at most drops events.
LEMMA SameRings ==
    ASSUME RingsFit, UNCHANGED <<recentEventIds, recentEventIdSet>>,
           \A k \in LaneRef : lastEvent'[k] \in {lastEvent[k], NoEvent}
    PROVE  RingsFit'
<1>1. ASSUME NEW k \in LaneRef PROVE WillFit(k)
  BY DEF RingsFit, RingFits, WillFit
<1> QED BY <1>1, LanewiseFit

\* A step that empties the ring of lane l.
LEMMA EmptiedRing ==
    ASSUME TypeOK, RingsFit, NEW l \in LaneRef,
           lastEvent' = [lastEvent EXCEPT ![l] = NoEvent],
           recentEventIds' = [recentEventIds EXCEPT ![l] = <<>>],
           recentEventIdSet' = [recentEventIdSet EXCEPT ![l] = {}]
    PROVE  RingsFit'
<1>1. ASSUME NEW k \in LaneRef PROVE WillFit(k)
  <2>1. CASE k = l
    <3>1. /\ recentEventIds'[k] = <<>> /\ recentEventIdSet'[k] = {}
          /\ lastEvent'[k] = NoEvent
      BY <2>1 DEF TypeOK
    <3> QED BY <3>1, EmptyRing DEF WillFit
  <2>2. CASE k # l
    <3>1. /\ recentEventIds'[k] = recentEventIds[k]
          /\ recentEventIdSet'[k] = recentEventIdSet[k]
          /\ lastEvent'[k] = lastEvent[k]
      BY <2>2 DEF TypeOK
    <3> QED BY <3>1 DEF WillFit, RingsFit
  <2> QED BY <2>1, <2>2
<1> QED BY <1>1, LanewiseFit

\* An admitted event is pushed onto the ring of its lane.
LEMMA AdmittedRing ==
    ASSUME TypeOK, RingsFit, NEW l \in LaneRef, NEW e \in Event,
           AdmitEvent(l, e)
    PROVE  RingsFit'
<1> DEFINE new == Pushed(recentEventIds[l], e.eventId)
           newSet == PushedSet(recentEventIds[l], recentEventIdSet[l], e.eventId)
<1>1. /\ recentEventIds[l] \in Seq(EventId) /\ e.eventId \in EventId
      /\ RingFits(recentEventIds[l], recentEventIdSet[l], lastEvent[l])
      /\ e.eventId \notin recentEventIdSet[l]
  BY DEF TypeOK, Event, RingsFit, AdmitEvent
<1>2. RingFits(new, newSet, e)
  BY <1>1, RingPush
<1>3. /\ recentEventIds' = [recentEventIds EXCEPT ![l] = new]
      /\ recentEventIdSet' = [recentEventIdSet EXCEPT ![l] = newSet]
      /\ lastEvent' = [lastEvent EXCEPT ![l] = e]
  BY DEF AdmitEvent, RememberEventId, Pushed, PushedSet
<1> HIDE DEF new, newSet
<1>4. ASSUME NEW k \in LaneRef PROVE WillFit(k)
  <2>1. CASE k = l
    <3>1. /\ recentEventIds'[k] = new /\ recentEventIdSet'[k] = newSet
          /\ lastEvent'[k] = e
      BY <1>3, <2>1 DEF TypeOK
    <3> QED BY <1>2, <3>1 DEF WillFit
  <2>2. CASE k # l
    <3>1. /\ recentEventIds'[k] = recentEventIds[k]
          /\ recentEventIdSet'[k] = recentEventIdSet[k]
          /\ lastEvent'[k] = lastEvent[k]
      BY <1>3, <2>2 DEF TypeOK
    <3> QED BY <3>1 DEF WillFit, RingsFit
  <2> QED BY <2>1, <2>2
<1> QED BY <1>4, LanewiseFit

\* Every method keeps rings and sets in step: only an admitted event pushes.
LEMMA NextRings == TypeOK /\ RingsFit /\ [Next]_vars => RingsFit'
<1> SUFFICES ASSUME TypeOK, RingsFit, [Next]_vars PROVE RingsFit'
  OBVIOUS
<1>1. ASSUME NEW l \in LaneRef, NEW d \in Descriptor, InsertLane(l, d)
      PROVE  RingsFit'
  BY <1>1, SameRings DEF InsertLane, eventVars
<1>2. ASSUME NEW l \in LaneRef, NEW d \in Descriptor, AdvanceDescriptor(l, d)
      PROVE  RingsFit'
  BY <1>2, SameRings DEF AdvanceDescriptor, KeepEvent, TypeOK
<1>3. ASSUME NEW l \in LaneRef, NEW d \in Descriptor, ReplaceGeneration(l, d)
      PROVE  RingsFit'
  BY <1>3, EmptiedRing DEF ReplaceGeneration
<1>4. ASSUME NEW l \in LaneRef, NEW e \in Event, AdmitEvent(l, e)
      PROVE  RingsFit'
  BY <1>4, AdmittedRing
<1>5. ASSUME NEW r \in RequestId, NEW q \in Request, BeginRequest(r, q)
      PROVE  RingsFit'
  BY <1>5, SameRings DEF BeginRequest, eventVars
<1>6. ASSUME NEW p \in Response, RefusePayload(p)
      PROVE  RingsFit'
  BY <1>6, SameRings DEF RefusePayload, eventVars
<1>7. ASSUME NEW p \in Response, AcceptResponse(p)
      PROVE  RingsFit'
  <2>1. UNCHANGED <<recentEventIds, recentEventIdSet>>
    BY <1>7 DEF AcceptResponse
  <2>2. \A k \in LaneRef : lastEvent'[k] \in {lastEvent[k], NoEvent}
    <3> DEFINE kept == KeepEvent(lastEvent[p.laneRef], p.observedAt)
    <3>1. kept \in {lastEvent[p.laneRef], NoEvent}
      BY DEF KeepEvent
    <3> HIDE DEF kept
    <3>2. \/ lastEvent' = [lastEvent EXCEPT ![p.laneRef] = kept]
          \/ lastEvent' = lastEvent
      BY <1>7 DEF AcceptResponse, kept
    <3> QED BY <3>1, <3>2 DEF TypeOK
  <2> QED BY <2>1, <2>2, SameRings
<1>8. ASSUME NEW r \in RequestId, CancelRequest(r)
      PROVE  RingsFit'
  BY <1>8, SameRings DEF CancelRequest, eventVars
<1>9. ASSUME NEW l \in LaneRef, ReleaseLane(l)
      PROVE  RingsFit'
  BY <1>9, EmptiedRing DEF ReleaseLane
<1>10. CASE Clear
  <2>1. ASSUME NEW k \in LaneRef PROVE WillFit(k)
    <3>1. /\ recentEventIds'[k] = <<>> /\ recentEventIdSet'[k] = {}
          /\ lastEvent'[k] = NoEvent
      BY <1>10 DEF Clear
    <3> QED BY <3>1, EmptyRing DEF WillFit
  <2> QED BY <2>1, LanewiseFit
<1>11. CASE UNCHANGED vars
  BY <1>11, SameRings DEF vars
<1> QED
  BY <1>1, <1>2, <1>3, <1>4, <1>5, <1>6, <1>7, <1>8, <1>9, <1>10, <1>11
     DEF Next, UpsertDescriptor

\* Rings that fit are the windows that the duplicate test means.
LEMMA RingsAreWindows == RingsFit => DuplicateWindow
  BY DEF RingsFit, RingFits, DuplicateWindow

\* The set that the duplicate test reads and the ring that eviction follows
\* hold the same ids, each once, and the standing event is the newest.
THEOREM Windows == Spec => []DuplicateWindow
  BY InitType, NextType, InitRings, NextRings, RingsAreWindows, PTL DEF Spec

-----------------------------------------------------------------------------
(* Lane truth                                                              *)

\* From d to n a lane's truth moves forward, or the lane is forgotten.
Forward(d, n) ==
    n # NoDescriptor => \/ n = d
                        \/ n.generation > d.generation
                        \/ /\ n.generation = d.generation
                           /\ n.observedAt > d.observedAt

\* The truth of a retained lane, after the step.
WillBeForward(k) == k \in Lanes => Forward(descriptor[k], descriptor'[k])

\* Every method leaves the descriptor of a lane, or moves it forward.
LEMMA NextTruth ==
    ASSUME TypeOK, [Next]_vars, NEW k \in LaneRef
    PROVE  WillBeForward(k)
<1>1. ASSUME NEW l \in LaneRef, NEW d \in Descriptor, InsertLane(l, d)
      PROVE  WillBeForward(k)
  BY <1>1 DEF InsertLane, Lanes, TypeOK, WillBeForward, Forward
<1>2. ASSUME NEW l \in LaneRef, NEW d \in Descriptor, AdvanceDescriptor(l, d)
      PROVE  WillBeForward(k)
  <2>1. /\ descriptor' = [descriptor EXCEPT ![l] = d]
        /\ descriptor[l].generation = d.generation
        /\ descriptor[l].observedAt < d.observedAt
    BY <1>2 DEF AdvanceDescriptor, IsCurrent
  <2> QED BY <2>1 DEF TypeOK, WillBeForward, Forward
<1>3. ASSUME NEW l \in LaneRef, NEW d \in Descriptor, ReplaceGeneration(l, d)
      PROVE  WillBeForward(k)
  <2>1. /\ descriptor' = [descriptor EXCEPT ![l] = d]
        /\ descriptor[l].generation < d.generation
    BY <1>3 DEF ReplaceGeneration
  <2> QED BY <2>1 DEF TypeOK, WillBeForward, Forward
<1>4. ASSUME UNCHANGED descriptor
      PROVE  WillBeForward(k)
  BY <1>4 DEF WillBeForward, Forward
<1>5. ASSUME NEW p \in Response, AcceptResponse(p)
      PROVE  WillBeForward(k)
  <2>1. p.laneRef \in Lanes /\ descriptor[p.laneRef] \in Descriptor
    BY <1>5 DEF AcceptResponse, IsAnswer, IsCurrent, Lanes, TypeOK
  <2> DEFINE d == DescriptorFromResponse(descriptor[p.laneRef], p)
  <2>2. /\ d.generation = descriptor[p.laneRef].generation
        /\ d.observedAt = p.observedAt
    BY <2>1, ResponseDescriptor
  <2> HIDE DEF d
  <2>3. \/ /\ descriptor' = [descriptor EXCEPT ![p.laneRef] = d]
           /\ p.observedAt > descriptor[p.laneRef].observedAt
        \/ descriptor' = descriptor
    BY <1>5 DEF AcceptResponse, d
  <2> QED BY <2>2, <2>3 DEF TypeOK, WillBeForward, Forward
<1>6. ASSUME NEW l \in LaneRef, ReleaseLane(l)
      PROVE  WillBeForward(k)
  BY <1>6 DEF ReleaseLane, TypeOK, WillBeForward, Forward
<1>7. CASE Clear
  BY <1>7 DEF Clear, WillBeForward, Forward
<1> QED
  BY <1>1, <1>2, <1>3, <1>4, <1>5, <1>6, <1>7
     DEF Next, UpsertDescriptor, AdmitEvent, BeginRequest, RefusePayload,
         CancelRequest, vars

\* The same for all lanes at once, in the form of the action property.
LEMMA StepForward ==
    TypeOK /\ [Next]_vars =>
        [\A l \in Lanes : descriptor'[l] # NoDescriptor =>
            \/ descriptor'[l] = descriptor[l]
            \/ descriptor'[l].generation > descriptor[l].generation
            \/ /\ descriptor'[l].generation = descriptor[l].generation
               /\ descriptor'[l].observedAt > descriptor[l].observedAt]_vars
  BY NextTruth DEF WillBeForward, Forward, Lanes

\* No step rolls the truth of a retained lane back, nor changes what it says
\* of one instant.
THEOREM Truth == Spec => TruthMovesForward
  BY TypeCorrect, StepForward, PTL DEF Spec, TruthMovesForward

\* EventNotSuperseded is inductive with the types: whatever moves a lane's
\* descriptor forward drops the event that it overtakes.

\* What EventNotSuperseded says of one lane, after the step.
WillStand(k) ==
    lastEvent'[k] # NoEvent =>
        /\ descriptor'[k] # NoDescriptor
        /\ descriptor'[k].generation = lastEvent'[k].laneGeneration
        /\ lastEvent'[k].observedAt >= descriptor'[k].observedAt

\* Events stand beside their descriptors if each lane's does.
LEMMA LanewiseEvents ==
    ASSUME \A k \in LaneRef : WillStand(k)
    PROVE  EventNotSuperseded'
  BY DEF WillStand, EventNotSuperseded, IsCurrent, Lanes

\* An event that is kept beside a descriptor of time t is not older than it.
LEMMA KeptEvent ==
    ASSUME NEW e \in Event \union {NoEvent}, NEW t \in Time
    PROVE  KeepEvent(e, t) # NoEvent =>
              KeepEvent(e, t) = e /\ e \in Event /\ e.observedAt >= t
<1>1. CASE e = NoEvent
  BY <1>1 DEF KeepEvent
<1>2. CASE e \in Event
  <2>1. e.observedAt \in Nat /\ t \in Nat
    BY <1>2, InputAssumption DEF Event
  <2>2. KeepEvent(e, t) # NoEvent => ~(e.observedAt < t) /\ KeepEvent(e, t) = e
    BY <1>2, AbsenceAssumption DEF KeepEvent
  <2> QED BY <1>2, <2>1, <2>2
<1> QED BY <1>1, <1>2

\* Every method that changes a descriptor keeps only what still stands.
LEMMA NextEvents ==
    TypeOK /\ EventNotSuperseded /\ [Next]_vars => EventNotSuperseded'
<1> SUFFICES ASSUME TypeOK, EventNotSuperseded, [Next]_vars,
                    NEW k \in LaneRef
             PROVE  WillStand(k)
  BY LanewiseEvents
<1> DEFINE Stands ==
        lastEvent[k] # NoEvent =>
            /\ descriptor[k] # NoDescriptor
            /\ descriptor[k].generation = lastEvent[k].laneGeneration
            /\ lastEvent[k].observedAt >= descriptor[k].observedAt
<1>0. Stands
  BY DEF EventNotSuperseded, IsCurrent, Lanes
<1>1. ASSUME NEW l \in LaneRef, NEW d \in Descriptor, InsertLane(l, d)
      PROVE  WillStand(k)
  <2>1. l \notin Lanes => lastEvent[l] = NoEvent
    BY DEF TypeOK
  <2> QED BY <1>0, <1>1, <2>1 DEF InsertLane, eventVars, TypeOK, WillStand
<1>2. ASSUME NEW l \in LaneRef, NEW d \in Descriptor, AdvanceDescriptor(l, d)
      PROVE  WillStand(k)
  <2> DEFINE kept == KeepEvent(lastEvent[l], d.observedAt)
  <2>1. lastEvent[l] \in Event \union {NoEvent} /\ d.observedAt \in Time
    BY DEF TypeOK, Descriptor
  <2>2. kept # NoEvent => kept = lastEvent[l] /\ kept.observedAt >= d.observedAt
    BY <2>1, KeptEvent
  <2> HIDE DEF kept
  <2>3. /\ descriptor' = [descriptor EXCEPT ![l] = d]
        /\ lastEvent' = [lastEvent EXCEPT ![l] = kept]
        /\ d.generation = descriptor[l].generation
    BY <1>2 DEF AdvanceDescriptor, IsCurrent, kept
  <2>4. CASE k = l
    <3>1. descriptor'[k] = d /\ lastEvent'[k] = kept /\ d # NoDescriptor
      BY <2>3, <2>4 DEF TypeOK
    <3> QED BY <1>0, <2>2, <2>3, <2>4, <3>1 DEF WillStand
  <2>5. CASE k # l
    <3>1. descriptor'[k] = descriptor[k] /\ lastEvent'[k] = lastEvent[k]
      BY <2>3, <2>5 DEF TypeOK
    <3> QED BY <1>0, <3>1 DEF WillStand
  <2> QED BY <2>4, <2>5
<1>3. ASSUME NEW l \in LaneRef, NEW d \in Descriptor, ReplaceGeneration(l, d)
      PROVE  WillStand(k)
  BY <1>0, <1>3 DEF ReplaceGeneration, TypeOK, WillStand
<1>4. ASSUME NEW l \in LaneRef, NEW e \in Event, AdmitEvent(l, e)
      PROVE  WillStand(k)
  <2>1. /\ lastEvent' = [lastEvent EXCEPT ![l] = e]
        /\ UNCHANGED descriptor
        /\ descriptor[l] # NoDescriptor
        /\ descriptor[l].generation = e.laneGeneration
        /\ e.observedAt >= descriptor[l].observedAt
    BY <1>4 DEF AdmitEvent, IsCurrent, Lanes
  <2> QED BY <1>0, <2>1 DEF TypeOK, WillStand
<1>5. ASSUME UNCHANGED <<descriptor, lastEvent>>
      PROVE  WillStand(k)
  BY <1>0, <1>5 DEF WillStand
<1>6. ASSUME NEW p \in Response, AcceptResponse(p)
      PROVE  WillStand(k)
  <2>1. /\ p.laneRef \in Lanes /\ descriptor[p.laneRef] \in Descriptor
        /\ lastEvent[p.laneRef] \in Event \union {NoEvent}
        /\ p.observedAt \in Time
    BY <1>6 DEF AcceptResponse, IsAnswer, IsCurrent, Lanes, TypeOK, Response
  <2> DEFINE d == DescriptorFromResponse(descriptor[p.laneRef], p)
             kept == KeepEvent(lastEvent[p.laneRef], p.observedAt)
  <2>2. /\ d \in Descriptor
        /\ d.generation = descriptor[p.laneRef].generation
        /\ d.observedAt = p.observedAt
    BY <2>1, ResponseDescriptor
  <2>3. kept # NoEvent => /\ kept = lastEvent[p.laneRef]
                          /\ kept.observedAt >= p.observedAt
    BY <2>1, KeptEvent
  <2> HIDE DEF d, kept
  <2>4. \/ /\ descriptor' = [descriptor EXCEPT ![p.laneRef] = d]
           /\ lastEvent' = [lastEvent EXCEPT ![p.laneRef] = kept]
        \/ UNCHANGED <<descriptor, lastEvent>>
    BY <1>6 DEF AcceptResponse, d, kept
  <2>5. CASE UNCHANGED <<descriptor, lastEvent>>
    BY <1>5, <2>5
  <2>6. CASE /\ descriptor' = [descriptor EXCEPT ![p.laneRef] = d]
             /\ lastEvent' = [lastEvent EXCEPT ![p.laneRef] = kept]
    <3>1. CASE k = p.laneRef
      <4>1. descriptor'[k] = d /\ lastEvent'[k] = kept /\ d # NoDescriptor
        BY <2>2, <2>6, <3>1 DEF TypeOK
      <4> QED BY <1>0, <2>2, <2>3, <3>1, <4>1 DEF WillStand
    <3>2. CASE k # p.laneRef
      <4>1. descriptor'[k] = descriptor[k] /\ lastEvent'[k] = lastEvent[k]
        BY <2>6, <3>2 DEF TypeOK
      <4> QED BY <1>0, <4>1 DEF WillStand
    <3> QED BY <3>1, <3>2
  <2> QED BY <2>4, <2>5, <2>6
<1>7. ASSUME NEW l \in LaneRef, ReleaseLane(l)
      PROVE  WillStand(k)
  BY <1>0, <1>7 DEF ReleaseLane, TypeOK, WillStand
<1>8. CASE Clear
  BY <1>8 DEF Clear, WillStand
<1> HIDE DEF Stands
<1> QED
  BY <1>1, <1>2, <1>3, <1>4, <1>5, <1>6, <1>7, <1>8
     DEF Next, UpsertDescriptor, BeginRequest, RefusePayload, CancelRequest,
         eventVars, vars

\* At the start no event is kept.
LEMMA InitEvents == Init => EventNotSuperseded
  BY DEF Init, EventNotSuperseded

\* The event beside a descriptor is of its generation and not older than it.
THEOREM Events == Spec => []EventNotSuperseded
  BY InitType, NextType, InitEvents, NextEvents, PTL DEF Spec

-----------------------------------------------------------------------------
(* The limits                                                              *)

\* A finite set of at most n members: what Cardinality needs to be counted on.
AtMost(S, n) == IsFiniteSet(S) /\ Cardinality(S) <= n

\* A step takes S to T: members leave, or one comes in below the limit n.
GrowsBelow(S, T, n) ==
    \/ T \subseteq S
    \/ Cardinality(S) < n /\ \E x : T \subseteq S \union {x}

\* A set that grows by one, and only below its limit, stays within it.
LEMMA GrowthAtMost ==
    ASSUME NEW S, NEW T, NEW n \in Nat, AtMost(S, n), GrowsBelow(S, T, n)
    PROVE  AtMost(T, n)
<1>1. Cardinality(S) \in Nat /\ IsFiniteSet(S)
  BY FS_CardinalityType DEF AtMost
<1>2. CASE T \subseteq S
  <2>1. IsFiniteSet(T) /\ Cardinality(T) <= Cardinality(S)
    BY <1>1, <1>2, FS_Subset
  <2>2. Cardinality(T) \in Nat
    BY <2>1, FS_CardinalityType
  <2> QED BY <1>1, <2>1, <2>2 DEF AtMost
<1>3. CASE Cardinality(S) < n /\ \E x : T \subseteq S \union {x}
  <2>1. PICK x : T \subseteq S \union {x}
    BY <1>3
  <2>2. /\ IsFiniteSet(S \union {x})
        /\ Cardinality(S \union {x}) \in {Cardinality(S), Cardinality(S) + 1}
    BY <1>1, FS_AddElement
  <2>3. IsFiniteSet(T) /\ Cardinality(T) <= Cardinality(S \union {x})
    BY <2>1, <2>2, FS_Subset
  <2>4. Cardinality(T) \in Nat
    BY <2>3, FS_CardinalityType
  <2> QED BY <1>1, <1>3, <2>2, <2>3, <2>4 DEF AtMost
<1> QED BY <1>2, <1>3 DEF GrowsBelow

\* The three limits on sets; RingsFit has the limit on the rings.
Few ==
    /\ AtMost(Lanes, maxLanes)
    /\ AtMost(Pending, maxPendingRequests)
    /\ \A l \in LaneRef : AtMost(pendingIds[l], maxPendingRequestsPerLane)

\* At the start there are no lanes and no requests.
LEMMA InitFew == Init => Few
<1> SUFFICES ASSUME Init PROVE Few
  OBVIOUS
<1>1. Lanes = {} /\ Pending = {} /\ \A l \in LaneRef : pendingIds[l] = {}
  BY DEF Init, Lanes, Pending
<1>2. \A n \in Nat : AtMost({}, n)
  BY FS_EmptySet DEF AtMost
<1> QED BY <1>1, <1>2, LimitAssumption DEF Few

\* Only a new lane makes the set of lanes grow.
LEMMA LanesGrow ==
    ASSUME TypeOK, [Next]_vars
    PROVE  GrowsBelow(Lanes, Lanes', maxLanes)
<1>1. ASSUME NEW l \in LaneRef, NEW d \in Descriptor, InsertLane(l, d)
      PROVE  GrowsBelow(Lanes, Lanes', maxLanes)
  <2>1. Lanes' \subseteq Lanes \union {l}
    BY <1>1 DEF InsertLane, Lanes, TypeOK
  <2> QED BY <1>1, <2>1 DEF InsertLane, GrowsBelow
<1>2. ASSUME NEW l \in LaneRef, NEW d \in Descriptor,
             AdvanceDescriptor(l, d) \/ ReplaceGeneration(l, d)
      PROVE  Lanes' \subseteq Lanes
  BY <1>2 DEF AdvanceDescriptor, ReplaceGeneration, IsCurrent, Lanes, TypeOK
<1>3. ASSUME NEW p \in Response, AcceptResponse(p)
      PROVE  Lanes' \subseteq Lanes
  <2> DEFINE d == DescriptorFromResponse(descriptor[p.laneRef], p)
  <2>1. p.laneRef \in Lanes
    BY <1>3 DEF AcceptResponse, IsAnswer, IsCurrent
  <2>2. \/ descriptor' = [descriptor EXCEPT ![p.laneRef] = d]
        \/ descriptor' = descriptor
    BY <1>3 DEF AcceptResponse
  <2> HIDE DEF d
  <2> QED BY <2>1, <2>2 DEF Lanes, TypeOK
<1>4. ASSUME NEW l \in LaneRef, ReleaseLane(l)
      PROVE  Lanes' \subseteq Lanes
  BY <1>4 DEF ReleaseLane, Lanes, TypeOK
<1>5. CASE Clear
  BY <1>5 DEF Clear, Lanes, GrowsBelow
<1>6. CASE UNCHANGED descriptor
  BY <1>6 DEF Lanes, GrowsBelow
<1> QED
  BY <1>1, <1>2, <1>3, <1>4, <1>5, <1>6
     DEF Next, UpsertDescriptor, AdmitEvent, BeginRequest, RefusePayload,
         CancelRequest, vars, GrowsBelow

\* Only beginRequest makes the map of pending requests and a lane's own set
\* grow, each below its limit.
LEMMA RequestsGrow ==
    ASSUME TypeOK, [Next]_vars
    PROVE  /\ GrowsBelow(Pending, Pending', maxPendingRequests)
           /\ \A k \in LaneRef : GrowsBelow(pendingIds[k], pendingIds'[k],
                                            maxPendingRequestsPerLane)
<1> DEFINE Fewer == /\ Pending' \subseteq Pending
                    /\ \A k \in LaneRef : pendingIds'[k] \subseteq pendingIds[k]
           Grown == /\ GrowsBelow(Pending, Pending', maxPendingRequests)
                    /\ \A k \in LaneRef :
                            GrowsBelow(pendingIds[k], pendingIds'[k],
                                       maxPendingRequestsPerLane)
<1>1. ASSUME NEW r \in RequestId, NEW q \in Request, BeginRequest(r, q)
      PROVE  Grown
  <2>1. GrowsBelow(Pending, Pending', maxPendingRequests)
    <3>1. /\ Pending' \subseteq Pending \union {r}
          /\ Cardinality(Pending) < maxPendingRequests
      BY <1>1 DEF BeginRequest, Pending, TypeOK
    <3> QED BY <3>1 DEF GrowsBelow
  <2>2. ASSUME NEW k \in LaneRef
        PROVE  GrowsBelow(pendingIds[k], pendingIds'[k],
                          maxPendingRequestsPerLane)
    <3>1. CASE k = q.laneRef
      <4>1. /\ pendingIds'[k] \subseteq pendingIds[k] \union {r}
            /\ Cardinality(pendingIds[k]) < maxPendingRequestsPerLane
        BY <1>1, <3>1 DEF BeginRequest, TypeOK
      <4> QED BY <4>1 DEF GrowsBelow
    <3>2. CASE k # q.laneRef
      <4>1. pendingIds'[k] = pendingIds[k]
        BY <1>1, <3>2 DEF BeginRequest, TypeOK
      <4> QED BY <4>1 DEF GrowsBelow
    <3> QED BY <3>1, <3>2
  <2> QED BY <2>1, <2>2
<1>2. ASSUME NEW r \in RequestId, NEW l \in LaneRef, ConsumePending(r, l)
      PROVE  Fewer
  BY <1>2 DEF ConsumePending, Pending, TypeOK
<1>3. ASSUME NEW l \in LaneRef, pending' = ClearPending(l),
             pendingIds' = [pendingIds EXCEPT ![l] = {}]
      PROVE  Fewer
  BY <1>3 DEF ClearPending, Pending, TypeOK
<1>4. ASSUME Clear PROVE Fewer
  BY <1>4 DEF Clear, Pending
<1>5. ASSUME UNCHANGED <<pendingIds, pending>> PROVE Fewer
  BY <1>5 DEF Pending
<1>6. ASSUME NEW p \in Response, RefusePayload(p) \/ AcceptResponse(p)
      PROVE  Fewer
  <2>1. ConsumePending(p.requestId, p.laneRef)
    BY <1>6 DEF RefusePayload, AcceptResponse
  <2>2. p.requestId \in RequestId /\ p.laneRef \in LaneRef
    BY DEF Response
  <2> QED BY <1>2, <2>1, <2>2
<1>7. ASSUME NEW r \in RequestId, CancelRequest(r)
      PROVE  Fewer
  <2>1. pending[r].laneRef \in LaneRef
    BY <1>7 DEF CancelRequest, Pending, TypeOK, Request
  <2> QED BY <1>2, <1>7, <2>1 DEF CancelRequest
<1>8. Fewer => Grown
  BY DEF GrowsBelow
<1> HIDE DEF Fewer, Grown
<1>9. Grown
  BY <1>1, <1>3, <1>4, <1>5, <1>6, <1>7, <1>8
     DEF Next, UpsertDescriptor, InsertLane, AdvanceDescriptor,
         ReplaceGeneration, AdmitEvent, ReleaseLane, vars
<1> QED BY <1>9 DEF Grown

\* Every method that adds a lane or a request adds one, below the limit.
LEMMA NextFew == TypeOK /\ Few /\ [Next]_vars => Few'
<1> SUFFICES ASSUME TypeOK, Few, [Next]_vars PROVE Few'
  OBVIOUS
<1>1. AtMost(Lanes', maxLanes)
  BY LanesGrow, GrowthAtMost, LimitAssumption DEF Few
<1>2. AtMost(Pending', maxPendingRequests)
  BY RequestsGrow, GrowthAtMost, LimitAssumption DEF Few
<1>3. ASSUME NEW k \in LaneRef
      PROVE  AtMost(pendingIds'[k], maxPendingRequestsPerLane)
  BY RequestsGrow, GrowthAtMost, LimitAssumption DEF Few
<1> QED BY <1>1, <1>2, <1>3 DEF Few

\* Finite sets below their limits, and fitting rings, are the limits.
LEMMA FewWithinLimits == Few /\ RingsFit => WithinLimits
  BY DEF Few, AtMost, RingsFit, RingFits, WithinLimits

\* The runtime's four limits hold together in every reachable state.
THEOREM Limits == Spec => []WithinLimits
  BY InitType, NextType, InitFew, NextFew, InitRings, NextRings,
     FewWithinLimits, PTL DEF Spec

(***************************************************************************)
(* The interaction ledger                                                  *)
(***************************************************************************)

USE LeaseInputAssumption, LeaseLimitAssumption, LeaseAbsenceAssumption

\* What the steps preserve together: a lease that survives a call is of the
\* generation the call brings only because it was current before.
LedgerInv == LedgerTypeOK /\ LeaseIsCurrent

-----------------------------------------------------------------------------
(* Lemmas                                                                  *)

\* A generation that is remembered, or not yet, is a number.
LEMMA GenerationsCount ==
    ASSUME LedgerInv
    PROVE  \A k \in LeasedLane : generations[k] \in Nat
<1> SUFFICES ASSUME NEW k \in LeasedLane PROVE generations[k] \in Nat
  OBVIOUS
<1>1. generations[k] \in LeasedGeneration \union {0}
  BY DEF LedgerInv, LedgerTypeOK
<1>2. CASE generations[k] \in LeasedGeneration
  BY <1>2
<1>3. CASE generations[k] = 0
  BY <1>3
<1> QED BY <1>1, <1>2, <1>3

\* A lease that survives a call is the one that was there, still runs, and is
\* of the generation that the call leaves its lane with.
LEMMA Survivor ==
    ASSUME LedgerInv, NEW l \in LeasedLane, NEW g \in LeasedGeneration,
           NEW now \in LeaseTime, Accepts(l, g), NEW k \in LeasedLane,
           Surviving(l, g, now)[k] # NoLease
    PROVE  /\ Surviving(l, g, now)[k] = leases[k]
           /\ leases[k] \in Lease
           /\ now < leases[k].expiresAtMs
           /\ leases[k].issuedAtMs < leases[k].expiresAtMs
           /\ leases[k].laneGeneration = IF k = l THEN g ELSE generations[k]
           /\ leases[k].laneGeneration = generations[k]
<1>1. leases[k] \in Lease \union {NoLease} /\ generations[k] \in Nat
  BY GenerationsCount DEF LedgerInv, LedgerTypeOK
<1>2. /\ Surviving(l, g, now)[k] = leases[k]
      /\ ~(leases[k] # NoLease /\ leases[k].expiresAtMs <= now)
      /\ ~(k = l /\ generations[l] < g)
  BY DEF Surviving
<1>3. leases[k] # NoLease /\ leases[k] \in Lease
  BY <1>1, <1>2
<1>4. leases[k].expiresAtMs \in Nat /\ now \in Nat
  BY <1>3 DEF Lease, LeaseTime
<1>5. now < leases[k].expiresAtMs
  BY <1>2, <1>3, <1>4
<1>6. /\ leases[k].laneGeneration = generations[k]
      /\ leases[k].issuedAtMs < leases[k].expiresAtMs
  BY <1>3 DEF LedgerInv, LeaseIsCurrent
<1>7. k = l => generations[k] = g
  <2>1. g \in Nat
    OBVIOUS
  <2>2. k = l => generations[k] <= g /\ ~(generations[k] < g)
    BY <1>2 DEF Accepts
  <2> QED BY <1>1, <2>1, <2>2
<1> QED BY <1>2, <1>3, <1>5, <1>6, <1>7

\* What is pruned leaves leases or none.
LEMMA SurvivingType ==
    ASSUME LedgerInv, NEW l, NEW g, NEW now
    PROVE  Surviving(l, g, now) \in [LeasedLane -> Lease \union {NoLease}]
  BY DEF Surviving, LedgerInv, LedgerTypeOK

\* A pruned lease had run out, or its lane has a newer generation now.
LEMMA Pruned ==
    ASSUME LedgerInv, NEW l, NEW g, NEW now, NEW k \in LeasedLane,
           Surviving(l, g, now)[k] # leases[k]
    PROVE  /\ Surviving(l, g, now)[k] = NoLease
           /\ leases[k].expiresAtMs <= now \/ (k = l /\ generations[l] < g)
  BY DEF Surviving, LedgerInv, LedgerTypeOK

\* The lease x that a call may leave lane l with.
Due(x, g) ==
    /\ x \in Lease \union {NoLease}
    /\ x # NoLease => x.laneGeneration = g /\ x.issuedAtMs < x.expiresAtMs

\* A new or renewed lease is due.
LEMMA NewLeaseDue ==
    ASSUME NEW g \in LeasedGeneration, NEW ref \in LeaseRef, NEW owner \in Owner,
           NEW ttl \in Ttl, NEW now \in LeaseTime, NEW issued \in LeaseTime,
           issued <= now, now + ttl <= MaxSafeInteger
    PROVE  /\ NewLease(g, ref, owner, issued, now, ttl) \in Lease
           /\ Due(NewLease(g, ref, owner, issued, now, ttl), g)
<1>1. now \in Nat /\ ttl \in Nat /\ ttl > 0 /\ issued \in Nat
  BY DEF LeaseTime, Ttl
<1>2. now + ttl \in LeaseTime
  BY <1>1 DEF LeaseTime
<1>3. NewLease(g, ref, owner, issued, now, ttl) \in Lease
  BY <1>2 DEF NewLease, Lease
<1> QED BY <1>1, <1>3 DEF Due, NewLease

\* A surviving lease is due.
LEMMA SurvivorDue ==
    ASSUME LedgerInv, NEW l \in LeasedLane, NEW g \in LeasedGeneration,
           NEW now \in LeaseTime, Accepts(l, g)
    PROVE  Due(Surviving(l, g, now)[l], g)
<1>1. CASE Surviving(l, g, now)[l] = NoLease
  BY <1>1 DEF Due
<1>2. CASE Surviving(l, g, now)[l] # NoLease
  BY <1>2, Survivor DEF Due
<1> QED BY <1>1, <1>2

\* A call on lane l: what survives stays, lane l is left with lease x.
Leaves(l, g, now, x) ==
    leases' = [Surviving(l, g, now) EXCEPT ![l] = x]

\* Such a call keeps every lease current.
LEMMA LaneCall ==
    ASSUME LedgerInv, NEW l \in LeasedLane, NEW g \in LeasedGeneration,
           NEW now \in LeaseTime, Accepts(l, g), NEW x, Due(x, g),
           Leaves(l, g, now, x), Remember(l, g)
    PROVE  /\ leases' \in [LeasedLane -> Lease \union {NoLease}]
           /\ generations' \in [LeasedLane -> LeasedGeneration \union {0}]
           /\ LeaseIsCurrent'
<1>1. leases' \in [LeasedLane -> Lease \union {NoLease}]
  BY SurvivingType DEF Leaves, Due
<1>2. generations' \in [LeasedLane -> LeasedGeneration \union {0}]
  BY DEF Remember, LedgerInv, LedgerTypeOK
<1>3. ASSUME NEW k \in LeasedLane, leases'[k] # NoLease
      PROVE  /\ leases'[k].laneGeneration = generations'[k]
             /\ leases'[k].issuedAtMs < leases'[k].expiresAtMs
  <2>1. CASE k = l
    <3>1. leases'[k] = x
      BY <2>1, SurvivingType DEF Leaves
    <3>2. generations'[k] = g
      BY <2>1 DEF Remember, LedgerInv, LedgerTypeOK
    <3> QED BY <1>3, <3>1, <3>2 DEF Due
  <2>2. CASE k # l
    <3>1. leases'[k] = Surviving(l, g, now)[k]
      BY <2>2, SurvivingType DEF Leaves
    <3>2. generations'[k] = generations[k]
      BY <2>2 DEF Remember, LedgerInv, LedgerTypeOK
    <3> QED BY <1>3, <2>2, <3>1, <3>2, Survivor
  <2> QED BY <2>1, <2>2
<1> QED BY <1>1, <1>2, <1>3 DEF LeaseIsCurrent

-----------------------------------------------------------------------------
(* Every call is one of four                                               *)

\* What a call on lane l leaves the lane with, and why.
Kept(l, g, now, x) == x = Surviving(l, g, now)[l]
Granted(l, g, now, x, ref, owner, ttl) ==
    /\ x = NewLease(g, ref, owner, now, now, ttl)
    /\ IF Surviving(l, g, now)[l] = NoLease THEN HasCapacity(Surviving(l, g, now))
       ELSE MayReplace(Surviving(l, g, now)[l], owner)
Renewed(l, g, now, x, ref, owner, ttl) ==
    /\ IsRenewal(Surviving(l, g, now)[l], ref, owner)
    /\ Surviving(l, g, now)[l].issuedAtMs <= now
    /\ x = NewLease(g, ref, owner, Surviving(l, g, now)[l].issuedAtMs, now, ttl)
Taken(l, g, now, x) ==
    /\ x = NoLease
    /\ Surviving(l, g, now)[l] # NoLease
    /\ \/ Surviving(l, g, now)[l].owner = "agent"
       \/ /\ call'.op = "revoke"
          /\ call'.leaseRef = Surviving(l, g, now)[l].leaseRef

Outcome(l, g, now, x) ==
    \/ Kept(l, g, now, x)
    \/ Taken(l, g, now, x)
    \/ \E ref \in LeaseRef, owner \in Owner, ttl \in Ttl :
          /\ now + ttl <= MaxSafeInteger
          /\ call'.op = "acquire" /\ call'.leaseRef = ref
          /\ \/ Granted(l, g, now, x, ref, owner, ttl)
             \/ Renewed(l, g, now, x, ref, owner, ttl)

Operations == {"none", "acquire", "humanActivity", "inspect", "revoke", "reset"}
CallType == [op : Operations, leaseRef : LeaseRef \union {NoRef}, now : LeaseTime]

\* A call that reaches the ledger with generation g of lane l.
OnLane(l, g, now) ==
    /\ Accepts(l, g)
    /\ \E x : Leaves(l, g, now, x) /\ Outcome(l, g, now, x)
    /\ Remember(l, g)
    /\ call' \in CallType /\ call'.now = now

\* A call that finds the ledger full for an unseen lane.
OnFullLedger(l, g, now) ==
    /\ Accepts(l, g)
    /\ generations[l] = 0
    /\ leases' = Surviving(l, g, now)
    /\ UNCHANGED generations
    /\ call' \in CallType /\ call'.now = now

\* A function updated with what it holds is itself.
LEMMA Unchanging ==
    ASSUME LedgerInv, NEW l \in LeasedLane, NEW g, NEW now
    PROVE  Surviving(l, g, now)
             = [Surviving(l, g, now) EXCEPT ![l] = Surviving(l, g, now)[l]]
  BY SurvivingType

\* acquire either meets a full ledger, or visits its own lane.
LEMMA AcquireIsCall ==
    ASSUME LedgerInv, NEW l \in LeasedLane, NEW g \in LeasedGeneration,
           NEW now \in LeaseTime, NEW ref \in LeaseRef, NEW owner \in Owner,
           NEW ttl \in Ttl, Acquire(l, g, ref, owner, ttl, now)
    PROVE  OnFullLedger(l, g, now) \/ OnLane(l, g, now)
<1> DEFINE live == Surviving(l, g, now)
<1>1. Call("acquire", ref, now) \in CallType /\ Call("acquire", ref, now).now = now
      /\ Call("acquire", ref, now).op = "acquire"
      /\ Call("acquire", ref, now).leaseRef = ref
  BY DEF Call, CallType, Operations
<1>2. now + ttl <= MaxSafeInteger
  BY DEF Acquire
<1>3. CASE AcquireOnFullLedger(l, g, ref, now)
  BY <1>1, <1>3 DEF AcquireOnFullLedger, OnFullLedger
<1>4. CASE AcquireGrant(l, g, ref, owner, ttl, now)
  <2> DEFINE x == NewLease(g, ref, owner, now, now, ttl)
  <2>1. Leaves(l, g, now, x)
    BY <1>4 DEF AcquireGrant, Leaves
  <2>2. Granted(l, g, now, x, ref, owner, ttl)
    BY <1>4 DEF AcquireGrant, Granted
  <2>3. call' = Call("acquire", ref, now) /\ Accepts(l, g) /\ Remember(l, g)
    BY <1>4 DEF AcquireGrant, Reaches
  <2>4. Outcome(l, g, now, x)
    BY <1>1, <1>2, <2>2, <2>3 DEF Outcome
  <2> QED BY <1>1, <2>1, <2>3, <2>4 DEF OnLane
<1>5. CASE AcquireRenew(l, g, ref, owner, ttl, now)
  <2> DEFINE x == NewLease(g, ref, owner, live[l].issuedAtMs, now, ttl)
  <2>1. Leaves(l, g, now, x)
    BY <1>5, SurvivingType DEF AcquireRenew, Leaves
  <2>2. Renewed(l, g, now, x, ref, owner, ttl)
    BY <1>5 DEF AcquireRenew, Renewed
  <2>3. call' = Call("acquire", ref, now) /\ Accepts(l, g) /\ Remember(l, g)
    BY <1>5 DEF AcquireRenew, Reaches
  <2>4. Outcome(l, g, now, x)
    BY <1>1, <1>2, <2>2, <2>3 DEF Outcome
  <2> QED BY <1>1, <2>1, <2>3, <2>4 DEF OnLane
<1>6. CASE AcquireRefused(l, g, ref, owner, now)
  <2>1. Leaves(l, g, now, live[l])
    BY <1>6, Unchanging DEF AcquireRefused, Leaves
  <2>2. call' = Call("acquire", ref, now) /\ Accepts(l, g) /\ Remember(l, g)
    BY <1>6 DEF AcquireRefused, Reaches
  <2>3. Outcome(l, g, now, live[l])
    BY DEF Outcome, Kept
  <2> QED BY <1>1, <2>1, <2>2, <2>3 DEF OnLane
<1> QED BY <1>3, <1>4, <1>5, <1>6 DEF Acquire

\* The other methods that name a lane visit it.
LEMMA VisitIsCall ==
    ASSUME LedgerInv, NEW l \in LeasedLane, NEW g \in LeasedGeneration,
           NEW now \in LeaseTime,
           \/ HumanActivity(l, g, now)
           \/ Inspect(l, g, now)
           \/ \E ref \in LeaseRef : Revoke(l, g, ref, now)
    PROVE  OnLane(l, g, now)
<1> DEFINE live == Surviving(l, g, now)
<1>1. ASSUME NEW op \in Operations, NEW ref \in LeaseRef \union {NoRef},
             Visit(l, g, op, ref, now)
      PROVE  /\ Accepts(l, g) /\ Remember(l, g)
             /\ call' \in CallType /\ call'.now = now
             /\ call'.op = op /\ call'.leaseRef = ref
  BY <1>1 DEF Visit, Call, CallType
<1>2. ASSUME leases' = live, Accepts(l, g), Remember(l, g), call' \in CallType,
             call'.now = now
      PROVE  OnLane(l, g, now)
  <2>1. Leaves(l, g, now, live[l])
    BY <1>2, Unchanging DEF Leaves
  <2>2. Outcome(l, g, now, live[l])
    BY DEF Outcome, Kept
  <2> QED BY <1>2, <2>1, <2>2 DEF OnLane
<1>3. ASSUME leases' = [live EXCEPT ![l] = NoLease], Taken(l, g, now, NoLease),
             Accepts(l, g), Remember(l, g), call' \in CallType, call'.now = now
      PROVE  OnLane(l, g, now)
  <2>1. Leaves(l, g, now, NoLease)
    BY <1>3 DEF Leaves
  <2>2. Outcome(l, g, now, NoLease)
    BY <1>3 DEF Outcome
  <2> QED BY <1>3, <2>1, <2>2 DEF OnLane
<1>4. CASE HumanActivity(l, g, now)
  <2>1. Visit(l, g, "humanActivity", NoRef, now)
    BY <1>4 DEF HumanActivity
  <2>2. CASE live[l] # NoLease /\ live[l].owner = "agent"
    <3>1. leases' = [live EXCEPT ![l] = NoLease]
      BY <1>4, <2>2 DEF HumanActivity
    <3>2. Taken(l, g, now, NoLease)
      BY <2>2 DEF Taken
    <3> QED BY <1>1, <1>3, <2>1, <3>1, <3>2 DEF Operations
  <2>3. CASE ~(live[l] # NoLease /\ live[l].owner = "agent")
    <3>1. leases' = live
      BY <1>4, <2>3 DEF HumanActivity
    <3> QED BY <1>1, <1>2, <2>1, <3>1 DEF Operations
  <2> QED BY <2>2, <2>3
<1>5. CASE Inspect(l, g, now)
  BY <1>1, <1>2, <1>5 DEF Inspect, Operations
<1>6. ASSUME NEW ref \in LeaseRef, Revoke(l, g, ref, now)
      PROVE  OnLane(l, g, now)
  <2>1. Visit(l, g, "revoke", ref, now)
    BY <1>6 DEF Revoke
  <2>2. CASE live[l] # NoLease /\ live[l].leaseRef = ref
    <3>1. leases' = [live EXCEPT ![l] = NoLease]
      BY <1>6, <2>2 DEF Revoke
    <3>2. call'.op = "revoke" /\ call'.leaseRef = ref
      BY <1>1, <2>1 DEF Operations
    <3>3. Taken(l, g, now, NoLease)
      BY <2>2, <3>2 DEF Taken
    <3> QED BY <1>1, <1>3, <2>1, <3>1, <3>3 DEF Operations
  <2>3. CASE ~(live[l] # NoLease /\ live[l].leaseRef = ref)
    <3>1. leases' = live
      BY <1>6, <2>3 DEF Revoke
    <3> QED BY <1>1, <1>2, <2>1, <3>1 DEF Operations
  <2> QED BY <2>2, <2>3
<1> QED BY <1>4, <1>5, <1>6

\* Every step is a call on a lane, a call on a full ledger, or a reset.
LEMMA Steps ==
    ASSUME LedgerInv, LedgerNext
    PROVE  \/ ResetSession
           \/ \E l \in LeasedLane, g \in LeasedGeneration, now \in LeaseTime :
                OnFullLedger(l, g, now) \/ OnLane(l, g, now)
  BY AcquireIsCall, VisitIsCall DEF LedgerNext

\* What a call leaves a lane with is due.
LEMMA OutcomeDue ==
    ASSUME LedgerInv, NEW l \in LeasedLane, NEW g \in LeasedGeneration,
           NEW now \in LeaseTime, Accepts(l, g), NEW x, Outcome(l, g, now, x)
    PROVE  Due(x, g)
<1>1. CASE Kept(l, g, now, x)
  BY <1>1, SurvivorDue DEF Kept
<1>2. CASE Taken(l, g, now, x)
  BY <1>2 DEF Taken, Due
<1>3. ASSUME NEW ref \in LeaseRef, NEW owner \in Owner, NEW ttl \in Ttl,
             now + ttl <= MaxSafeInteger,
             \/ Granted(l, g, now, x, ref, owner, ttl)
             \/ Renewed(l, g, now, x, ref, owner, ttl)
      PROVE  Due(x, g)
  <2>1. CASE Granted(l, g, now, x, ref, owner, ttl)
    <3>1. now <= now
      BY DEF LeaseTime
    <3> QED BY <1>3, <2>1, <3>1, NewLeaseDue DEF Granted
  <2>2. CASE Renewed(l, g, now, x, ref, owner, ttl)
    <3> DEFINE issued == Surviving(l, g, now)[l].issuedAtMs
    <3>1. issued \in LeaseTime
      BY <2>2, Survivor DEF Renewed, IsRenewal, Lease
    <3>2. issued <= now /\ x = NewLease(g, ref, owner, issued, now, ttl)
      BY <2>2 DEF Renewed
    <3> HIDE DEF issued
    <3> QED BY <1>3, <3>1, <3>2, NewLeaseDue
  <2> QED BY <1>3, <2>1, <2>2
<1> QED BY <1>1, <1>2, <1>3 DEF Outcome

-----------------------------------------------------------------------------
(* The invariant                                                           *)

\* At the start no lane is tracked and nothing is leased.
LEMMA InitLedger == LedgerInit => LedgerInv
<1> SUFFICES ASSUME LedgerInit PROVE LedgerInv
  OBVIOUS
<1>1. 0 \in LeaseTime
  BY DEF LeaseTime
<1> QED BY <1>1 DEF LedgerInit, LedgerInv, LedgerTypeOK, LeaseIsCurrent, Call

\* Every method keeps leases current and of tracked lanes.
LEMMA NextLedger == LedgerInv /\ [LedgerNext]_ledgerVars => LedgerInv'
<1> SUFFICES ASSUME LedgerInv, [LedgerNext]_ledgerVars PROVE LedgerInv'
  OBVIOUS
<1>1. CASE ResetSession
  <2>1. 0 \in LeaseTime
    BY DEF LeaseTime
  <2> QED BY <1>1, <2>1
          DEF ResetSession, LedgerInv, LedgerTypeOK, LeaseIsCurrent, Call
<1>2. ASSUME NEW l \in LeasedLane, NEW g \in LeasedGeneration,
             NEW now \in LeaseTime, OnFullLedger(l, g, now)
      PROVE  LedgerInv'
  <2>1. leases' \in [LeasedLane -> Lease \union {NoLease}]
    BY <1>2, SurvivingType DEF OnFullLedger
  <2>2. ASSUME NEW k \in LeasedLane, leases'[k] # NoLease
        PROVE  /\ leases'[k].laneGeneration = generations'[k]
               /\ leases'[k].issuedAtMs < leases'[k].expiresAtMs
    <3>1. Accepts(l, g) /\ leases'[k] = Surviving(l, g, now)[k]
          /\ generations' = generations
      BY <1>2 DEF OnFullLedger
    <3> QED BY <2>2, <3>1, Survivor
  <2>3. call' \in CallType /\ generations' = generations
    BY <1>2 DEF OnFullLedger
  <2> QED BY <2>1, <2>2, <2>3
          DEF LedgerInv, LedgerTypeOK, LeaseIsCurrent, CallType, Operations
<1>3. ASSUME NEW l \in LeasedLane, NEW g \in LeasedGeneration,
             NEW now \in LeaseTime, OnLane(l, g, now)
      PROVE  LedgerInv'
  <2>1. PICK x : Leaves(l, g, now, x) /\ Outcome(l, g, now, x)
    BY <1>3 DEF OnLane
  <2>2. Accepts(l, g) /\ Remember(l, g) /\ call' \in CallType
    BY <1>3 DEF OnLane
  <2>3. Due(x, g)
    BY <2>1, <2>2, OutcomeDue
  <2>4. /\ leases' \in [LeasedLane -> Lease \union {NoLease}]
        /\ generations' \in [LeasedLane -> LeasedGeneration \union {0}]
        /\ LeaseIsCurrent'
    BY <2>1, <2>2, <2>3, LaneCall
  <2> QED BY <2>2, <2>4 DEF LedgerInv, LedgerTypeOK, CallType, Operations
<1>4. CASE UNCHANGED ledgerVars
  BY <1>4 DEF ledgerVars, LedgerInv, LedgerTypeOK, LeaseIsCurrent
<1> QED BY <1>1, <1>2, <1>3, <1>4, Steps

\* In every behaviour, types hold and leases are current.
LEMMA LedgerInvariance == LedgerSpec => []LedgerInv
  BY InitLedger, NextLedger, PTL DEF LedgerSpec

\* The state of the ledger and its record of the last call keep their types.
THEOREM LedgerTypeCorrect == LedgerSpec => []LedgerTypeOK
<1>1. LedgerInv => LedgerTypeOK
  BY DEF LedgerInv
<1> QED BY <1>1, LedgerInvariance, PTL

\* No path keeps a lease across a generation the ledger accepted.
THEOREM Current == LedgerSpec => []LeaseIsCurrent
<1>1. LedgerInv => LeaseIsCurrent
  BY DEF LedgerInv
<1> QED BY <1>1, LedgerInvariance, PTL

-----------------------------------------------------------------------------
(* Generations and owners                                                  *)

\* Between resets a lane once seen stays remembered and never goes back.
THEOREM Fence == LedgerSpec => GenerationFence
<1>1. LedgerInv /\ [LedgerNext]_ledgerVars
      => [\/ generations' = [l \in LeasedLane |-> 0]
          \/ \A l \in LeasedLane : generations'[l] >= generations[l]]_ledgerVars
  <2> SUFFICES ASSUME LedgerInv, LedgerNext,
                      generations' # [l \in LeasedLane |-> 0]
               PROVE  \A k \in LeasedLane : generations'[k] >= generations[k]
    OBVIOUS
  <2>1. \A k \in LeasedLane : generations[k] \in Nat
    BY GenerationsCount
  <2>2. ASSUME NEW l \in LeasedLane, NEW g \in LeasedGeneration,
               NEW now \in LeaseTime, OnFullLedger(l, g, now) \/ OnLane(l, g, now)
        PROVE  \A k \in LeasedLane : generations'[k] >= generations[k]
    <3>1. generations[l] <= g /\ g \in Nat
      BY <2>2 DEF OnFullLedger, OnLane, Accepts
    <3>2. generations' = generations \/ generations' = [generations EXCEPT ![l] = g]
      BY <2>2 DEF OnFullLedger, OnLane, Remember
    <3> QED BY <2>1, <3>1, <3>2 DEF LedgerInv, LedgerTypeOK
  <2>3. ~ResetSession
    BY DEF ResetSession
  <2> QED BY <2>2, <2>3, Steps
<1> QED BY <1>1, LedgerInvariance, PTL DEF LedgerSpec, GenerationFence

\* The lease of lane k passed on: the old one had run out, or went by its own
\* reference, or was an agent's and went to nobody or to a human.
PassedOn(k) ==
    \/ leases[k].expiresAtMs <= call'.now
    \/ /\ call'.op \in {"revoke", "acquire"}
       /\ call'.leaseRef = leases[k].leaseRef
       /\ leases'[k] # NoLease =>
             /\ leases'[k].leaseRef = leases[k].leaseRef
             /\ leases'[k].owner = leases[k].owner
             /\ leases'[k].issuedAtMs = leases[k].issuedAtMs
    \/ /\ leases[k].owner = "agent"
       /\ leases'[k] # NoLease => leases'[k].owner = "human"

\* A lease that goes away in its generation does so for one of the four reasons.
LEMMA Passing ==
    ASSUME LedgerInv, LedgerNext, NEW k \in LeasedLane, leases[k] # NoLease,
           leases'[k] # leases[k], generations'[k] = generations[k]
    PROVE  PassedOn(k)
<1>1. ~ResetSession
  <2>1. leases[k].laneGeneration = generations[k]
    BY DEF LedgerInv, LeaseIsCurrent
  <2>2. leases[k].laneGeneration \in LeasedGeneration
    BY DEF LedgerInv, LedgerTypeOK, Lease
  <2> QED BY <2>1, <2>2 DEF ResetSession
<1>2. ASSUME NEW l \in LeasedLane, NEW g \in LeasedGeneration,
             NEW now \in LeaseTime, OnFullLedger(l, g, now)
      PROVE  PassedOn(k)
  <2>1. leases'[k] = Surviving(l, g, now)[k] /\ call'.now = now
        /\ generations[l] = 0
    BY <1>2 DEF OnFullLedger
  <2>2. k # l
    <3>1. leases[k].laneGeneration = generations[k]
      BY DEF LedgerInv, LeaseIsCurrent
    <3>2. leases[k].laneGeneration \in LeasedGeneration
      BY DEF LedgerInv, LedgerTypeOK, Lease
    <3> QED BY <2>1, <3>1, <3>2
  <2> QED BY <2>1, <2>2, Pruned DEF PassedOn
<1>3. ASSUME NEW l \in LeasedLane, NEW g \in LeasedGeneration,
             NEW now \in LeaseTime, OnLane(l, g, now), k # l
      PROVE  PassedOn(k)
  <2>1. leases'[k] = Surviving(l, g, now)[k] /\ call'.now = now
    BY <1>3, SurvivingType DEF OnLane, Leaves
  <2> QED BY <1>3, <2>1, Pruned DEF PassedOn
<1>4. ASSUME NEW g \in LeasedGeneration, NEW now \in LeaseTime,
             OnLane(k, g, now)
      PROVE  PassedOn(k)
  <2>1. PICK x : Leaves(k, g, now, x) /\ Outcome(k, g, now, x)
    BY <1>4 DEF OnLane
  <2>2. leases'[k] = x /\ call'.now = now
    BY <1>4, <2>1, SurvivingType DEF OnLane, Leaves
  <2>3. generations[k] = g
    BY <1>4 DEF OnLane, Remember, LedgerInv, LedgerTypeOK
  <2>4. CASE Surviving(k, g, now)[k] # leases[k]
    <3>0. g \in Nat
      BY LeaseInputAssumption
    <3>1. ~(generations[k] < g)
      BY <2>3, <3>0
    <3>2. leases[k].expiresAtMs <= now
      BY <2>4, <3>1, Pruned
    <3> QED BY <2>2, <3>2 DEF PassedOn
  <2>5. CASE Surviving(k, g, now)[k] = leases[k]
    <3>1. ~Kept(k, g, now, x)
      BY <2>2, <2>5 DEF Kept
    <3>2. CASE Taken(k, g, now, x)
      BY <2>2, <2>5, <3>2 DEF Taken, PassedOn
    <3>3. ASSUME NEW ref \in LeaseRef, NEW owner \in Owner, NEW ttl \in Ttl,
                 Granted(k, g, now, x, ref, owner, ttl)
          PROVE  PassedOn(k)
      <4>1. MayReplace(leases[k], owner)
        BY <2>5, <3>3 DEF Granted
      <4>2. x.owner = owner
        BY <3>3 DEF Granted, NewLease
      <4> QED BY <2>2, <4>1, <4>2 DEF MayReplace, PassedOn
    <3>4. ASSUME NEW ref \in LeaseRef, NEW owner \in Owner, NEW ttl \in Ttl,
                 call'.op = "acquire", call'.leaseRef = ref,
                 Renewed(k, g, now, x, ref, owner, ttl)
          PROVE  PassedOn(k)
      <4>1. leases[k].owner = owner /\ leases[k].leaseRef = ref
        BY <2>5, <3>4 DEF Renewed, IsRenewal
      <4>2. /\ x.leaseRef = ref /\ x.owner = owner
            /\ x.issuedAtMs = leases[k].issuedAtMs
        BY <2>5, <3>4 DEF Renewed, NewLease
      <4> QED BY <2>2, <3>4, <4>1, <4>2 DEF PassedOn
    <3> QED BY <2>1, <3>1, <3>2, <3>3, <3>4 DEF Outcome
  <2> QED BY <2>4, <2>5
<1> QED BY <1>1, <1>2, <1>3, <1>4, Steps

\* Whatever clocks the callers bring, a lease passes on only by expiry, by its
\* own reference, with its generation or session, or from agent to human.
THEOREM Orderly == LedgerSpec => LeasesPassOrderly
<1>1. LedgerInv /\ [LedgerNext]_ledgerVars =>
        [\A l \in LeasedLane :
            (/\ leases[l] # NoLease
             /\ leases[l].owner = "human"
             /\ leases'[l] # leases[l]
             /\ generations'[l] = generations[l])
            => \/ leases[l].expiresAtMs <= call'.now
               \/ /\ call'.op \in {"revoke", "acquire"}
                  /\ call'.leaseRef = leases[l].leaseRef]_ledgerVars
  BY Passing DEF PassedOn
<1>2. LedgerInv /\ [LedgerNext]_ledgerVars =>
        [\A l \in LeasedLane :
            LET old == leases[l]
                new == leases'[l]
            IN (/\ old # NoLease /\ new # NoLease
                /\ generations'[l] = generations[l]
                /\ old.expiresAtMs > call'.now
                /\ new # old)
               => \/ /\ old.leaseRef = new.leaseRef /\ old.owner = new.owner
                     /\ old.issuedAtMs = new.issuedAtMs
                  \/ old.owner = "agent" /\ new.owner = "human"]_ledgerVars
  <2> SUFFICES ASSUME LedgerInv, LedgerNext, NEW l \in LeasedLane,
                      leases[l] # NoLease, leases'[l] # NoLease,
                      generations'[l] = generations[l],
                      leases[l].expiresAtMs > call'.now, leases'[l] # leases[l]
               PROVE  \/ /\ leases[l].leaseRef = leases'[l].leaseRef
                         /\ leases[l].owner = leases'[l].owner
                         /\ leases[l].issuedAtMs = leases'[l].issuedAtMs
                      \/ leases[l].owner = "agent" /\ leases'[l].owner = "human"
    OBVIOUS
  <2>1. PassedOn(l)
    BY Passing
  <2>2. leases[l].expiresAtMs \in Nat /\ call'.now \in Nat
    <3>1. LedgerInv'
      BY NextLedger
    <3> QED BY <3>1 DEF LedgerInv, LedgerTypeOK, Lease, LeaseTime
  <2> QED BY <2>1, <2>2 DEF PassedOn
<1> QED BY <1>1, <1>2, LedgerInvariance, PTL
        DEF LedgerSpec, LeasesPassOrderly, HumanLeaseHeld, Handover

-----------------------------------------------------------------------------
(* The limits                                                              *)

\* A part of a set of at most n members has at most n.
LEMMA SubsetAtMost ==
    ASSUME NEW S, NEW T, NEW n \in Nat, AtMost(T, n), S \subseteq T
    PROVE  AtMost(S, n)
<1>1. IsFiniteSet(S) /\ Cardinality(S) <= Cardinality(T)
  BY FS_Subset DEF AtMost
<1>2. Cardinality(S) \in Nat /\ Cardinality(T) \in Nat
  BY <1>1, FS_CardinalityType DEF AtMost
<1> QED BY <1>1, <1>2 DEF AtMost

\* Below the limit there is room for one element more.
LEMMA OneMoreAtMost ==
    ASSUME NEW S, NEW T, NEW x, NEW n \in Nat, IsFiniteSet(T),
           Cardinality(T) < n, S \subseteq T \union {x}
    PROVE  AtMost(S, n)
<1>1. IsFiniteSet(T \union {x}) /\ Cardinality(T) \in Nat
      /\ \/ Cardinality(T \union {x}) = Cardinality(T)
         \/ Cardinality(T \union {x}) = Cardinality(T) + 1
  BY FS_AddElement, FS_CardinalityType
<1>2. AtMost(T \union {x}, n)
  BY <1>1 DEF AtMost
<1> QED BY <1>2, SubsetAtMost

LedgerFew ==
    /\ AtMost(Held(leases), maxActiveLeases)
    /\ AtMost(Tracked, maxTrackedLanes)

\* At the start the ledger is empty.
LEMMA InitLedgerFew == LedgerInit => LedgerFew
<1> SUFFICES ASSUME LedgerInit PROVE LedgerFew
  OBVIOUS
<1>1. Held(leases) = {} /\ Tracked = {}
  BY DEF LedgerInit, Held, Tracked
<1>2. IsFiniteSet({}) /\ Cardinality({}) = 0
  BY FS_EmptySet
<1> QED BY <1>1, <1>2 DEF LedgerFew, AtMost

\* A call counts the leases that are left after pruning.
LEMMA HeldAfterCall ==
    ASSUME LedgerInv, AtMost(Held(leases), maxActiveLeases),
           NEW l \in LeasedLane, NEW g \in LeasedGeneration,
           NEW now \in LeaseTime, OnFullLedger(l, g, now) \/ OnLane(l, g, now)
    PROVE  AtMost(Held(leases'), maxActiveLeases)
<1> DEFINE live == Surviving(l, g, now)
<1>1. Held(live) \subseteq Held(leases)
  BY Pruned DEF Held
<1>2. AtMost(Held(live), maxActiveLeases)
  BY <1>1, SubsetAtMost
<1>3. CASE OnFullLedger(l, g, now)
  BY <1>2, <1>3 DEF OnFullLedger
<1>4. CASE OnLane(l, g, now)
  <2>1. PICK x : Leaves(l, g, now, x) /\ Outcome(l, g, now, x)
    BY <1>4 DEF OnLane
  <2>2. Held(leases') \subseteq Held(live) \union {l}
    BY <2>1, SurvivingType DEF Leaves, Held
  <2>3. CASE live[l] # NoLease \/ x = NoLease
    <3>1. Held(leases') \subseteq Held(live)
      BY <2>1, <2>3, SurvivingType DEF Leaves, Held
    <3> QED BY <1>2, <3>1, SubsetAtMost
  <2>4. CASE live[l] = NoLease /\ x # NoLease
    <3>1. HasCapacity(live)
      BY <2>1, <2>4 DEF Outcome, Kept, Taken, Granted, Renewed, IsRenewal
    <3>2. Cardinality(Held(live)) < maxActiveLeases /\ IsFiniteSet(Held(live))
      BY <1>2, <3>1 DEF HasCapacity, AtMost
    <3> HIDE DEF live
    <3> QED BY <2>2, <3>2, OneMoreAtMost
  <2> QED BY <2>3, <2>4
<1> QED BY <1>3, <1>4

\* A call tracks one lane more at most, and only below the limit.
LEMMA TrackedAfterCall ==
    ASSUME LedgerInv, AtMost(Tracked, maxTrackedLanes),
           NEW l \in LeasedLane, NEW g \in LeasedGeneration,
           NEW now \in LeaseTime, OnFullLedger(l, g, now) \/ OnLane(l, g, now)
    PROVE  AtMost(Tracked', maxTrackedLanes)
<1>1. Accepts(l, g)
  BY DEF OnFullLedger, OnLane
<1>2. generations' = generations \/ generations' = [generations EXCEPT ![l] = g]
  BY DEF OnFullLedger, OnLane, Remember
<1>3. Tracked' \subseteq Tracked \union {l}
  BY <1>2 DEF Tracked, LedgerInv, LedgerTypeOK
<1>4. CASE generations[l] # 0
  <2>1. Tracked' \subseteq Tracked
    BY <1>3, <1>4 DEF Tracked
  <2> QED BY <2>1, SubsetAtMost
<1>5. CASE generations[l] = 0
  <2>1. Cardinality(Tracked) < maxTrackedLanes /\ IsFiniteSet(Tracked)
    BY <1>1, <1>5 DEF Accepts, AtMost
  <2> QED BY <1>3, <2>1, OneMoreAtMost
<1> QED BY <1>4, <1>5

\* Every method keeps tracked lanes and leases within the limits.
LEMMA NextLedgerFew ==
    LedgerInv /\ LedgerFew /\ [LedgerNext]_ledgerVars => LedgerFew'
<1> SUFFICES ASSUME LedgerInv, LedgerFew, [LedgerNext]_ledgerVars
             PROVE  LedgerFew'
  OBVIOUS
<1>1. CASE ResetSession
  <2>1. Held(leases') = {} /\ Tracked' = {}
    BY <1>1 DEF ResetSession, Held, Tracked
  <2>2. IsFiniteSet({}) /\ Cardinality({}) = 0
    BY FS_EmptySet
  <2> QED BY <2>1, <2>2 DEF LedgerFew, AtMost
<1>2. ASSUME NEW l \in LeasedLane, NEW g \in LeasedGeneration,
             NEW now \in LeaseTime, OnFullLedger(l, g, now) \/ OnLane(l, g, now)
      PROVE  LedgerFew'
  BY <1>2, HeldAfterCall, TrackedAfterCall DEF LedgerFew
<1>3. CASE UNCHANGED ledgerVars
  BY <1>3 DEF ledgerVars, LedgerFew, Held, Tracked
<1> QED BY <1>1, <1>2, <1>3, Steps

\* Both limits hold, though they are tested apart and pruning runs between.
THEOREM LedgerLimits == LedgerSpec => []LedgerWithinLimits
<1>1. LedgerFew => LedgerWithinLimits
  BY DEF LedgerFew, AtMost, LedgerWithinLimits
<1> QED BY <1>1, InitLedger, NextLedger, InitLedgerFew, NextLedgerFew, PTL
        DEF LedgerSpec

=============================================================================
