---------------------- MODULE CompanionWebController_proofs ----------------------
(* Proofs about CompanionWebController, for every value of its constants.   *)
EXTENDS CompanionWebController, TLAPS

USE BoundAssumption, NothingAssumption

\* The lane whose replies become a part of the client.
FilledBy(p) == IF p = "page" THEN "timeline" ELSE p

\* What is held is older than the request that may replace it.
ClientOlder ==
    \A p \in ClientPart : client[p] # Nothing =>
        /\ client[p].by <= requestOrdinal
        /\ owned[FilledBy(p)] # 0 => client[p].by < owned[FilledBy(p)]

\* A close or a revoke took every lane, so what is owned now is younger than
\* the last that succeeded, and no older than the one under way.
OwnersYounger ==
    /\ revokedBy <= requestOrdinal
    /\ \A c \in Conversation : closedBy[c] <= requestOrdinal
    /\ \A l \in Lane : owned[l] # 0 =>
            /\ owned[l] > revokedBy
            /\ \A c \in Conversation : owned[l] > closedBy[c]
            /\ owned["lifecycle"] <= owned[l]

\* The inductive invariant.
Books == TypeOK /\ PendingAgreement
WebInv == Books /\ RenderWithinClient /\ ClientOlder /\ OwnersYounger
                /\ ReleasedStaysGone

-----------------------------------------------------------------------------
(* Lemmas about the data                                                    *)

\* A request belongs to a lane, and is something.
LEMMA RequestLane ==
    ASSUME NEW q \in Request
    PROVE  /\ LaneOf(q) \in Lane /\ q # Nothing
           /\ q.conversation \in Conversation \union {Nothing}
           /\ q.op \in {"list", "revoke", "open", "search", "code", "navigate",
                        "close"}
           /\ q.op \in {"open", "search", "code", "navigate", "close"} =>
                 q.conversation \in Conversation
           /\ LaneOf(q) \in LanesTaken(q) /\ LanesTaken(q) \subseteq Lane
<1>1. /\ q.op \in {"list", "revoke", "open", "search", "code", "navigate", "close"}
      /\ q.conversation \in Conversation \union {Nothing}
      /\ q.op \in {"open", "search", "code", "navigate", "close"} =>
            q.conversation \in Conversation
      /\ q # Nothing
  BY DEF Request
<1>2. LaneOf(q) \in Lane
  BY <1>1 DEF LaneOf, Lane
<1>3. LaneOf(q) \in LanesTaken(q) /\ LanesTaken(q) \subseteq Lane
  BY <1>2 DEF LanesTaken
<1> QED BY <1>1, <1>2, <1>3

\* Ordinals and what is owned are numbers.
LEMMA NumbersAreNumbers ==
    ASSUME TypeOK
    PROVE  /\ requestOrdinal \in Nat /\ revokedBy \in Nat
           /\ \A l \in Lane : owned[l] \in Nat
           /\ \A c \in Conversation : closedBy[c] \in Nat
           /\ \A p \in ClientPart : client[p] # Nothing =>
                 client[p] \in Content /\ client[p].by \in Nat
           /\ \A p \in RenderPart : render[p] # Nothing =>
                 render[p] \in Content /\ render[p].by \in Nat
           /\ \A r \in Ordinal : r \in Nat /\ r # 0
<1>1. requestOrdinal \in Nat /\ revokedBy \in Nat
  BY DEF TypeOK
<1>2. \A l \in Lane : owned[l] \in Nat
  BY DEF TypeOK
<1>3. \A c \in Conversation : closedBy[c] \in Nat
  BY DEF TypeOK
<1>4. \A r \in Ordinal : r \in Nat /\ r # 0
  BY DEF Ordinal
<1>5. \A x \in Content : x.by \in Nat
  BY <1>4 DEF Content
<1>6. \A p \in ClientPart : client[p] # Nothing => client[p] \in Content
  BY DEF TypeOK
<1>7. \A p \in RenderPart : render[p] # Nothing => render[p] \in Content
  BY DEF TypeOK
<1> QED BY <1>1, <1>2, <1>3, <1>4, <1>5, <1>6, <1>7

\* No two lanes own one request: its kind decides where it belongs.
LEMMA OneLaneEach ==
    ASSUME PendingAgreement, NEW l \in Lane, NEW m \in Lane,
           owned[l] = owned[m], owned[l] # 0
    PROVE  l = m
BY DEF PendingAgreement

\* Emptying lanes removes what they own from both books.
LEMMA TakenTogether ==
    ASSUME Books, NEW lanes, lanes \subseteq Lane
    PROVE  /\ OwnedWithout(lanes) \in [Lane -> 0..ordinalMax]
           /\ PendingWithout(lanes) \subseteq Ordinal
           /\ PendingWithout(lanes)
                 \subseteq {OwnedWithout(lanes)[l] : l \in Lane} \ {0}
           /\ revokedBy = 0 =>
                 PendingWithout(lanes) = {OwnedWithout(lanes)[l] : l \in Lane} \ {0}
<1>1. /\ OwnedWithout(lanes) \in [Lane -> 0..ordinalMax]
      /\ \A l \in Lane : OwnedWithout(lanes)[l] = IF l \in lanes THEN 0 ELSE owned[l]
      /\ PendingWithout(lanes) \subseteq Ordinal
  BY DEF Books, TypeOK, OwnedWithout, PendingWithout
<1>2. PendingWithout(lanes) \subseteq {OwnedWithout(lanes)[l] : l \in Lane} \ {0}
  <2> SUFFICES ASSUME NEW r \in PendingWithout(lanes)
               PROVE  \E l \in Lane : OwnedWithout(lanes)[l] = r /\ r # 0
    OBVIOUS
  <2>1. r \in Owners /\ \A l \in lanes : owned[l] # r
    BY DEF PendingWithout, Books, PendingAgreement
  <2> QED BY <1>1, <2>1 DEF Owners
<1>3. ASSUME revokedBy = 0
      PROVE  {OwnedWithout(lanes)[l] : l \in Lane} \ {0} \subseteq PendingWithout(lanes)
  <2> SUFFICES ASSUME NEW l \in Lane, OwnedWithout(lanes)[l] # 0
               PROVE  OwnedWithout(lanes)[l] \in PendingWithout(lanes)
    OBVIOUS
  <2>1. l \notin lanes /\ owned[l] # 0 /\ OwnedWithout(lanes)[l] = owned[l]
    BY <1>1
  <2>2. owned[l] \in clientPending
    BY <1>3, <2>1 DEF Books, PendingAgreement, Owners
  <2>3. \A m \in lanes : owned[m] # owned[l]
    BY <2>1, OneLaneEach DEF Books
  <2> QED BY <2>1, <2>2, <2>3 DEF PendingWithout
<1> QED BY <1>1, <1>2, <1>3

\* What is mounted after a reply comes from the snapshot, but for a navigation
\* record, which stays only beside its page or comes with the reply.
LEMMA RenderShape ==
    ASSUME TypeOK, RenderWithinClient, NEW q \in Request, NEW r \in Ordinal,
           NEW usable \in BOOLEAN, NEW dropped \in Trim,
           NEW snapshot \in [ClientPart -> Content \union {Nothing}],
           q.op = "navigate" /\ usable => snapshot = client,
           render' \in RenderAfter(q, r, usable, snapshot, dropped)
    PROVE  /\ render' \in [RenderPart -> Content \union {Nothing}]
           /\ \A p \in ClientPart : render'[p] \in {Nothing, snapshot[p]}
           /\ q.op = "revoke" => \A p \in RenderPart : render'[p] = Nothing
           /\ render'["navigation"] # Nothing =>
                 \/ /\ q.op = "navigate"
                    /\ render'["navigation"] =
                          [conversation |-> q.conversation, by |-> r]
                 \/ /\ render'["navigation"] = render["navigation"]
                    /\ q.op # "navigate" =>
                          /\ snapshot["page"] # Nothing
                          /\ render["navigation"].conversation =
                                snapshot["page"].conversation
<1>0. /\ render \in [RenderPart -> Content \union {Nothing}]
      /\ \A p \in ClientPart : p \in RenderPart /\ p # "navigation"
      /\ "navigation" \in RenderPart /\ "page" \in ClientPart
      /\ \A p \in RenderPart : p # "navigation" => p \in ClientPart
  BY DEF TypeOK, RenderPart, ClientPart
<1>1. /\ RenderFrom(snapshot, dropped) \in [RenderPart -> Content \union {Nothing}]
      /\ \A p \in ClientPart :
            RenderFrom(snapshot, dropped)[p] \in {Nothing, snapshot[p]}
      /\ RenderFrom(snapshot, dropped)["navigation"] # Nothing =>
            /\ RenderFrom(snapshot, dropped)["navigation"] = render["navigation"]
            /\ snapshot["page"] # Nothing
            /\ render["navigation"].conversation = snapshot["page"].conversation
  <2>1. \A p \in RenderPart : RenderFrom(snapshot, dropped)[p] =
           IF p \in dropped THEN Nothing
           ELSE IF p = "navigation"
                THEN IF snapshot["page"] # Nothing
                        /\ Shows(render["navigation"], snapshot["page"].conversation)
                     THEN render["navigation"] ELSE Nothing
                ELSE snapshot[p]
    BY DEF RenderFrom, KeptNavigation
  <2>2. \A p \in RenderPart :
           RenderFrom(snapshot, dropped)[p] \in Content \union {Nothing}
    BY <1>0, <2>1
  <2>3. RenderFrom(snapshot, dropped) = [p \in RenderPart |->
                                            RenderFrom(snapshot, dropped)[p]]
    BY DEF RenderFrom
  <2>4. RenderFrom(snapshot, dropped) \in [RenderPart -> Content \union {Nothing}]
    BY <2>2, <2>3
  <2>5. \A p \in ClientPart :
           RenderFrom(snapshot, dropped)[p] \in {Nothing, snapshot[p]}
    BY <1>0, <2>1
  <2>6. RenderFrom(snapshot, dropped)["navigation"] # Nothing =>
            /\ RenderFrom(snapshot, dropped)["navigation"] = render["navigation"]
            /\ snapshot["page"] # Nothing
            /\ render["navigation"].conversation = snapshot["page"].conversation
    BY <1>0, <2>1 DEF Shows
  <2> QED BY <2>4, <2>5, <2>6
<1>2. CASE q.op = "revoke"
  <2>1. render' = [p \in RenderPart |-> Nothing]
    BY <1>2 DEF RenderAfter
  <2> QED BY <1>0, <1>2, <2>1
<1>3. CASE q.op = "navigate" /\ usable
  <2> DEFINE record == [conversation |-> q.conversation, by |-> r]
  <2>1. record \in Content
    BY RequestLane DEF Content
  <2>2. render' \in {render, [render EXCEPT !.navigation = record]}
    BY <1>3 DEF RenderAfter
  <2> HIDE DEF record
  <2>3. /\ render' \in [RenderPart -> Content \union {Nothing}]
        /\ \A p \in ClientPart : render'[p] = render[p]
        /\ render'["navigation"] \in {render["navigation"], record}
    BY <1>0, <2>1, <2>2
  <2>4. \A p \in ClientPart : render[p] \in {Nothing, snapshot[p]}
    BY <1>3 DEF RenderWithinClient
  <2> QED BY <1>3, <2>3, <2>4 DEF record
<1>4. CASE q.op = "navigate" /\ ~usable
  <2>1. render' = [RenderFrom(snapshot, dropped) EXCEPT !.navigation = Nothing]
    BY <1>4 DEF RenderAfter
  <2>2. /\ render' \in [RenderPart -> Content \union {Nothing}]
        /\ \A p \in ClientPart : render'[p] = RenderFrom(snapshot, dropped)[p]
        /\ render'["navigation"] = Nothing
    BY <1>0, <1>1, <2>1
  <2> QED BY <1>1, <1>4, <2>2
<1>5. CASE q.op # "revoke" /\ q.op # "navigate"
  <2>1. render' = RenderFrom(snapshot, dropped)
    BY <1>5 DEF RenderAfter
  <2> QED BY <1>1, <1>5, <2>1
<1> QED BY <1>2, <1>3, <1>4, <1>5

-----------------------------------------------------------------------------
(* Lemmas about the steps                                                   *)

\* A step that leaves what is held and mounted as it is, sends nothing new and
\* only gives lanes up keeps what is said of ages.
LEMMA GivingUpKeepsAges ==
    ASSUME WebInv, TypeOK', UNCHANGED viewVars, requestOrdinal' >= requestOrdinal,
           \A l \in Lane : owned'[l] \in {0, owned[l]}
    PROVE  RenderWithinClient' /\ ClientOlder' /\ OwnersYounger' /\ ReleasedStaysGone'
<1>1. /\ client' = client /\ render' = render /\ closedBy' = closedBy
      /\ revokedBy' = revokedBy
  BY DEF viewVars
<1>2. RenderWithinClient' /\ ReleasedStaysGone'
  BY <1>1 DEF WebInv, RenderWithinClient, ReleasedStaysGone, CloseFence,
              RevokeFence, Shows
<1>3. TypeOK
  BY DEF WebInv, Books
<1>4. requestOrdinal' \in Nat
  BY DEF TypeOK
<1>5. \A p \in ClientPart : FilledBy(p) \in Lane
  BY DEF ClientPart, FilledBy, Lane
<1>6. ClientOlder'
  <2> SUFFICES ASSUME NEW p \in ClientPart, client[p] # Nothing
               PROVE  /\ client[p].by <= requestOrdinal'
                      /\ owned'[FilledBy(p)] # 0 => client[p].by < owned'[FilledBy(p)]
    BY <1>1 DEF ClientOlder, FilledBy
  <2>1. /\ client[p].by <= requestOrdinal
        /\ owned[FilledBy(p)] # 0 => client[p].by < owned[FilledBy(p)]
        /\ client[p].by \in Nat
    BY <1>3, NumbersAreNumbers DEF WebInv, ClientOlder
  <2> QED BY <1>3, <1>4, <1>5, <2>1, NumbersAreNumbers
<1>7. OwnersYounger'
  <2>1. revokedBy <= requestOrdinal'
    BY <1>3, <1>4, NumbersAreNumbers DEF WebInv, OwnersYounger
  <2>2. \A c \in Conversation : closedBy[c] <= requestOrdinal'
    BY <1>3, <1>4, NumbersAreNumbers DEF WebInv, OwnersYounger
  <2>3. ASSUME NEW l \in Lane, owned'[l] # 0
        PROVE  /\ owned'[l] > revokedBy
               /\ \A c \in Conversation : owned'[l] > closedBy[c]
               /\ owned'["lifecycle"] <= owned'[l]
    <3>1. owned'[l] = owned[l] /\ owned[l] # 0
      BY <2>3
    <3>2. owned'["lifecycle"] \in {0, owned["lifecycle"]}
      BY DEF Lane
    <3> QED BY <1>3, <3>1, <3>2, NumbersAreNumbers DEF WebInv, OwnersYounger
  <2> QED BY <1>1, <2>1, <2>2, <2>3 DEF OwnersYounger
<1> QED BY <1>2, <1>6, <1>7

\* A dispatch owns its lane with a number no request had before.
LEMMA DispatchKeeps ==
    ASSUME WebInv, NEW q \in Request, Dispatch(q)
    PROVE  WebInv'
<1> DEFINE r == requestOrdinal + 1
           lanes == LanesTaken(q)
           lane == LaneOf(q)
<1>1. Books /\ TypeOK /\ PendingAgreement
  BY DEF WebInv, Books
<1>2. /\ lane \in Lane /\ lane \in lanes /\ lanes \subseteq Lane /\ q # Nothing
      /\ r \in Ordinal /\ r \in Nat /\ r # 0
      /\ requestOrdinal' = r /\ requestOrdinal' \in 0..ordinalMax
  BY <1>1, RequestLane DEF TypeOK, Ordinal, Dispatch
<1>3. /\ owned' = [OwnedWithout(lanes) EXCEPT ![lane] = r]
      /\ clientPending' = PendingWithout(lanes) \union {r}
      /\ flight' = [flight EXCEPT ![r] = q]
      /\ client' = client /\ render' = render /\ closing' = closing
      /\ closedBy' = closedBy /\ revokedBy' = revokedBy
  BY DEF Dispatch, viewVars
<1>4. /\ OwnedWithout(lanes) \in [Lane -> 0..ordinalMax]
      /\ PendingWithout(lanes) \subseteq Ordinal
  BY <1>1, <1>2, TakenTogether
<1> HIDE DEF r, lanes, lane
<1>5. /\ owned' \in [Lane -> 0..ordinalMax] /\ owned'[lane] = r
      /\ \A l \in Lane : l # lane => owned'[l] = OwnedWithout(lanes)[l]
      /\ \A l \in Lane : l # lane => owned'[l] \in {0, owned[l]}
  <2>1. r \in 0..ordinalMax
    BY <1>2
  <2>2. \A l \in Lane : OwnedWithout(lanes)[l] \in {0, owned[l]}
    BY DEF OwnedWithout
  <2> QED BY <1>2, <1>3, <1>4, <2>1, <2>2
<1>6. flight' \in [Ordinal -> Request \union {Nothing}]
  BY <1>1, <1>2, <1>3 DEF TypeOK
<1>7. TypeOK'
  BY <1>1, <1>2, <1>3, <1>4, <1>5, <1>6 DEF TypeOK
<1>8. \A l \in Lane : owned[l] # 0 => owned[l] < r /\ owned[l] \in Nat
  BY <1>1, NumbersAreNumbers DEF PendingAgreement, r
<1>9. PendingAgreement'
  <2>1. ASSUME NEW l \in Lane, owned'[l] # 0
        PROVE  owned'[l] \in Flying' /\ LaneOf(flight'[owned'[l]]) = l
               /\ owned'[l] <= requestOrdinal'
    <3>1. CASE l = lane
      <4>1. owned'[l] = r /\ flight'[r] = q
        BY <1>1, <1>2, <1>3, <1>5, <3>1 DEF TypeOK
      <4>2. r \in Flying'
        BY <1>2, <4>1 DEF Flying
      <4> QED BY <1>2, <3>1, <4>1, <4>2 DEF lane
    <3>2. CASE l # lane
      <4>1. owned'[l] = owned[l]
        BY <1>5, <2>1, <3>2
      <4>2. owned[l] \in Flying /\ LaneOf(flight[owned[l]]) = l
            /\ owned[l] # r /\ owned[l] < r
        BY <1>1, <1>8, <2>1, <4>1, <1>2 DEF PendingAgreement
      <4>3. flight'[owned[l]] = flight[owned[l]]
        BY <1>1, <1>3, <4>2 DEF TypeOK, Flying
      <4>4. owned[l] \in Flying'
        BY <4>2, <4>3 DEF Flying
      <4> QED BY <1>2, <1>8, <2>1, <4>1, <4>2, <4>3, <4>4
    <3> QED BY <3>1, <3>2
  <2>2. Owners' = ({OwnedWithout(lanes)[l] : l \in Lane} \ {0}) \union {r}
    <3>1. OwnedWithout(lanes)[lane] = 0
      BY <1>2 DEF OwnedWithout
    <3>2. \A l \in Lane : owned'[l] = IF l = lane THEN r ELSE OwnedWithout(lanes)[l]
      BY <1>5
    <3>3. Owners' = {owned'[l] : l \in Lane} \ {0}
      BY DEF Owners
    <3> QED BY <1>2, <3>1, <3>2, <3>3
  <2>3. /\ PendingWithout(lanes) \subseteq {OwnedWithout(lanes)[l] : l \in Lane} \ {0}
        /\ revokedBy = 0 =>
              PendingWithout(lanes) = {OwnedWithout(lanes)[l] : l \in Lane} \ {0}
    BY <1>1, <1>2, TakenTogether
  <2> QED BY <1>3, <2>1, <2>2, <2>3 DEF PendingAgreement
<1>10. RenderWithinClient' /\ ReleasedStaysGone'
  BY <1>3 DEF WebInv, RenderWithinClient, ReleasedStaysGone, CloseFence,
              RevokeFence, Shows
<1>11. ClientOlder'
  <2> SUFFICES ASSUME NEW p \in ClientPart, client[p] # Nothing
               PROVE  /\ client[p].by <= r
                      /\ owned'[FilledBy(p)] # 0 => client[p].by < owned'[FilledBy(p)]
    BY <1>2, <1>3 DEF ClientOlder, FilledBy
  <2>1. /\ client[p].by <= requestOrdinal /\ client[p].by \in Nat
        /\ owned[FilledBy(p)] # 0 => client[p].by < owned[FilledBy(p)]
        /\ requestOrdinal \in Nat
    BY <1>1, NumbersAreNumbers DEF WebInv, ClientOlder
  <2>2. FilledBy(p) \in Lane
    BY DEF ClientPart, FilledBy, Lane
  <2>3. client[p].by < r
    BY <2>1 DEF r
  <2> QED BY <1>2, <1>5, <2>1, <2>2, <2>3
<1>12. OwnersYounger'
  <2>1. /\ revokedBy <= requestOrdinal /\ requestOrdinal \in Nat /\ revokedBy \in Nat
        /\ \A c \in Conversation : closedBy[c] <= requestOrdinal /\ closedBy[c] \in Nat
    BY <1>1, NumbersAreNumbers DEF WebInv, OwnersYounger
  <2>2. /\ revokedBy < r /\ \A c \in Conversation : closedBy[c] < r
    BY <2>1 DEF r
  <2>3. owned'["lifecycle"] <= r
    BY <1>2, <1>5, <1>8 DEF Lane
  <2>4. ASSUME NEW l \in Lane, owned'[l] # 0
        PROVE  /\ owned'[l] > revokedBy
               /\ \A c \in Conversation : owned'[l] > closedBy[c]
               /\ owned'["lifecycle"] <= owned'[l]
    <3>1. CASE l = lane
      BY <1>2, <1>5, <2>1, <2>2, <2>3, <3>1
    <3>2. CASE l # lane
      <4>1. owned'[l] = owned[l] /\ owned[l] # 0 /\ l \notin lanes
        BY <1>5, <2>4, <3>2 DEF OwnedWithout
      <4>2. lane # "lifecycle"
        BY <4>1 DEF lanes, lane, LanesTaken
      <4>3. owned'["lifecycle"] \in {0, owned["lifecycle"]}
        BY <1>5, <4>2 DEF Lane
      <4> QED BY <1>8, <2>1, <4>1, <4>3 DEF WebInv, OwnersYounger
    <3> QED BY <3>1, <3>2
  <2> QED BY <1>2, <1>3, <2>1, <2>2, <2>4 DEF OwnersYounger
<1> QED BY <1>7, <1>9, <1>10, <1>11, <1>12 DEF WebInv, Books

\* Lanes that are emptied without a new request leave both books at once.
LEMMA CancelKeeps ==
    ASSUME WebInv, NEW lanes, lanes \subseteq Lane,
           owned' = OwnedWithout(lanes), clientPending' = PendingWithout(lanes),
           requestOrdinal' \in {requestOrdinal, requestOrdinal + 1},
           requestOrdinal' <= ordinalMax, UNCHANGED <<flight, viewVars>>
    PROVE  WebInv'
<1>1. Books /\ TypeOK /\ PendingAgreement
  BY DEF WebInv, Books
<1>2. /\ OwnedWithout(lanes) \in [Lane -> 0..ordinalMax]
      /\ PendingWithout(lanes) \subseteq Ordinal
      /\ PendingWithout(lanes) \subseteq {OwnedWithout(lanes)[l] : l \in Lane} \ {0}
      /\ revokedBy = 0 =>
            PendingWithout(lanes) = {OwnedWithout(lanes)[l] : l \in Lane} \ {0}
  BY <1>1, TakenTogether
<1>3. \A l \in Lane : owned'[l] \in {0, owned[l]}
  BY DEF OwnedWithout
<1>4. requestOrdinal' \in 0..ordinalMax /\ requestOrdinal' >= requestOrdinal
  BY <1>1 DEF TypeOK
<1>5. TypeOK'
  BY <1>1, <1>2, <1>4 DEF TypeOK, viewVars
<1>6. PendingAgreement'
  <2>1. ASSUME NEW l \in Lane, owned'[l] # 0
        PROVE  owned'[l] \in Flying' /\ LaneOf(flight'[owned'[l]]) = l
               /\ owned'[l] <= requestOrdinal'
    <3>1. owned'[l] = owned[l]
      BY <1>3, <2>1
    <3>2. owned[l] \in Flying /\ LaneOf(flight[owned[l]]) = l
          /\ owned[l] <= requestOrdinal
      BY <1>1, <2>1, <3>1 DEF PendingAgreement
    <3>3. owned[l] <= requestOrdinal'
      BY <1>1, <1>4, <3>2, NumbersAreNumbers
    <3> QED BY <3>1, <3>2, <3>3 DEF Flying
  <2>2. Owners' = {OwnedWithout(lanes)[l] : l \in Lane} \ {0}
    BY DEF Owners
  <2>3. revokedBy' = revokedBy
    BY DEF viewVars
  <2> QED BY <1>2, <2>1, <2>2, <2>3 DEF PendingAgreement
<1>7. RenderWithinClient' /\ ClientOlder' /\ OwnersYounger' /\ ReleasedStaysGone'
  BY <1>3, <1>4, <1>5, GivingUpKeepsAges
<1> QED BY <1>5, <1>6, <1>7 DEF WebInv, Books

\* A settled request leaves the wire, its lane and the client's book together.
LEMMA SettledTogether ==
    ASSUME Books, NEW r \in Flying,
           flight' = [flight EXCEPT ![r] = Nothing],
           IF IsCurrent(r)
           THEN owned' = [owned EXCEPT ![LaneOf(flight[r])] = 0]
           ELSE owned' = owned,
           UNCHANGED requestOrdinal
    PROVE  /\ flight' \in [Ordinal -> Request \union {Nothing}]
           /\ owned' \in [Lane -> 0..ordinalMax]
           /\ \A l \in Lane : owned'[l] = IF owned[l] = r THEN 0 ELSE owned[l]
           /\ Owners' = Owners \ {r}
           /\ \A l \in Lane : owned'[l] # 0 =>
                 /\ owned'[l] \in Flying' /\ LaneOf(flight'[owned'[l]]) = l
                 /\ owned'[l] <= requestOrdinal'
<1>1. /\ TypeOK /\ PendingAgreement /\ r \in Ordinal /\ flight[r] \in Request
      /\ r # 0 /\ LaneOf(flight[r]) \in Lane
  BY RequestLane DEF Books, TypeOK, Flying, Ordinal
<1>2. flight' \in [Ordinal -> Request \union {Nothing}]
      /\ \A s \in Ordinal : s # r => flight'[s] = flight[s]
  BY <1>1 DEF TypeOK
<1>3. \A l \in Lane : owned[l] = r => l = LaneOf(flight[r])
  BY <1>1 DEF PendingAgreement
<1>4. owned' \in [Lane -> 0..ordinalMax]
      /\ \A l \in Lane : owned'[l] = IF owned[l] = r THEN 0 ELSE owned[l]
  <2>1. CASE IsCurrent(r)
    BY <1>1, <1>3, <2>1 DEF TypeOK, IsCurrent
  <2>2. CASE ~IsCurrent(r)
    <3>1. owned[LaneOf(flight[r])] # r
      BY <2>2 DEF IsCurrent
    <3>2. \A l \in Lane : owned[l] # r
      BY <1>3, <3>1
    <3> QED BY <1>1, <2>2, <3>2 DEF TypeOK
  <2> QED BY <2>1, <2>2
<1>5. Owners' = Owners \ {r}
  BY <1>4 DEF Owners
<1>6. ASSUME NEW l \in Lane, owned'[l] # 0
      PROVE  /\ owned'[l] \in Flying' /\ LaneOf(flight'[owned'[l]]) = l
             /\ owned'[l] <= requestOrdinal'
  <2>1. owned'[l] = owned[l] /\ owned[l] # r /\ owned[l] # 0
    BY <1>4, <1>6
  <2>2. /\ owned[l] \in Flying /\ LaneOf(flight[owned[l]]) = l
        /\ owned[l] <= requestOrdinal
    BY <1>1, <2>1 DEF PendingAgreement
  <2>3. flight'[owned[l]] = flight[owned[l]]
    BY <1>2, <2>1, <2>2 DEF Flying
  <2> QED BY <2>1, <2>2, <2>3 DEF Flying
<1> QED BY <1>2, <1>4, <1>5, <1>6

\* A reply or failure of a request that lost its lane, and a refused reply,
\* change no view.
LEMMA SettleKeeps ==
    ASSUME WebInv, NEW r \in Ordinal, Supersede(r) \/ Reject(r)
    PROVE  WebInv'
<1>1. Books /\ TypeOK /\ PendingAgreement
  BY DEF WebInv, Books
<1>2. /\ r \in Flying
      /\ flight' = [flight EXCEPT ![r] = Nothing]
      /\ IF IsCurrent(r)
         THEN owned' = [owned EXCEPT ![LaneOf(flight[r])] = 0]
         ELSE owned' = owned
      /\ clientPending' = clientPending \ {r}
      /\ UNCHANGED <<requestOrdinal, viewVars>>
  BY DEF Supersede, Reject, IsCurrent
<1>3. /\ flight' \in [Ordinal -> Request \union {Nothing}]
      /\ owned' \in [Lane -> 0..ordinalMax]
      /\ \A l \in Lane : owned'[l] = IF owned[l] = r THEN 0 ELSE owned[l]
      /\ Owners' = Owners \ {r}
      /\ \A l \in Lane : owned'[l] # 0 =>
            /\ owned'[l] \in Flying' /\ LaneOf(flight'[owned'[l]]) = l
            /\ owned'[l] <= requestOrdinal'
  BY <1>1, <1>2, SettledTogether
<1>4. TypeOK'
  BY <1>1, <1>2, <1>3 DEF TypeOK, viewVars
<1>5. PendingAgreement'
  <2>1. revokedBy' = revokedBy
    BY <1>2 DEF viewVars
  <2> QED BY <1>1, <1>2, <1>3, <2>1 DEF PendingAgreement
<1>6. requestOrdinal' >= requestOrdinal
  BY <1>1, <1>2, NumbersAreNumbers
<1>7. RenderWithinClient' /\ ClientOlder' /\ OwnersYounger' /\ ReleasedStaysGone'
  BY <1>2, <1>3, <1>4, <1>6, GivingUpKeepsAges
<1> QED BY <1>4, <1>5, <1>7 DEF WebInv, Books

\* What a usable reply does to a part of the client: it empties the part,
\* leaves it, or fills it if the part is what its lane is for.
LEMMA ClientShape ==
    ASSUME TypeOK, NEW q \in Request, NEW r \in Ordinal
    PROVE  /\ ClientAfter(q, r) \in [ClientPart -> Content \union {Nothing}]
           /\ q.op = "navigate" => ClientAfter(q, r) = client
           /\ \A p \in ClientPart :
                 \/ ClientAfter(q, r)[p] = Nothing
                 \/ /\ ClientAfter(q, r)[p] = client[p]
                    /\ q.op # "revoke"
                    /\ q.op = "close" => client[p].conversation # q.conversation
                 \/ /\ ClientAfter(q, r)[p] =
                          [conversation |-> q.conversation, by |-> r]
                    /\ FilledBy(p) = LaneOf(q)
                    /\ q.op \notin {"close", "revoke"}
<1> DEFINE new == [conversation |-> q.conversation, by |-> r]
<1>1. /\ client \in [ClientPart -> Content \union {Nothing}]
      /\ new \in Content
      /\ q.op \in {"list", "revoke", "open", "search", "code", "navigate", "close"}
  BY RequestLane DEF TypeOK, Content
<1> HIDE DEF new
<1>2. CASE q.op = "open"
  <2>1. ClientAfter(q, r) = [client EXCEPT !.page = new, !.code = Nothing]
    BY <1>2 DEF ClientAfter, new
  <2>2. LaneOf(q) = "timeline" /\ FilledBy("page") = "timeline"
    BY <1>2 DEF LaneOf, FilledBy
  <2>3. ClientAfter(q, r) \in [ClientPart -> Content \union {Nothing}]
    BY <1>1, <2>1
  <2>4. \A p \in ClientPart : ClientAfter(q, r)[p] =
           IF p = "code" THEN Nothing ELSE IF p = "page" THEN new ELSE client[p]
    BY <1>1, <2>1
  <2> QED BY <1>2, <2>2, <2>3, <2>4 DEF new
<1>3. CASE q.op \in {"list", "search", "code"}
  <2>1. ClientAfter(q, r) = [client EXCEPT ![q.op] = new]
    BY <1>3 DEF ClientAfter, new
  <2>2. LaneOf(q) = q.op /\ FilledBy(q.op) = q.op /\ q.op \in ClientPart
    BY <1>3 DEF LaneOf, FilledBy, ClientPart
  <2>3. ClientAfter(q, r) \in [ClientPart -> Content \union {Nothing}]
    BY <1>1, <2>1
  <2>4. \A p \in ClientPart :
           ClientAfter(q, r)[p] = IF p = q.op THEN new ELSE client[p]
    BY <1>1, <2>1
  <2> QED BY <1>3, <2>2, <2>3, <2>4 DEF new
<1>4. CASE q.op = "close"
  <2>1. ClientAfter(q, r) = WithoutConversation(client, q.conversation)
    BY <1>4 DEF ClientAfter
  <2>2. WithoutConversation(client, q.conversation) =
           [p \in ClientPart |-> IF Shows(client[p], q.conversation) THEN Nothing
                                                                  ELSE client[p]]
    BY <1>1 DEF WithoutConversation
  <2>3. ClientAfter(q, r) \in [ClientPart -> Content \union {Nothing}]
    BY <1>1, <2>1, <2>2
  <2>4. \A p \in ClientPart : ClientAfter(q, r)[p] =
           IF Shows(client[p], q.conversation) THEN Nothing ELSE client[p]
    BY <2>1, <2>2
  <2>5. ASSUME NEW p \in ClientPart
        PROVE  \/ ClientAfter(q, r)[p] = Nothing
               \/ /\ ClientAfter(q, r)[p] = client[p]
                  /\ client[p].conversation # q.conversation
    BY <2>4 DEF Shows
  <2> QED BY <1>4, <2>3, <2>5
<1>5. CASE q.op = "revoke"
  <2>1. ClientAfter(q, r) = [p \in ClientPart |-> Nothing]
    BY <1>5 DEF ClientAfter
  <2> QED BY <1>5, <2>1
<1>6. CASE q.op = "navigate"
  <2>1. ClientAfter(q, r) = client
    BY <1>6 DEF ClientAfter
  <2> QED BY <1>1, <1>6, <2>1
<1> QED BY <1>1, <1>2, <1>3, <1>4, <1>5, <1>6

\* The reply that the client accepts.
LEMMA ApplyKeeps ==
    ASSUME WebInv, NEW r \in Ordinal, NEW usable \in BOOLEAN, NEW dropped \in Trim,
           Apply(r, usable, dropped)
    PROVE  WebInv'
<1> DEFINE q == flight[r]
           snapshot == IF usable THEN ClientAfter(q, r) ELSE client
           ended == q.op = "revoke" /\ usable
           closes == q.op = "close" /\ usable
           new == [conversation |-> q.conversation, by |-> r]
<1>1. /\ Books /\ TypeOK /\ PendingAgreement /\ RenderWithinClient /\ ClientOlder
      /\ OwnersYounger /\ CloseFence /\ RevokeFence
  BY DEF WebInv, Books, ReleasedStaysGone
<1>2. /\ r \in Flying /\ IsCurrent(r) /\ owned[LaneOf(q)] = r
      /\ flight' = [flight EXCEPT ![r] = Nothing]
      /\ owned' = [owned EXCEPT ![LaneOf(q)] = 0]
      /\ clientPending' = IF ended THEN {} ELSE clientPending \ {r}
      /\ client' = snapshot
      /\ render' \in RenderAfter(q, r, usable, snapshot, dropped)
      /\ closing' = IF q.op = "close"
                    THEN closing \union {[conversation |-> q.conversation, by |-> r]}
                    ELSE closing
      /\ closedBy' = IF closes THEN [closedBy EXCEPT ![q.conversation] = r]
                     ELSE closedBy
      /\ revokedBy' = IF ended THEN r ELSE revokedBy
      /\ UNCHANGED requestOrdinal
  BY DEF Apply, IsCurrent
<1>3. /\ q \in Request /\ LaneOf(q) \in Lane /\ r \in Nat /\ r # 0
      /\ r \in 0..ordinalMax
      /\ q.conversation \in Conversation \union {Nothing}
      /\ q.op = "close" => q.conversation \in Conversation
  <2>1. q \in Request
    BY <1>1, <1>2 DEF TypeOK, Flying
  <2> QED BY <2>1, RequestLane DEF Ordinal
<1>4. /\ flight' \in [Ordinal -> Request \union {Nothing}]
      /\ owned' \in [Lane -> 0..ordinalMax]
      /\ \A l \in Lane : owned'[l] = IF owned[l] = r THEN 0 ELSE owned[l]
      /\ Owners' = Owners \ {r}
      /\ \A l \in Lane : owned'[l] # 0 =>
            /\ owned'[l] \in Flying' /\ LaneOf(flight'[owned'[l]]) = l
            /\ owned'[l] <= requestOrdinal'
  BY <1>1, <1>2, SettledTogether
<1>5. /\ snapshot \in [ClientPart -> Content \union {Nothing}]
      /\ q.op = "navigate" /\ usable => snapshot = client
      /\ \A p \in ClientPart :
            \/ snapshot[p] = Nothing
            \/ /\ snapshot[p] = client[p] /\ ~ended
               /\ closes => client[p].conversation # q.conversation
            \/ /\ snapshot[p] = new /\ FilledBy(p) = LaneOf(q)
               /\ ~closes /\ ~ended
  <2>1. CASE usable
    BY <1>1, <1>3, <2>1, ClientShape
  <2>2. CASE ~usable
    BY <1>1, <2>2 DEF TypeOK
  <2> QED BY <2>1, <2>2
<1>6. ended => \A p \in ClientPart : snapshot[p] = Nothing
  BY <1>5
<1> HIDE DEF snapshot
<1>7. /\ render' \in [RenderPart -> Content \union {Nothing}]
      /\ \A p \in ClientPart : render'[p] \in {Nothing, snapshot[p]}
      /\ q.op = "revoke" => \A p \in RenderPart : render'[p] = Nothing
      /\ render'["navigation"] # Nothing =>
            \/ q.op = "navigate" /\ render'["navigation"] = new
            \/ /\ render'["navigation"] = render["navigation"]
               /\ q.op # "navigate" =>
                     /\ snapshot["page"] # Nothing
                     /\ render["navigation"].conversation =
                           snapshot["page"].conversation
  BY <1>1, <1>2, <1>3, <1>5, RenderShape
<1>8. TypeOK'
  <2>1. closing' \subseteq Content
    BY <1>1, <1>2, <1>3 DEF TypeOK, Content
  <2>2. closedBy' \in [Conversation -> 0..ordinalMax]
    BY <1>1, <1>2, <1>3 DEF TypeOK
  <2>3. revokedBy' \in 0..ordinalMax /\ requestOrdinal' \in 0..ordinalMax
    BY <1>1, <1>2, <1>3 DEF TypeOK
  <2>4. clientPending' \subseteq Ordinal
    BY <1>1, <1>2 DEF TypeOK
  <2> QED BY <1>2, <1>4, <1>5, <1>7, <2>1, <2>2, <2>3, <2>4 DEF TypeOK
<1>9. PendingAgreement'
  <2>1. clientPending' \subseteq Owners'
    BY <1>1, <1>2, <1>4 DEF PendingAgreement
  <2>2. revokedBy' = 0 => clientPending' = Owners'
    BY <1>1, <1>2, <1>3, <1>4 DEF PendingAgreement
  <2> QED BY <1>4, <2>1, <2>2 DEF PendingAgreement
<1>10. RenderWithinClient'
  BY <1>2, <1>7 DEF RenderWithinClient
<1>11. /\ r <= requestOrdinal /\ revokedBy < r
       /\ \A c \in Conversation : closedBy[c] < r
  BY <1>1, <1>2, <1>3, NumbersAreNumbers DEF PendingAgreement, OwnersYounger
<1>12. new.by = r /\ new.conversation = q.conversation /\ new # Nothing
  BY <1>3 DEF Content
<1> HIDE DEF new
<1>13. ClientOlder'
  <2> SUFFICES ASSUME NEW p \in ClientPart, snapshot[p] # Nothing
               PROVE  /\ snapshot[p].by <= requestOrdinal
                      /\ owned'[FilledBy(p)] # 0 =>
                            snapshot[p].by < owned'[FilledBy(p)]
    BY <1>2 DEF ClientOlder, FilledBy
  <2>1. FilledBy(p) \in Lane
    BY DEF ClientPart, FilledBy, Lane
  <2>2. CASE snapshot[p] = client[p]
    BY <1>1, <1>4, <2>1, <2>2 DEF ClientOlder
  <2>3. CASE snapshot[p] = new /\ FilledBy(p) = LaneOf(q)
    BY <1>2, <1>3, <1>4, <1>11, <1>12, <2>3
  <2> QED BY <1>5, <2>2, <2>3
<1>14. OwnersYounger'
  <2>0. /\ \A l \in Lane : owned[l] \in Nat
        /\ \A c \in Conversation : closedBy[c] \in Nat
        /\ requestOrdinal \in Nat /\ revokedBy \in Nat
    BY <1>1, NumbersAreNumbers
  <2>1. \A c \in Conversation : closedBy'[c] \in {closedBy[c], r}
    BY <1>1, <1>2, <1>3 DEF TypeOK
  <2>2. \A c \in Conversation : ~closes => closedBy'[c] = closedBy[c]
    BY <1>2
  <2>3. revokedBy' <= requestOrdinal'
        /\ \A c \in Conversation : closedBy'[c] <= requestOrdinal'
    BY <1>1, <1>2, <1>11, <2>1 DEF OwnersYounger
  <2>4. ASSUME NEW l \in Lane, owned'[l] # 0
        PROVE  /\ owned'[l] > revokedBy'
               /\ \A c \in Conversation : owned'[l] > closedBy'[c]
               /\ owned'["lifecycle"] <= owned'[l]
    <3>1. owned'[l] = owned[l] /\ owned[l] # r /\ owned[l] # 0
      BY <1>4, <2>4
    <3>2. /\ owned[l] > revokedBy /\ owned["lifecycle"] <= owned[l]
          /\ \A c \in Conversation : owned[l] > closedBy[c]
      BY <1>1, <3>1 DEF OwnersYounger
    <3>3. ended \/ closes => owned["lifecycle"] = r
      BY <1>2 DEF LaneOf
    <3>4. ended \/ closes => owned[l] > r
      BY <1>3, <2>0, <3>1, <3>2, <3>3
    <3>5. owned'[l] > revokedBy'
      BY <1>2, <3>1, <3>2, <3>4
    <3>6. \A c \in Conversation : owned'[l] > closedBy'[c]
      BY <2>1, <2>2, <3>1, <3>2, <3>4
    <3>7. owned'["lifecycle"] \in {0, owned["lifecycle"]}
      BY <1>4 DEF Lane
    <3>8. owned'["lifecycle"] <= owned'[l]
      BY <2>0, <3>1, <3>2, <3>7
    <3> QED BY <3>5, <3>6, <3>8
  <2> QED BY <2>3, <2>4 DEF OwnersYounger
<1>15. CloseFence'
  <2>1. ASSUME NEW c \in Conversation
        PROVE  closedBy'[c] = IF closes /\ c = q.conversation THEN r ELSE closedBy[c]
    BY <1>1, <1>2, <1>3 DEF TypeOK
  <2>2. ASSUME NEW p \in ClientPart, NEW c \in Conversation, Shows(snapshot[p], c)
        PROVE  snapshot[p].by > closedBy'[c]
    <3>1. snapshot[p] # Nothing /\ snapshot[p].conversation = c
      BY <2>2 DEF Shows
    <3>2. CASE /\ snapshot[p] = client[p]
               /\ closes => client[p].conversation # q.conversation
      <4>1. Shows(client[p], c)
        BY <2>2, <3>2
      <4>2. client[p].by > closedBy[c]
        BY <1>1, <4>1 DEF CloseFence
      <4> QED BY <2>1, <3>1, <3>2, <4>2
    <3>3. CASE snapshot[p] = new /\ ~closes
      BY <1>11, <1>12, <2>1, <3>3
    <3> QED BY <1>5, <3>1, <3>2, <3>3
  <2>3. ASSUME NEW p \in RenderPart, NEW c \in Conversation, Shows(render'[p], c)
        PROVE  render'[p].by > closedBy'[c]
    <3>1. render'[p] # Nothing /\ render'[p].conversation = c
      BY <2>3 DEF Shows
    <3>2. CASE p \in ClientPart
      <4>1. render'[p] = snapshot[p]
        BY <1>7, <3>1, <3>2
      <4> QED BY <2>2, <2>3, <3>2, <4>1
    <3>3. CASE p = "navigation"
      <4>1. CASE q.op = "navigate" /\ render'["navigation"] = new
        BY <1>11, <1>12, <2>1, <3>3, <4>1
      <4>2. CASE /\ render'["navigation"] = render["navigation"]
                 /\ q.op # "navigate" =>
                       /\ snapshot["page"] # Nothing
                       /\ render["navigation"].conversation =
                             snapshot["page"].conversation
        <5>1. Shows(render["navigation"], c)
          BY <2>3, <3>3, <4>2
        <5>2. render["navigation"].by > closedBy[c]
          BY <1>1, <5>1 DEF CloseFence, RenderPart
        <5>3. closes => c # q.conversation
          <6> SUFFICES ASSUME closes, c = q.conversation PROVE FALSE
            OBVIOUS
          <6>1. /\ snapshot["page"] # Nothing
                /\ snapshot["page"].conversation = q.conversation
            BY <3>1, <3>3, <4>2
          <6>2. "page" \in ClientPart
            BY DEF ClientPart
          <6> QED BY <1>5, <6>1, <6>2
        <5> QED BY <2>1, <3>3, <4>2, <5>2, <5>3
      <4> QED BY <1>7, <3>1, <3>3, <4>1, <4>2
    <3> QED BY <3>2, <3>3 DEF RenderPart
  <2>4. \A p \in ClientPart, c \in Conversation :
           Shows(client'[p], c) => client'[p].by > closedBy'[c]
    BY <1>2, <2>2
  <2>5. \A p \in RenderPart, c \in Conversation :
           Shows(render'[p], c) => render'[p].by > closedBy'[c]
    BY <2>3
  <2> QED BY <2>4, <2>5 DEF CloseFence, Shows
<1>16. RevokeFence'
  <2>1. ASSUME NEW p \in ClientPart, snapshot[p] # Nothing
        PROVE  snapshot[p].by > revokedBy'
    <3>1. ~ended /\ revokedBy' = revokedBy
      BY <1>2, <1>6, <2>1
    <3>2. CASE snapshot[p] = client[p]
      BY <1>1, <2>1, <3>1, <3>2 DEF RevokeFence
    <3>3. CASE snapshot[p] = new
      BY <1>11, <1>12, <3>1, <3>3
    <3> QED BY <1>5, <2>1, <3>2, <3>3
  <2>2. ASSUME NEW p \in RenderPart, render'[p] # Nothing
        PROVE  render'[p].by > revokedBy'
    <3>1. ~ended /\ revokedBy' = revokedBy
      BY <1>2, <1>7, <2>2
    <3>2. CASE p \in ClientPart
      <4>1. render'[p] = snapshot[p]
        BY <1>7, <2>2, <3>2
      <4> QED BY <2>1, <2>2, <3>2, <4>1
    <3>3. CASE p = "navigation"
      <4>1. render'["navigation"] \in {new, render["navigation"]}
        BY <1>7, <2>2, <3>3
      <4> QED BY <1>1, <1>11, <1>12, <2>2, <3>1, <3>3, <4>1 DEF RevokeFence
    <3> QED BY <3>2, <3>3 DEF RenderPart
  <2>3. \A p \in ClientPart : client'[p] # Nothing => client'[p].by > revokedBy'
    BY <1>2, <2>1
  <2>4. \A p \in RenderPart : render'[p] # Nothing => render'[p].by > revokedBy'
    BY <2>2
  <2> QED BY <2>3, <2>4 DEF RevokeFence
<1> QED BY <1>8, <1>9, <1>10, <1>13, <1>14, <1>15, <1>16
        DEF WebInv, Books, ReleasedStaysGone

\* The close that resumes only unmounts.
LEMMA FinishCloseKeeps ==
    ASSUME WebInv, NEW k \in closing, FinishClose(k)
    PROVE  WebInv'
<1>1. /\ TypeOK /\ PendingAgreement /\ RenderWithinClient /\ CloseFence /\ RevokeFence
      /\ render \in [RenderPart -> Content \union {Nothing}]
  BY DEF WebInv, Books, ReleasedStaysGone, TypeOK
<1>2. /\ closing' \subseteq closing
      /\ render' = WithoutConversation(render, k.conversation)
      /\ UNCHANGED <<requestOrdinal, flight, owned, clientPending, client,
                     closedBy, revokedBy>>
  BY DEF FinishClose
<1>3. render' = [p \in RenderPart |-> IF Shows(render[p], k.conversation)
                                      THEN Nothing ELSE render[p]]
  BY <1>1, <1>2 DEF WithoutConversation
<1>4. /\ render' \in [RenderPart -> Content \union {Nothing}]
      /\ \A p \in RenderPart : render'[p] \in {Nothing, render[p]}
  BY <1>1, <1>3
<1>5. TypeOK'
  BY <1>1, <1>2, <1>4 DEF TypeOK
<1>6. PendingAgreement'
  BY <1>1, <1>2 DEF PendingAgreement, Flying, Owners
<1>7. RenderWithinClient'
  BY <1>1, <1>2, <1>4 DEF RenderWithinClient, RenderPart
<1>8. ClientOlder' /\ OwnersYounger'
  BY <1>2 DEF WebInv, ClientOlder, OwnersYounger
<1>9. CloseFence'
  <2>1. \A p \in RenderPart, c \in Conversation :
           Shows(render'[p], c) => render'[p].by > closedBy[c]
    BY <1>1, <1>4 DEF CloseFence, Shows
  <2> QED BY <1>1, <1>2, <2>1 DEF CloseFence, Shows
<1>10. RevokeFence'
  BY <1>1, <1>2, <1>4 DEF RevokeFence
<1> QED BY <1>5, <1>6, <1>7, <1>8, <1>9, <1>10 DEF WebInv, Books, ReleasedStaysGone

-----------------------------------------------------------------------------
(* Theorems                                                                 *)

\* At the start both books are empty and nothing is mounted.
LEMMA WebInvInit == Init => WebInv
<1> SUFFICES ASSUME Init PROVE WebInv
  OBVIOUS
<1>1. TypeOK
  BY DEF Init, TypeOK
<1>2. Owners = {} /\ clientPending = {} /\ \A l \in Lane : owned[l] = 0
  BY DEF Init, Owners
<1>3. PendingAgreement
  BY <1>2 DEF PendingAgreement
<1>4. /\ \A p \in ClientPart : client[p] = Nothing
      /\ \A p \in RenderPart : render[p] = Nothing
  BY DEF Init
<1>5. RenderWithinClient /\ ReleasedStaysGone
  BY <1>4 DEF RenderWithinClient, ReleasedStaysGone, CloseFence, RevokeFence,
              Shows, ClientPart, RenderPart
<1>6. ClientOlder
  BY <1>4 DEF ClientOlder
<1>7. OwnersYounger
  BY <1>2 DEF Init, OwnersYounger
<1> QED BY <1>1, <1>3, <1>5, <1>6, <1>7 DEF WebInv, Books

\* Every dispatch, settlement and close keeps the invariant.
LEMMA WebInvNext == WebInv /\ [Next]_vars => WebInv'
<1> SUFFICES ASSUME WebInv, [Next]_vars PROVE WebInv'
  OBVIOUS
<1>1. ASSUME NEW q \in Request, Dispatch(q) PROVE WebInv'
  BY <1>1, DispatchKeeps
<1>2. ASSUME NEW q \in Request, DispatchOverLimit(q) PROVE WebInv'
  <2>1. requestOrdinal \in 0..ordinalMax
    BY DEF WebInv, Books, TypeOK
  <2>2. LanesTaken(q) \subseteq Lane
    BY RequestLane
  <2>3. /\ owned' = OwnedWithout(LanesTaken(q))
        /\ clientPending' = PendingWithout(LanesTaken(q))
        /\ requestOrdinal' = requestOrdinal + 1 /\ requestOrdinal < ordinalMax
        /\ UNCHANGED <<flight, viewVars>>
    BY <1>2 DEF DispatchOverLimit
  <2>4. requestOrdinal' <= ordinalMax
    BY <2>1, <2>3
  <2> QED BY <2>2, <2>3, <2>4, CancelKeeps
<1>3. CASE CancelPending
  <2>1. requestOrdinal' = requestOrdinal /\ requestOrdinal' <= ordinalMax
    BY <1>3 DEF CancelPending, WebInv, Books, TypeOK
  <2>2. /\ owned' = OwnedWithout(Lane) /\ clientPending' = PendingWithout(Lane)
        /\ UNCHANGED <<flight, viewVars>>
    BY <1>3 DEF CancelPending
  <2> QED BY <2>1, <2>2, CancelKeeps
<1>4. ASSUME NEW r \in Ordinal, Supersede(r) \/ Reject(r) PROVE WebInv'
  BY <1>4, SettleKeeps
<1>5. ASSUME NEW r \in Ordinal, NEW usable \in BOOLEAN, NEW dropped \in Trim,
             Apply(r, usable, dropped)
      PROVE  WebInv'
  BY <1>5, ApplyKeeps
<1>6. ASSUME NEW k \in closing, FinishClose(k) PROVE WebInv'
  BY <1>6, FinishCloseKeeps
<1>7. CASE UNCHANGED vars
  <2>1. TypeOK'
    BY <1>7 DEF vars, WebInv, Books, TypeOK
  <2>2. PendingAgreement'
    BY <1>7 DEF vars, WebInv, Books, PendingAgreement, Flying, Owners
  <2>3. RenderWithinClient' /\ ClientOlder' /\ OwnersYounger'
    BY <1>7 DEF vars, WebInv, RenderWithinClient, ClientOlder, OwnersYounger
  <2>4. ReleasedStaysGone'
    BY <1>7 DEF vars, WebInv, ReleasedStaysGone, CloseFence, RevokeFence, Shows
  <2> QED BY <2>1, <2>2, <2>3, <2>4 DEF WebInv, Books
<1> QED BY <1>1, <1>2, <1>3, <1>4, <1>5, <1>6, <1>7 DEF Next

\* In every behaviour books, owners and view stay in order.
LEMMA WebInvHolds == Spec => []WebInv
BY WebInvInit, WebInvNext, PTL DEF Spec

\* Every variable has its type.
THEOREM WebTypeCorrect == Spec => []TypeOK
BY WebInvHolds, PTL DEF WebInv, Books

\* The controller's book of owners and the client's book of expected replies
\* agree, whatever is dispatched, cancelled, lost or refused.
THEOREM BooksAgree == Spec => []PendingAgreement
BY WebInvHolds, PTL DEF WebInv, Books

\* Nothing is mounted that the client does not hold.
THEOREM MountedIsHeld == Spec => []RenderWithinClient
BY WebInvHolds, PTL DEF WebInv

\* What a close or a revoke removed comes back with no late reply, for every
\* number of conversations, requests and pending replies.
THEOREM Released == Spec => []ReleasedStaysGone
BY WebInvHolds, PTL DEF WebInv

\* A reply fills a part of the client only while its request owns the lane,
\* and never with something older than what is there.
THEOREM OwnersOnly == Spec => OwnersReplace
<1>1. WebInv /\ [Next]_vars =>
         [\A p \in ClientPart :
            client'[p] \notin {client[p], Nothing} =>
                /\ client'[p].by \in Owners
                /\ client[p] # Nothing => client[p].by < client'[p].by]_vars
  <2> SUFFICES ASSUME WebInv, [Next]_vars, ~UNCHANGED vars, NEW p \in ClientPart,
                      client'[p] \notin {client[p], Nothing}
               PROVE  /\ client'[p].by \in Owners
                      /\ client[p] # Nothing => client[p].by < client'[p].by
    OBVIOUS
  <2>0. TypeOK /\ PendingAgreement /\ ClientOlder
    BY DEF WebInv, Books
  <2>1. client' # client
    OBVIOUS
  <2>2. PICK r \in Ordinal, usable \in BOOLEAN, dropped \in Trim :
             Apply(r, usable, dropped)
    BY <2>1 DEF Next, Dispatch, DispatchOverLimit, CancelPending, Supersede, Reject,
                FinishClose, viewVars, vars
  <2> DEFINE q == flight[r]
  <2>3. /\ r \in Flying /\ owned[LaneOf(q)] = r
        /\ client' = IF usable THEN ClientAfter(q, r) ELSE client
    BY <2>2 DEF Apply, IsCurrent
  <2>4. q \in Request /\ LaneOf(q) \in Lane /\ r # 0
    BY <2>0, <2>3, RequestLane DEF TypeOK, Flying, Ordinal
  <2>5. client' = ClientAfter(q, r)
    BY <2>1, <2>3
  <2>6. /\ client'[p] = [conversation |-> q.conversation, by |-> r]
        /\ FilledBy(p) = LaneOf(q)
    BY <2>0, <2>4, <2>5, ClientShape
  <2>7. client'[p].by = r
    BY <2>6
  <2>8. r \in Owners
    BY <2>3, <2>4 DEF Owners
  <2>9. client[p] # Nothing => client[p].by < r
    BY <2>0, <2>3, <2>4, <2>6 DEF ClientOlder
  <2> QED BY <2>7, <2>8, <2>9
<1> QED BY <1>1, WebInvHolds, PTL DEF Spec, OwnersReplace

=============================================================================
