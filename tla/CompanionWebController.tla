----------------------- MODULE CompanionWebController -----------------------
(***************************************************************************)
(* The browser side of the companion: the controller that dispatches       *)
(* requests (packages/companion-web/src/controller.ts), the bounded client *)
(* state that accepts replies (packages/core/src/companion-client.ts), and *)
(* the render sink that mounts what is shown (render-sink.ts).             *)
(*                                                                         *)
(* Every dispatch belongs to a lane and a lane owns at most one request: a *)
(* newer one takes the lane over while the older is still on the wire.     *)
(* Replies arrive in any order, or not as replies at all.  The promise of  *)
(* the design is that a request that lost its lane changes nothing.        *)
(*                                                                         *)
(* Content is abstracted to the conversation it shows and the ordinal of   *)
(* the request that fetched it.  The transport is external: it settles a   *)
(* dispatch with a usable reply about the requested conversation, an error *)
(* reply, an unusable reply, or a failure.                                 *)
(***************************************************************************)
EXTENDS Naturals, FiniteSets

CONSTANTS
    Conversation,
    ordinalMax,             \* COMPANION_REQUEST_ORDINAL_MAX
    maxPendingRequests,     \* of the client policy
    Nothing                 \* null

ASSUME BoundAssumption ==
    /\ ordinalMax \in Nat \ {0}
    /\ maxPendingRequests \in Nat \ {0}

Lane == {"list", "timeline", "search", "code", "navigation", "lifecycle"}
Ordinal == 1..ordinalMax

\* "open" stands for open() and page(): one lane, one effect of the reply.
Request == [op : {"list", "revoke"}, conversation : {Nothing}]
           \union [op : {"open", "search", "code", "navigate", "close"},
                   conversation : Conversation]

LaneOf(q) ==
    CASE q.op = "open" -> "timeline"
      [] q.op = "navigate" -> "navigation"
      [] q.op \in {"close", "revoke"} -> "lifecycle"
      [] OTHER -> q.op

\* What a reply of request by shows of conversation.
Content == [conversation : Conversation \union {Nothing}, by : Ordinal]

ASSUME NothingAssumption ==
    Nothing \notin Conversation \union Request \union Content

\* The parts of the client snapshot, and of the render state.
ClientPart == {"list", "page", "search", "code"}
RenderPart == ClientPart \union {"navigation"}

VARIABLES
    requestOrdinal,     \* requests created so far
    flight,             \* dispatches whose promise has not settled
    owned,              \* the request that owns each lane, or 0
    clientPending,      \* requests the client expects a reply to
    client,             \* the client snapshot
    render,             \* what is mounted
    closing,            \* closes that were applied, before close() resumes
    closedBy,           \* history: last successful close of a conversation
    revokedBy           \* history: last successful revoke

vars == <<requestOrdinal, flight, owned, clientPending, client, render,
          closing, closedBy, revokedBy>>
viewVars == <<client, render, closing, closedBy, revokedBy>>

Flying == {r \in Ordinal : flight[r] # Nothing}
Owners == {owned[l] : l \in Lane} \ {0}

Init ==
    /\ requestOrdinal = 0
    /\ flight = [r \in Ordinal |-> Nothing]
    /\ owned = [l \in Lane |-> 0]
    /\ clientPending = {}
    /\ client = [p \in ClientPart |-> Nothing]
    /\ render = [p \in RenderPart |-> Nothing]
    /\ closing = {}
    /\ closedBy = [c \in Conversation |-> 0]
    /\ revokedBy = 0

-----------------------------------------------------------------------------
(* Dispatching                                                             *)

\* Faulty variant of LanesTaken: a lifecycle request takes only its own lane.
LanesTakenOwn(q) == {LaneOf(q)}

\* The lanes a call empties before it sends: close() and revoke() cancel
\* everything that is pending, the others claim their own lane.
LanesTaken(q) == IF LaneOf(q) = "lifecycle" THEN Lane ELSE {LaneOf(q)}

\* Faulty variant of PendingWithout: the client keeps expecting the reply.
PendingKept(lanes) == clientPending

PendingWithout(lanes) == clientPending \ {owned[l] : l \in lanes}
OwnedWithout(lanes) == [l \in Lane |-> IF l \in lanes THEN 0 ELSE owned[l]]

Dispatch(q) ==
    LET r == requestOrdinal + 1
        lanes == LanesTaken(q)
    IN /\ requestOrdinal < ordinalMax
       /\ requestOrdinal' = r
       /\ Cardinality(PendingWithout(lanes)) < maxPendingRequests
       /\ owned' = [OwnedWithout(lanes) EXCEPT ![LaneOf(q)] = r]
       /\ clientPending' = PendingWithout(lanes) \union {r}
       /\ flight' = [flight EXCEPT ![r] = q]
       /\ UNCHANGED viewVars

\* client-pending-limit: the lane's previous request is cancelled all the
\* same, and nothing is sent.
DispatchOverLimit(q) ==
    LET lanes == LanesTaken(q)
    IN /\ requestOrdinal < ordinalMax
       /\ requestOrdinal' = requestOrdinal + 1
       /\ Cardinality(PendingWithout(lanes)) >= maxPendingRequests
       /\ owned' = OwnedWithout(lanes)
       /\ clientPending' = PendingWithout(lanes)
       /\ UNCHANGED <<flight, viewVars>>

\* cancelPending(), and a close() or revoke() that the ordinal bound refuses
\* after it has cancelled.
CancelPending ==
    /\ owned' = OwnedWithout(Lane)
    /\ clientPending' = PendingWithout(Lane)
    /\ UNCHANGED <<requestOrdinal, flight, viewVars>>

-----------------------------------------------------------------------------
(* A settled dispatch                                                      *)

\* Faulty variant of IsCurrent: it is enough that the client still waits.
IsExpected(r) == r \in Flying

IsCurrent(r) == r \in Flying /\ owned[LaneOf(flight[r])] = r

\* The reply or failure of a request that lost its lane.
Supersede(r) ==
    /\ r \in Flying
    /\ ~IsCurrent(r)
    /\ flight' = [flight EXCEPT ![r] = Nothing]
    /\ clientPending' = clientPending \ {r}
    /\ UNCHANGED <<requestOrdinal, owned, viewVars>>

\* The transport fails, or the client refuses the reply: unexpected,
\* malformed, or over its state limit.
Reject(r) ==
    /\ IsCurrent(r)
    /\ flight' = [flight EXCEPT ![r] = Nothing]
    /\ owned' = [owned EXCEPT ![LaneOf(flight[r])] = 0]
    /\ clientPending' = clientPending \ {r}
    /\ UNCHANGED <<requestOrdinal, viewVars>>

Shows(part, c) == part # Nothing /\ part.conversation = c

\* A view after the release of conversation c.
WithoutConversation(view, c) ==
    [p \in DOMAIN view |-> IF Shows(view[p], c) THEN Nothing ELSE view[p]]

\* apply(): the client snapshot after a usable reply to q, sent as r.
ClientAfter(q, r) ==
    LET new == [conversation |-> q.conversation, by |-> r]
    IN CASE q.op = "open" -> [client EXCEPT !.page = new, !.code = Nothing]
         [] q.op \in {"list", "search", "code"} -> [client EXCEPT ![q.op] = new]
         [] q.op = "close" -> WithoutConversation(client, q.conversation)
         [] q.op = "revoke" -> [p \in ClientPart |-> Nothing]
         [] OTHER -> client

\* What the artifact budget may cost a replacement, in the order in which
\* the sink gives things up; shortened lists are not told apart.
Trim == {{}, {"navigation"}, {"navigation", "code"}, RenderPart}

\* The navigation record stays with its conversation.
KeptNavigation(snapshot) ==
    IF snapshot.page # Nothing
       /\ Shows(render.navigation, snapshot.page.conversation)
    THEN render.navigation ELSE Nothing

\* Faulty variant of RenderFrom: the sink keeps a code excerpt that the
\* client dropped.
RenderKeepingCode(snapshot, dropped) ==
    [p \in RenderPart |->
        IF p \in dropped THEN Nothing
        ELSE IF p = "navigation" THEN KeptNavigation(snapshot)
        ELSE IF p = "code" /\ snapshot.code = Nothing THEN render.code
        ELSE snapshot[p]]

\* replaceFromClient()
RenderFrom(snapshot, dropped) ==
    [p \in RenderPart |->
        IF p \in dropped THEN Nothing
        ELSE IF p = "navigation" THEN KeptNavigation(snapshot)
        ELSE snapshot[p]]

\* What may be mounted once the reply is applied.  A navigation record is
\* mounted on its own, or refused by the budget; a reply without one is
\* rendered and drops the record that stood.
RenderAfter(q, r, usable, snapshot, dropped) ==
    CASE q.op = "revoke" -> {[p \in RenderPart |-> Nothing]}
      [] q.op = "navigate" /\ usable ->
            {render, [render EXCEPT !.navigation =
                        [conversation |-> q.conversation, by |-> r]]}
      [] q.op = "navigate" /\ ~usable ->
            {[RenderFrom(snapshot, dropped) EXCEPT !.navigation = Nothing]}
      [] OTHER -> {RenderFrom(snapshot, dropped)}

\* The reply the client accepts.  An error reply, or a navigate reply that
\* no record can be extracted from, leaves the client as it is and counts as
\* applied: the rest of the handler runs.
Apply(r, usable, dropped) ==
    LET q == flight[r]
        snapshot == IF usable THEN ClientAfter(q, r) ELSE client
        ended == q.op = "revoke" /\ usable
    IN /\ IsCurrent(r)
       /\ r \in clientPending
       /\ flight' = [flight EXCEPT ![r] = Nothing]
       /\ owned' = [owned EXCEPT ![LaneOf(q)] = 0]
       /\ clientPending' = IF ended THEN {} ELSE clientPending \ {r}
       /\ client' = snapshot
       /\ render' \in RenderAfter(q, r, usable, snapshot, dropped)
       /\ closing' = IF q.op = "close"
                     THEN closing \union {[conversation |-> q.conversation,
                                           by |-> r]}
                     ELSE closing
       /\ closedBy' = IF q.op = "close" /\ usable
                      THEN [closedBy EXCEPT ![q.conversation] = r]
                      ELSE closedBy
       /\ revokedBy' = IF ended THEN r ELSE revokedBy
       /\ UNCHANGED requestOrdinal

\* close() resumes after its dispatch was applied and unmounts.
FinishClose(k) ==
    /\ k \in closing
    /\ closing' = closing \ {k}
    /\ render' = WithoutConversation(render, k.conversation)
    /\ UNCHANGED <<requestOrdinal, flight, owned, clientPending, client,
                   closedBy, revokedBy>>

-----------------------------------------------------------------------------

Next ==
    \/ \E q \in Request : Dispatch(q)
    \/ \E q \in Request : DispatchOverLimit(q)
    \/ CancelPending
    \/ \E r \in Ordinal : Supersede(r)
    \/ \E r \in Ordinal : Reject(r)
    \/ \E r \in Ordinal, usable \in BOOLEAN, dropped \in Trim :
            Apply(r, usable, dropped)
    \/ \E k \in closing : FinishClose(k)

Spec == Init /\ [][Next]_vars

-----------------------------------------------------------------------------
(* Properties                                                              *)

\* Every variable has its type.
TypeOK ==
    /\ requestOrdinal \in 0..ordinalMax
    /\ flight \in [Ordinal -> Request \union {Nothing}]
    /\ owned \in [Lane -> 0..ordinalMax]
    /\ clientPending \subseteq Ordinal
    /\ client \in [ClientPart -> Content \union {Nothing}]
    /\ render \in [RenderPart -> Content \union {Nothing}]
    /\ closing \subseteq Content
    /\ closedBy \in [Conversation -> 0..ordinalMax]
    /\ revokedBy \in 0..ordinalMax

\* The two books of outstanding requests agree: a lane owns a request of its
\* own kind that is still on the wire, the client expects replies to owned
\* requests only, and it expects every one of them unless a revoke emptied
\* its book.  An orphan in the client would use up its pending limit for good.
PendingAgreement ==
    /\ \A l \in Lane : owned[l] # 0 =>
            /\ owned[l] \in Flying
            /\ LaneOf(flight[owned[l]]) = l
            /\ owned[l] <= requestOrdinal
    /\ clientPending \subseteq Owners
    /\ revokedBy = 0 => clientPending = Owners

\* Nothing is mounted that the client does not hold, though replies, cleared
\* views, trimmed replacements and resumed closes change the two in turn.
RenderWithinClient ==
    \A p \in ClientPart : render[p] \in {Nothing, client[p]}

\* After a close of a conversation succeeds, the client and the view show it
\* only from requests made after that close was, however late the replies to
\* the earlier ones arrive.
CloseFence ==
    /\ \A p \in ClientPart, c \in Conversation :
            Shows(client[p], c) => client[p].by > closedBy[c]
    /\ \A p \in RenderPart, c \in Conversation :
            Shows(render[p], c) => render[p].by > closedBy[c]

\* After a successful revoke nothing that was requested before it is held or
\* mounted again.
RevokeFence ==
    /\ \A p \in ClientPart : client[p] # Nothing => client[p].by > revokedBy
    /\ \A p \in RenderPart : render[p] # Nothing => render[p].by > revokedBy

\* What a close or a revoke has removed comes back with no late reply.
ReleasedStaysGone == CloseFence /\ RevokeFence

\* A reply becomes client state only while its request owns its lane, and
\* what it replaces is older: replies that overtake each other on the wire
\* never turn a view back.
OwnersReplace ==
    [][\A p \in ClientPart :
            client'[p] \notin {client[p], Nothing} =>
                /\ client'[p].by \in Owners
                /\ client[p] # Nothing => client[p].by < client'[p].by]_vars

\* render-sink.ts says of a mounted navigation record that it lives only
\* while its conversation stays mounted: no other conversation is mounted
\* beside it.
NavigationFollowsPage ==
    render.navigation # Nothing /\ render.page # Nothing =>
        render.navigation.conversation = render.page.conversation

=============================================================================
