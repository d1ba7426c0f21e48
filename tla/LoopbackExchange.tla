--------------------------- MODULE LoopbackExchange ---------------------------
(***************************************************************************)
(* The way of a companion request between the page and the loopback        *)
(* server: the HTTP transport (companion-web/src/http-companion-transport  *)
(* .ts) with the ledger that accounts for it (browser-request-ledger.ts),  *)
(* and the server (scripts/run-synthetic-companion-loopback.mjs).          *)
(*                                                                         *)
(* The page may abort an exchange at any time; connections may break on    *)
(* either way, and the server may stop.  Once a body has been read, the    *)
(* server answers it without giving way to another event: beforeCommit     *)
(* waits for a microtask only, so that an abort is never seen between the  *)
(* two.  What the companion makes of a request is left out: its answer is  *)
(* an envelope of some size.                                               *)
(***************************************************************************)
EXTENDS InsertionOrder, FiniteSets, SequencesExt, FiniteSetsExt

CONSTANTS
    Exchange,               \* request ids, of which the page uses each once
    RequestBytes,           \* sizes of what the page sends
    EnvelopeBytes,          \* sizes of what the companion answers
    maxServedBytes,         \* the server's own limit on an answer
    maxResponseBytes,       \* options of the transport
    maxLogEntries, maxCacheEntries, maxCacheEntryBytes, maxCacheTotalBytes

ASSUME ExchangeAssumption ==
    /\ IsFiniteSet(Exchange)
    /\ RequestBytes \subseteq Nat /\ EnvelopeBytes \subseteq Nat
    /\ {maxServedBytes, maxResponseBytes} \subseteq Nat \ {0}
    /\ {maxLogEntries, maxCacheEntries, maxCacheEntryBytes,
        maxCacheTotalBytes} \subseteq Nat \ {0}

\* What the caller of dispatch sees of an exchange that has settled: its
\* envelope, or one of the transport's errors.
DispatchOutcome == {"delivered", "overLimit", "failed", "cancelled"}

\* What the ledger counts it as.
Settlement == {"completed", "refused", "failed", "cancelled"}

VARIABLES
    dispatched,     \* of each exchange: "new", "posted" or its outcome
    signalled,      \* the exchanges whose signal is aborted
    wire,           \* where each posted exchange is, the bytes sent and
                    \*   those of the answer
    books,          \* counters, log and cache of the ledger
    server          \* whether it listens, and its counters

exchangeVars == <<dispatched, signalled, wire, books, server>>

ExchangeInit ==
    /\ dispatched = [x \in Exchange |-> "new"]
    /\ signalled = {}
    /\ wire = [x \in Exchange |-> [at |-> "page", sent |-> 0, bytes |-> 0]]
    /\ books = [count |-> [o \in Settlement |-> 0], total |-> 0, log |-> <<>>,
                cache |-> <<>>, bytesOf |-> [x \in Exchange |-> 0], evicted |-> 0]
    /\ server = [status |-> "stopped", dispatched |-> 0, refused |-> 0]

Reach(x, place, bytes) ==
    wire' = [wire EXCEPT ![x].at = place, ![x].bytes = bytes]

-----------------------------------------------------------------------------
(* The ledger                                                              *)

\* The cache maps keys to byte counts: its keys in the order they were set,
\* and for each key its bytes.
CacheBytes(keys, bytesOf) == SumFunctionOnSet(bytesOf, ToSet(keys))

\* The part of a cache that both limits leave, its newest entries.
Kept(keys, bytesOf) ==
    LET fits(n) == LET rest == SubSeq(keys, n + 1, Len(keys))
                   IN /\ CacheBytes(rest, bytesOf) <= maxCacheTotalBytes
                      /\ Len(rest) <= maxCacheEntries
        dropped == Min({n \in 0..Len(keys) : fits(n)})
    IN SubSeq(keys, dropped + 1, Len(keys))

Cached(b, keys, bytesOf, grown) ==
    LET kept == [x \in Exchange |-> IF x \in ToSet(keys) THEN bytesOf[x] ELSE 0]
    IN [b EXCEPT !.cache = keys, !.bytesOf = kept,
                 !.evicted = @ + Len(grown) - Len(keys)]

\* Faulty variant of AdmitCache: an entry makes room by number only.
AdmitCacheByCount(b, x, bytes) ==
    LET grown == Append(KeysWithout(b.cache, {x}), x)
        bytesOf == [b.bytesOf EXCEPT ![x] = bytes]
    IN Cached(b, IF Len(grown) > maxCacheEntries THEN Tail(grown) ELSE grown,
              bytesOf, grown)

AdmitCache(b, x, bytes) ==
    LET grown == Append(KeysWithout(b.cache, {x}), x)
        bytesOf == [b.bytesOf EXCEPT ![x] = bytes]
    IN Cached(b, Kept(grown, bytesOf), bytesOf, grown)

\* pushLog
Logged(b, x) ==
    LET log == Append(b.log, x)
    IN [b EXCEPT !.log = IF Len(log) > maxLogEntries THEN Tail(log) ELSE log]

Counted(b, x, outcome) ==
    [Logged(b, x) EXCEPT !.total = @ + 1, !.count[outcome] = @ + 1]

\* recordCompletedRequest: a footprint too large for the cache is counted
\* apart, whatever the caller is told.
Oversized(x) ==
    wire[x].sent > maxCacheEntryBytes \/ wire[x].bytes > maxCacheEntryBytes

RecordCompleted(x) ==
    books' = IF Oversized(x) THEN Counted(books, x, "refused")
             ELSE AdmitCache(Counted(books, x, "completed"), x, wire[x].bytes)

\* recordFailedRequest, recordCancelledRequest
Record(x, outcome) == books' = Counted(books, x, outcome)

Settle(x, outcome) == dispatched' = [dispatched EXCEPT ![x] = outcome]

\* resetVolatileState, after the page's open-close probe.
ResetVolatile ==
    /\ books.log # <<>>
    /\ books' = [books EXCEPT !.log = <<>>, !.cache = <<>>,
                              !.bytesOf = [x \in Exchange |-> 0]]
    /\ UNCHANGED <<dispatched, signalled, wire, server>>

-----------------------------------------------------------------------------
(* The transport                                                           *)

\* The request cannot be serialized, or is over its limit.
DispatchFails(x) ==
    /\ dispatched[x] = "new"
    /\ Settle(x, "failed") /\ Record(x, "failed")
    /\ UNCHANGED <<signalled, wire, server>>

DispatchPosts(x, sent) ==
    /\ dispatched[x] = "new"
    /\ IF x \in signalled
       THEN Settle(x, "cancelled") /\ Record(x, "cancelled") /\ UNCHANGED wire
       ELSE /\ Settle(x, "posted") /\ UNCHANGED books
            /\ wire' = [wire EXCEPT ![x] = [at |-> "request", sent |-> sent,
                                            bytes |-> 0]]
    /\ UNCHANGED <<signalled, server>>

\* The controller cancels the lane the exchange belongs to.
AbortExchange(x) ==
    /\ dispatched[x] \in {"new", "posted"} /\ x \notin signalled
    /\ signalled' = signalled \union {x}
    /\ UNCHANGED <<dispatched, wire, books, server>>

\* The post is rejected: refused by the server, broken off, or aborted.
PostFails(x) ==
    /\ dispatched[x] = "posted"
    /\ wire[x].at \in {"refusal", "lost"} \/ x \in signalled
    /\ LET outcome == IF x \in signalled THEN "cancelled" ELSE "failed"
       IN Record(x, outcome) /\ Settle(x, outcome)
    /\ UNCHANGED <<signalled, wire, server>>

\* The answer is there; an abort comes too late.  Over the transport's own
\* limit the caller gets an error, but the ledger records a completed request.
PostAnswers(x) ==
    /\ dispatched[x] = "posted" /\ wire[x].at = "answer"
    /\ RecordCompleted(x)
    /\ Settle(x, IF wire[x].bytes > maxResponseBytes THEN "overLimit"
                                                      ELSE "delivered")
    /\ UNCHANGED <<signalled, wire, server>>

\* What was answered within the limit is no response envelope: the transport
\* looks at whatever its post returned.
PostUnusable(x) ==
    /\ dispatched[x] = "posted" /\ wire[x].at = "answer"
    /\ wire[x].bytes <= maxResponseBytes
    /\ Record(x, "failed") /\ Settle(x, "failed")
    /\ UNCHANGED <<signalled, wire, server>>

-----------------------------------------------------------------------------
(* The server                                                              *)

Serves == server.status \in {"listening", "stopping"}
AtServer == {x \in Exchange : wire[x].at = "body"}

\* start() refuses while the server is started.
StartServer ==
    /\ server.status = "stopped"
    /\ server' = [server EXCEPT !.status = "listening"]
    /\ UNCHANGED <<dispatched, signalled, wire, books>>

\* stop(): no new connections; it resolves when the open ones have ended.
StopServer ==
    /\ \/ server.status = "listening"
          /\ server' = [server EXCEPT !.status = "stopping"]
       \/ server.status = "stopping" /\ AtServer = {}
          /\ server' = [server EXCEPT !.status = "stopped"]
    /\ UNCHANGED <<dispatched, signalled, wire, books>>

\* Host, site, method, origin, content type or announced length.
RefuseRequest(x) ==
    /\ Serves /\ wire[x].at = "request"
    /\ server' = [server EXCEPT !.refused = @ + 1]
    /\ Reach(x, "refusal", 0)
    /\ UNCHANGED <<dispatched, signalled, books>>

\* Also while it is stopping, on a connection that is open.
ReadBody(x) ==
    /\ Serves /\ wire[x].at = "request"
    /\ Reach(x, "body", 0)
    /\ UNCHANGED <<dispatched, signalled, books, server>>

\* The body has been read: parsed or invalid, the companion's envelope goes
\* out, replaced by response-too-large if it is over the limit.
HandlePost(x, bytes) ==
    /\ Serves /\ wire[x].at = "body"
    /\ server' = [server EXCEPT !.dispatched = @ + 1]
    /\ Reach(x, "answer", IF bytes > maxServedBytes THEN 1 ELSE bytes)
    /\ UNCHANGED <<dispatched, signalled, books>>

\* The connection ends before the body has: reading it throws, outside of the
\* try of handleProtocolPost and of the listener that does not await it, and
\* an unhandled rejection ends the process with all it holds.
BodyBreaksOff(x) ==
    /\ Serves /\ wire[x].at = "body"
    /\ server' = [server EXCEPT !.status = "crashed"]
    /\ wire' = [y \in Exchange |-> IF wire[y].at \in {"request", "body"}
                                   THEN [wire[y] EXCEPT !.at = "lost"] ELSE wire[y]]
    /\ UNCHANGED <<dispatched, signalled, books>>

\* A connection that breaks while it carries a request or an answer, or finds
\* nobody listening.  An answer that has arrived is not lost any more.
LoseExchange(x) ==
    /\ wire[x].at \in {"request", "answer"} /\ dispatched[x] \notin DispatchOutcome
    /\ Reach(x, "lost", 0)
    /\ UNCHANGED <<dispatched, signalled, books, server>>

ExchangeNext ==
    \/ ResetVolatile \/ StartServer \/ StopServer
    \/ \E x \in Exchange :
          \/ DispatchFails(x) \/ AbortExchange(x)
          \/ \E sent \in RequestBytes : DispatchPosts(x, sent)
          \/ PostFails(x) \/ PostAnswers(x) \/ PostUnusable(x)
          \/ RefuseRequest(x) \/ ReadBody(x) \/ BodyBreaksOff(x)
          \/ LoseExchange(x)
          \/ \E bytes \in EnvelopeBytes : HandlePost(x, bytes)

ExchangeSpec == ExchangeInit /\ [][ExchangeNext]_exchangeVars

-----------------------------------------------------------------------------
(* Properties                                                              *)

\* The exchanges whose answer reached the transport and was one.
Arrived == {x \in Exchange : dispatched[x] \in {"delivered", "overLimit"}}
TooLarge == {x \in Arrived : Oversized(x)}

\* Every dispatch that settles is in the books once, whatever it raced with: a
\* failed or cancelled one under what its caller saw; an answered one, given to
\* its caller or withheld as over the transport's limit, as completed, or as
\* refused if request or answer was too large for the cache.  The server
\* handled every one that was answered, and the cache stays within both of its
\* limits and tells the size of answers that came, and of no too large ones.
ExchangeAccounted ==
    /\ \A o \in {"failed", "cancelled"} :
            books.count[o] = Cardinality({x \in Exchange : dispatched[x] = o})
    /\ books.count["refused"] = Cardinality(TooLarge)
    /\ books.count["completed"] = Cardinality(Arrived \ TooLarge)
    /\ books.total = SumFunctionOnSet(books.count, Settlement)
    /\ Cardinality(Arrived) <= server.dispatched
    /\ CacheBytes(books.cache, books.bytesOf) <= maxCacheTotalBytes
    /\ Len(books.cache) <= maxCacheEntries /\ Len(books.log) <= maxLogEntries
    /\ \A x \in ToSet(books.cache) :
            x \in Arrived \ TooLarge /\ books.bytesOf[x] = wire[x].bytes

=============================================================================
