------------------------- MODULE FirefoxObservation -------------------------
(***************************************************************************)
(* The observation run of the Firefox background page                      *)
(* (extension/firefox/src/background.ts).                                  *)
(*                                                                         *)
(* Two kinds of code touch the observation state.  Operations go through a *)
(* promise queue, one at a time, each waiting for browser storage; the     *)
(* request listener runs between their steps, reads the state and counts   *)
(* the request as active at once.  Storage calls may fail and the browser  *)
(* may recreate the background page at any point, keeping storage only.    *)
(*                                                                         *)
(* Bytes, durations, page marks and the tags of a path are left out.  The  *)
(* integrity counters the report compares with zero are kept as booleans.  *)
(***************************************************************************)
EXTENDS Naturals, Sequences, FiniteSets, FiniteSetsExt

CONSTANTS
    Request,                \* requests of the observed page
    Path,                   \* redacted path templates
    maxRuns,                \* bound: runs the user starts
    maxRestarts,            \* bound: background restarts
    maxQueue,               \* bound: user commands wait behind fewer operations
    activeRequestLimit,
    pathClassLimit,
    Overflow                \* OVERFLOW_PATH_TEMPLATE

ASSUME BoundAssumption ==
    /\ {maxRuns, maxRestarts, maxQueue} \subseteq Nat
    /\ {activeRequestLimit, pathClassLimit} \subseteq Nat \ {0}
    /\ IsFiniteSet(Request) /\ IsFiniteSet(Path)
    /\ Overflow \notin Path

Run == 0..maxRuns           \* 0: no run is active
Class == Path \union {Overflow}
Count == 0..Cardinality(Request)

VARIABLES
    state,          \* observationState
    storage,        \* what browser storage holds; run 0 when cleared
    queue,          \* operations not finished, the running one first
    io,             \* the storage call the running operation waits for
    request,        \* each request: what the listener did, and for which run
    runs,           \* runs created so far, in the order of their start times
    restarts,
    stopped         \* history: the newest command done is clear-run

vars == <<state, storage, queue, io, request, runs, restarts, stopped>>

State == [run : Run, requestCount : Count, requestPaths : [Class -> Count],
          active : Count, unobserved : BOOLEAN, persistenceError : BOOLEAN,
          interrupted : BOOLEAN, overflowed : BOOLEAN]

activeState(r) ==
    [run |-> r, requestCount |-> 0, requestPaths |-> [c \in Class |-> 0],
     active |-> 0, unobserved |-> FALSE, persistenceError |-> FALSE,
     interrupted |-> FALSE, overflowed |-> FALSE]
idleState == activeState(0)

Operation == [kind : {"load", "clear", "page"}, run : {0}, path : {Overflow}]
             \union [kind : {"start", "unobserved"}, run : Run \ {0},
                     path : {Overflow}]
             \union [kind : {"aggregate"}, run : Run \ {0}, path : Path]

Command(k, r) == [kind |-> k, run |-> r, path |-> Overflow]

NoIo == [call |-> "none", value |-> idleState]
Get == [call |-> "get", value |-> idleState]
ClearCall == [call |-> "clear", value |-> idleState]
SetCall(s) == [call |-> "set", value |-> s]

Init ==
    /\ state = idleState
    /\ storage = idleState
    /\ queue = <<Command("load", 0)>>
    /\ io = NoIo
    /\ request = [q \in Request |-> [status |-> "new", run |-> 0]]
    /\ runs = 0
    /\ restarts = 0
    /\ stopped = FALSE

-----------------------------------------------------------------------------
(* The request listener                                                    *)

Enqueue(op) == queue' = Append(queue, op)

\* The capacity is used up, or the browser refuses the filter.
PassRequest(q) ==
    /\ request[q].status = "new"
    /\ state.run # 0
    /\ request' = [request EXCEPT ![q] = [status |-> "passed",
                                          run |-> state.run]]
    /\ Enqueue(Command("unobserved", state.run))
    /\ UNCHANGED <<state, storage, io, runs, restarts, stopped>>

ObserveRequest(q) ==
    /\ request[q].status = "new"
    /\ state.run # 0
    /\ state.active < activeRequestLimit
    /\ request' = [request EXCEPT ![q] = [status |-> "observing",
                                          run |-> state.run]]
    /\ state' = [state EXCEPT !.active = @ + 1]
    /\ UNCHANGED <<storage, queue, io, runs, restarts, stopped>>

\* The stream stopped or failed; what follows it is ignored.
FinishRequest(q, p) ==
    /\ request[q].status = "observing"
    /\ request' = [request EXCEPT ![q].status = "completed"]
    /\ Enqueue([kind |-> "aggregate", run |-> request[q].run, path |-> p])
    /\ UNCHANGED <<state, storage, io, runs, restarts, stopped>>

-----------------------------------------------------------------------------
(* Commands of the popup and of the content scripts                        *)

StartRun ==
    /\ runs < maxRuns
    /\ Len(queue) < maxQueue
    /\ runs' = runs + 1
    /\ Enqueue(Command("start", runs + 1))
    /\ stopped' = FALSE
    /\ UNCHANGED <<state, storage, io, request, restarts>>

ClearRun ==
    /\ Len(queue) < maxQueue
    /\ Enqueue(Command("clear", 0))
    /\ UNCHANGED <<state, storage, io, request, runs, restarts, stopped>>

PageMetric ==
    /\ Len(queue) < maxQueue
    /\ Enqueue(Command("page", 0))
    /\ UNCHANGED <<state, storage, io, request, runs, restarts, stopped>>

-----------------------------------------------------------------------------
(* The storage queue                                                       *)

Idle == io = NoIo /\ queue # <<>>

\* The promise of the operation resolves.
Dequeue ==
    /\ queue' = Tail(queue)
    /\ stopped' = (stopped \/ /\ Head(queue).kind = "clear"
                              /\ \A i \in 2..Len(queue) : queue[i].kind # "start")

KnownPaths(s) == {p \in Path : s.requestPaths[p] > 0}

\* The class a path is counted under: a new one only below the limit.
ClassOf(s, p) ==
    IF p \notin KnownPaths(s) /\ Cardinality(KnownPaths(s)) >= pathClassLimit
    THEN Overflow ELSE p

Aggregated(s, p) ==
    LET c == ClassOf(s, p)
    IN [s EXCEPT !.active = IF @ = 0 THEN 0 ELSE @ - 1,
                 !.requestCount = @ + 1,
                 !.requestPaths[c] = @ + 1,
                 !.overflowed = @ \/ c = Overflow]

\* The operation was queued for the run that is active now.
ForThisRun(op) == state.run # 0 /\ op.run = state.run

\* What a recording operation makes of the state before it is persisted.
Recorded(op) ==
    CASE op.kind = "aggregate" -> Aggregated(state, op.path)
      [] op.kind = "unobserved" -> [state EXCEPT !.unobserved = TRUE]
      [] OTHER -> state

\* The first step of an operation runs up to its first storage call.
BeginLoad ==
    /\ Idle
    /\ Head(queue).kind = "load"
    /\ io' = Get
    /\ UNCHANGED <<state, storage, queue, request, runs, restarts, stopped>>

BeginReset ==
    /\ Idle
    /\ Head(queue).kind \in {"start", "clear"}
    /\ state' = activeState(Head(queue).run)
    /\ io' = ClearCall
    /\ UNCHANGED <<storage, queue, request, runs, restarts, stopped>>

\* Records the metric, or drops the operation: it belongs to another run, or
\* the page metric is older than the run.
BeginRecord ==
    /\ Idle
    /\ Head(queue).kind \in {"aggregate", "unobserved"}
    /\ IF ForThisRun(Head(queue))
       THEN /\ state' = Recorded(Head(queue))
            /\ io' = SetCall(state')
            /\ UNCHANGED <<queue, stopped>>
       ELSE Dequeue /\ UNCHANGED <<state, io>>
    /\ UNCHANGED <<storage, request, runs, restarts>>

BeginPage ==
    /\ Idle
    /\ Head(queue).kind = "page"
    /\ \/ /\ state.run # 0
          /\ io' = SetCall(state)
          /\ UNCHANGED <<queue, stopped>>
       \/ Dequeue /\ UNCHANGED io
    /\ UNCHANGED <<state, storage, request, runs, restarts>>

-----------------------------------------------------------------------------
(* Storage calls settle                                                    *)

\* Faulty variant of Resumed: a reload goes unmarked.
ResumedUnmarked(s) == [s EXCEPT !.active = 0]

\* A run found in storage goes on, marked as interrupted.
Resumed(s) == [s EXCEPT !.active = 0, !.interrupted = TRUE]

\* Nothing usable is stored: storage is cleared.
LoadNothing ==
    /\ io = Get
    /\ storage.run = 0
    /\ io' = ClearCall
    /\ UNCHANGED <<state, storage, queue, request, runs, restarts, stopped>>

LoadRun ==
    /\ io = Get
    /\ storage.run # 0
    /\ state' = Resumed(storage)
    /\ io' = SetCall(state')
    /\ UNCHANGED <<storage, queue, request, runs, restarts, stopped>>

ClearDone ==
    /\ io = ClearCall
    /\ storage' = idleState
    /\ IF Head(queue).kind = "start"
       THEN io' = SetCall(state) /\ UNCHANGED <<queue, stopped>>
       ELSE io' = NoIo /\ Dequeue
    /\ UNCHANGED <<state, request, runs, restarts>>

SetDone ==
    /\ io.call = "set"
    /\ storage' = io.value
    /\ io' = NoIo
    /\ Dequeue
    /\ UNCHANGED <<state, request, runs, restarts>>

\* Faulty variant of StorageFails: the operation is tried again.
StorageFailsRetry ==
    /\ io # NoIo
    /\ state' = [state EXCEPT !.persistenceError = @ \/ state.run # 0]
    /\ io' = NoIo
    /\ UNCHANGED <<storage, queue, request, runs, restarts, stopped>>

\* Faulty variant of StorageFails: the failure is swallowed.
StorageFailsSilently ==
    /\ io # NoIo
    /\ io' = NoIo
    /\ Dequeue
    /\ UNCHANGED <<state, storage, request, runs, restarts>>

\* The call is rejected: the rest of the operation is skipped, and an active
\* run counts the error.
StorageFails ==
    /\ io # NoIo
    /\ state' = [state EXCEPT !.persistenceError = @ \/ state.run # 0]
    /\ io' = NoIo
    /\ Dequeue
    /\ UNCHANGED <<storage, request, runs, restarts>>

\* The browser recreates the background page.  The call under way may have
\* reached storage; streams, queue and memory are gone.
Restart ==
    /\ restarts < maxRestarts
    /\ restarts' = restarts + 1
    /\ storage' \in {storage} \union
                    (IF io.call \in {"clear", "set"} THEN {io.value} ELSE {})
    /\ state' = idleState
    /\ queue' = <<Command("load", 0)>>
    /\ io' = NoIo
    /\ request' = [q \in Request |->
            IF request[q].status = "observing"
            THEN [request[q] EXCEPT !.status = "lost"] ELSE request[q]]
    /\ UNCHANGED <<runs, stopped>>

-----------------------------------------------------------------------------

\* A step of the queue: an operation begins, or its storage call settles.
QueueStep ==
    \/ BeginLoad \/ BeginReset \/ BeginRecord \/ BeginPage
    \/ LoadNothing \/ LoadRun \/ ClearDone \/ SetDone \/ StorageFails

Next ==
    \/ \E q \in Request : PassRequest(q)
    \/ \E q \in Request : ObserveRequest(q)
    \/ \E q \in Request, p \in Path : FinishRequest(q, p)
    \/ StartRun
    \/ ClearRun
    \/ PageMetric
    \/ QueueStep
    \/ Restart

Spec == Init /\ [][Next]_vars

\* Promises run on, and browser storage answers every call in the end.
FairSpec == Spec /\ WF_vars(QueueStep)

-----------------------------------------------------------------------------
(* Properties                                                              *)

\* Every variable has its type.
TypeOK ==
    /\ state \in State
    /\ storage \in State
    /\ queue \in Seq(Operation)
    /\ io.call \in {"none", "get", "clear", "set"} /\ io.value \in State
    /\ request \in [Request -> [status : {"new", "passed", "observing",
                                          "completed", "lost"},
                                run : Run]]
    /\ runs \in Run /\ restarts \in 0..maxRestarts
    /\ stopped \in BOOLEAN

\* The requests the listener saw while run r was active.
Seen(r) == {q \in Request : request[q].run = r}

\* The operations of the queue that have not begun.
Waiting == {i \in 1..Len(queue) : i > 1 \/ io = NoIo}

\* The first half of the account: the active count, which the listener raises
\* at once and the queue lowers later, is the number of this run's open
\* streams and unrecorded metrics, across restarted, cleared and replaced
\* runs; it stays within its limit.
ActiveCount ==
    state.run # 0 =>
        /\ state.active =
                Cardinality({q \in Seen(state.run) :
                                request[q].status = "observing"})
              + Cardinality({i \in Waiting : queue[i].kind = "aggregate"
                                          /\ queue[i].run = state.run})
        /\ state.active <= activeRequestLimit

\* buildObservationReport: the totals are complete.
TotalsComplete(s) ==
    /\ ~s.persistenceError
    /\ ~s.interrupted
    /\ ~s.unobserved
    /\ s.active = 0

\* The second half: a report that claims complete totals has counted every
\* request that the run saw.  get-state waits for the queue, so the claim is
\* read when it is empty; failures, restarts and capacity gaps must all have
\* left a mark.
HonestTotals ==
    queue = <<>> /\ state.run # 0 /\ TotalsComplete(state) =>
        state.requestCount = Cardinality(Seen(state.run))

\* Both at once: the count that a report waits for is exact, and so is what
\* the report then claims.
HonestAccount == ActiveCount /\ HonestTotals

\* What the background page believes is what a restart would find: once the
\* queue is empty, storage holds the active run up to the active count, or
\* the run carries a persistence error.
WrittenThrough ==
    queue = <<>> /\ state.run # 0 /\ ~state.persistenceError =>
        storage = [state EXCEPT !.active = storage.active]

\* A failed storage call never blocks what was queued behind it: every start
\* is answered.
StartAnswered ==
    \A r \in Run \ {0} :
        (\E i \in 1..Len(queue) : queue[i] = Command("start", r))
            ~> ~(\E i \in 1..Len(queue) : queue[i] = Command("start", r))

\* docs/privacy.md: clearing the run disables observation again.
ClearedStaysIdle == stopped => state.run = 0

=============================================================================
