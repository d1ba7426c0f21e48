-------------------------- MODULE NotificationHints --------------------------
(***************************************************************************)
(* The Android notification companion: the listener service, the thread    *)
(* that turns notifications into hints, the hint store in shared           *)
(* preferences, and the screens that clear the store and tell whether the  *)
(* listener is connected (ChatGptNotificationListenerService.kt,           *)
(* LocalHintStore.kt, MainActivity.kt).                                    *)
(*                                                                         *)
(* A write to the preferences is in memory at once; commit() answers false *)
(* when it does not reach the disk.  The process may be killed between any *)
(* two steps and the device may be rebooted.  Every read-change-write      *)
(* cycle of the store holds its lock and is one step.                      *)
(*                                                                         *)
(* An event stands for the exact event signature of a hint.  The HMAC key, *)
(* the timestamps other than that of the service start, damaged records    *)
(* and the physical-test tally are left out.                               *)
(***************************************************************************)
EXTENDS Naturals, Sequences, FiniteSets, FiniteSetsExt

CONSTANTS
    Event,                      \* exact event signatures
    MAX_QUEUE_ENTRIES,
    MAX_DEDUPE_WINDOW,
    MAX_PENDING_PROJECTIONS,
    MaxLong,                    \* Long.MAX_VALUE
    MaxDelivered,               \* bound: events delivered between two clears
    MaxStarts,                  \* bound: service instances of one process
    MaxFailures,                \* bound: commits that fail
    MaxProcesses                \* bound: kills and reboots, see Bounded

ASSUME BoundAssumption ==
    /\ {MAX_QUEUE_ENTRIES, MAX_DEDUPE_WINDOW, MAX_PENDING_PROJECTIONS,
        MaxLong, MaxProcesses} \subseteq Nat \ {0}
    /\ {MaxDelivered, MaxStarts, MaxFailures} \subseteq Nat
    /\ MAX_QUEUE_ENTRIES <= MaxLong

Hint == [event : Event, sequence : 1..MaxLong]
Job == [instance : 1..MaxStarts, event : Event, failed : BOOLEAN]
Counter == 0..MaxLong

VARIABLES
    memory,         \* the preferences as the process sees them
    disk,           \* the preferences as a new process would load them
    failures,       \* commits that have failed
    boot,           \* which boot of the device this is
    uptime,         \* elapsedRealtime at which the process started
    service,        \* "down", "created", "connected"
    instance,       \* service instances created in this process
    threadStarted,  \* the instance's executor has started its thread
    waiting,        \* the executor's queue
    running,        \* jobs some thread is at; one per instance at most
    due             \* history: events to be accounted for, see Accounted

preferences == <<memory, disk, failures>>
process == <<boot, uptime>>
lifecycle == <<service, instance>>
executor == <<threadStarted, waiting, running>>
vars == <<preferences, process, lifecycle, executor, due>>

Empty == [hints |-> <<>>, sequence |-> 0, observed |-> 0, accepted |-> 0,
          duplicates |-> 0, dropped |-> 0, errors |-> 0,
          listenerConnected |-> FALSE, serviceStarted |-> 0]

Init ==
    /\ memory = Empty
    /\ disk = Empty
    /\ failures = 0
    /\ boot = 1
    /\ uptime = 1
    /\ service = "down"
    /\ instance = 0
    /\ threadStarted = FALSE
    /\ waiting = <<>>
    /\ running = {}
    /\ due = 0

-----------------------------------------------------------------------------
(* LocalHintStore                                                          *)

saturatedIncrement(n) == IF n = MaxLong THEN MaxLong ELSE n + 1
NextSequence(n) == IF n = MaxLong THEN 1 ELSE n + 1

Newest(seq, n) ==
    SubSeq(seq, IF Len(seq) > n THEN Len(seq) - n + 1 ELSE 1, Len(seq))

\* A write that reaches the disk, or one that does not.
Committed(prefs) ==
    /\ memory' = prefs
    /\ disk' = prefs
    /\ UNCHANGED failures
NotCommitted(prefs) ==
    /\ failures < MaxFailures
    /\ failures' = failures + 1
    /\ memory' = prefs
    /\ UNCHANGED disk
Write(prefs) == Committed(prefs) \/ NotCommitted(prefs)

containsRecentExactEvent(hints, e) ==
    \E i \in DOMAIN hints :
        hints[i].event = e /\ Len(hints) - i < MAX_DEDUPE_WINDOW

\* The preferences after append of event e.
Appended(e) ==
    LET counted == [memory EXCEPT !.observed = saturatedIncrement(@)]
        next == NextSequence(memory.sequence)
    IN IF containsRecentExactEvent(memory.hints, e)
       THEN [counted EXCEPT !.duplicates = saturatedIncrement(@)]
       ELSE [counted EXCEPT
                !.hints = Newest(Append(@, [event |-> e, sequence |-> next]),
                                 MAX_QUEUE_ENTRIES),
                !.sequence = next,
                !.accepted = saturatedIncrement(@)]

RecordDropped(prefs, n) ==
    [prefs EXCEPT !.dropped = IF @ + n > MaxLong THEN MaxLong ELSE @ + n]
RecordError(prefs) == [prefs EXCEPT !.errors = saturatedIncrement(@)]

\* Faulty variant of markServiceStarted: an earlier process's flag stays.
markServiceStartedOnly == Write([memory EXCEPT !.serviceStarted = uptime])

markServiceStarted ==
    Write([memory EXCEPT !.listenerConnected = FALSE,
                         !.serviceStarted = uptime])
setListenerConnected(prefs, connected) ==
    [prefs EXCEPT !.listenerConnected = connected]

\* clearHints keeps the evidence about listener and service.
Cleared ==
    [Empty EXCEPT !.listenerConnected = memory.listenerConnected,
                  !.serviceStarted = memory.serviceStarted]

Total(prefs) == prefs.observed + prefs.dropped + prefs.errors
InFlight == Len(waiting) + Cardinality(running)

-----------------------------------------------------------------------------
(* The listener service                                                    *)

onCreate ==
    /\ service = "down"
    /\ instance < MaxStarts
    /\ markServiceStarted
    /\ service' = "created"
    /\ instance' = instance + 1
    /\ threadStarted' = FALSE
    /\ UNCHANGED <<process, waiting, running, due>>

onListenerConnected ==
    /\ service = "created"
    /\ Write(setListenerConnected(memory, TRUE))
    /\ service' = "connected"
    /\ UNCHANGED <<process, instance, executor, due>>

onListenerDisconnected ==
    /\ service = "connected"
    /\ Write(setListenerConnected(memory, FALSE))
    /\ service' = "created"
    /\ UNCHANGED <<process, instance, executor, due>>

\* Faulty variant of onDestroy: the discarded jobs are not counted.
onDestroyUncounted ==
    /\ service # "down"
    /\ Write(setListenerConnected(memory, FALSE))
    /\ service' = "down"
    /\ waiting' = <<>>
    /\ UNCHANGED <<process, instance, threadStarted, running, due>>

\* shutdownNow interrupts the thread but does not take its job back.
onDestroy ==
    /\ service # "down"
    /\ Write(RecordDropped(setListenerConnected(memory, FALSE), Len(waiting)))
    /\ service' = "down"
    /\ waiting' = <<>>
    /\ UNCHANGED <<process, instance, threadStarted, running, due>>

\* A notification of the observed package arrives, and counts as due.
Delivered ==
    /\ service = "connected"
    /\ due < MaxDelivered
    /\ due' = due + 1
    /\ UNCHANGED <<process, lifecycle>>

NewJob(e) == [instance |-> instance, event |-> e, failed |-> FALSE]

\* extractFields throws.
SubmitMalformed ==
    /\ Delivered
    /\ Write(RecordError(memory))
    /\ UNCHANGED executor

\* The executor's first job starts its thread.
SubmitFirst(e) ==
    /\ Delivered
    /\ ~threadStarted
    /\ threadStarted' = TRUE
    /\ running' = running \union {NewJob(e)}
    /\ UNCHANGED <<preferences, waiting>>

SubmitQueued(e) ==
    /\ Delivered
    /\ threadStarted
    /\ Len(waiting) < MAX_PENDING_PROJECTIONS
    /\ waiting' = Append(waiting, NewJob(e))
    /\ UNCHANGED <<preferences, threadStarted, running>>

\* AbortPolicy refuses the job.
SubmitRejected ==
    /\ Delivered
    /\ threadStarted
    /\ Len(waiting) = MAX_PENDING_PROJECTIONS
    /\ Write(RecordDropped(memory, 1))
    /\ UNCHANGED executor

-----------------------------------------------------------------------------
(* The threads                                                             *)

Take ==
    /\ waiting # <<>>
    /\ \A j \in running : j.instance # instance
    /\ running' = running \union {Head(waiting)}
    /\ waiting' = Tail(waiting)
    /\ UNCHANGED <<preferences, process, lifecycle, threadStarted, due>>

\* The projection throws, for instance because the keystore fails.
ProjectFails(j) ==
    /\ j \in running /\ ~j.failed
    /\ running' = (running \ {j}) \union {[j EXCEPT !.failed = TRUE]}
    /\ UNCHANGED <<preferences, process, lifecycle, threadStarted, waiting, due>>

append(j) ==
    /\ j \in running /\ ~j.failed
    /\ Committed(Appended(j.event))
    /\ running' = running \ {j}
    /\ UNCHANGED <<process, lifecycle, threadStarted, waiting, due>>

\* The event is counted but its commit fails: check() throws, and the job
\* is still to be counted as an error.
AppendFails(j) ==
    /\ j \in running /\ ~j.failed
    /\ NotCommitted(Appended(j.event))
    /\ running' = (running \ {j}) \union {[j EXCEPT !.failed = TRUE]}
    /\ due' = due + 1
    /\ UNCHANGED <<process, lifecycle, threadStarted, waiting>>

recordError(j) ==
    /\ j \in running /\ j.failed
    /\ Write(RecordError(memory))
    /\ running' = running \ {j}
    /\ UNCHANGED <<process, lifecycle, threadStarted, waiting, due>>

-----------------------------------------------------------------------------
(* The user and the device                                                 *)

\* confirmClearHints
clearHints ==
    /\ Write(Cleared)
    /\ due' = InFlight
    /\ UNCHANGED <<process, lifecycle, executor>>

\* confirmResetIdentity, whose key deletion is left out.
clearAll ==
    /\ Write(Empty)
    /\ due' = InFlight
    /\ UNCHANGED <<process, lifecycle, executor>>

\* The process is gone and another starts, later in the same boot or in the
\* next one, where elapsedRealtime starts again.
NewProcess ==
    /\ memory' = disk
    /\ service' = "down"
    /\ instance' = 0
    /\ threadStarted' = FALSE
    /\ waiting' = <<>>
    /\ running' = {}
    /\ due' = Total(disk)
    /\ UNCHANGED <<disk, failures>>

\* After Reboot the count starts again at the boot's own number.
Bounded == boot + uptime <= MaxProcesses

Kill ==
    /\ Bounded
    /\ uptime' = uptime + 1
    /\ UNCHANGED boot
    /\ NewProcess

Reboot ==
    /\ Bounded
    /\ boot' = boot + 1
    /\ uptime' = 1
    /\ NewProcess

Next ==
    \/ onCreate
    \/ onListenerConnected
    \/ onListenerDisconnected
    \/ onDestroy
    \/ SubmitMalformed
    \/ \E e \in Event : SubmitFirst(e) \/ SubmitQueued(e)
    \/ SubmitRejected
    \/ Take
    \/ \E j \in running :
        \/ ProjectFails(j)
        \/ append(j)
        \/ AppendFails(j)
        \/ recordError(j)
    \/ clearHints
    \/ clearAll
    \/ Kill
    \/ Reboot

Spec == Init /\ [][Next]_vars

-----------------------------------------------------------------------------
(* Properties                                                              *)

Preferences ==
    [hints : Seq(Hint), sequence : Counter, observed : Counter,
     accepted : Counter, duplicates : Counter, dropped : Counter,
     errors : Counter, listenerConnected : BOOLEAN,
     serviceStarted : 0..MaxProcesses]

\* Every variable has its type, and a thread has one job at a time.
TypeOK ==
    /\ {memory, disk} \subseteq Preferences
    /\ failures \in 0..MaxFailures
    /\ boot \in 1..MaxProcesses
    /\ uptime \in 1..MaxProcesses
    /\ service \in {"down", "created", "connected"}
    /\ instance \in 0..MaxStarts
    /\ threadStarted \in BOOLEAN
    /\ waiting \in Seq(Job) /\ Len(waiting) <= MAX_PENDING_PROJECTIONS
    /\ running \subseteq Job
    /\ \A j, k \in running : j.instance = k.instance => j = k
    /\ due \in Nat

\* The ring, the sequence and the counters are parts of one file and stay one
\* account of the same events, in memory and on the disk, whatever commits
\* failed, what was cleared and when the process was killed: consecutive
\* sequence numbers up to the newest, as many hints as were accepted or as
\* fit, and no event twice inside the duplicate window.
HintRing ==
    \A p \in {memory, disk} :
        LET n == Len(p.hints)
        IN /\ p.accepted < MaxLong => p.sequence = p.accepted
           /\ n = Min({p.accepted, MAX_QUEUE_ENTRIES})
           /\ n > 0 => p.hints[n].sequence = p.sequence
           /\ \A i \in 1..(n - 1) :
                p.hints[i + 1].sequence = NextSequence(p.hints[i].sequence)
           /\ \A i, j \in 1..n : i < j /\ j - i <= MAX_DEDUPE_WINDOW
                => p.hints[i].event # p.hints[j].event

\* No event is lost silently while the process lives: each is waiting, at a
\* thread, or counted as observed, dropped or an error, exactly once, whatever
\* is cleared or destroyed in between.  Only an append whose commit fails is
\* counted twice, as observed and as an error.
Accounted ==
    (\A n \in {memory.observed, memory.dropped, memory.errors} : n < MaxLong)
        => Total(memory) + InFlight = due

\* The ring and the counters stay one account of the events, in memory, on
\* the disk and on the way between them.
HintsAccounted == HintRing /\ Accounted

\* Once a service was created in this process, the stored flag says connected
\* only while the listener is connected, whatever an earlier process left in
\* the file.
FlagFollowsService ==
    instance > 0 /\ memory.listenerConnected => service = "connected"

\* listenerConfirmedInCurrentProcess, with access granted.
listenerConfirmedInCurrentProcess ==
    memory.listenerConnected /\ memory.serviceStarted >= uptime

\* README.md:26 lists among the Android-verified checks that the listener has
\* connected in the current process.
ConfirmedInThisProcess ==
    listenerConfirmedInCurrentProcess => service = "connected"

=============================================================================
