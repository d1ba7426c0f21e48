----------------------------- MODULE Stores_proofs -----------------------------
(***************************************************************************)
(* Proofs about the bounded stores, for every value of their constants:    *)
(* the Android hint store and its service, the snapshot cache, and the     *)
(* completion-hint ledger, and the adapter of synthetic snapshots.         *)
(***************************************************************************)
EXTENDS NotificationHints, CompletionHintLedger, SnapshotCache,
        SyntheticSnapshot, CommonFacts_proofs

-----------------------------------------------------------------------------
(* NotificationHints                                                        *)

\* One file of preferences: its ring, its sequence and its counters.
RingAgrees(p) ==
    LET n == Len(p.hints)
    IN /\ p.accepted < MaxLong => p.sequence = p.accepted
       /\ n = Min({p.accepted, MAX_QUEUE_ENTRIES})
       /\ n > 0 => p.hints[n].sequence = p.sequence
       /\ \A i \in 1..(n - 1) :
            p.hints[i + 1].sequence = NextSequence(p.hints[i].sequence)
       /\ \A i, j \in 1..n : i < j /\ j - i <= MAX_DEDUPE_WINDOW
            => p.hints[i].event # p.hints[j].event

InOrder(p) == p \in Preferences /\ RingAgrees(p)

\* The store, in memory and on the disk.
StoreOK ==
    /\ InOrder(memory) /\ InOrder(disk)
    /\ failures \in 0..MaxFailures

\* The service and its executors: a job belongs to a service instance that was
\* created, one waits only for the instance that is up, and a thread that has
\* not started has no job.
ServiceOK ==
    /\ boot \in 1..MaxProcesses /\ uptime \in 1..MaxProcesses
    /\ service \in {"down", "created", "connected"}
    /\ instance \in 0..MaxStarts
    /\ service # "down" => instance > 0
    /\ threadStarted \in BOOLEAN
    /\ waiting \in Seq(Job) /\ Len(waiting) <= MAX_PENDING_PROJECTIONS
    /\ running \subseteq Job /\ IsFiniteSet(running)
    /\ \A j, k \in running : j.instance = k.instance => j = k
    /\ \A j \in running : j.instance <= instance
    /\ ~threadStarted => waiting = <<>> /\ \A j \in running : j.instance # instance
    /\ \A i \in 1..Len(waiting) : waiting[i].instance = instance
    /\ service = "down" => waiting = <<>>
    /\ due \in Nat

HintsInv == StoreOK /\ ServiceOK /\ Accounted /\ FlagFollowsService

-----------------------------------------------------------------------------

\* The bounds, one by one.
LEMMA Bounds ==
    /\ MaxLong \in Nat /\ MaxLong > 0
    /\ MAX_QUEUE_ENTRIES \in Nat \ {0} /\ MAX_QUEUE_ENTRIES <= MaxLong
    /\ MAX_DEDUPE_WINDOW \in Nat \ {0}
    /\ MAX_PENDING_PROJECTIONS \in Nat \ {0}
    /\ MaxProcesses \in Nat \ {0}
    /\ MaxDelivered \in Nat /\ MaxStarts \in Nat /\ MaxFailures \in Nat
  BY BoundAssumption

\* Counting keeps to the counters' range.
LEMMA Counting ==
    /\ 0 \in Counter /\ 0 \in 0..MaxProcesses
    /\ \A n \in Counter : saturatedIncrement(n) \in Counter
    /\ \A n \in Counter : NextSequence(n) \in Counter /\ NextSequence(n) \in 1..MaxLong
  BY Bounds DEF Counter, saturatedIncrement, NextSequence

\* The lesser of two numbers.
LEMMA MinOfTwo ==
    ASSUME NEW a \in Nat, NEW b \in Nat
    PROVE  Min({a, b}) = IF a <= b THEN a ELSE b
<1> DEFINE m == IF a <= b THEN a ELSE b
<1>1. m \in {a, b} /\ \A y \in {a, b} : m <= y
  OBVIOUS
<1>2. \A x \in {a, b} : (\A y \in {a, b} : x <= y) => x = m
  OBVIOUS
<1> QED BY <1>1, <1>2 DEF Min

\* The newest of a sequence are a window of it that ends where it ends.
LEMMA NewestFacts ==
    ASSUME NEW X, NEW s \in Seq(X), NEW n \in Nat \ {0}
    PROVE  LET t == Newest(s, n)
               k == Len(s) - Len(t)
           IN /\ t \in Seq(X) /\ k \in 0..Len(s)
              /\ Len(t) = IF Len(s) > n THEN n ELSE Len(s)
              /\ \A i \in 1..Len(t) : t[i] = s[i + k]
<1> DEFINE k == IF Len(s) > n THEN Len(s) - n ELSE 0
           t == SubSeq(s, k + 1, Len(s))
<1>1. Newest(s, n) = t
  BY DEF Newest
<1>2. /\ k \in 0..Len(s) /\ Len(s) \in Nat
      /\ Len(s) - k = IF Len(s) > n THEN n ELSE Len(s)
  OBVIOUS
<1> HIDE DEF k
<1>3. t \in Seq(X) /\ Len(t) = Len(s) - k /\ \A i \in 1..Len(t) : t[i] = s[i + k]
  BY <1>2
<1> HIDE DEF t
<1> QED BY <1>1, <1>2, <1>3

\* An empty file is in order.
LEMMA EmptyInOrder ==
    /\ InOrder(Empty)
    /\ \A b \in BOOLEAN, t \in 0..MaxProcesses :
          InOrder([Empty EXCEPT !.listenerConnected = b, !.serviceStarted = t])
<1> SUFFICES ASSUME NEW b \in BOOLEAN, NEW t \in 0..MaxProcesses,
                    NEW p, p = [Empty EXCEPT !.listenerConnected = b,
                                             !.serviceStarted = t]
             PROVE  InOrder(Empty) /\ InOrder(p)
  <2>1. 0 \in 0..MaxProcesses
    BY Counting
  <2> QED BY <2>1
<1>1. Min({0, MAX_QUEUE_ENTRIES}) = 0
  BY Bounds, MinOfTwo
<1>2. ASSUME NEW q, q \in {Empty, p} PROVE InOrder(q)
  <2>1. q \in Preferences
    <3>1. 0 \in 0..MaxProcesses /\ 0 \in Counter /\ <<>> \in Seq(Hint)
      BY Bounds, Counting
    <3>2. Empty \in Preferences
      BY <3>1 DEF Empty, Preferences
    <3>3. p \in Preferences
      BY <3>1 DEF Empty, Preferences
    <3> QED BY <1>2, <3>2, <3>3
  <2>2. q.hints = <<>> /\ q.accepted = 0 /\ q.sequence = 0
    <3>1. Empty.hints = <<>> /\ Empty.accepted = 0 /\ Empty.sequence = 0
      BY DEF Empty
    <3>2. p.hints = <<>> /\ p.accepted = 0 /\ p.sequence = 0
      BY DEF Empty
    <3> QED BY <1>2, <3>1, <3>2
  <2> QED BY <1>1, <2>1, <2>2 DEF InOrder, RingAgrees
<1> QED BY <1>2

\* Changes that leave ring, sequence and number of accepted hints alone.
LEMMA OtherFields ==
    ASSUME NEW p, InOrder(p), NEW q \in Preferences, q.hints = p.hints,
           q.accepted = p.accepted, q.sequence = p.sequence
    PROVE  InOrder(q)
  BY DEF InOrder, RingAgrees

\* An append is in order: the new hint is next in the sequence, and no hint
\* inside the window is of its event.
LEMMA AppendInOrder ==
    ASSUME InOrder(memory), NEW e \in Event
    PROVE  InOrder(Appended(e))
<1> DEFINE counted == [memory EXCEPT !.observed = saturatedIncrement(@)]
           next == NextSequence(memory.sequence)
           hint == [event |-> e, sequence |-> next]
           longer == Append(memory.hints, hint)
           hints == Newest(longer, MAX_QUEUE_ENTRIES)
           p == [counted EXCEPT !.hints = hints, !.sequence = next,
                                !.accepted = saturatedIncrement(@)]
           d == [counted EXCEPT !.duplicates = saturatedIncrement(@)]
<1>1. /\ memory \in Preferences /\ MaxLong \in Nat \ {0}
      /\ MAX_QUEUE_ENTRIES \in Nat \ {0} /\ MAX_QUEUE_ENTRIES <= MaxLong
      /\ MAX_DEDUPE_WINDOW \in Nat \ {0}
  BY Bounds DEF InOrder
<1>2. counted \in Preferences
  <2>1. memory.observed \in Counter
    BY <1>1 DEF Preferences
  <2>2. saturatedIncrement(memory.observed) \in Counter
    BY <2>1, Counting
  <2> QED BY <1>1, <2>2 DEF Preferences
<1>3. CASE containsRecentExactEvent(memory.hints, e)
  <2>1. d \in Preferences
    <3>1. counted.duplicates \in Counter
      BY <1>2 DEF Preferences
    <3>2. saturatedIncrement(counted.duplicates) \in Counter
      BY <3>1, Counting
    <3> HIDE DEF counted
    <3> QED BY <1>2, <3>2 DEF Preferences
  <2>2. /\ d.hints = memory.hints /\ d.accepted = memory.accepted
        /\ d.sequence = memory.sequence
    BY <1>1 DEF Preferences
  <2>3. Appended(e) = d
    BY <1>3 DEF Appended
  <2> HIDE DEF d
  <2> QED BY <2>1, <2>2, <2>3, OtherFields
<1>4. CASE ~containsRecentExactEvent(memory.hints, e)
  <2>1. Appended(e) = p
    BY <1>4 DEF Appended
  <2>2. next \in 1..MaxLong /\ next \in Counter /\ hint \in Hint
    BY <1>1 DEF NextSequence, Preferences, Counter, Hint
  <2>3. memory.hints \in Seq(Hint) /\ memory.accepted \in Counter
    BY <1>1 DEF Preferences
  <2> DEFINE m == Len(memory.hints)
             n == Len(hints)
             k == Len(longer) - Len(hints)
  <2>4. /\ longer \in Seq(Hint) /\ Len(longer) = m + 1 /\ longer[m + 1] = hint
        /\ \A i \in 1..m : longer[i] = memory.hints[i]
        /\ m \in Nat
    BY <2>2, <2>3
  <2> HIDE DEF longer, hint, next
  <2>5. /\ hints \in Seq(Hint) /\ k \in 0..(m + 1)
        /\ n = IF m + 1 > MAX_QUEUE_ENTRIES THEN MAX_QUEUE_ENTRIES ELSE m + 1
        /\ \A i \in 1..n : hints[i] = longer[i + k]
    BY <1>1, <2>4, NewestFacts
  <2>6. n \in Nat /\ k \in Nat /\ k = (m + 1) - n /\ n > 0
    BY <1>1, <2>4, <2>5
  <2> HIDE DEF hints, k, n, m
  <2>7. /\ p \in Preferences /\ p.hints = hints /\ p.sequence = next
        /\ p.accepted = saturatedIncrement(memory.accepted)
    <3>1. saturatedIncrement(memory.accepted) \in Counter
      BY <1>1, <2>3 DEF saturatedIncrement, Counter
    <3> QED BY <1>2, <2>2, <2>5, <3>1 DEF Preferences
  <2> HIDE DEF p, counted
  <2>8. /\ memory.accepted < MaxLong => memory.sequence = memory.accepted
        /\ m = Min({memory.accepted, MAX_QUEUE_ENTRIES})
        /\ m > 0 => memory.hints[m].sequence = memory.sequence
        /\ \A i \in 1..(m - 1) :
             memory.hints[i + 1].sequence = NextSequence(memory.hints[i].sequence)
        /\ \A i, j \in 1..m : i < j /\ j - i <= MAX_DEDUPE_WINDOW
             => memory.hints[i].event # memory.hints[j].event
    BY DEF InOrder, RingAgrees, m
  <2>9. p.accepted < MaxLong => p.sequence = p.accepted
    BY <1>1, <2>3, <2>7, <2>8 DEF saturatedIncrement, Counter, next, NextSequence
  <2>10. n = Min({p.accepted, MAX_QUEUE_ENTRIES})
    <3>1. memory.accepted \in Nat /\ p.accepted \in Nat
      BY <1>1, <2>3, <2>7 DEF saturatedIncrement, Counter
    <3>2. m = IF memory.accepted <= MAX_QUEUE_ENTRIES THEN memory.accepted
                                                     ELSE MAX_QUEUE_ENTRIES
      BY <1>1, <2>8, <3>1, MinOfTwo
    <3>3. Min({p.accepted, MAX_QUEUE_ENTRIES}) =
            IF p.accepted <= MAX_QUEUE_ENTRIES THEN p.accepted ELSE MAX_QUEUE_ENTRIES
      BY <1>1, <3>1, MinOfTwo
    <3> QED BY <1>1, <2>3, <2>5, <2>7, <3>1, <3>2, <3>3
        DEF saturatedIncrement, Counter
  <2>11. hints[n].sequence = next
    <3>1. n \in 1..n /\ n + k = m + 1
      BY <2>4, <2>6
    <3> QED BY <2>4, <2>5, <3>1 DEF hint
  <2>12. ASSUME NEW i \in 1..(n - 1)
         PROVE  hints[i + 1].sequence = NextSequence(hints[i].sequence)
    <3>1. /\ i \in 1..n /\ i + 1 \in 1..n /\ i + k \in 1..m
          /\ hints[i] = longer[i + k] /\ hints[i + 1] = longer[(i + k) + 1]
      <4>1. i \in 1..n /\ i + 1 \in 1..n
        BY <2>6
      <4>2. (i + 1) + k = (i + k) + 1 /\ i + k \in 1..m
        BY <2>4, <2>6
      <4> QED BY <2>5, <4>1, <4>2
    <3>2. CASE i + k = m
      <4>1. hints[i].sequence = memory.sequence /\ hints[i + 1].sequence = next
        <5>1. m > 0
          BY <2>4, <3>1
        <5>2. hints[i] = memory.hints[m] /\ hints[i + 1] = hint
          BY <2>4, <3>1, <3>2
        <5> QED BY <2>8, <5>1, <5>2 DEF hint
      <4> QED BY <4>1 DEF next
    <3>3. CASE i + k # m
      <4>1. /\ i + k \in 1..(m - 1) /\ (i + k) + 1 \in 1..m
            /\ hints[i] = memory.hints[i + k] /\ hints[i + 1] = memory.hints[(i + k) + 1]
        BY <2>4, <3>1, <3>3
      <4> QED BY <2>8, <4>1
    <3> QED BY <3>2, <3>3
  <2>13. ASSUME NEW i \in 1..n, NEW j \in 1..n, i < j, j - i <= MAX_DEDUPE_WINDOW
         PROVE  hints[i].event # hints[j].event
    <3>1. /\ i + k \in 1..m /\ j + k \in 1..(m + 1) /\ i + k < j + k
          /\ (j + k) - (i + k) <= MAX_DEDUPE_WINDOW
          /\ hints[i] = longer[i + k] /\ hints[j] = longer[j + k]
      <4>1. i + k \in 1..m /\ j + k \in 1..(m + 1) /\ i + k < j + k
        BY <2>4, <2>6, <2>13
      <4>2. (j + k) - (i + k) = j - i
        BY <2>4, <2>6
      <4> QED BY <2>5, <2>13, <4>1, <4>2
    <3>2. CASE j + k = m + 1
      <4>1. hints[j].event = e /\ hints[i] = memory.hints[i + k]
        BY <2>4, <3>1, <3>2 DEF hint
      <4>2. m - (i + k) < MAX_DEDUPE_WINDOW
        BY <1>1, <2>4, <3>1, <3>2
      <4>3. i + k \in DOMAIN memory.hints
        BY <2>3, <3>1 DEF m
      <4> QED BY <1>4, <4>1, <4>2, <4>3 DEF containsRecentExactEvent, m
    <3>3. CASE j + k # m + 1
      <4>1. /\ j + k \in 1..m
            /\ hints[i] = memory.hints[i + k] /\ hints[j] = memory.hints[j + k]
        BY <2>4, <3>1, <3>3
      <4> QED BY <2>8, <3>1, <4>1
    <3> QED BY <3>2, <3>3
  <2>14. RingAgrees(p)
    BY <2>7, <2>9, <2>10, <2>11, <2>12, <2>13 DEF RingAgrees, n
  <2> QED BY <2>1, <2>7, <2>14 DEF InOrder
<1> QED BY <1>3, <1>4

-----------------------------------------------------------------------------

\* A write leaves the store in order if what it writes is in order.
LEMMA WriteInOrder ==
    ASSUME StoreOK, NEW p, InOrder(p), Write(p)
    PROVE  StoreOK' /\ memory' = p
<1>1. memory' = p /\ disk' \in {p, disk} /\ failures' \in 0..MaxFailures
  BY Bounds DEF Write, Committed, NotCommitted, StoreOK
<1> USE DEF InOrder, RingAgrees, Preferences, Counter, Hint, NextSequence, Min
<1>2. InOrder(memory)'
  BY <1>1
<1>3. CASE disk' = p
  BY <1>1, <1>2, <1>3 DEF StoreOK
<1>4. CASE disk' = disk
  BY <1>1, <1>2, <1>4 DEF StoreOK
<1> QED BY <1>1, <1>3, <1>4

\* What the service writes about itself, about drops and about errors.
LEMMA WritesInOrder ==
    ASSUME InOrder(memory)
    PROVE  /\ InOrder(RecordError(memory))
           /\ \A b \in BOOLEAN : InOrder(setListenerConnected(memory, b))
           /\ \A n \in Nat : InOrder(RecordDropped(memory, n))
           /\ \A n \in Nat : InOrder(RecordDropped(setListenerConnected(memory, FALSE), n))
           /\ \A t \in 0..MaxProcesses :
                 InOrder([memory EXCEPT !.listenerConnected = FALSE, !.serviceStarted = t])
<1>1. memory \in Preferences
  BY DEF InOrder
<1>2. ASSUME NEW p \in Preferences, InOrder(p), NEW n \in Nat
      PROVE  InOrder(RecordDropped(p, n))
  <2> DEFINE q == RecordDropped(p, n)
  <2>1. p.dropped \in Counter
    BY DEF Preferences
  <2>2. (IF p.dropped + n > MaxLong THEN MaxLong ELSE p.dropped + n) \in Counter
    BY <2>1, Bounds DEF Counter
  <2>3. q \in Preferences
    BY <2>2 DEF Preferences, RecordDropped
  <2>4. q.hints = p.hints /\ q.accepted = p.accepted /\ q.sequence = p.sequence
    BY DEF Preferences, RecordDropped
  <2> HIDE DEF q
  <2>5. InOrder(q)
    BY <1>2, <2>3, <2>4, OtherFields
  <2> QED BY <2>5 DEF q
<1>3. ASSUME NEW b \in BOOLEAN
      PROVE  InOrder(setListenerConnected(memory, b))
  <2> DEFINE q == setListenerConnected(memory, b)
  <2>1. q \in Preferences
    BY <1>1 DEF Preferences, setListenerConnected
  <2>2. q.hints = memory.hints /\ q.accepted = memory.accepted /\ q.sequence = memory.sequence
    BY <1>1 DEF Preferences, setListenerConnected
  <2> HIDE DEF q
  <2>5. InOrder(q)
    BY <2>1, <2>2, OtherFields
  <2> QED BY <2>5 DEF q
<1>4. InOrder(RecordError(memory))
  <2> DEFINE q == RecordError(memory)
  <2>1. memory.errors \in Counter
    BY <1>1 DEF Preferences
  <2>2. saturatedIncrement(memory.errors) \in Counter
    BY <2>1, Counting
  <2>3. q \in Preferences
    BY <1>1, <2>2 DEF Preferences, RecordError
  <2>4. q.hints = memory.hints /\ q.accepted = memory.accepted /\ q.sequence = memory.sequence
    BY <1>1 DEF Preferences, RecordError
  <2> HIDE DEF q
  <2>5. InOrder(q)
    BY <2>3, <2>4, OtherFields
  <2> QED BY <2>5 DEF q
<1>5. ASSUME NEW t \in 0..MaxProcesses
      PROVE  InOrder([memory EXCEPT !.listenerConnected = FALSE, !.serviceStarted = t])
  <2> DEFINE q == [memory EXCEPT !.listenerConnected = FALSE, !.serviceStarted = t]
  <2>1. q \in Preferences
    BY <1>1 DEF Preferences
  <2>2. q.hints = memory.hints /\ q.accepted = memory.accepted /\ q.sequence = memory.sequence
    BY <1>1 DEF Preferences
  <2> HIDE DEF q
  <2>5. InOrder(q)
    BY <2>1, <2>2, OtherFields
  <2> QED BY <2>5 DEF q
<1>6. ASSUME NEW n \in Nat
      PROVE  InOrder(RecordDropped(setListenerConnected(memory, FALSE), n))
  <2> DEFINE p == setListenerConnected(memory, FALSE)
  <2>1. InOrder(p) /\ p \in Preferences
    BY <1>3 DEF InOrder
  <2> HIDE DEF p
  <2> QED BY <1>2, <2>1 DEF p
<1> QED BY <1>1, <1>2, <1>3, <1>4, <1>5, <1>6

\* The number of events counted is a number.
LEMMA TotalIsNumber ==
    ASSUME NEW p \in Preferences
    PROVE  Total(p) \in Nat /\ p.observed \in Nat /\ p.dropped \in Nat /\ p.errors \in Nat
<1>1. p.observed \in Counter /\ p.dropped \in Counter /\ p.errors \in Counter
  BY DEF Preferences
<1>2. p.observed \in Nat /\ p.dropped \in Nat /\ p.errors \in Nat
  BY <1>1, Bounds DEF Counter
<1> QED BY <1>2 DEF Total

\* What the listener flag, the drops and the errors do to the counters.
LEMMA Counters ==
    ASSUME memory \in Preferences
    PROVE  /\ Total(memory) \in Nat
           /\ \A n \in Nat, b \in BOOLEAN :
                LET p == RecordDropped(setListenerConnected(memory, b), n)
                IN /\ p.listenerConnected = b
                   /\ p.observed = memory.observed /\ p.errors = memory.errors
                   /\ p.dropped < MaxLong => p.dropped = memory.dropped + n
           /\ \A n \in Nat :
                LET p == RecordDropped(memory, n)
                IN /\ p.listenerConnected = memory.listenerConnected
                   /\ p.observed = memory.observed /\ p.errors = memory.errors
                   /\ p.dropped < MaxLong => p.dropped = memory.dropped + n
           /\ LET p == RecordError(memory)
              IN /\ p.listenerConnected = memory.listenerConnected
                 /\ p.observed = memory.observed /\ p.dropped = memory.dropped
                 /\ p.errors < MaxLong => p.errors = memory.errors + 1
           /\ \A e \in Event :
                LET p == Appended(e)
                IN /\ p.listenerConnected = memory.listenerConnected
                   /\ p.errors = memory.errors /\ p.dropped = memory.dropped
                   /\ p.observed < MaxLong => p.observed = memory.observed + 1
<1>1. /\ memory.observed \in Counter /\ memory.dropped \in Counter
      /\ memory.errors \in Counter /\ MaxLong \in Nat
  BY Bounds DEF Preferences
<1>2. Total(memory) \in Nat
  BY <1>1 DEF Total, Counter
<1>3. ASSUME NEW n \in Nat, NEW b \in BOOLEAN, NEW p,
             p = RecordDropped(setListenerConnected(memory, b), n)
      PROVE  /\ p.listenerConnected = b
             /\ p.observed = memory.observed /\ p.errors = memory.errors
             /\ p.dropped < MaxLong => p.dropped = memory.dropped + n
  BY <1>1, <1>3 DEF Preferences, RecordDropped, setListenerConnected
<1>4. ASSUME NEW n \in Nat, NEW p, p = RecordDropped(memory, n)
      PROVE  /\ p.listenerConnected = memory.listenerConnected
             /\ p.observed = memory.observed /\ p.errors = memory.errors
             /\ p.dropped < MaxLong => p.dropped = memory.dropped + n
  BY <1>1, <1>4 DEF Preferences, RecordDropped
<1>5. ASSUME NEW p, p = RecordError(memory)
      PROVE  /\ p.listenerConnected = memory.listenerConnected
             /\ p.observed = memory.observed /\ p.dropped = memory.dropped
             /\ p.errors < MaxLong => p.errors = memory.errors + 1
  BY <1>1, <1>5 DEF Preferences, RecordError, saturatedIncrement
<1>6. ASSUME NEW e \in Event, NEW p, p = Appended(e)
      PROVE  /\ p.listenerConnected = memory.listenerConnected
             /\ p.errors = memory.errors /\ p.dropped = memory.dropped
             /\ p.observed < MaxLong => p.observed = memory.observed + 1
  <2> DEFINE counted == [memory EXCEPT !.observed = saturatedIncrement(@)]
  <2>1. /\ p.listenerConnected = counted.listenerConnected
        /\ p.errors = counted.errors /\ p.dropped = counted.dropped
        /\ p.observed = counted.observed
    BY <1>6 DEF Preferences, Appended
  <2>2. /\ counted.listenerConnected = memory.listenerConnected
        /\ counted.errors = memory.errors /\ counted.dropped = memory.dropped
        /\ counted.observed = saturatedIncrement(memory.observed)
    BY DEF Preferences
  <2> HIDE DEF counted
  <2> QED BY <1>1, <2>1, <2>2 DEF saturatedIncrement
<1> QED BY <1>2, <1>3, <1>4, <1>5, <1>6

-----------------------------------------------------------------------------

\* Steps that leave the store alone.
LEMMA StoreKept ==
    ASSUME StoreOK, UNCHANGED preferences
    PROVE  StoreOK'
<1>1. memory' = memory /\ disk' = disk /\ failures' = failures
  BY DEF preferences
<1> USE DEF InOrder, RingAgrees, Preferences, Counter, Hint, NextSequence, Min
<1>2. InOrder(memory)'
  BY <1>1 DEF StoreOK
<1>3. InOrder(disk)'
  BY <1>1 DEF StoreOK
<1> QED BY <1>1, <1>2, <1>3 DEF StoreOK

\* Every step leaves the store in order.
LEMMA StoreStep ==
    HintsInv /\ [Next]_vars => StoreOK'
<1> SUFFICES ASSUME HintsInv, [Next]_vars PROVE StoreOK'
  OBVIOUS
<1>0. /\ StoreOK /\ InOrder(memory) /\ memory \in Preferences
      /\ waiting \in Seq(Job) /\ running \subseteq Job /\ uptime \in 0..MaxProcesses
      /\ TRUE \in BOOLEAN /\ FALSE \in BOOLEAN
  BY Bounds DEF HintsInv, StoreOK, InOrder, ServiceOK
<1>1. CASE UNCHANGED vars
  BY <1>0, <1>1, StoreKept DEF vars
<1>2. CASE onCreate
  BY <1>0, <1>2, WritesInOrder, WriteInOrder DEF onCreate, markServiceStarted
<1>3. CASE onListenerConnected
  BY <1>0, <1>3, WritesInOrder, WriteInOrder DEF onListenerConnected
<1>4. CASE onListenerDisconnected
  BY <1>0, <1>4, WritesInOrder, WriteInOrder DEF onListenerDisconnected
<1>5. CASE onDestroy
  <2>1. Len(waiting) \in Nat
    BY <1>0
  <2> QED BY <1>0, <1>5, <2>1, WritesInOrder, WriteInOrder DEF onDestroy
<1>6. CASE SubmitMalformed
  BY <1>0, <1>6, WritesInOrder, WriteInOrder DEF SubmitMalformed
<1>7. ASSUME NEW e \in Event, SubmitFirst(e) \/ SubmitQueued(e) PROVE StoreOK'
  BY <1>0, <1>7, StoreKept DEF SubmitFirst, SubmitQueued, preferences
<1>8. CASE SubmitRejected
  BY <1>0, <1>8, WritesInOrder, WriteInOrder DEF SubmitRejected
<1>9. CASE Take
  BY <1>0, <1>9, StoreKept DEF Take
<1>10. ASSUME NEW j \in running,
              ProjectFails(j) \/ append(j) \/ AppendFails(j) \/ recordError(j)
       PROVE  StoreOK'
  <2>1. CASE ProjectFails(j)
    BY <1>0, <2>1, StoreKept DEF ProjectFails
  <2>2. j.event \in Event
    BY <1>0 DEF Job
  <2>3. CASE append(j)
    BY <1>0, <2>2, <2>3, AppendInOrder, WriteInOrder DEF append, Write
  <2>4. CASE AppendFails(j)
    BY <1>0, <2>2, <2>4, AppendInOrder, WriteInOrder DEF AppendFails, Write
  <2>5. CASE recordError(j)
    BY <1>0, <2>5, WritesInOrder, WriteInOrder DEF recordError
  <2> QED BY <1>10, <2>1, <2>3, <2>4, <2>5
<1>11. CASE clearHints
  <2>1. /\ memory.listenerConnected \in BOOLEAN
        /\ memory.serviceStarted \in 0..MaxProcesses
    BY <1>0 DEF Preferences
  <2> QED BY <1>0, <1>11, <2>1, EmptyInOrder, WriteInOrder DEF clearHints, Cleared
<1>12. CASE clearAll
  BY <1>0, <1>12, EmptyInOrder, WriteInOrder DEF clearAll
<1>13. CASE NewProcess
  BY <1>0, <1>13 DEF NewProcess, StoreOK, InOrder, RingAgrees, Preferences,
                     Counter, Hint, NextSequence, Min
<1> QED
  BY <1>1, <1>2, <1>3, <1>4, <1>5, <1>6, <1>7, <1>8, <1>9, <1>10, <1>11, <1>12,
     <1>13 DEF Next, Kill, Reboot

\* Every step leaves service and executors in order.
LEMMA ServiceStep ==
    HintsInv /\ [Next]_vars => ServiceOK'
<1> SUFFICES ASSUME HintsInv, [Next]_vars PROVE ServiceOK'
  OBVIOUS
<1>0. ServiceOK /\ MaxDelivered \in Nat /\ MaxStarts \in Nat /\ MaxProcesses \in Nat
  BY Bounds DEF HintsInv
<1>1. UNCHANGED <<process, lifecycle, executor>> /\ due' \in Nat => ServiceOK'
  BY <1>0 DEF ServiceOK, process, lifecycle, executor
<1>2. CASE UNCHANGED vars
  BY <1>0, <1>1, <1>2 DEF vars, ServiceOK
<1>3. CASE onCreate
  <2>1. /\ service = "down" /\ instance' = instance + 1 /\ instance' \in 1..MaxStarts
        /\ service' = "created" /\ threadStarted' = FALSE
        /\ UNCHANGED <<process, waiting, running, due>>
    BY <1>0, <1>3 DEF onCreate, ServiceOK
  <2>2. waiting' = <<>> /\ \A j \in running : j.instance <= instance /\ j.instance \in Nat
    BY <1>0, <2>1 DEF ServiceOK, Job
  <2>3. \A j \in running : j.instance <= instance' /\ j.instance # instance'
    BY <1>0, <2>1, <2>2 DEF ServiceOK
  <2>4. waiting' \in Seq(Job) /\ Len(waiting') = 0 /\ Len(waiting') <= MAX_PENDING_PROJECTIONS
    BY <2>2, Bounds
  <2>5. /\ running' = running /\ boot' = boot /\ uptime' = uptime /\ due' = due
        /\ running \subseteq Job /\ IsFiniteSet(running)
        /\ \A j, k \in running : j.instance = k.instance => j = k
        /\ boot \in 1..MaxProcesses /\ uptime \in 1..MaxProcesses /\ due \in Nat
    BY <1>0, <2>1 DEF ServiceOK, process
  <2>6. \A i \in 1..Len(waiting') : waiting'[i].instance = instance'
    BY <2>4
  <2>7. /\ service' \in {"down", "created", "connected"} /\ service' # "down"
        /\ threadStarted' \in BOOLEAN
    BY <2>1
  <2>9. instance' \in 0..MaxStarts /\ instance' > 0
    BY <1>0, <2>1
  <2>8. \A j \in running : j.instance <= instance' /\ j.instance # instance'
    BY <2>3
  <2> HIDE DEF ServiceOK
  <2> QED BY <2>2, <2>4, <2>5, <2>6, <2>7, <2>8, <2>9 DEF ServiceOK
<1>4. CASE onListenerConnected \/ onListenerDisconnected
  BY <1>0, <1>4
  DEF onListenerConnected, onListenerDisconnected, ServiceOK, process, executor
<1>5. CASE onDestroy
  BY <1>0, <1>5, Bounds DEF onDestroy, ServiceOK, process
<1>6. Delivered => /\ due' \in Nat /\ UNCHANGED <<process, lifecycle>>
                   /\ instance \in 1..MaxStarts
  BY <1>0 DEF Delivered, ServiceOK
<1>7. CASE SubmitMalformed \/ SubmitRejected
  BY <1>1, <1>6, <1>7 DEF SubmitMalformed, SubmitRejected
<1>8. ASSUME NEW e \in Event, SubmitFirst(e) PROVE ServiceOK'
  <2>1. NewJob(e) \in Job /\ NewJob(e).instance = instance
    BY <1>6, <1>8 DEF SubmitFirst, NewJob, Job
  <2>2. /\ ~threadStarted /\ threadStarted' = TRUE
        /\ running' = running \union {NewJob(e)} /\ waiting' = waiting
        /\ due' \in Nat /\ UNCHANGED <<process, lifecycle>>
    BY <1>6, <1>8 DEF SubmitFirst
  <2>3. IsFiniteSet(running') /\ running' \subseteq Job
    BY <1>0, <2>1, <2>2, FS_AddElement DEF ServiceOK
  <2> QED BY <1>0, <2>1, <2>2, <2>3 DEF ServiceOK, process, lifecycle
<1>9. ASSUME NEW e \in Event, SubmitQueued(e) PROVE ServiceOK'
  <2>1. NewJob(e) \in Job /\ NewJob(e).instance = instance
    BY <1>6, <1>9 DEF SubmitQueued, NewJob, Job
  <2>2. /\ Len(waiting) < MAX_PENDING_PROJECTIONS
        /\ waiting' = Append(waiting, NewJob(e))
        /\ due' \in Nat /\ UNCHANGED <<process, lifecycle, threadStarted, running>>
        /\ service = "connected" /\ threadStarted
    BY <1>6, <1>9 DEF SubmitQueued, Delivered
  <2>3. /\ waiting' \in Seq(Job) /\ Len(waiting') <= MAX_PENDING_PROJECTIONS
        /\ \A i \in 1..Len(waiting') : waiting'[i].instance = instance
    BY <1>0, <2>1, <2>2, Bounds DEF ServiceOK
  <2> QED BY <1>0, <2>2, <2>3 DEF ServiceOK, process, lifecycle
<1>10. CASE Take
  <2> DEFINE h == Head(waiting)
  <2>1. /\ waiting # <<>> /\ running' = running \union {h} /\ waiting' = Tail(waiting)
        /\ \A j \in running : j.instance # instance
        /\ UNCHANGED <<process, lifecycle, threadStarted, due>>
    BY <1>10 DEF Take
  <2>2. /\ h \in Job /\ h.instance = instance
        /\ waiting' \in Seq(Job) /\ Len(waiting') <= MAX_PENDING_PROJECTIONS
        /\ \A i \in 1..Len(waiting') : waiting'[i].instance = instance
        /\ service # "down"
    <3>1. /\ Len(waiting) \in Nat /\ Len(waiting) > 0 /\ h = waiting[1]
          /\ waiting' \in Seq(Job) /\ Len(waiting') = Len(waiting) - 1
          /\ \A i \in 1..Len(waiting') : waiting'[i] = waiting[i + 1]
      BY <1>0, <2>1 DEF ServiceOK
    <3> HIDE DEF h
    <3>2. h \in Job /\ h.instance = instance /\ service # "down"
      BY <1>0, <2>1, <3>1 DEF ServiceOK
    <3>3. \A i \in 1..Len(waiting') : waiting'[i].instance = instance
      <4>1. \A i \in 1..Len(waiting') : i + 1 \in 1..Len(waiting)
        BY <3>1
      <4> QED BY <1>0, <3>1, <4>1 DEF ServiceOK
    <3> QED BY <1>0, <3>1, <3>2, <3>3, Bounds DEF ServiceOK
  <2> HIDE DEF h
  <2>3. IsFiniteSet(running') /\ running' \subseteq Job
    BY <1>0, <2>1, <2>2, FS_AddElement DEF ServiceOK
  <2>4. threadStarted
    BY <1>0, <2>1, <2>2 DEF ServiceOK
  <2> QED BY <1>0, <2>1, <2>2, <2>3, <2>4 DEF ServiceOK, process, lifecycle
<1>11. ASSUME NEW j \in running, NEW f \in {[j EXCEPT !.failed = TRUE]},
              running' \in {running \ {j}, (running \ {j}) \union {f}}, due' \in Nat,
              UNCHANGED <<process, lifecycle, threadStarted, waiting>>
       PROVE  ServiceOK'
  <2>1. f \in Job /\ f.instance = j.instance
    BY <1>0 DEF ServiceOK, Job
  <2>2. IsFiniteSet(running \ {j})
    BY <1>0, FS_RemoveElement DEF ServiceOK
  <2>3. IsFiniteSet(running') /\ running' \subseteq Job
    <3>1. IsFiniteSet((running \ {j}) \union {f})
      BY <2>2, FS_AddElement
    <3> QED BY <1>0, <1>11, <2>1, <2>2, <3>1 DEF ServiceOK
  <2>4. \A k \in running' : k \in running \ {j} \/ k = f
    BY <1>11
  <2>5. /\ \A k, l \in running' : k.instance = l.instance => k = l
        /\ \A k \in running' : k.instance <= instance
        /\ ~threadStarted => \A k \in running' : k.instance # instance
    BY <1>0, <2>1, <2>4 DEF ServiceOK
  <2> QED BY <1>0, <1>11, <2>3, <2>5 DEF ServiceOK, process, lifecycle
<1>12. ASSUME NEW j \in running,
              ProjectFails(j) \/ append(j) \/ AppendFails(j) \/ recordError(j)
       PROVE  ServiceOK'
  <2>1. due \in Nat
    BY <1>0 DEF ServiceOK
  <2>2. /\ running' \in {running \ {j}, (running \ {j}) \union {[j EXCEPT !.failed = TRUE]}}
        /\ due' \in Nat /\ UNCHANGED <<process, lifecycle, threadStarted, waiting>>
    BY <1>12, <2>1 DEF ProjectFails, append, AppendFails, recordError
  <2> QED BY <1>11, <2>2
<1>13. CASE clearHints \/ clearAll
  <2>1. InFlight \in Nat
    BY <1>0, FS_CardinalityType DEF ServiceOK, InFlight
  <2> QED BY <1>1, <1>13, <2>1 DEF clearHints, clearAll
<1>14. CASE Kill \/ Reboot
  <2>1. Total(disk) \in Nat
    BY TotalIsNumber DEF HintsInv, StoreOK, InOrder
  <2>2. boot' \in 1..MaxProcesses /\ uptime' \in 1..MaxProcesses
    BY <1>0, <1>14 DEF Kill, Reboot, Bounded, ServiceOK
  <2>3. /\ service' = "down" /\ instance' = 0 /\ threadStarted' = FALSE
        /\ waiting' = <<>> /\ running' = {} /\ due' \in Nat
    BY <1>14, <2>1 DEF Kill, Reboot, NewProcess
  <2>4. /\ IsFiniteSet(running') /\ waiting' \in Seq(Job) /\ Len(waiting') = 0
        /\ Len(waiting') <= MAX_PENDING_PROJECTIONS
    BY <2>3, FS_EmptySet, Bounds
  <2>5. \A i \in 1..Len(waiting') : waiting'[i].instance = instance'
    BY <2>4
  <2>6. /\ service' \in {"down", "created", "connected"}
        /\ threadStarted' \in BOOLEAN
        /\ service' = "down" /\ waiting' = <<>> /\ running' = {}
    BY <2>3
  <2>7. instance' \in 0..MaxStarts /\ ~(instance' > 0)
    BY <1>0, <2>3
  <2> QED BY <2>2, <2>3, <2>4, <2>5, <2>6, <2>7 DEF ServiceOK
<1> QED
  BY <1>2, <1>3, <1>4, <1>5, <1>7, <1>8, <1>9, <1>10, <1>12, <1>13, <1>14 DEF Next

\* Every step leaves each event accounted for.
LEMMA AccountStep ==
    HintsInv /\ [Next]_vars => Accounted'
<1> SUFFICES ASSUME HintsInv, [Next]_vars,
                    memory'.observed < MaxLong, memory'.dropped < MaxLong,
                    memory'.errors < MaxLong
             PROVE  Total(memory') + InFlight' = due'
  BY DEF Accounted, Total, InFlight
<1>0. /\ memory \in Preferences /\ waiting \in Seq(Job) /\ IsFiniteSet(running)
      /\ memory.observed \in Nat /\ memory.dropped \in Nat /\ memory.errors \in Nat
      /\ Len(waiting) \in Nat /\ Cardinality(running) \in Nat /\ MaxLong \in Nat
      /\ due \in Nat /\ running \subseteq Job
  <2>1. /\ memory \in Preferences /\ waiting \in Seq(Job) /\ IsFiniteSet(running)
        /\ due \in Nat /\ running \subseteq Job
    BY DEF HintsInv, StoreOK, InOrder, ServiceOK
  <2>2. memory.observed \in Nat /\ memory.dropped \in Nat /\ memory.errors \in Nat
    BY <2>1, TotalIsNumber
  <2>3. Cardinality(running) \in Nat
    BY <2>1, FS_CardinalityType
  <2>4. Len(waiting) \in Nat
    BY <2>1
  <2> QED BY <2>1, <2>2, <2>3, <2>4, Bounds
<1>1. \/ memory.observed >= MaxLong \/ memory.dropped >= MaxLong
      \/ memory.errors >= MaxLong
      \/ memory.observed + memory.dropped + memory.errors
            + Len(waiting) + Cardinality(running) = due
  <2>1. Accounted
    BY DEF HintsInv
  <2>2. CASE \A n \in {memory.observed, memory.dropped, memory.errors} : n < MaxLong
    <3>1. Total(memory) + InFlight = due
      BY <2>1, <2>2 DEF Accounted
    <3>2. /\ Total(memory) = memory.observed + memory.dropped + memory.errors
          /\ InFlight = Len(waiting) + Cardinality(running)
      BY DEF Total, InFlight
    <3>3. PICK o \in Nat, d \in Nat, e \in Nat, w \in Nat, c \in Nat :
            /\ o = memory.observed /\ d = memory.dropped /\ e = memory.errors
            /\ w = Len(waiting) /\ c = Cardinality(running)
      BY <1>0
    <3>4. (o + d + e) + (w + c) = due => o + d + e + w + c = due
      BY <1>0
    <3> QED BY <3>1, <3>2, <3>3, <3>4
  <2>3. CASE \E n \in {memory.observed, memory.dropped, memory.errors} : ~(n < MaxLong)
    BY <1>0, <2>3
  <2> QED BY <2>2, <2>3
<1>2. \A p : Write(p) => memory' = p
  BY DEF Write, Committed, NotCommitted
<1> DEFINE Grows(o, d, e, l, c, u) ==
        /\ memory'.observed = memory.observed + o
        /\ memory'.dropped = memory.dropped + d /\ memory'.errors = memory.errors + e
        /\ Len(waiting') = l /\ Cardinality(running') = c /\ due' = due + u
<1>3. ASSUME NEW o \in Nat, NEW d \in Nat, NEW e \in Nat, NEW l \in Nat,
             NEW c \in Nat, NEW u \in Nat, Grows(o, d, e, l, c, u),
             o + d + e + l + c = Len(waiting) + Cardinality(running) + u
      PROVE  Total(memory') + InFlight' = due'
  <2> DEFINE mo == memory.observed
             md == memory.dropped
             me == memory.errors
             w == Len(waiting)
             r == Cardinality(running)
  <2>1. /\ Total(memory') = (mo + o) + (md + d) + (me + e)
        /\ InFlight' = l + c /\ due' = due + u
        /\ mo + o < MaxLong /\ md + d < MaxLong /\ me + e < MaxLong
    BY <1>3 DEF Total, InFlight
  <2>2. /\ mo \in Nat /\ md \in Nat /\ me \in Nat /\ w \in Nat /\ r \in Nat
        /\ due \in Nat /\ MaxLong \in Nat
        /\ \/ mo >= MaxLong \/ md >= MaxLong \/ me >= MaxLong
           \/ mo + md + me + w + r = due
        /\ o + d + e + l + c = w + r + u
    BY <1>0, <1>1, <1>3
  <2> HIDE DEF mo, md, me, w, r
  <2> QED BY <2>1, <2>2
<1>4. CASE UNCHANGED vars
  <2>1. Grows(0, 0, 0, Len(waiting), Cardinality(running), 0)
    BY <1>0, <1>4 DEF vars, preferences, executor
  <2> HIDE DEF Grows
  <2> QED BY <1>0, <1>3, <2>1
<1>5. CASE onCreate
  <2>1. memory' = [memory EXCEPT !.listenerConnected = FALSE, !.serviceStarted = uptime]
    BY <1>2, <1>5 DEF onCreate, markServiceStarted
  <2>2. Grows(0, 0, 0, Len(waiting), Cardinality(running), 0)
    BY <1>0, <1>5, <2>1 DEF onCreate, Preferences
  <2> HIDE DEF Grows
  <2> QED BY <1>0, <1>3, <2>2
<1>6. CASE onListenerConnected \/ onListenerDisconnected
  <2>1. PICK b \in BOOLEAN : memory' = setListenerConnected(memory, b)
    BY <1>2, <1>6 DEF onListenerConnected, onListenerDisconnected
  <2>2. Grows(0, 0, 0, Len(waiting), Cardinality(running), 0)
    BY <1>0, <1>6, <2>1
    DEF onListenerConnected, onListenerDisconnected, Preferences, executor,
        setListenerConnected
  <2> HIDE DEF Grows
  <2> QED BY <1>0, <1>3, <2>2
<1>7. CASE onDestroy
  <2>1. memory' = RecordDropped(setListenerConnected(memory, FALSE), Len(waiting))
    BY <1>2, <1>7 DEF onDestroy
  <2>2. /\ memory'.observed = memory.observed /\ memory'.errors = memory.errors
        /\ memory'.dropped = memory.dropped + Len(waiting)
    BY <1>0, <2>1, Counters
  <2>3. Grows(0, Len(waiting), 0, 0, Cardinality(running), 0)
    BY <1>0, <1>7, <2>2 DEF onDestroy
  <2> HIDE DEF Grows
  <2> QED BY <1>0, <1>3, <2>3
<1>8. CASE SubmitMalformed
  <2>1. memory' = RecordError(memory)
    BY <1>2, <1>8 DEF SubmitMalformed
  <2>2. Grows(0, 0, 1, Len(waiting), Cardinality(running), 1)
    BY <1>0, <1>8, <2>1, Counters DEF SubmitMalformed, executor, Delivered
  <2> HIDE DEF Grows
  <2> QED BY <1>0, <1>3, <2>2
<1>9. ASSUME NEW e \in Event, SubmitFirst(e) PROVE Total(memory') + InFlight' = due'
  <2>1. NewJob(e) \notin running
    BY <1>9 DEF HintsInv, ServiceOK, SubmitFirst, NewJob
  <2>2. Cardinality(running') = Cardinality(running) + 1
    BY <1>0, <1>9, <2>1, FS_AddElement DEF SubmitFirst
  <2>3. Grows(0, 0, 0, Len(waiting), Cardinality(running) + 1, 1)
    BY <1>0, <1>9, <2>2 DEF SubmitFirst, preferences, Delivered
  <2>4. Cardinality(running) + 1 \in Nat /\ 0 \in Nat /\ 1 \in Nat
    BY <1>0
  <2> HIDE DEF Grows
  <2> QED BY <1>0, <1>3, <2>3, <2>4
<1>10. ASSUME NEW e \in Event, SubmitQueued(e) PROVE Total(memory') + InFlight' = due'
  <2>1. NewJob(e) \in Job
    BY <1>10 DEF HintsInv, ServiceOK, SubmitQueued, Delivered, NewJob, Job
  <2>2. Len(waiting') = Len(waiting) + 1
    BY <1>0, <1>10, <2>1 DEF SubmitQueued
  <2> DEFINE l == Len(waiting) + 1
  <2>3. Grows(0, 0, 0, l, Cardinality(running), 1)
    BY <1>0, <1>10, <2>2 DEF SubmitQueued, preferences, Delivered
  <2>4. /\ l \in Nat
        /\ 0 + 0 + 0 + l + Cardinality(running) = Len(waiting) + Cardinality(running) + 1
    BY <1>0
  <2> HIDE DEF Grows, l
  <2> QED BY <1>0, <1>3, <2>3, <2>4
<1>11. CASE SubmitRejected
  <2>1. memory' = RecordDropped(memory, 1)
    BY <1>2, <1>11 DEF SubmitRejected
  <2>2. Grows(0, 1, 0, Len(waiting), Cardinality(running), 1)
    BY <1>0, <1>11, <2>1, Counters DEF SubmitRejected, executor, Delivered
  <2> HIDE DEF Grows
  <2> QED BY <1>0, <1>3, <2>2
<1>12. CASE Take
  <2>1. /\ Len(waiting) > 0 /\ Len(waiting') = Len(waiting) - 1
        /\ Head(waiting) = waiting[1]
    BY <1>0, <1>12 DEF Take
  <2>2. Head(waiting) \notin running
    BY <1>0, <1>12, <2>1 DEF Take, HintsInv, ServiceOK
  <2>3. Cardinality(running') = Cardinality(running) + 1
    BY <1>0, <1>12, <2>2, FS_AddElement DEF Take
  <2>4. Grows(0, 0, 0, Len(waiting) - 1, Cardinality(running) + 1, 0)
    BY <1>0, <1>12, <2>1, <2>3 DEF Take, preferences
  <2>5. Len(waiting) - 1 \in Nat /\ Cardinality(running) + 1 \in Nat
    BY <1>0, <2>1
  <2> HIDE DEF Grows
  <2> QED BY <1>0, <1>3, <2>4, <2>5
<1>13. ASSUME NEW j \in running
       PROVE  /\ Cardinality(running \ {j}) = Cardinality(running) - 1
              /\ Cardinality(running) - 1 \in Nat
              /\ ~j.failed => Cardinality((running \ {j}) \union
                                  {[j EXCEPT !.failed = TRUE]}) = Cardinality(running)
  <2> DEFINE f == [j EXCEPT !.failed = TRUE]
  <2>1. /\ IsFiniteSet(running \ {j}) /\ Cardinality(running \ {j}) = Cardinality(running) - 1
        /\ Cardinality(running \ {j}) \in Nat
    BY <1>0, FS_RemoveElement, FS_CardinalityType
  <2>2. f.instance = j.instance
    BY <1>0 DEF Job
  <2> HIDE DEF f
  <2>3. f \notin running \ {j}
    BY <2>2 DEF HintsInv, ServiceOK
  <2>4. Cardinality((running \ {j}) \union {f}) = Cardinality(running \ {j}) + 1
    BY <2>1, <2>3, FS_AddElement
  <2> QED BY <1>0, <2>1, <2>4 DEF f
<1>14. ASSUME NEW j \in running, ProjectFails(j)
       PROVE  Total(memory') + InFlight' = due'
  <2>0. Cardinality(running') = Cardinality(running)
    BY <1>13, <1>14 DEF ProjectFails
  <2>1. Grows(0, 0, 0, Len(waiting), Cardinality(running), 0)
    BY <1>0, <1>14, <2>0 DEF ProjectFails, preferences
  <2> HIDE DEF Grows
  <2> QED BY <1>0, <1>3, <2>1
<1>15. ASSUME NEW j \in running, append(j)
       PROVE  Total(memory') + InFlight' = due'
  <2>1. memory' = Appended(j.event) /\ j.event \in Event
    BY <1>0, <1>15 DEF append, Committed, Job
  <2>2. Cardinality(running') = Cardinality(running) - 1 /\ Cardinality(running) - 1 \in Nat
    BY <1>13, <1>15 DEF append
  <2>3. /\ memory'.observed = memory.observed + 1
        /\ memory'.errors = memory.errors /\ memory'.dropped = memory.dropped
    BY <1>0, <2>1, Counters
  <2>4. Grows(1, 0, 0, Len(waiting), Cardinality(running) - 1, 0)
    BY <1>0, <1>15, <2>2, <2>3 DEF append
  <2> HIDE DEF Grows
  <2> QED BY <1>0, <1>3, <2>2, <2>4
<1>16. ASSUME NEW j \in running, AppendFails(j)
       PROVE  Total(memory') + InFlight' = due'
  <2>1. memory' = Appended(j.event) /\ j.event \in Event
    BY <1>0, <1>16 DEF AppendFails, NotCommitted, Job
  <2>2. Cardinality(running') = Cardinality(running)
    BY <1>13, <1>16 DEF AppendFails
  <2>3. /\ memory'.observed = memory.observed + 1
        /\ memory'.errors = memory.errors /\ memory'.dropped = memory.dropped
    BY <1>0, <2>1, Counters
  <2>4. Grows(1, 0, 0, Len(waiting), Cardinality(running), 1)
    BY <1>0, <1>16, <2>2, <2>3 DEF AppendFails
  <2> HIDE DEF Grows
  <2> QED BY <1>0, <1>3, <2>4
<1>17. ASSUME NEW j \in running, recordError(j)
       PROVE  Total(memory') + InFlight' = due'
  <2>1. memory' = RecordError(memory)
    BY <1>2, <1>17 DEF recordError
  <2>2. Cardinality(running') = Cardinality(running) - 1 /\ Cardinality(running) - 1 \in Nat
    BY <1>13, <1>17 DEF recordError
  <2>3. Grows(0, 0, 1, Len(waiting), Cardinality(running) - 1, 0)
    BY <1>0, <1>17, <2>1, <2>2, Counters DEF recordError
  <2> HIDE DEF Grows
  <2> QED BY <1>0, <1>3, <2>2, <2>3
<1>18. CASE clearHints \/ clearAll
  <2>1. memory' \in {Empty, Cleared} /\ due' = InFlight /\ UNCHANGED executor
    BY <1>2, <1>18 DEF clearHints, clearAll
  <2>2. /\ Empty.observed = 0 /\ Empty.dropped = 0 /\ Empty.errors = 0
        /\ Cleared.observed = 0 /\ Cleared.dropped = 0 /\ Cleared.errors = 0
    BY DEF Empty, Cleared
  <2>3. InFlight' = InFlight /\ InFlight \in Nat
    BY <1>0, <2>1 DEF InFlight, executor
  <2>4. Total(memory') = 0
    BY <2>1, <2>2 DEF Total
  <2> QED BY <2>1, <2>3, <2>4
<1>19. CASE NewProcess
  <2>1. memory' = disk /\ due' = Total(disk) /\ waiting' = <<>> /\ running' = {}
    BY <1>19 DEF NewProcess
  <2>2. InFlight' = 0
    BY <2>1, FS_EmptySet DEF InFlight
  <2>3. Total(disk) \in Nat
    BY TotalIsNumber DEF HintsInv, StoreOK, InOrder
  <2> QED BY <2>1, <2>2, <2>3 DEF Total
<1> QED
  BY <1>4, <1>5, <1>6, <1>7, <1>8, <1>9, <1>10, <1>11, <1>12, <1>14, <1>15,
     <1>16, <1>17, <1>18, <1>19 DEF Next, Kill, Reboot

\* Every step leaves the flag with the service.
LEMMA FlagStep ==
    HintsInv /\ [Next]_vars => FlagFollowsService'
<1> SUFFICES ASSUME HintsInv, [Next]_vars, instance' > 0, memory'.listenerConnected
             PROVE  service' = "connected"
  BY DEF FlagFollowsService
<1>0. /\ memory \in Preferences /\ instance \in Nat /\ running \subseteq Job
      /\ instance > 0 /\ memory.listenerConnected => service = "connected"
      /\ service # "down" => instance > 0 /\ waiting \in Seq(Job)
  BY Bounds DEF HintsInv, StoreOK, InOrder, ServiceOK, FlagFollowsService
<1>1. \A p : Write(p) => memory' = p
  BY DEF Write, Committed, NotCommitted
<1>2. UNCHANGED lifecycle /\ memory'.listenerConnected = memory.listenerConnected
        => service' = "connected"
  BY <1>0 DEF lifecycle
<1>3. CASE UNCHANGED vars
  BY <1>2, <1>3 DEF vars, preferences
<1>4. CASE onCreate
  <2>1. memory' = [memory EXCEPT !.listenerConnected = FALSE, !.serviceStarted = uptime]
    BY <1>1, <1>4 DEF onCreate, markServiceStarted
  <2> QED BY <1>0, <2>1 DEF Preferences
<1>5. CASE onListenerConnected
  BY <1>5 DEF onListenerConnected
<1>6. CASE onListenerDisconnected
  <2>1. memory' = setListenerConnected(memory, FALSE)
    BY <1>1, <1>6 DEF onListenerDisconnected
  <2> QED BY <1>0, <2>1 DEF Preferences, setListenerConnected
<1>7. CASE onDestroy
  <2>1. memory' = RecordDropped(setListenerConnected(memory, FALSE), Len(waiting))
    BY <1>1, <1>7 DEF onDestroy
  <2>2. Len(waiting) \in Nat
    BY <1>0, <1>7 DEF onDestroy
  <2> QED BY <1>0, <2>1, <2>2, Counters
<1>8. CASE SubmitMalformed
  BY <1>0, <1>1, <1>2, <1>8, Counters DEF SubmitMalformed, Delivered
<1>9. CASE SubmitRejected
  BY <1>0, <1>1, <1>2, <1>9, Counters DEF SubmitRejected, Delivered
<1>10. ASSUME NEW e \in Event, SubmitFirst(e) \/ SubmitQueued(e)
       PROVE  service' = "connected"
  BY <1>2, <1>10 DEF SubmitFirst, SubmitQueued, Delivered, preferences
<1>11. CASE Take
  BY <1>2, <1>11 DEF Take, preferences
<1>12. ASSUME NEW j \in running,
              ProjectFails(j) \/ append(j) \/ AppendFails(j) \/ recordError(j)
       PROVE  service' = "connected"
  <2>1. j.event \in Event
    BY <1>0 DEF Job
  <2>2. /\ UNCHANGED lifecycle
        /\ memory' \in {memory, Appended(j.event), RecordError(memory)}
    BY <1>1, <1>12
    DEF ProjectFails, append, AppendFails, recordError, preferences, Committed,
        NotCommitted
  <2>3. memory'.listenerConnected = memory.listenerConnected
    BY <1>0, <2>1, <2>2, Counters
  <2> QED BY <1>2, <2>2, <2>3
<1>13. CASE clearHints
  <2>1. Cleared.listenerConnected = memory.listenerConnected
    BY DEF Cleared, Empty
  <2> QED BY <1>1, <1>2, <1>13, <2>1 DEF clearHints
<1>14. CASE clearAll
  <2>1. ~Empty.listenerConnected
    BY DEF Empty
  <2> QED BY <1>1, <1>14, <2>1 DEF clearAll
<1>15. CASE NewProcess
  BY <1>15 DEF NewProcess
<1> QED
  BY <1>3, <1>4, <1>5, <1>6, <1>7, <1>8, <1>9, <1>10, <1>11, <1>12, <1>13, <1>14,
     <1>15 DEF Next, Kill, Reboot

\* The invariant holds throughout.
LEMMA HintsInvariance == Spec => []HintsInv
<1>1. Init => HintsInv
  <2> SUFFICES ASSUME Init PROVE HintsInv
    OBVIOUS
  <2>1. StoreOK
    <3>1. InOrder(memory) /\ InOrder(disk)
      BY EmptyInOrder DEF Init
    <3> QED BY <3>1, Bounds DEF Init, StoreOK
  <2>2. ServiceOK
    <3>1. /\ IsFiniteSet(running) /\ running = {} /\ waiting \in Seq(Job)
          /\ waiting = <<>> /\ Len(waiting) = 0
      BY FS_EmptySet DEF Init
    <3>2. \A i \in 1..Len(waiting) : waiting[i].instance = instance
      BY <3>1
    <3>3. /\ Len(waiting) <= MAX_PENDING_PROJECTIONS /\ 1 \in 1..MaxProcesses
          /\ 0 \in 0..MaxStarts
      BY <3>1, Bounds
    <3> QED BY <3>1, <3>2, <3>3 DEF Init, ServiceOK
  <2>3. Accounted
    <3>1. InFlight = 0
      BY FS_EmptySet DEF Init, InFlight
    <3> QED BY <3>1 DEF Init, Accounted, Total, Empty
  <2>4. FlagFollowsService
    BY DEF Init, FlagFollowsService
  <2> QED BY <2>1, <2>2, <2>3, <2>4 DEF HintsInv
<1>2. HintsInv /\ [Next]_vars => HintsInv'
  BY StoreStep, ServiceStep, AccountStep, FlagStep DEF HintsInv
<1> QED BY <1>1, <1>2, PTL DEF Spec

\* Every variable keeps to its type, and a thread has one job at a time.
THEOREM HintsTypeCorrect == Spec => []TypeOK
<1>1. HintsInv => TypeOK
  BY DEF HintsInv, StoreOK, InOrder, ServiceOK, TypeOK
<1> QED BY <1>1, HintsInvariance, PTL

\* Ring, sequence and counters stay one account of the events, in memory and on
\* the disk, whatever fails, is cleared or is killed, and no event is lost
\* silently while the process lives.
THEOREM HintsStayAccounted == Spec => []HintsAccounted
<1>1. HintsInv => HintsAccounted
  <2>1. ASSUME HintsInv, NEW p \in {memory, disk} PROVE RingAgrees(p)
    BY <2>1 DEF HintsInv, StoreOK, InOrder
  <2>2. HintsInv => HintRing
    BY <2>1 DEF HintRing, RingAgrees
  <2> QED BY <2>2 DEF HintsInv, HintsAccounted
<1> QED BY <1>1, HintsInvariance, PTL

\* The stored flag says connected only while the listener is, once a service
\* was created in the process.
THEOREM FlagStaysTrue == Spec => []FlagFollowsService
<1>1. HintsInv => FlagFollowsService
  BY DEF HintsInv
<1> QED BY <1>1, HintsInvariance, PTL

-----------------------------------------------------------------------------
(* SnapshotCache                                                            *)

\* A cache whose two totals are the sums of its entries' bytes.
Exact(c) ==
    /\ c.entries \in [CacheKey -> Entry \union {NoEntry}]
    /\ c.serialized = SerializedOf(c, Present(c))
    /\ c.accounted = AccountedOf(c, Present(c))

CacheInv == Exact(cache) /\ Fits(cache)

\* The bytes under each key.
SerializedAt(c) ==
    [k \in CacheKey |-> IF c.entries[k] = NoEntry THEN 0
                                                 ELSE c.entries[k].size.serialized]
AccountedAt(c) ==
    [k \in CacheKey |-> IF c.entries[k] = NoEntry THEN 0
                                                 ELSE c.entries[k].size.accounted]

\* Bytes are natural numbers, and the present keys are finitely many.
LEMMA CacheFacts ==
    ASSUME NEW c, c.entries \in [CacheKey -> Entry \union {NoEntry}]
    PROVE  /\ \A k \in CacheKey : SerializedAt(c)[k] \in Nat /\ AccountedAt(c)[k] \in Nat
           /\ \A k \in Present(c) : /\ c.entries[k] \in Entry
                                    /\ SerializedAt(c)[k] = c.entries[k].size.serialized
                                    /\ AccountedAt(c)[k] = c.entries[k].size.accounted
                                    /\ c.entries[k].capturedAt \in Nat
           /\ IsFiniteSet(Present(c)) /\ Cardinality(Present(c)) \in Nat
           /\ Present(c) \in SUBSET CacheKey
<1>1. \A k \in Present(c) : c.entries[k] \in Entry
  BY DEF Present
<1>2. \A e \in Entry : /\ e.size \in [serialized : Nat \ {0}, accounted : Nat \ {0}]
                       /\ e.capturedAt \in Nat
  BY CacheAssumption DEF Entry
<1>3. \A e \in Entry : e.size.serialized \in Nat /\ e.size.accounted \in Nat
  BY <1>2
<1>4. \A k \in CacheKey : SerializedAt(c)[k] \in Nat /\ AccountedAt(c)[k] \in Nat
  BY <1>3 DEF SerializedAt, AccountedAt
<1>5. \A k \in Present(c) : /\ SerializedAt(c)[k] = c.entries[k].size.serialized
                            /\ AccountedAt(c)[k] = c.entries[k].size.accounted
  BY DEF Present, SerializedAt, AccountedAt
<1>6. Present(c) \in SUBSET CacheKey
  BY DEF Present
<1>7. IsFiniteSet(Present(c)) /\ Cardinality(Present(c)) \in Nat
  BY <1>6, CacheAssumption, FS_Subset, FS_CardinalityType
<1> QED BY <1>1, <1>2, <1>4, <1>5, <1>6, <1>7

\* The bytes of some of the present keys are sums of one function.
LEMMA BytesOf ==
    ASSUME NEW c, c.entries \in [CacheKey -> Entry \union {NoEntry}],
           NEW K \in SUBSET Present(c)
    PROVE  /\ SerializedOf(c, K) = SumFunctionOnSet(SerializedAt(c), K)
           /\ AccountedOf(c, K) = SumFunctionOnSet(AccountedAt(c), K)
           /\ SerializedOf(c, K) \in Nat /\ AccountedOf(c, K) \in Nat
<1> DEFINE s == [k \in K |-> c.entries[k].size.serialized]
           a == [k \in K |-> c.entries[k].size.accounted]
<1>1. IsFiniteSet(K) /\ K \in SUBSET CacheKey
  BY CacheFacts, FS_Subset
<1>2. \A k \in K : s[k] = SerializedAt(c)[k] /\ a[k] = AccountedAt(c)[k]
  BY CacheFacts
<1>3. SerializedOf(c, K) = SumFunctionOnSet(s, K) /\ AccountedOf(c, K) = SumFunctionOnSet(a, K)
  BY DEF SerializedOf, AccountedOf
<1> HIDE DEF s, a
<1>4. /\ SumFunctionOnSet(s, K) = SumFunctionOnSet(SerializedAt(c), K)
      /\ SumFunctionOnSet(a, K) = SumFunctionOnSet(AccountedAt(c), K)
  BY <1>1, <1>2, SumAgree
<1>5. /\ \A k \in K : SerializedAt(c)[k] \in Nat
      /\ \A k \in K : AccountedAt(c)[k] \in Nat
  BY <1>1, CacheFacts
<1>6. /\ SumFunctionOnSet(SerializedAt(c), K) \in Nat
      /\ SumFunctionOnSet(AccountedAt(c), K) \in Nat
  BY <1>1, <1>5, SumType
<1> QED BY <1>3, <1>4, <1>6

\* Deleting some of the present keys.
LEMMA WithoutExact ==
    ASSUME NEW c, Exact(c), NEW K \in SUBSET Present(c)
    PROVE  LET d == Without(c, K)
           IN /\ Exact(d)
              /\ d.entries = [k \in CacheKey |-> IF k \in K THEN NoEntry ELSE c.entries[k]]
              /\ Present(d) = Present(c) \ K
              /\ Fits(c) => Fits(d)
<1> DEFINE d == Without(c, K)
           P == Present(c)
<1>1. c.entries \in [CacheKey -> Entry \union {NoEntry}]
  BY DEF Exact
<1>2. /\ d.entries = [k \in CacheKey |-> IF k \in K THEN NoEntry ELSE c.entries[k]]
      /\ d.serialized = c.serialized - SerializedOf(c, K)
      /\ d.accounted = c.accounted - AccountedOf(c, K)
  BY DEF Without
<1> HIDE DEF d
<1>3. d.entries \in [CacheKey -> Entry \union {NoEntry}] /\ Present(d) = P \ K
  BY <1>1, <1>2 DEF Present
<1> HIDE DEF P
<1>4. /\ IsFiniteSet(P) /\ P \in SUBSET CacheKey /\ K \in SUBSET P /\ P \ K \in SUBSET P
      /\ IsFiniteSet(P \ K) /\ Cardinality(P \ K) <= Cardinality(P)
      /\ Cardinality(P \ K) \in Nat /\ Cardinality(P) \in Nat
  <2>1. /\ IsFiniteSet(P) /\ P \in SUBSET CacheKey /\ K \in SUBSET P /\ P \ K \in SUBSET P
        /\ Cardinality(P) \in Nat
    BY <1>1, CacheFacts DEF P
  <2> QED BY <2>1, FS_Subset, FS_CardinalityType
<1>5. \A k \in P \ K : /\ SerializedAt(c)[k] = SerializedAt(d)[k]
                       /\ AccountedAt(c)[k] = AccountedAt(d)[k]
  BY <1>2, <1>4 DEF SerializedAt, AccountedAt
<1>6. /\ SumFunctionOnSet(SerializedAt(c), P) = SumFunctionOnSet(SerializedAt(c), K)
            + SumFunctionOnSet(SerializedAt(c), P \ K)
      /\ SumFunctionOnSet(AccountedAt(c), P) = SumFunctionOnSet(AccountedAt(c), K)
            + SumFunctionOnSet(AccountedAt(c), P \ K)
  <2>1. \A k \in P : SerializedAt(c)[k] \in Nat
    BY <1>1, <1>4, CacheFacts
  <2>2. \A k \in P : AccountedAt(c)[k] \in Nat
    BY <1>1, <1>4, CacheFacts
  <2> QED BY <1>4, <2>1, <2>2, SumSplit
<1>7. /\ SumFunctionOnSet(SerializedAt(c), P \ K) = SumFunctionOnSet(SerializedAt(d), P \ K)
      /\ SumFunctionOnSet(AccountedAt(c), P \ K) = SumFunctionOnSet(AccountedAt(d), P \ K)
  BY <1>4, <1>5, SumAgree
<1>8. /\ SerializedOf(c, P) = SumFunctionOnSet(SerializedAt(c), P)
      /\ AccountedOf(c, P) = SumFunctionOnSet(AccountedAt(c), P)
      /\ SerializedOf(c, K) = SumFunctionOnSet(SerializedAt(c), K)
      /\ AccountedOf(c, K) = SumFunctionOnSet(AccountedAt(c), K)
      /\ SerializedOf(c, K) \in Nat /\ AccountedOf(c, K) \in Nat
      /\ SerializedOf(d, P \ K) = SumFunctionOnSet(SerializedAt(d), P \ K)
      /\ AccountedOf(d, P \ K) = SumFunctionOnSet(AccountedAt(d), P \ K)
      /\ SerializedOf(d, P \ K) \in Nat /\ AccountedOf(d, P \ K) \in Nat
  <2>1. P \in SUBSET Present(c) /\ K \in SUBSET Present(c) /\ P \ K \in SUBSET Present(d)
    BY <1>3, <1>4 DEF P
  <2> QED BY <1>1, <1>3, <2>1, BytesOf
<1>9. c.serialized = SerializedOf(c, P) /\ c.accounted = AccountedOf(c, P)
  BY DEF Exact, P
<1>10. /\ d.serialized = SerializedOf(d, P \ K) /\ d.accounted = AccountedOf(d, P \ K)
       /\ d.serialized <= c.serialized /\ d.accounted <= c.accounted
       /\ c.serialized \in Nat /\ d.serialized \in Nat
       /\ c.accounted \in Nat /\ d.accounted \in Nat
  BY <1>2, <1>6, <1>7, <1>8, <1>9
<1>11. Exact(d)
  BY <1>3, <1>10 DEF Exact
<1>12. Fits(c) => Fits(d)
  BY <1>3, <1>4, <1>10, CacheAssumption DEF Fits, P
<1> QED BY <1>2, <1>3, <1>11, <1>12 DEF d, P

\* Adding an entry under a key that is absent.
LEMMA WithExact ==
    ASSUME NEW c, Exact(c), NEW key \in CacheKey, key \notin Present(c),
           NEW entry \in Entry
    PROVE  LET d == With(c, key, entry)
           IN Exact(d) /\ Present(d) = Present(c) \union {key}
<1> DEFINE d == With(c, key, entry)
           P == Present(c)
<1>1. c.entries \in [CacheKey -> Entry \union {NoEntry}]
  BY DEF Exact
<1>2. /\ d.entries = [c.entries EXCEPT ![key] = entry]
      /\ d.serialized = c.serialized + entry.size.serialized
      /\ d.accounted = c.accounted + entry.size.accounted
  BY DEF With
<1> HIDE DEF d
<1>3. d.entries \in [CacheKey -> Entry \union {NoEntry}] /\ Present(d) = P \union {key}
  BY <1>1, <1>2, NoEntryAssumption DEF Present
<1> HIDE DEF P
<1> DEFINE Q == P \union {key}
<1>4. /\ IsFiniteSet(P) /\ IsFiniteSet(Q) /\ key \in Q /\ Q \ {key} = P
      /\ Q \in SUBSET CacheKey /\ P \in SUBSET CacheKey
  <2>1. IsFiniteSet(P) /\ P \in SUBSET CacheKey /\ key \notin P
    BY <1>1, CacheFacts DEF P
  <2> QED BY <2>1, FS_AddElement
<1>5. /\ \A k \in P : SerializedAt(c)[k] = SerializedAt(d)[k]
      /\ \A k \in P : AccountedAt(c)[k] = AccountedAt(d)[k]
  BY <1>1, <1>2, <1>4 DEF SerializedAt, AccountedAt
<1>6. SerializedAt(d)[key] = entry.size.serialized /\ AccountedAt(d)[key] = entry.size.accounted
  BY <1>1, <1>2, NoEntryAssumption DEF SerializedAt, AccountedAt
<1> HIDE DEF Q
<1>7. /\ SumFunctionOnSet(SerializedAt(d), Q)
            = SerializedAt(d)[key] + SumFunctionOnSet(SerializedAt(d), P)
      /\ SumFunctionOnSet(AccountedAt(d), Q)
            = AccountedAt(d)[key] + SumFunctionOnSet(AccountedAt(d), P)
  <2>1. \A k \in Q : SerializedAt(d)[k] \in Nat
    BY <1>3, <1>4, CacheFacts
  <2>2. \A k \in Q : AccountedAt(d)[k] \in Nat
    BY <1>3, <1>4, CacheFacts
  <2>3. /\ SumFunctionOnSet(SerializedAt(d), Q)
              = SerializedAt(d)[key] + SumFunctionOnSet(SerializedAt(d), Q \ {key})
        /\ SumFunctionOnSet(AccountedAt(d), Q)
              = AccountedAt(d)[key] + SumFunctionOnSet(AccountedAt(d), Q \ {key})
    BY <1>4, <2>1, <2>2, SumRemove
  <2> QED BY <1>4, <2>3
<1>8. /\ SumFunctionOnSet(SerializedAt(c), P) = SumFunctionOnSet(SerializedAt(d), P)
      /\ SumFunctionOnSet(AccountedAt(c), P) = SumFunctionOnSet(AccountedAt(d), P)
  BY <1>4, <1>5, SumAgree
<1>9. /\ SerializedOf(c, P) = SumFunctionOnSet(SerializedAt(c), P)
      /\ AccountedOf(c, P) = SumFunctionOnSet(AccountedAt(c), P)
      /\ SerializedOf(d, Q) = SumFunctionOnSet(SerializedAt(d), Q)
      /\ AccountedOf(d, Q) = SumFunctionOnSet(AccountedAt(d), Q)
      /\ SerializedOf(c, P) \in Nat /\ AccountedOf(c, P) \in Nat
  <2>1. P \in SUBSET Present(c) /\ Q \in SUBSET Present(d)
    BY <1>3 DEF P, Q
  <2> QED BY <1>1, <1>3, <2>1, BytesOf
<1>10. SerializedAt(d)[key] \in Nat /\ AccountedAt(d)[key] \in Nat
  BY <1>3, CacheFacts
<1>11. d.serialized = SerializedOf(d, Q) /\ d.accounted = AccountedOf(d, Q)
  <2>1. c.serialized = SerializedOf(c, P) /\ c.accounted = AccountedOf(c, P)
    BY DEF Exact, P
  <2> QED BY <1>2, <1>6, <1>7, <1>8, <1>9, <1>10, <2>1
<1>12. Exact(d)
  BY <1>3, <1>11 DEF Exact, Q
<1> QED BY <1>3, <1>12 DEF d, P

\* Replacing an entry, or adding one.
LEMMA ReplacingExact ==
    ASSUME NEW c, Exact(c), NEW key \in CacheKey, NEW entry \in Entry
    PROVE  Exact(Replacing(c, key, entry))
<1> DEFINE K == {key} \intersect Present(c)
           d == Without(c, K)
<1>1. Exact(d) /\ Present(d) = Present(c) \ K
  BY WithoutExact
<1>2. key \notin Present(d)
  BY <1>1
<1> HIDE DEF d
<1>3. Exact(With(d, key, entry))
  BY <1>1, <1>2, WithExact
<1> QED BY <1>3 DEF Replacing, d

\* The oldest of some keys are among them; none of them is, or all are, if
\* none or as many as there are are asked for.
LEMMA OldestFacts ==
    ASSUME NEW c, c.entries \in [CacheKey -> Entry \union {NoEntry}],
           NEW keys \in SUBSET Present(c)
    PROVE  /\ \A n : Oldest(c, keys, n) \in SUBSET keys
           /\ Oldest(c, keys, 0) = {}
           /\ Oldest(c, keys, Cardinality(keys)) = keys
<1>1. IsFiniteSet(keys) /\ Cardinality(keys) \in Nat
  BY CacheFacts, FS_Subset, FS_CardinalityType
<1>2. ASSUME NEW k \in keys
      PROVE  LET before == {l \in keys : Before(c, l, k)}
             IN Cardinality(before) \in Nat /\ Cardinality(before) < Cardinality(keys)
  <2> DEFINE before == {l \in keys : Before(c, l, k)}
             others == keys \ {k}
  <2>1. c.entries[k].capturedAt \in Nat /\ k[1] \in Nat /\ k[2] \in Nat
    <3>1. k \in Nat \X Nat
      BY CacheFacts, CacheAssumption
    <3> QED BY <3>1, CacheFacts
  <2>2. ~Before(c, k, k)
    BY <2>1 DEF Before
  <2>3. before \in SUBSET others
    BY <2>2
  <2>4. IsFiniteSet(others) /\ Cardinality(others) = Cardinality(keys) - 1
    BY <1>1, FS_RemoveElement
  <2> HIDE DEF before, others
  <2>5. Cardinality(before) <= Cardinality(others) /\ Cardinality(before) \in Nat
    BY <2>3, <2>4, FS_Subset, FS_CardinalityType
  <2>6. Cardinality(before) \in Nat /\ Cardinality(before) < Cardinality(keys)
    BY <1>1, <2>4, <2>5
  <2> QED BY <2>6 DEF before
<1>3. \A n : Oldest(c, keys, n) \in SUBSET keys
  BY DEF Oldest
<1>4. Oldest(c, keys, 0) = {}
  BY <1>2 DEF Oldest
<1>5. Oldest(c, keys, Cardinality(keys)) = keys
  BY <1>2 DEF Oldest
<1> QED BY <1>3, <1>4, <1>5

\* What the totals are enforced on ends up within them, and stays as it is if
\* it was.
LEMMA EnforceFacts ==
    ASSUME NEW c, Exact(c)
    PROVE  /\ Exact(Enforce(c)) /\ Fits(Enforce(c))
           /\ Fits(c) => Enforce(c).entries = c.entries
<1> DEFINE P == Present(c)
           count == Cardinality(P)
           Trimmed(n) == Without(c, Oldest(c, P, n))
           enough == {n \in 0..count : Fits(Trimmed(n))}
<1>1. /\ c.entries \in [CacheKey -> Entry \union {NoEntry}] /\ P \in SUBSET Present(c)
      /\ count \in Nat
  BY CacheFacts DEF Exact
<1>2. \A n : Exact(Trimmed(n)) /\ Present(Trimmed(n)) = P \ Oldest(c, P, n)
  BY <1>1, OldestFacts, WithoutExact
<1>3. Fits(Trimmed(count))
  <2> DEFINE d == Trimmed(count)
  <2>1. Exact(d) /\ Present(d) = {}
    BY <1>1, <1>2, OldestFacts
  <2> HIDE DEF d
  <2>2. d.serialized = SerializedOf(d, {}) /\ d.accounted = AccountedOf(d, {})
    BY <2>1 DEF Exact
  <2>3. SerializedOf(d, {}) = 0 /\ AccountedOf(d, {}) = 0
    BY SumEmpty DEF SerializedOf, AccountedOf
  <2>4. Fits(d)
    BY <2>1, <2>2, <2>3, FS_EmptySet, CacheAssumption DEF Fits
  <2> QED BY <2>4 DEF d
<1>4. enough \in SUBSET Nat /\ count \in enough
  BY <1>1, <1>3
<1>5. PICK m \in enough : \A n \in enough : m <= n
  <2> HIDE DEF enough
  <2> QED BY <1>4, LeastNumber
<1>6. /\ Min(enough) \in enough
      /\ \A n \in enough : Min(enough) <= n
  <2> HIDE DEF enough
  <2> QED BY <1>5 DEF Min
<1>7. Enforce(c) = Trimmed(Min(enough))
  BY <1>4 DEF Enforce
<1>8. Exact(Enforce(c)) /\ Fits(Enforce(c))
  BY <1>2, <1>6, <1>7
<1>9. ASSUME Fits(c) PROVE Enforce(c).entries = c.entries
  <2>1. Trimmed(0) = Without(c, {})
    BY <1>1, OldestFacts
  <2>2. {} \in SUBSET Present(c)
    OBVIOUS
  <2>3. /\ Without(c, {}).entries = [k \in CacheKey |-> IF k \in {} THEN NoEntry ELSE c.entries[k]]
        /\ Fits(Without(c, {}))
    BY <1>9, <2>2, WithoutExact
  <2>4. Without(c, {}).entries = c.entries
    BY <1>1, <2>3
  <2>5. 0 \in enough
    BY <1>1, <2>1, <2>3
  <2>6. Min(enough) = 0
    <3>1. Min(enough) \in Nat /\ Min(enough) <= 0
      BY <1>4, <1>6, <2>5
    <3> QED BY <3>1
  <2> HIDE DEF enough, Trimmed
  <2> QED BY <1>7, <2>1, <2>4, <2>6
<1> QED BY <1>8, <1>9

\* A prune takes away the outdated entries, and no other if all fits.
LEMMA PruneFacts ==
    ASSUME NEW c, Exact(c), NEW now
    PROVE  /\ Exact(Prune(c, now)) /\ Fits(Prune(c, now))
           /\ Fits(c) => Prune(c, now).entries = [k \in CacheKey |->
                  IF k \in Present(c) /\ Outdated(c.entries[k], now)
                  THEN NoEntry ELSE c.entries[k]]
<1> DEFINE K == {k \in Present(c) : Outdated(c.entries[k], now)}
           d == Without(c, K)
<1>1. /\ Exact(d)
      /\ Fits(c) => Fits(d)
      /\ d.entries = [k \in CacheKey |-> IF k \in K THEN NoEntry ELSE c.entries[k]]
  <2>1. K \in SUBSET Present(c)
    OBVIOUS
  <2> HIDE DEF K
  <2> QED BY <2>1, WithoutExact
<1>2. Prune(c, now) = Enforce(d)
  BY DEF Prune
<1> HIDE DEF d
<1>3. /\ Exact(Enforce(d)) /\ Fits(Enforce(d))
      /\ Fits(d) => Enforce(d).entries = d.entries
  BY <1>1, EnforceFacts
<1> QED BY <1>1, <1>2, <1>3

\* A put after its prune stores something that fits, or leaves the cache alone.
LEMMA PutFacts ==
    ASSUME NEW c, Exact(c), Fits(c), NEW key \in CacheKey, NEW entry \in Entry
    PROVE  LET put == PutPruned(c, key, entry)
           IN /\ Exact(put.cache) /\ Fits(put.cache)
              /\ put.outcome # "stored" => put.cache = c
<1> DEFINE room == Without(c, Evicted(c, key))
           future == Replacing(room, key, entry)
           put == PutPruned(c, key, entry)
<1>1. Evicted(c, key) \in SUBSET Present(c)
  BY DEF Evicted, Oldest
<1>2. Exact(room)
  BY <1>1, WithoutExact
<1> HIDE DEF room
<1>3. Exact(future)
  BY <1>2, ReplacingExact
<1>4. put = IF Fits(future) THEN [cache |-> future, outcome |-> "stored"]
                            ELSE [cache |-> c, outcome |-> "refused"]
  BY DEF PutPruned, room
<1> HIDE DEF future, put
<1>5. CASE Fits(future)
  <2>1. put.cache = future /\ put.outcome = "stored"
    BY <1>4, <1>5
  <2> QED BY <1>3, <1>5, <2>1 DEF put
<1>6. CASE ~Fits(future)
  <2>1. put.cache = c
    BY <1>4, <1>6
  <2> QED BY <2>1 DEF put
<1> QED BY <1>5, <1>6

-----------------------------------------------------------------------------

\* An instance starts within its limits, whatever it is seeded with.
LEMMA CacheInitInv ==
    ASSUME NEW seed \in SUBSET Entry, CacheInit(seed)
    PROVE  CacheInv
<1>1. PICK seeds \in [CacheKey -> seed \union {NoEntry}] : cache = Seeded(seeds)
  BY DEF CacheInit
<1> DEFINE kept == {k \in CacheKey : seeds[k] # NoEntry /\ Small(seeds[k])}
           all == [entries |-> [k \in CacheKey |-> IF k \in kept THEN seeds[k] ELSE NoEntry],
                   serialized |-> 0, accounted |-> 0]
           full == [all EXCEPT !.serialized = SerializedOf(all, kept),
                               !.accounted = AccountedOf(all, kept)]
<1>2. /\ full.entries = all.entries
      /\ full.serialized = SerializedOf(all, kept) /\ full.accounted = AccountedOf(all, kept)
  BY DEF SerializedOf
<1>3. full.entries \in [CacheKey -> Entry \union {NoEntry}] /\ Present(full) = kept
  BY <1>2 DEF Present
<1>4. cache = Enforce(full)
  BY <1>1 DEF Seeded
<1> HIDE DEF full, kept
<1>5. /\ SerializedOf(all, kept) = SerializedOf(full, kept)
      /\ AccountedOf(all, kept) = AccountedOf(full, kept)
  BY <1>2 DEF SerializedOf, AccountedOf
<1>6. Exact(full)
  BY <1>2, <1>3, <1>5 DEF Exact
<1> QED BY <1>4, <1>6, EnforceFacts DEF CacheInv

\* Every step keeps totals exact and within their limits.
LEMMA CacheNextInv ==
    CacheInv /\ [CacheNext]_cacheVars => CacheInv'
<1> SUFFICES ASSUME CacheInv, [CacheNext]_cacheVars
             PROVE  Exact(cache') /\ Fits(cache')
  BY DEF CacheInv, Exact, Fits, Present, SerializedOf, AccountedOf
<1>0. Exact(cache) /\ Fits(cache)
  BY DEF CacheInv
<1>1. UNCHANGED cache => Exact(cache') /\ Fits(cache')
  BY <1>0
<1>2. ASSUME NEW K \in SUBSET Present(cache), cache' = Without(cache, K)
      PROVE  Exact(cache') /\ Fits(cache')
  BY <1>0, <1>2, WithoutExact
<1>3. CASE UNCHANGED cacheVars
  BY <1>1, <1>3 DEF cacheVars
<1>4. ASSUME NEW entry \in Envelope, PutOversized(entry)
      PROVE  Exact(cache') /\ Fits(cache')
  BY <1>1, <1>4 DEF PutOversized
<1>5. ASSUME NEW now \in CacheTime, NEW key \in CacheKey, NEW entry \in Envelope,
             Put(key, entry, now, Prune(cache, now))
      PROVE  Exact(cache') /\ Fits(cache')
  <2>1. entry \in Entry
    BY DEF Envelope
  <2>2. cache' = PutPruned(Prune(cache, now), key, entry).cache
    BY <1>5 DEF Put
  <2> QED BY <1>0, <2>1, <2>2, PruneFacts, PutFacts
<1>6. ASSUME NEW key \in CacheKey, NEW identity, NEW now, Get(key, identity, now)
      PROVE  Exact(cache') /\ Fits(cache')
  <2>1. {key} \in SUBSET Present(cache)
    BY <1>6 DEF Get
  <2> QED BY <1>1, <1>2, <1>6, <2>1 DEF Get
<1>7. ASSUME NEW key \in CacheKey, DeleteEntry(key)
      PROVE  Exact(cache') /\ Fits(cache')
  <2>1. {key} \in SUBSET Present(cache)
    BY <1>7 DEF DeleteEntry
  <2> QED BY <1>2, <1>7, <2>1 DEF DeleteEntry
<1>8. ASSUME NEW profile, Invalidate(profile)
      PROVE  Exact(cache') /\ Fits(cache')
  <2>1. \E K \in SUBSET Present(cache) : cache' = Without(cache, K)
    BY <1>8 DEF Invalidate
  <2> QED BY <1>2, <2>1
<1>9. CASE ClearCache
  <2>1. cache' = EmptyCache
    BY <1>9 DEF ClearCache
  <2>2. /\ EmptyCache.entries = [k \in CacheKey |-> NoEntry]
        /\ EmptyCache.serialized = 0 /\ EmptyCache.accounted = 0
    BY DEF EmptyCache
  <2>3. Present(EmptyCache) = {}
    BY <2>2 DEF Present
  <2>4. SerializedOf(EmptyCache, {}) = 0 /\ AccountedOf(EmptyCache, {}) = 0
    BY SumEmpty DEF SerializedOf, AccountedOf
  <2>5. Exact(EmptyCache)
    BY <2>2, <2>3, <2>4 DEF Exact
  <2>6. Fits(EmptyCache)
    BY <2>2, <2>3, FS_EmptySet, CacheAssumption DEF Fits
  <2> QED BY <2>1, <2>5, <2>6
<1>10. ASSUME NEW now \in CacheTime, PruneCache(now)
       PROVE  Exact(cache') /\ Fits(cache')
  BY <1>0, <1>10, PruneFacts DEF PruneCache
<1> QED
  BY <1>3, <1>4, <1>5, <1>6, <1>7, <1>8, <1>9, <1>10 DEF CacheNext

\* The invariant holds throughout.
LEMMA CacheInvariance == CacheSpec => []CacheInv
<1>1. CacheInit(Entry) => CacheInv
  BY CacheInitInv
<1> QED BY <1>1, CacheNextInv, PTL DEF CacheSpec

\* The totals that the cache keeps are the sums of what it holds, and no limit
\* is passed, through seeds, replacements, evictions, deletions and prunes.
THEOREM UsageStaysExact == CacheSpec => []UsageIsExact
<1>1. CacheInv => UsageIsExact
  BY DEF CacheInv, Exact, UsageIsExact
<1> QED BY <1>1, CacheInvariance, PTL

\* A refused put takes nothing away but what has expired by its own time.
THEOREM RefusalTakesNothing == CacheSpec => RefusedPutTakesNothing
<1> DEFINE Kept == cache'.entries = [k \in CacheKey |->
                      IF /\ refusal'.kind = "put" /\ k \in Present(cache)
                         /\ Outdated(cache.entries[k], refusal'.now)
                      THEN NoEntry ELSE cache.entries[k]]
<1>1. ASSUME CacheInv, [CacheNext]_cacheVars
      PROVE  [refusal'.kind # "none" => Kept]_cacheVars
  <2> SUFFICES ASSUME CacheNext, refusal'.kind # "none"
               PROVE  Kept
    BY <1>1
  <2>0. Exact(cache) /\ Fits(cache) /\ cache.entries \in [CacheKey -> Entry \union {NoEntry}]
    BY <1>1 DEF CacheInv, Exact
  <2>1. refusal' # NotRefused
    BY DEF NotRefused
  <2>2. ASSUME NEW entry \in Envelope, PutOversized(entry) PROVE Kept
    <3>1. cache' = cache /\ refusal'.kind # "put"
      BY <2>2 DEF PutOversized
    <3> QED BY <2>0, <3>1
  <2>3. ASSUME NEW now \in CacheTime, NEW key \in CacheKey, NEW entry \in Envelope,
               Put(key, entry, now, Prune(cache, now))
        PROVE  Kept
    <3> DEFINE pruned == Prune(cache, now)
               put == PutPruned(pruned, key, entry)
    <3>1. entry \in Entry
      BY DEF Envelope
    <3>2. /\ cache' = put.cache
          /\ refusal' = IF put.outcome = "stored" THEN NotRefused
                        ELSE [kind |-> "put", now |-> now]
      BY <2>3 DEF Put
    <3>3. put.outcome # "stored" /\ refusal'.kind = "put" /\ refusal'.now = now
      BY <2>1, <3>2
    <3>4. pruned.entries = [k \in CacheKey |->
                  IF k \in Present(cache) /\ Outdated(cache.entries[k], now)
                  THEN NoEntry ELSE cache.entries[k]]
          /\ Exact(pruned) /\ Fits(pruned)
      BY <2>0, PruneFacts
    <3> HIDE DEF pruned
    <3>5. put.cache = pruned
      BY <3>1, <3>3, <3>4, PutFacts
    <3> QED BY <3>2, <3>3, <3>4, <3>5
  <2> QED
    BY <2>1, <2>2, <2>3
    DEF CacheNext, Get, DeleteEntry, Invalidate, ClearCache, PruneCache
<1> QED BY <1>1, CacheInvariance, PTL DEF CacheSpec, RefusedPutTakesNothing

-----------------------------------------------------------------------------
(* CompletionHintLedger                                                    *)

USE HintAssumption

Number == 1..MaxSequence

\* What the ledger remembers of a device, and what it has taken, are numbers.
NumbersOK ==
    /\ lastSequence \in [HintDevice -> Number \union {NoSequence}]
    /\ admitted \in [HintDevice -> Seq(Number)]

\* The inductive invariants.
TakenInv == NumbersOK /\ TakenInOrder
QueueInv == hintQueue \in Seq(CompletionHint) /\ QueuedOnce

-----------------------------------------------------------------------------
\* An envelope that is taken was neither replayed nor beyond the gap, and one
\* that is queued was not queued yet: those answers stand earlier in the chain.
LEMMA TakenWasNext ==
    ASSUME NEW device, NEW sequence, NEW hint, NEW timing,
           Verdict(device, sequence, hint, timing) \in {"accepted", "duplicate"}
    PROVE  /\ ~Replayed(device, sequence) /\ ~BeyondGap(device, sequence)
           /\ Verdict(device, sequence, hint, timing) = "accepted" =>
                 DedupeKey(hint) \notin dedupe
<1> DEFINE replayed == Replayed(device, sequence)
           gap == BeyondGap(device, sequence)
           queued == DedupeKey(hint) \in dedupe
           rules == <<
        <<~WellFormed(timing), "rejected">>,
        <<timing.expiresAt <= timing.now, "expired">>,
        <<timing.issuedAt > timing.now + maxFutureSkew, "rejected">>,
        <<hint.observedAt + maxPastAge < timing.now, "stale">>,
        <<hint.observedAt > timing.now + maxFutureSkew, "rejected">>,
        <<replayed, "replayed">>,
        <<gap, "gap">>,
        <<queued, "duplicate">>,
        <<TRUE, "accepted">> >>
<1>1. /\ DOMAIN rules = 1..9 /\ rules[9][1]
      /\ rules[6][1] = replayed /\ rules[7][1] = gap
      /\ rules[8][1] = queued /\ rules[8][2] # "accepted"
      /\ \A i \in 1..7 : rules[i][2] \notin {"accepted", "duplicate"}
  <2> HIDE DEF replayed, gap, queued
  <2> QED OBVIOUS
<1>2. Verdict(device, sequence, hint, timing) = FirstRule(rules)
  BY DEF Verdict
<1> HIDE DEF rules
<1>3. PICK i \in 1..9 : /\ \A j \in 1..(i - 1) : ~rules[j][1]
                        /\ FirstRule(rules) = rules[i][2]
  <2>1. 9 \in Nat /\ DOMAIN rules = 1..9 /\ \E k \in 1..9 : rules[k][1]
    BY <1>1
  <2> QED BY <2>1, FirstRuleIsFirst, Zenon
<1>4. i \notin 1..7
  BY <1>1, <1>2, <1>3
<1>5. 6 \in 1..(i - 1) /\ 7 \in 1..(i - 1)
  BY <1>4
<1>6. ~replayed /\ ~gap
  BY <1>1, <1>3, <1>5
<1>7. rules[i][2] = "accepted" => ~queued
  <2> SUFFICES ASSUME rules[i][2] = "accepted" PROVE ~queued
    OBVIOUS
  <2>1. 8 \in 1..(i - 1)
    BY <1>1, <1>4
  <2> QED BY <1>1, <1>3, <2>1
<1> QED BY <1>2, <1>3, <1>6, <1>7

\* The number of an envelope that is taken follows the last one, if there was
\* one, by at most the gap.
LEMMA TakenAdvances ==
    ASSUME NumbersOK, NEW device \in HintDevice, NEW sequence \in Number,
           NEW hint, NEW timing, lastSequence[device] # NoSequence,
           Verdict(device, sequence, hint, timing) \in {"accepted", "duplicate"}
    PROVE  sequence - lastSequence[device] \in 1..maxSequenceGap
<1>1. lastSequence[device] \in Nat /\ sequence \in Nat /\ maxSequenceGap \in Nat
  BY DEF NumbersOK, Number
<1>2. ~(sequence <= lastSequence[device])
      /\ ~(sequence > lastSequence[device] + maxSequenceGap)
  BY TakenWasNext DEF Replayed, BeyondGap
<1> QED BY <1>1, <1>2

\* Taking an envelope keeps the account of its device and touches no other.
LEMMA AdmitKeepsOrder ==
    ASSUME TakenInv, NEW device \in HintDevice, NEW sequence \in Number,
           NEW hint, NEW timing, Admit(device, sequence, hint, timing)
    PROVE  TakenInv'
<1>1. /\ Verdict(device, sequence, hint, timing) \in {"accepted", "duplicate"}
      /\ lastSequence' = [lastSequence EXCEPT ![device] = sequence]
      /\ admitted' = [admitted EXCEPT ![device] = Append(@, sequence)]
  BY DEF Admit
<1>2. NumbersOK
  BY DEF TakenInv
<1>3. NumbersOK'
  <2>1. lastSequence' \in [HintDevice -> Number \union {NoSequence}]
    BY <1>1, <1>2 DEF NumbersOK
  <2>2. Append(admitted[device], sequence) \in Seq(Number)
    BY <1>2 DEF NumbersOK
  <2>3. admitted' \in [HintDevice -> Seq(Number)]
    BY <1>1, <1>2, <2>2 DEF NumbersOK
  <2> QED BY <2>1, <2>3 DEF NumbersOK
<1>4. ASSUME NEW d \in HintDevice
      PROVE  /\ lastSequence'[d] = IF admitted'[d] = <<>> THEN NoSequence
                                   ELSE admitted'[d][Len(admitted'[d])]
             /\ \A i \in 2..Len(admitted'[d]) :
                   admitted'[d][i] - admitted'[d][i - 1] \in 1..maxSequenceGap
  <2>0. /\ lastSequence[d] = IF admitted[d] = <<>> THEN NoSequence
                             ELSE admitted[d][Len(admitted[d])]
        /\ \A i \in 2..Len(admitted[d]) :
              admitted[d][i] - admitted[d][i - 1] \in 1..maxSequenceGap
    BY DEF TakenInv, TakenInOrder
  <2>1. CASE d # device
    <3>1. lastSequence'[d] = lastSequence[d] /\ admitted'[d] = admitted[d]
      BY <1>1, <1>2, <2>1 DEF NumbersOK
    <3> QED BY <2>0, <3>1
  <2>2. CASE d = device
    <3> DEFINE old == admitted[d]
               new == Append(old, sequence)
    <3>1. old \in Seq(Number) /\ lastSequence'[d] = sequence /\ admitted'[d] = new
      BY <1>1, <1>2, <2>2 DEF NumbersOK
    <3> HIDE DEF old
    <3>2. /\ Len(new) = Len(old) + 1 /\ Len(old) \in Nat /\ new # <<>>
          /\ new[Len(new)] = sequence /\ \A i \in 1..Len(old) : new[i] = old[i]
      BY <3>1
    <3>3. ASSUME NEW i \in 2..Len(new)
          PROVE  new[i] - new[i - 1] \in 1..maxSequenceGap
      <4>1. CASE i \in 2..Len(old)
        <5>1. i \in 1..Len(old) /\ i - 1 \in 1..Len(old)
          BY <4>1, <3>2
        <5>2. new[i] = old[i] /\ new[i - 1] = old[i - 1]
          BY <3>2, <5>1
        <5> QED BY <2>0, <4>1, <5>2 DEF old
      <4>2. CASE i = Len(old) + 1
        <5>1. Len(old) \in 1..Len(old) /\ old # <<>> /\ i - 1 = Len(old)
          BY <3>1, <3>2, <3>3, <4>2
        <5>2. new[i] = sequence /\ new[i - 1] = old[Len(old)]
          BY <3>2, <4>2, <5>1
        <5>3. lastSequence[d] = old[Len(old)]
          BY <2>0, <5>1 DEF old
        <5>4. lastSequence[d] \in Number /\ lastSequence[d] # NoSequence
          BY <3>1, <5>1, <5>3 DEF Number
        <5>5. sequence - lastSequence[device] \in 1..maxSequenceGap
          BY <1>1, <1>2, <2>2, <5>4, TakenAdvances
        <5> QED BY <2>2, <5>2, <5>3, <5>5
      <4> QED BY <3>2, <3>3, <4>1, <4>2
    <3>4. lastSequence'[d] = IF new = <<>> THEN NoSequence ELSE new[Len(new)]
      BY <3>1, <3>2
    <3> HIDE DEF new
    <3> QED BY <3>1, <3>3, <3>4
  <2> QED BY <2>1, <2>2
<1>5. TakenInOrder'
  BY <1>4 DEF TakenInOrder
<1> QED BY <1>3, <1>5 DEF TakenInv

\* An empty ledger has taken nothing.
LEMMA EmptyLedgerInOrder ==
    ASSUME lastSequence = [d \in HintDevice |-> NoSequence],
           admitted = [d \in HintDevice |-> <<>>]
    PROVE  TakenInv
<1>1. NumbersOK
  BY DEF NumbersOK
<1>2. TakenInOrder
  BY DEF TakenInOrder
<1> QED BY <1>1, <1>2 DEF TakenInv

\* No key occurs twice in a sequence of hints.
Distinct(hints) ==
    \A i, j \in DOMAIN hints : DedupeKey(hints[i]) = DedupeKey(hints[j]) => i = j

\* The keys of a queue without its oldest hints are those that are not theirs.
LEMMA TailKeys ==
    ASSUME NEW S, NEW hints \in Seq(S), Distinct(hints), NEW n \in 0..Len(hints)
    PROVE  LET front == SubSeq(hints, 1, n)
               back == SubSeq(hints, n + 1, Len(hints))
           IN  /\ back \in Seq(S) /\ Len(back) = Len(hints) - n
               /\ Distinct(back) /\ Keys(back) = Keys(hints) \ Keys(front)
<1> DEFINE front == SubSeq(hints, 1, n)
           back == SubSeq(hints, n + 1, Len(hints))
<1>1. /\ front \in Seq(S) /\ Len(front) = n
      /\ \A i \in 1..n : front[i] = hints[i]
  OBVIOUS
<1>2. /\ back \in Seq(S) /\ Len(back) = Len(hints) - n
      /\ \A i \in 1..(Len(hints) - n) : back[i] = hints[i + n]
  OBVIOUS
<1>3. /\ Len(hints) \in Nat /\ n \in Nat /\ DOMAIN hints = 1..Len(hints)
      /\ DOMAIN front = 1..n /\ DOMAIN back = 1..(Len(hints) - n)
  BY <1>1, <1>2
<1> HIDE DEF front, back
<1>4. \A i \in DOMAIN back : i + n \in DOMAIN hints /\ back[i] = hints[i + n]
  BY <1>2, <1>3
<1>5. Distinct(back)
  <2> SUFFICES ASSUME NEW i \in DOMAIN back, NEW j \in DOMAIN back,
                      DedupeKey(back[i]) = DedupeKey(back[j])
               PROVE  i = j
    BY DEF Distinct
  <2>1. i + n = j + n
    BY <1>4 DEF Distinct
  <2> QED BY <1>3, <2>1
<1>6. Keys(back) \subseteq Keys(hints) \ Keys(front)
  <2> SUFFICES ASSUME NEW i \in DOMAIN back
               PROVE  DedupeKey(back[i]) \in Keys(hints) \ Keys(front)
    BY DEF Keys
  <2>1. i + n \in DOMAIN hints /\ back[i] = hints[i + n] /\ i + n > n
    BY <1>3, <1>4
  <2>2. ASSUME NEW k \in DOMAIN front, DedupeKey(front[k]) = DedupeKey(back[i])
        PROVE  FALSE
    <3>1. k \in DOMAIN hints /\ front[k] = hints[k] /\ k <= n
      BY <1>1, <1>3
    <3>2. k = i + n
      BY <2>1, <2>2, <3>1 DEF Distinct
    <3> QED BY <1>3, <2>1, <3>1, <3>2
  <2> QED BY <2>1, <2>2 DEF Keys
<1>7. Keys(hints) \ Keys(front) \subseteq Keys(back)
  <2> SUFFICES ASSUME NEW i \in DOMAIN hints, DedupeKey(hints[i]) \notin Keys(front)
               PROVE  DedupeKey(hints[i]) \in Keys(back)
    BY DEF Keys
  <2>1. i \notin 1..n
    BY <1>1, <1>3 DEF Keys
  <2>2. i - n \in DOMAIN back /\ (i - n) + n = i
    BY <1>3, <2>1
  <2>3. back[i - n] = hints[i]
    BY <1>4, <2>2
  <2> QED BY <2>2, <2>3 DEF Keys
<1> QED BY <1>2, <1>5, <1>6, <1>7 DEF front, back

\* A hint with a new key is appended without repeating one.
LEMMA AppendKeys ==
    ASSUME NEW S, NEW hints \in Seq(S), Distinct(hints), NEW hint \in S,
           DedupeKey(hint) \notin Keys(hints)
    PROVE  /\ Append(hints, hint) \in Seq(S)
           /\ Len(Append(hints, hint)) = Len(hints) + 1
           /\ Distinct(Append(hints, hint))
           /\ Keys(Append(hints, hint)) = Keys(hints) \union {DedupeKey(hint)}
<1> DEFINE grown == Append(hints, hint)
           n == Len(hints)
<1>1. /\ grown \in Seq(S) /\ Len(grown) = n + 1 /\ n \in Nat
      /\ grown[n + 1] = hint /\ \A i \in 1..n : grown[i] = hints[i]
      /\ DOMAIN grown = 1..(n + 1) /\ DOMAIN hints = 1..n
  OBVIOUS
<1> HIDE DEF grown, n
<1>2. \A i \in 1..n : DedupeKey(grown[i]) \in Keys(hints)
  BY <1>1 DEF Keys
<1>3. Distinct(grown)
  <2> SUFFICES ASSUME NEW i \in DOMAIN grown, NEW j \in DOMAIN grown,
                      DedupeKey(grown[i]) = DedupeKey(grown[j])
               PROVE  i = j
    BY DEF Distinct
  <2>1. CASE i \in 1..n /\ j \in 1..n
    BY <1>1, <2>1 DEF Distinct
  <2>2. CASE i = n + 1 /\ j \in 1..n
    BY <1>1, <1>2, <2>2
  <2>3. CASE j = n + 1 /\ i \in 1..n
    BY <1>1, <1>2, <2>3
  <2>4. i \in 1..n \/ i = n + 1
    BY <1>1
  <2>5. j \in 1..n \/ j = n + 1
    BY <1>1
  <2> QED BY <2>1, <2>2, <2>3, <2>4, <2>5
<1>4. Keys(grown) = Keys(hints) \union {DedupeKey(hint)}
  <2>1. Keys(grown) \subseteq Keys(hints) \union {DedupeKey(hint)}
    <3> SUFFICES ASSUME NEW i \in DOMAIN grown
                 PROVE  DedupeKey(grown[i]) \in Keys(hints) \union {DedupeKey(hint)}
      BY DEF Keys
    <3>1. i \in 1..n \/ i = n + 1
      BY <1>1
    <3> QED BY <1>1, <1>2, <3>1
  <2>2. DedupeKey(hint) \in Keys(grown)
    <3>1. n + 1 \in DOMAIN grown
      BY <1>1
    <3> QED BY <1>1, <3>1 DEF Keys
  <2>3. Keys(hints) \subseteq Keys(grown)
    <3> SUFFICES ASSUME NEW i \in DOMAIN hints
                 PROVE  DedupeKey(hints[i]) \in Keys(grown)
      BY DEF Keys
    <3>1. i \in DOMAIN grown /\ grown[i] = hints[i]
      BY <1>1
    <3> QED BY <3>1 DEF Keys
  <2> QED BY <2>1, <2>2, <2>3
<1> QED BY <1>1, <1>3, <1>4 DEF grown, n

\* Queueing a new hint evicts as many of the oldest as no longer fit.
LEMMA EnqueueKeeps ==
    ASSUME QueueInv, NEW hint \in CompletionHint, DedupeKey(hint) \notin dedupe,
           Enqueue(hint)
    PROVE  QueueInv'
<1> DEFINE grown == Append(hintQueue, hint)
           n == Excess(grown)
<1>1. /\ hintQueue \in Seq(CompletionHint) /\ Distinct(hintQueue)
      /\ dedupe = Keys(hintQueue) /\ Len(hintQueue) <= maxQueueEntries
  BY DEF QueueInv, QueuedOnce, Distinct
<1>2. /\ grown \in Seq(CompletionHint) /\ Len(grown) = Len(hintQueue) + 1
      /\ Distinct(grown) /\ Keys(grown) = dedupe \union {DedupeKey(hint)}
  BY <1>1, AppendKeys
<1>3. /\ hintQueue' = SubSeq(grown, n + 1, Len(grown))
      /\ dedupe' = Keys(grown) \ Keys(SubSeq(grown, 1, n))
  BY <1>2 DEF Enqueue
<1> HIDE DEF grown
<1>4. n \in 0..Len(grown) /\ Len(grown) - n <= maxQueueEntries
  BY <1>2 DEF Excess
<1> HIDE DEF n
<1>5. /\ hintQueue' \in Seq(CompletionHint) /\ Len(hintQueue') = Len(grown) - n
      /\ Distinct(hintQueue') /\ Keys(hintQueue') = dedupe'
  BY <1>2, <1>3, <1>4, TailKeys
<1>6. Len(hintQueue') <= maxQueueEntries
  BY <1>4, <1>5
<1> QED BY <1>5, <1>6 DEF QueueInv, QueuedOnce, Distinct

-----------------------------------------------------------------------------
(* Theorems                                                                *)

\* In every behaviour the remembered number is the last one taken.
LEMMA TakenInvHolds == HintLedgerSpec => []TakenInv
<1>1. HintLedgerInit => TakenInv
  BY EmptyLedgerInOrder DEF HintLedgerInit
<1>2. TakenInv /\ [HintLedgerNext]_hintLedgerVars => TakenInv'
  <2> SUFFICES ASSUME TakenInv, [HintLedgerNext]_hintLedgerVars PROVE TakenInv'
    OBVIOUS
  <2>1. ASSUME NEW device \in HintDevice, NEW sequence \in 1..MaxSequence,
               NEW notice \in Notice, NEW timing \in HintTiming,
               Admit(device, sequence,
                     [notice |-> notice, observedAt |-> timing.observedAt], timing)
        PROVE  TakenInv'
    BY <2>1, AdmitKeepsOrder DEF Number
  <2>2. ASSUME NEW limit \in 1..maxQueueEntries, Drain(limit)
        PROVE  TakenInv'
    BY <2>2 DEF Drain, TakenInv, NumbersOK, TakenInOrder
  <2>3. CASE ClearHintLedger
    <3>1. /\ lastSequence' = [d \in HintDevice |-> NoSequence]
          /\ admitted' = [d \in HintDevice |-> <<>>]
      BY <2>3 DEF ClearHintLedger
    <3>2. NumbersOK'
      BY <3>1 DEF NumbersOK
    <3>3. TakenInOrder'
      BY <3>1 DEF TakenInOrder
    <3> QED BY <3>2, <3>3 DEF TakenInv
  <2>4. CASE UNCHANGED hintLedgerVars
    BY <2>4 DEF hintLedgerVars, TakenInv, NumbersOK, TakenInOrder
  <2> QED BY <2>1, <2>2, <2>3, <2>4 DEF HintLedgerNext
<1> QED BY <1>1, <1>2, PTL DEF HintLedgerSpec

\* However envelopes are repeated, reordered or lost, the numbers taken of a
\* device ascend in steps of at most maxSequenceGap, and the number that the
\* ledger remembers is the last one taken.
THEOREM Taken == HintLedgerSpec => []TakenInOrder
BY TakenInvHolds, PTL DEF TakenInv

\* In every behaviour queue and keys agree.
LEMMA QueueInvHolds == HintLedgerSpec => []QueueInv
<1>1. HintLedgerInit => QueueInv
  BY DEF HintLedgerInit, QueueInv, QueuedOnce, Keys
<1>2. QueueInv /\ [HintLedgerNext]_hintLedgerVars => QueueInv'
  <2> SUFFICES ASSUME QueueInv, [HintLedgerNext]_hintLedgerVars PROVE QueueInv'
    OBVIOUS
  <2>1. ASSUME NEW device \in HintDevice, NEW sequence \in 1..MaxSequence,
               NEW notice \in Notice, NEW timing \in HintTiming,
               Admit(device, sequence,
                     [notice |-> notice, observedAt |-> timing.observedAt], timing)
        PROVE  QueueInv'
    <3> DEFINE hint == [notice |-> notice, observedAt |-> timing.observedAt]
    <3>1. hint \in CompletionHint
      BY DEF CompletionHint
    <3> HIDE DEF hint
    <3>2. Admit(device, sequence, hint, timing)
      BY <2>1 DEF hint
    <3>3. CASE Verdict(device, sequence, hint, timing) = "accepted" /\ Enqueue(hint)
      BY <3>1, <3>3, EnqueueKeeps, TakenWasNext
    <3>4. CASE UNCHANGED <<hintQueue, dedupe>>
      BY <3>4 DEF QueueInv, QueuedOnce, Keys
    <3> QED BY <3>2, <3>3, <3>4 DEF Admit
  <2>2. ASSUME NEW limit \in 1..maxQueueEntries, Drain(limit) PROVE QueueInv'
    <3> DEFINE n == IF limit < Len(hintQueue) THEN limit ELSE Len(hintQueue)
    <3>1. /\ hintQueue \in Seq(CompletionHint) /\ Distinct(hintQueue)
          /\ dedupe = Keys(hintQueue) /\ Len(hintQueue) <= maxQueueEntries
      BY DEF QueueInv, QueuedOnce, Distinct
    <3>2. n \in 0..Len(hintQueue)
      BY <3>1
    <3>3. /\ hintQueue' = SubSeq(hintQueue, n + 1, Len(hintQueue))
          /\ dedupe' = Keys(hintQueue) \ Keys(SubSeq(hintQueue, 1, n))
      BY <2>2, <3>1 DEF Drain
    <3> HIDE DEF n
    <3>4. /\ hintQueue' \in Seq(CompletionHint)
          /\ Len(hintQueue') = Len(hintQueue) - n
          /\ Distinct(hintQueue') /\ Keys(hintQueue') = dedupe'
      BY <3>1, <3>2, <3>3, TailKeys
    <3>5. Len(hintQueue') <= maxQueueEntries
      BY <3>1, <3>2, <3>4
    <3> QED BY <3>4, <3>5 DEF QueueInv, QueuedOnce, Distinct
  <2>3. CASE ClearHintLedger
    <3>1. hintQueue' = <<>> /\ dedupe' = {}
      BY <2>3 DEF ClearHintLedger
    <3> QED BY <3>1 DEF QueueInv, QueuedOnce, Keys
  <2>4. CASE UNCHANGED hintLedgerVars
    BY <2>4 DEF hintLedgerVars, QueueInv, QueuedOnce, Keys
  <2> QED BY <2>1, <2>2, <2>3, <2>4 DEF HintLedgerNext
<1> QED BY <1>1, <1>2, PTL DEF HintLedgerSpec

\* The queue and the set of its keys agree at all times, no hint is queued
\* twice, and the queue keeps to its limit, through evictions and drains.
THEOREM Queued == HintLedgerSpec => []QueuedOnce
BY QueueInvHolds, PTL DEF QueueInv

-----------------------------------------------------------------------------
(* SyntheticSnapshot: the trace of the active path                          *)

USE SyntheticSnapshotAssumption

\* One step of the climb along the parents, which f has got to.
ClimbBody(g, f, path) ==
    IF g.parent[Head(path)] = NoNode THEN path
    ELSE IF /\ Len(path) < maxActivePathDepth
            /\ g.parent[Head(path)] \in Mapping(g) \ ToSet(path)
            /\ Head(path) \in g.children[g.parent[Head(path)]]
         THEN f[<<g.parent[Head(path)]>> \o path]
         ELSE <<>>

\* The climb, as a function of the path climbed so far.
Climb(g) == CHOOSE f : f = [path \in Seq(Mapping(g)) |-> ClimbBody(g, f, path)]

\* The trace is the climb from the current node.
LEMMA TraceIsClimb ==
    ASSUME NEW g, g.current \in Mapping(g)
    PROVE  TraceActivePath(g) = Climb(g)[<<g.current>>]
  BY DEF TraceActivePath, Climb, ClimbBody

\* The depth limit ends the climb.
LEMMA ClimbExists ==
    ASSUME NEW g
    PROVE  \A path \in Seq(Mapping(g)) :
              Climb(g)[path] = ClimbBody(g, Climb(g), path)
<1> DEFINE S == Seq(Mapping(g))
           Solved(f, n) ==
              /\ f = [path \in S |-> f[path]]
              /\ \A path \in S : Len(path) + n >= maxActivePathDepth
                    => f[path] = ClimbBody(g, f, path)
           Bad == {n \in Nat : \A f : ~Solved(f, n)}
<1>0. maxActivePathDepth \in Nat
  OBVIOUS
<1>1. Bad = {}
  <2> SUFFICES ASSUME Bad # {} PROVE FALSE
    OBVIOUS
  <2>1. PICK n \in Bad : \A m \in Bad : n <= m
    <3>1. Bad \in SUBSET Nat
      OBVIOUS
    <3> HIDE DEF Bad
    <3> QED BY <3>1, LeastNumber
  <2>2. n \in Nat /\ \A f : ~Solved(f, n)
    OBVIOUS
  <2>3. CASE n = 0
    <3> DEFINE z == [path \in S |-> ClimbBody(g, <<>>, path)]
    <3>1. \A path \in S : z[path] = ClimbBody(g, <<>>, path)
      OBVIOUS
    <3>2. z = [path \in S |-> z[path]]
      OBVIOUS
    <3>3. \A path \in S : Len(path) >= maxActivePathDepth
              => ClimbBody(g, <<>>, path) = ClimbBody(g, z, path)
      <4> SUFFICES ASSUME NEW path \in S, Len(path) >= maxActivePathDepth
                   PROVE  ClimbBody(g, <<>>, path) = ClimbBody(g, z, path)
        OBVIOUS
      <4>1. ~(Len(path) < maxActivePathDepth)
        BY <1>0
      <4> HIDE DEF z
      <4> QED BY <4>1 DEF ClimbBody
    <3>4. Solved(z, 0)
      <4>1. \A path \in S : Len(path) + 0 = Len(path)
        OBVIOUS
      <4> HIDE DEF z
      <4> QED BY <3>1, <3>2, <3>3, <4>1
    <3> QED BY <2>2, <2>3, <3>4
  <2>4. CASE n # 0
    <3>1. n - 1 \in Nat /\ n - 1 \notin Bad
      <4> HIDE DEF Bad
      <4> QED BY <2>1, <2>2, <2>4
    <3>2. PICK f : Solved(f, n - 1)
      BY <3>1
    <3> DEFINE h == [path \in S |-> ClimbBody(g, f, path)]
    <3>3. \A path \in S : h[path] = ClimbBody(g, f, path)
      OBVIOUS
    <3>4. h = [path \in S |-> h[path]]
      OBVIOUS
    <3> HIDE DEF h
    <3>5. \A path \in S : Len(path) + n >= maxActivePathDepth
              => ClimbBody(g, f, path) = ClimbBody(g, h, path)
      <4> SUFFICES ASSUME NEW path \in S, Len(path) + n >= maxActivePathDepth
                   PROVE  ClimbBody(g, f, path) = ClimbBody(g, h, path)
        OBVIOUS
      <4> DEFINE above == g.parent[Head(path)]
                 longer == <<above>> \o path
      <4>1. CASE above \in Mapping(g)
        <5>1. longer \in S /\ Len(longer) = Len(path) + 1
          BY <4>1
        <5>2. Len(longer) + (n - 1) >= maxActivePathDepth
          <6> HIDE DEF longer
          <6> QED BY <5>1, <1>0, <2>2
        <5>3. f[longer] = h[longer]
          <6> HIDE DEF longer
          <6> QED BY <3>2, <3>3, <5>1, <5>2
        <5> QED BY <5>3 DEF ClimbBody
      <4>2. CASE above \notin Mapping(g)
        BY <4>2 DEF ClimbBody
      <4> QED BY <4>1, <4>2
    <3>6. Solved(h, n)
      BY <3>3, <3>4, <3>5
    <3> QED BY <2>2, <3>6
  <2> QED BY <2>3, <2>4
<1>2. PICK f : Solved(f, maxActivePathDepth)
  <2>1. maxActivePathDepth \notin Bad
    <3> HIDE DEF Bad
    <3> QED BY <1>1
  <2> HIDE DEF Solved
  <2> QED BY <1>0, <2>1
<1>3. \A path \in S : f[path] = ClimbBody(g, f, path)
  BY <1>0, <1>2
<1>4. f = [path \in S |-> ClimbBody(g, f, path)]
  BY <1>2, <1>3
<1>5. PICK h : h = Climb(g) /\ h = [path \in S |-> ClimbBody(g, h, path)]
  BY <1>4 DEF Climb
<1>6. \A path \in S : h[path] = ClimbBody(g, h, path)
  BY <1>5
<1> QED BY <1>5, <1>6

\* A path along links that agree, short enough and without repetition.
Linked(g, p) ==
    /\ p \in Seq(Mapping(g)) /\ Len(p) \in 1..maxActivePathDepth
    /\ \A i \in 1..(Len(p) - 1) :
          /\ g.parent[p[i + 1]] = p[i]
          /\ p[i + 1] \in g.children[p[i]]
    /\ \A i, j \in 1..Len(p) : i # j => p[i] # p[j]

\* The active path: linked, from a root down to the current node.
ActivePath(g, p) ==
    Linked(g, p) /\ g.parent[p[1]] = NoNode /\ p[Len(p)] = g.current

\* A linked path that the climb may go on from is linked with the next node.
LEMMA LinkedFurther ==
    ASSUME NEW g, NEW p, Linked(g, p), Len(p) < maxActivePathDepth,
           NEW a \in Mapping(g) \ ToSet(p), a = g.parent[p[1]],
           p[1] \in g.children[a]
    PROVE  /\ Linked(g, <<a>> \o p)
           /\ Len(<<a>> \o p) = Len(p) + 1
           /\ (<<a>> \o p)[Len(p) + 1] = p[Len(p)]
<1> DEFINE q == <<a>> \o p
<1>1. p \in Seq(Mapping(g)) /\ Len(p) \in Nat \ {0} /\ maxActivePathDepth \in Nat
  BY DEF Linked
<1>2. /\ q \in Seq(Mapping(g)) /\ Len(q) = Len(p) + 1 /\ q[1] = a
      /\ \A i \in 2..Len(q) : q[i] = p[i - 1]
  BY <1>1
<1> HIDE DEF q
<1>3. \A i \in 1..(Len(q) - 1) : /\ g.parent[q[i + 1]] = q[i]
                                 /\ q[i + 1] \in g.children[q[i]]
  <2> SUFFICES ASSUME NEW i \in 1..(Len(q) - 1)
               PROVE  g.parent[q[i + 1]] = q[i] /\ q[i + 1] \in g.children[q[i]]
    OBVIOUS
  <2>1. q[i + 1] = p[i]
    BY <1>1, <1>2
  <2>2. CASE i = 1
    BY <1>2, <2>1, <2>2
  <2>3. CASE i # 1
    <3>1. i - 1 \in 1..(Len(p) - 1) /\ q[i] = p[i - 1] /\ (i - 1) + 1 = i
      BY <1>1, <1>2, <2>3
    <3> QED BY <2>1, <3>1 DEF Linked
  <2> QED BY <2>2, <2>3
<1>4. \A i \in 1..Len(p) : p[i] # a
  BY <1>1 DEF ToSet
<1>5. \A i, j \in 1..Len(q) : i # j => q[i] # q[j]
  <2> SUFFICES ASSUME NEW i \in 1..Len(q), NEW j \in 1..Len(q), i # j
               PROVE  q[i] # q[j]
    OBVIOUS
  <2>1. CASE i = 1
    BY <1>1, <1>2, <1>4, <2>1
  <2>2. CASE j = 1
    BY <1>1, <1>2, <1>4, <2>2
  <2>3. CASE i # 1 /\ j # 1
    <3>1. /\ i - 1 \in 1..Len(p) /\ j - 1 \in 1..Len(p) /\ i - 1 # j - 1
          /\ q[i] = p[i - 1] /\ q[j] = p[j - 1]
      BY <1>1, <1>2, <2>3
    <3> QED BY <3>1 DEF Linked
  <2> QED BY <2>1, <2>2, <2>3
<1>6. Len(q) \in 1..maxActivePathDepth
  BY <1>1, <1>2
<1>7. Linked(g, q)
  BY <1>2, <1>3, <1>5, <1>6 DEF Linked
<1>8. q[Len(p) + 1] = p[Len(p)]
  BY <1>1, <1>2
<1> QED BY <1>2, <1>7, <1>8 DEF q

\* What a climb ends with, if anything, is linked, and from a root.
LEMMA ClimbLinked ==
    ASSUME NEW g, NEW p, Linked(g, p), Climb(g)[p] # <<>>
    PROVE  /\ Linked(g, Climb(g)[p]) /\ g.parent[Climb(g)[p][1]] = NoNode
           /\ Climb(g)[p][Len(Climb(g)[p])] = p[Len(p)]
<1> DEFINE Good(q) == /\ Linked(g, Climb(g)[q])
                      /\ g.parent[Climb(g)[q][1]] = NoNode
                      /\ Climb(g)[q][Len(Climb(g)[q])] = q[Len(q)]
           Wrong(n, q) == /\ Linked(g, q) /\ Climb(g)[q] # <<>>
                          /\ Len(q) = maxActivePathDepth - n /\ ~Good(q)
           Bad == {n \in Nat : \E q : Wrong(n, q)}
<1>0. maxActivePathDepth \in Nat
  OBVIOUS
<1>1. Bad = {}
  <2> SUFFICES ASSUME Bad # {} PROVE FALSE
    OBVIOUS
  <2>1. PICK n \in Bad : \A m \in Bad : n <= m
    <3>1. Bad \in SUBSET Nat
      OBVIOUS
    <3> HIDE DEF Bad
    <3> QED BY <3>1, LeastNumber
  <2>2. n \in Nat /\ \E q : Wrong(n, q)
    BY <2>1
  <2>3. PICK q : Wrong(n, q)
    BY <2>2
  <2>4. q \in Seq(Mapping(g)) /\ Len(q) \in Nat \ {0} /\ Head(q) = q[1]
    BY <2>3 DEF Linked
  <2>5. Climb(g)[q] = ClimbBody(g, Climb(g), q)
    BY <2>4, ClimbExists
  <2> DEFINE above == g.parent[q[1]]
             longer == <<above>> \o q
  <2>6. CASE above = NoNode
    <3>1. Climb(g)[q] = q
      BY <2>4, <2>5, <2>6 DEF ClimbBody
    <3> QED BY <2>3, <2>6, <3>1
  <2>7. CASE above # NoNode
    <3>1. /\ Len(q) < maxActivePathDepth /\ above \in Mapping(g) \ ToSet(q)
          /\ q[1] \in g.children[above] /\ Climb(g)[q] = Climb(g)[longer]
      <4>1. Climb(g)[q] # <<>>
        BY <2>3
      <4> QED BY <2>4, <2>5, <2>7, <4>1 DEF ClimbBody
    <3>2. /\ Linked(g, longer) /\ Len(longer) = Len(q) + 1
          /\ longer[Len(q) + 1] = q[Len(q)]
      <4>1. Linked(g, q)
        BY <2>3
      <4> HIDE DEF Good
      <4> QED BY <3>1, <4>1, LinkedFurther
    <3> HIDE DEF longer
    <3>3. n - 1 \in Nat /\ Len(longer) = maxActivePathDepth - (n - 1)
      <4>1. Len(q) = maxActivePathDepth - n
        BY <2>3
      <4> QED BY <1>0, <2>2, <2>4, <3>1, <3>2, <4>1
    <3>4. ~Good(longer)
      <4>1. Climb(g)[q] = Climb(g)[longer] /\ longer[Len(longer)] = q[Len(q)]
        BY <3>1, <3>2
      <4>2. ~Good(q)
        BY <2>3
      <4> QED BY <4>1, <4>2
    <3>5. n - 1 \in Bad
      <4>1. Climb(g)[longer] # <<>>
        BY <2>3, <3>1
      <4> HIDE DEF Good
      <4> QED BY <3>2, <3>3, <3>4, <4>1
    <3> HIDE DEF Bad
    <3> QED BY <2>1, <2>2, <3>3, <3>5
  <2> QED BY <2>6, <2>7
<1>2. Len(p) \in Nat /\ maxActivePathDepth - Len(p) \in Nat
        /\ Len(p) = maxActivePathDepth - (maxActivePathDepth - Len(p))
  BY <1>0 DEF Linked
<1>3. ~Wrong(maxActivePathDepth - Len(p), p)
  <2> HIDE DEF Wrong
  <2> QED BY <1>1, <1>2
<1>4. Good(p)
  <2> HIDE DEF Good
  <2> QED BY <1>2, <1>3
<1> QED BY <1>4

\* A trace that is not refused is the active path.
LEMMA TraceFound ==
    ASSUME NEW g, TraceActivePath(g) # <<>>
    PROVE  ActivePath(g, TraceActivePath(g)) /\ g.current \in Mapping(g)
<1>1. g.current \in Mapping(g)
  BY DEF TraceActivePath
<1> DEFINE p == <<g.current>>
<1>2. /\ p \in Seq(Mapping(g)) /\ Len(p) = 1 /\ p[1] = g.current
  BY <1>1
<1> HIDE DEF p
<1>3. Linked(g, p)
  BY <1>2 DEF Linked
<1>4. TraceActivePath(g) = Climb(g)[p]
  BY <1>1, TraceIsClimb DEF p
<1>5. Climb(g)[p] # <<>>
  BY <1>4
<1>6. /\ Linked(g, Climb(g)[p]) /\ g.parent[Climb(g)[p][1]] = NoNode
      /\ Climb(g)[p][Len(Climb(g)[p])] = p[Len(p)]
  BY <1>3, <1>5, ClimbLinked
<1> QED BY <1>1, <1>2, <1>4, <1>6 DEF ActivePath

\* The active path, if there is one, is what the trace finds.
LEMMA TraceFinds ==
    ASSUME NEW g, NEW p, ActivePath(g, p), NoNode \notin Mapping(g)
    PROVE  TraceActivePath(g) = p
<1> DEFINE L == Len(p)
           From(k) == SubSeq(p, k, L)
           Bad == {k \in 1..L : Climb(g)[From(k)] # p}
<1>1. /\ p \in Seq(Mapping(g)) /\ L \in Nat \ {0} /\ L <= maxActivePathDepth
      /\ maxActivePathDepth \in Nat
  BY DEF ActivePath, Linked
<1>2. \A k \in 1..L : /\ From(k) \in Seq(Mapping(g)) /\ Len(From(k)) = L - k + 1
                      /\ Len(From(k)) # 0 /\ Head(From(k)) = p[k]
                      /\ \A i \in 1..(L - k + 1) : From(k)[i] = p[k + i - 1]
  BY <1>1
<1>3. From(1) = p /\ From(L) = <<p[L]>>
  <2>1. /\ From(1) \in Seq(Mapping(g)) /\ Len(From(1)) = L
        /\ \A i \in 1..L : From(1)[i] = p[i]
    BY <1>1, <1>2
  <2>2. From(1) = p
    <3> HIDE DEF From
    <3> QED BY <1>1, <2>1, SeqEqual
  <2>3. /\ From(L) \in Seq(Mapping(g)) /\ Len(From(L)) = 1
        /\ From(L)[1] = p[L]
    BY <1>1, <1>2
  <2>4. From(L) = <<p[L]>>
    <3> HIDE DEF From
    <3> QED BY <2>3
  <2> QED BY <2>2, <2>4
<1>4. Bad = {}
  <2> SUFFICES ASSUME Bad # {} PROVE FALSE
    OBVIOUS
  <2>1. PICK k \in Bad : \A m \in Bad : k <= m
    <3>1. Bad \in SUBSET Nat
      OBVIOUS
    <3> HIDE DEF Bad
    <3> QED BY <3>1, LeastNumber
  <2>2. k \in 1..L /\ Climb(g)[From(k)] # p
    OBVIOUS
  <2>3. Climb(g)[From(k)] = ClimbBody(g, Climb(g), From(k))
    <3> HIDE DEF From
    <3> QED BY <1>2, <2>2, ClimbExists
  <2>4. CASE k = 1
    <3>1. g.parent[Head(From(k))] = NoNode /\ From(k) = p
      BY <1>2, <1>3, <2>2, <2>4 DEF ActivePath
    <3> HIDE DEF From
    <3> QED BY <2>2, <2>3, <3>1 DEF ClimbBody
  <2>5. CASE k # 1
    <3>1. k - 1 \in 1..(L - 1) /\ k - 1 \in 1..L /\ (k - 1) + 1 = k
      BY <1>1, <2>2, <2>5
    <3>2. /\ g.parent[p[k]] = p[k - 1] /\ p[k] \in g.children[p[k - 1]]
          /\ p[k - 1] \in Mapping(g)
      BY <1>1, <3>1 DEF ActivePath, Linked
    <3>3. Len(From(k)) < maxActivePathDepth
      <4>1. Len(From(k)) = L - k + 1
        BY <1>2, <2>2
      <4> HIDE DEF From
      <4> QED BY <1>1, <3>1, <4>1
    <3>4. p[k - 1] \notin ToSet(From(k))
      <4>1. \A i \in 1..Len(From(k)) : From(k)[i] # p[k - 1]
        <5> SUFFICES ASSUME NEW i \in 1..Len(From(k)) PROVE From(k)[i] # p[k - 1]
          OBVIOUS
        <5>1. Len(From(k)) = L - k + 1
          BY <1>2, <2>2
        <5>2. i \in 1..(L - k + 1)
          <6> HIDE DEF From
          <6> QED BY <5>1
        <5>3. From(k)[i] = p[k + i - 1]
          BY <1>2, <2>2, <5>2
        <5>4. k + i - 1 \in 1..L /\ k + i - 1 # k - 1
          <6> HIDE DEF From
          <6> QED BY <1>1, <2>2, <5>2
        <5> HIDE DEF From
        <5> QED BY <3>1, <5>3, <5>4 DEF ActivePath, Linked
      <4>2. From(k) \in Seq(Mapping(g))
        BY <1>2, <2>2
      <4> HIDE DEF From
      <4> QED BY <4>1, <4>2 DEF ToSet
    <3>5. <<p[k - 1]>> \o From(k) = From(k - 1)
      <4>1. <<p[k - 1]>> \o From(k) \in Seq(Mapping(g))
              /\ From(k - 1) \in Seq(Mapping(g))
        <5>1. From(k) \in Seq(Mapping(g)) /\ From(k - 1) \in Seq(Mapping(g))
          BY <1>2, <2>2, <3>1
        <5> HIDE DEF From
        <5> QED BY <3>2, <5>1
      <4>2. Len(<<p[k - 1]>> \o From(k)) = L - k + 2
              /\ Len(From(k - 1)) = L - k + 2
        <5>1. /\ From(k) \in Seq(Mapping(g)) /\ Len(From(k)) = L - k + 1
              /\ Len(From(k - 1)) = L - (k - 1) + 1
          BY <1>2, <2>2, <3>1
        <5> HIDE DEF From
        <5>2. Len(<<p[k - 1]>> \o From(k)) = 1 + Len(From(k))
          BY <5>1
        <5>3. 1 + (L - k + 1) = L - k + 2 /\ L - (k - 1) + 1 = L - k + 2
          BY <1>1, <2>2
        <5> QED BY <5>1, <5>2, <5>3
      <4>3. \A i \in 1..(L - k + 2) :
                (<<p[k - 1]>> \o From(k))[i] = From(k - 1)[i]
        <5> SUFFICES ASSUME NEW i \in 1..(L - k + 2)
                     PROVE  (<<p[k - 1]>> \o From(k))[i] = From(k - 1)[i]
          OBVIOUS
        <5>0. /\ From(k) \in Seq(Mapping(g)) /\ Len(From(k)) = L - k + 1
              /\ \A j \in 1..(L - k + 1) : From(k)[j] = p[k + j - 1]
              /\ \A j \in 1..(L - (k - 1) + 1) : From(k - 1)[j] = p[(k - 1) + j - 1]
          BY <1>2, <2>2, <3>1
        <5> HIDE DEF From
        <5>1. From(k - 1)[i] = p[(k - 1) + i - 1]
          <6>1. i \in 1..(L - (k - 1) + 1)
            BY <1>1, <2>2
          <6> QED BY <5>0, <6>1
        <5>2. CASE i = 1
          <6>1. (<<p[k - 1]>> \o From(k))[1] = p[k - 1] /\ (k - 1) + 1 - 1 = k - 1
            BY <5>0, <3>1, <2>2, <1>1
          <6> QED BY <5>1, <5>2, <6>1
        <5>3. CASE i # 1
          <6>1. i - 1 \in 1..(L - k + 1) /\ k + (i - 1) - 1 = (k - 1) + i - 1
            BY <1>1, <2>2, <5>3
          <6>2. (<<p[k - 1]>> \o From(k))[i] = From(k)[i - 1]
            BY <5>0, <5>3, <6>1, <1>1, <2>2
          <6>3. From(k)[i - 1] = p[k + (i - 1) - 1]
            BY <5>0, <6>1
          <6> QED BY <5>1, <6>1, <6>2, <6>3
        <5> QED BY <5>2, <5>3
      <4> HIDE DEF From
      <4> QED BY <4>1, <4>2, <4>3, SeqEqual
    <3>6. Climb(g)[From(k)] = Climb(g)[From(k - 1)]
      <4>1. Head(From(k)) = p[k] /\ p[k - 1] # NoNode
        BY <1>2, <2>2, <3>2
      <4> HIDE DEF From
      <4> QED BY <2>3, <3>2, <3>3, <3>4, <3>5, <4>1 DEF ClimbBody
    <3>7. k - 1 \in Bad
      <4> HIDE DEF From
      <4> QED BY <2>2, <3>1, <3>6
    <3> HIDE DEF Bad
    <3> QED BY <2>1, <2>2, <3>7
  <2> QED BY <2>4, <2>5
<1>5. Climb(g)[From(L)] = p
  <2>1. L \in 1..L
    BY <1>1
  <2> HIDE DEF From
  <2> QED BY <1>4, <2>1
<1>6. p[L] = g.current /\ g.current \in Mapping(g)
  BY <1>1 DEF ActivePath
<1> QED BY <1>3, <1>5, <1>6, TraceIsClimb

-----------------------------------------------------------------------------
(* SyntheticSnapshot: the plan                                              *)

\* The places up to i at which another group begins.
Changes(path, key, i) == {j \in 2..i : key[path[j]] # key[path[j - 1]]}

\* From a place to the next one the group number stays or grows by one.
LEMMA GroupsByOne ==
    ASSUME NEW path, NEW key, NEW i \in Nat \ {0}
    PROVE  /\ GroupNumber(path, key, i) \in Nat
           /\ GroupNumber(path, key, i + 1) \in
                  {GroupNumber(path, key, i), GroupNumber(path, key, i) + 1}
<1> DEFINE C == Changes(path, key, i)
<1>1. \A n \in Nat : GroupNumber(path, key, n) = 1 + Cardinality(Changes(path, key, n))
  BY DEF GroupNumber, Quantify, Changes
<1>2. IsFiniteSet(C)
  <2>1. C \subseteq 2..i
    BY DEF Changes
  <2>2. IsFiniteSet(2..i)
    BY FS_Interval
  <2> QED BY <2>1, <2>2, FS_Subset
<1>3. Changes(path, key, i + 1) \in {C, C \union {i + 1}} /\ i + 1 \notin C
  BY DEF Changes
<1> HIDE DEF C
<1>4. Cardinality(C) \in Nat
  BY <1>2, FS_CardinalityType
<1>5. Cardinality(C \union {i + 1}) = Cardinality(C) + 1
  BY <1>2, <1>3, FS_AddElement, Zenon
<1>6. C = Changes(path, key, i)
  BY DEF C
<1> QED BY <1>1, <1>3, <1>4, <1>5, <1>6

\* The retained end of a path begins somewhere on it.
LEMMA RetainedOnPath ==
    ASSUME NEW X, NEW path \in Seq(X), path # <<>>, NEW key,
           NEW n \in Nat \ {0}
    PROVE  FirstRetained(path, key, n) \in 1..Len(path)
<1> DEFINE L == Len(path)
           G(i) == GroupNumber(path, key, i)
           T == {i \in 1..L : G(L) - G(i) < n}
<1>1. L \in Nat \ {0} /\ DOMAIN path = 1..L
  OBVIOUS
<1>2. \A i \in Nat \ {0} : G(i) \in Nat /\ G(i + 1) \in {G(i), G(i) + 1}
  BY GroupsByOne
<1> HIDE DEF G
<1>3. T \in SUBSET Nat /\ L \in T
  BY <1>1, <1>2
<1>4. PICK i \in T : \A m \in T : i <= m
  <2> HIDE DEF T
  <2> QED BY <1>3, LeastNumber
<1>5. i \in DOMAIN path /\ G(L) - G(i) < n
  BY <1>1, <1>4
<1>6. i > 1 => G(L) - G(i - 1) = n
  <2> SUFFICES ASSUME i > 1 PROVE G(L) - G(i - 1) = n
    OBVIOUS
  <2>1. i - 1 \in Nat \ {0} /\ i - 1 \in 1..L /\ (i - 1) + 1 = i /\ ~(i <= i - 1)
    BY <1>1, <1>5
  <2>2. ~(G(L) - G(i - 1) < n)
    BY <1>4, <2>1
  <2>3. G(i - 1) \in Nat /\ G(L) \in Nat /\ G(i) \in {G(i - 1), G(i - 1) + 1}
    BY <1>1, <1>2, <2>1
  <2> QED BY <1>5, <2>2, <2>3
<1> QED BY <1>1, <1>5, <1>6 DEF FirstRetained, G

\* A plan is made of the active path, from one of its places on.
Planned(g, plan) ==
    \E first \in 1..Len(TraceActivePath(g)), policy \in Policies :
        plan = PlanFrom(g, TraceActivePath(g), first, policy)

\* Of the part of the path that is not retained at most the root is selected:
\* a sibling of a retained node hangs below that part, and no lower.
LEMMA SelectedOfPath ==
    ASSUME NEW g, NoNode \notin Mapping(g), LinksMutual(g),
           NEW path, ActivePath(g, path),
           NEW first \in 1..Len(path), NEW policy \in Policies
    PROVE  LET S == PlanFrom(g, path, first, policy).selected IN
           /\ S \subseteq Mapping(g)
           /\ \A i \in first..Len(path) : path[i] \in S
           /\ \A i \in 1..(first - 1) : path[i] \in S => i = 1
<1> DEFINE L == Len(path)
           R == ToSet(SubSeq(path, first, L))
           B == UNION {SiblingsAndSelf(g, n) : n \in R}
           S == PlanFrom(g, path, first, policy).selected
<1>1. /\ path \in Seq(Mapping(g)) /\ L \in Nat \ {0}
      /\ g.parent[path[1]] = NoNode
      /\ \A i \in 1..(L - 1) : g.parent[path[i + 1]] = path[i]
      /\ \A i, j \in 1..L : i # j => path[i] # path[j]
  BY DEF ActivePath, Linked
<1>2. R = {path[i] : i \in first..L}
  <2>1. Len(SubSeq(path, first, L)) = L - first + 1
          /\ SubSeq(path, first, L) \in Seq(Mapping(g))
          /\ \A i \in 1..(L - first + 1) :
                SubSeq(path, first, L)[i] = path[first + i - 1]
    BY <1>1
  <2>2. R = {SubSeq(path, first, L)[i] : i \in 1..(L - first + 1)}
    <3> DEFINE q == SubSeq(path, first, L)
    <3>1. q \in Seq(Mapping(g)) /\ Len(q) = L - first + 1 /\ R = ToSet(q)
      BY <2>1
    <3> HIDE DEF q, R
    <3>2. R = {q[i] : i \in 1..(L - first + 1)}
      BY <3>1 DEF ToSet
    <3> QED BY <3>2 DEF q
  <2>3. \A i \in 1..(L - first + 1) : first + i - 1 \in first..L
    BY <1>1
  <2>4. \A i \in first..L : i - first + 1 \in 1..(L - first + 1)
                             /\ first + (i - first + 1) - 1 = i
    BY <1>1
  <2>5. ASSUME NEW x \in R PROVE x \in {path[i] : i \in first..L}
    <3> HIDE DEF R
    <3>1. PICK i \in 1..(L - first + 1) : x = SubSeq(path, first, L)[i]
      BY <2>2, <2>5
    <3>2. x = path[first + i - 1] /\ first + i - 1 \in first..L
      BY <2>1, <2>3, <3>1
    <3> QED BY <3>2
  <2>6. ASSUME NEW j \in first..L PROVE path[j] \in R
    <3> HIDE DEF R
    <3>1. PICK i \in 1..(L - first + 1) : first + i - 1 = j
      BY <2>4
    <3>2. SubSeq(path, first, L)[i] = path[j]
      BY <2>1, <3>1
    <3> QED BY <2>2, <3>2
  <2> HIDE DEF R
  <2> QED BY <2>5, <2>6
<1> HIDE DEF R
<1>3. /\ R \subseteq S
      /\ S \subseteq R \union {path[1]} \union B
  BY DEF PlanFrom, R, S, B
<1>4. ASSUME NEW b \in B
      PROVE  /\ b \in Mapping(g)
             /\ \E j \in first..L : j > 1 /\ g.parent[b] = path[j - 1]
  <2>1. PICK n \in R : b \in SiblingsAndSelf(g, n)
    BY <1>4
  <2>2. PICK j \in first..L : n = path[j]
    BY <1>2, <2>1
  <2>3. g.parent[n] \in Mapping(g) /\ b \in g.children[g.parent[n]]
    BY <2>1 DEF SiblingsAndSelf
  <2>4. j # 1
    BY <1>1, <2>2, <2>3
  <2>5. j - 1 \in 1..(L - 1) /\ (j - 1) + 1 = j /\ j > 1
    BY <1>1, <2>2, <2>4
  <2>6. g.parent[n] = path[j - 1]
    BY <1>1, <2>2, <2>5
  <2>7. b \in Mapping(g) /\ g.parent[b] = g.parent[n]
    BY <2>3 DEF LinksMutual
  <2> QED BY <2>5, <2>6, <2>7
<1> HIDE DEF B, S
<1>5. S \subseteq Mapping(g)
  <2>1. R \subseteq Mapping(g) /\ path[1] \in Mapping(g)
    BY <1>1, <1>2
  <2> QED BY <1>3, <1>4, <2>1
<1>6. \A i \in first..L : path[i] \in S
  BY <1>2, <1>3
<1>7. ASSUME NEW i \in 1..(first - 1), path[i] \in S, i # 1
      PROVE  FALSE
  <2>1. i \in 1..L /\ 1 \in 1..L /\ i - 1 \in 1..(L - 1) /\ (i - 1) + 1 = i
    BY <1>1, <1>7
  <2>2. path[i] \notin R
    <3>1. \A j \in first..L : j \in 1..L /\ i # j
      BY <1>1, <1>7
    <3> QED BY <1>1, <1>2, <2>1, <3>1
  <2>3. path[i] # path[1]
    BY <1>1, <1>7, <2>1
  <2>4. path[i] \in B
    BY <1>3, <1>7, <2>2, <2>3
  <2>5. PICK j \in first..L : j > 1 /\ g.parent[path[i]] = path[j - 1]
    BY <1>4, <2>4
  <2>6. g.parent[path[i]] = path[i - 1]
    BY <1>1, <2>1
  <2>7. j - 1 \in 1..L /\ i - 1 \in 1..L /\ i - 1 # j - 1
    BY <1>1, <1>7, <2>1, <2>5
  <2> QED BY <1>1, <2>5, <2>6, <2>7
<1> QED BY <1>5, <1>6, <1>7 DEF S

-----------------------------------------------------------------------------
(* SyntheticSnapshot: the snapshot                                          *)

\* What is selected is cut loose from the rest: links stay mutual, and every
\* chain of parents ends where it ended, or at a cut.
LEMMA CutIsForest ==
    ASSUME NEW g, NEW plan, LinksMutual(g), ParentChainsEnd(g),
           plan.selected \subseteq Mapping(g), NoNode \notin Mapping(g)
    PROVE  /\ LinksMutual(MaterializeSyntheticSnapshot(g, plan))
           /\ ParentChainsEnd(MaterializeSyntheticSnapshot(g, plan))
<1> DEFINE s == MaterializeSyntheticSnapshot(g, plan)
           S == plan.selected
<1>1. /\ Mapping(s) = S
      /\ \A n \in S : /\ s.parent[n] = CutParent(g, plan, n)
                      /\ s.children[n] = g.children[n] \intersect S
  BY DEF MaterializeSyntheticSnapshot, Mapping
<1>2. \A n \in S : /\ n \in Mapping(g)
                   /\ s.parent[n] = IF g.parent[n] \in S THEN g.parent[n] ELSE NoNode
  BY <1>1 DEF CutParent
<1> HIDE DEF s
<1>3. LinksMutual(s)
  <2> SUFFICES ASSUME NEW n \in S
               PROVE  /\ s.parent[n] # NoNode =>
                            s.parent[n] \in S /\ n \in s.children[s.parent[n]]
                      /\ \A c \in s.children[n] : c \in S /\ s.parent[c] = n
    BY <1>1 DEF LinksMutual
  <2>1. ASSUME s.parent[n] # NoNode
        PROVE  s.parent[n] \in S /\ n \in s.children[s.parent[n]]
    <3>1. g.parent[n] \in S /\ s.parent[n] = g.parent[n]
      BY <1>2, <2>1
    <3>2. g.parent[n] # NoNode
      BY <3>1
    <3>3. n \in g.children[g.parent[n]]
      BY <1>2, <3>2 DEF LinksMutual
    <3> QED BY <1>1, <3>1, <3>3
  <2>2. ASSUME NEW c \in s.children[n] PROVE c \in S /\ s.parent[c] = n
    <3>1. c \in S /\ c \in g.children[n]
      BY <1>1
    <3>2. g.parent[c] = n
      BY <1>2, <3>1 DEF LinksMutual
    <3> QED BY <1>2, <3>1, <3>2
  <2> QED BY <2>1, <2>2
<1>4. ParentChainsEnd(s)
  <2> SUFFICES ASSUME NEW cycle \in (SUBSET S) \ {{}}
               PROVE  \E n \in cycle : s.parent[n] \notin cycle
    BY <1>1 DEF ParentChainsEnd
  <2>1. cycle \in (SUBSET Mapping(g)) \ {{}} /\ NoNode \notin cycle
    OBVIOUS
  <2>2. PICK n \in cycle : g.parent[n] \notin cycle
    BY <2>1 DEF ParentChainsEnd
  <2> QED BY <1>2, <2>1, <2>2
<1> QED BY <1>3, <1>4 DEF s

\* An end of the active path that is selected whole, and nothing right above
\* it, is the active path of the snapshot.
LEMMA EndIsActive ==
    ASSUME NEW g, NEW plan, NEW path, ActivePath(g, path),
           plan.selected \subseteq Mapping(g), NoNode \notin Mapping(g),
           NEW b \in 1..Len(path), \A i \in b..Len(path) : path[i] \in plan.selected,
           b > 1 => path[b - 1] \notin plan.selected
    PROVE  ActivePath(MaterializeSyntheticSnapshot(g, plan),
                      SubSeq(path, b, Len(path)))
<1> DEFINE s == MaterializeSyntheticSnapshot(g, plan)
           S == plan.selected
           L == Len(path)
           q == SubSeq(path, b, L)
<1>0. /\ Mapping(s) = S /\ s.current = g.current
      /\ \A n \in S : /\ s.parent[n] = CutParent(g, plan, n)
                      /\ s.children[n] = g.children[n] \intersect S
  BY DEF MaterializeSyntheticSnapshot, Mapping
<1>1. /\ Mapping(s) = S /\ s.current = g.current
      /\ \A n \in S : /\ s.parent[n] = IF g.parent[n] \in S THEN g.parent[n] ELSE NoNode
                      /\ s.children[n] = g.children[n] \intersect S
  <2> HIDE DEF s
  <2> QED BY <1>0 DEF CutParent
<1> HIDE DEF s
<1>2. /\ path \in Seq(Mapping(g)) /\ L \in Nat \ {0} /\ L <= maxActivePathDepth
      /\ maxActivePathDepth \in Nat
      /\ g.parent[path[1]] = NoNode /\ path[L] = g.current
      /\ \A i \in 1..(L - 1) : /\ g.parent[path[i + 1]] = path[i]
                               /\ path[i + 1] \in g.children[path[i]]
      /\ \A i, j \in 1..L : i # j => path[i] # path[j]
  <2>1. /\ path \in Seq(Mapping(g)) /\ L \in 1..maxActivePathDepth
        /\ g.parent[path[1]] = NoNode /\ path[L] = g.current
    BY DEF ActivePath, Linked
  <2>2. L \in Nat \ {0} /\ L <= maxActivePathDepth /\ maxActivePathDepth \in Nat
    <3> HIDE DEF L
    <3> QED BY <2>1
  <2>3. \A i \in 1..(L - 1) : /\ g.parent[path[i + 1]] = path[i]
                             /\ path[i + 1] \in g.children[path[i]]
    BY DEF ActivePath, Linked
  <2>4. \A i, j \in 1..L : i # j => path[i] # path[j]
    BY DEF ActivePath, Linked
  <2> HIDE DEF L
  <2> QED BY <2>1, <2>2, <2>3, <2>4
<1>3. /\ q \in Seq(Mapping(g)) /\ Len(q) = L - b + 1
      /\ \A i \in 1..(L - b + 1) : q[i] = path[b + i - 1]
  BY <1>2
<1> HIDE DEF q
<1>4. \A i \in 1..Len(q) : \A k : k = b + i - 1 =>
            k \in b..L /\ k \in 1..L /\ q[i] = path[k] /\ q[i] \in S
  BY <1>2, <1>3
<1>5. q \in Seq(S) /\ Len(q) \in 1..maxActivePathDepth
  <2>1. \A i \in 1..Len(q) : q[i] \in S
    BY <1>4
  <2>2. Len(q) \in 1..maxActivePathDepth
    BY <1>2, <1>3
  <2> HIDE DEF S
  <2> QED BY <1>3, <2>1, <2>2
<1>6. ASSUME NEW i \in 1..(Len(q) - 1)
      PROVE  s.parent[q[i + 1]] = q[i] /\ q[i + 1] \in s.children[q[i]]
  <2>1. PICK k \in 1..(L - 1) : k = b + i - 1 /\ k + 1 = b + (i + 1) - 1
    <3>1. b + i - 1 \in 1..(L - 1) /\ (b + i - 1) + 1 = b + (i + 1) - 1
      BY <1>2, <1>3
    <3> HIDE DEF S
    <3> QED BY <3>1
  <2>2. i \in 1..Len(q) /\ i + 1 \in 1..Len(q)
    <3>1. Len(q) \in Nat
      BY <1>5
    <3> QED BY <3>1
  <2>3. q[i] = path[k] /\ q[i] \in S
    BY <1>4, <2>1, <2>2
  <2>4. q[i + 1] = path[k + 1] /\ q[i + 1] \in S
    BY <1>4, <2>1, <2>2
  <2>5. g.parent[q[i + 1]] = q[i] /\ q[i + 1] \in g.children[q[i]]
    BY <1>2, <2>3, <2>4
  <2> QED BY <1>1, <2>3, <2>4, <2>5
<1>7. ASSUME NEW i \in 1..Len(q), NEW j \in 1..Len(q), i # j
      PROVE  q[i] # q[j]
  <2>1. PICK k \in 1..L, m \in 1..L : k = b + i - 1 /\ m = b + j - 1 /\ k # m
    BY <1>2, <1>3, <1>7
  <2>2. q[i] = path[k] /\ q[j] = path[m]
    BY <1>4, <2>1
  <2> QED BY <1>2, <2>1, <2>2
<1>8. Linked(s, q)
  BY <1>1, <1>5, <1>6, <1>7 DEF Linked
<1>9. s.parent[q[1]] = NoNode
  <2>1. 1 \in 1..Len(q) /\ b = b + 1 - 1
    BY <1>2, <1>3
  <2>2. q[1] = path[b] /\ q[1] \in S
    BY <1>4, <2>1
  <2>3. CASE b = 1
    <3>1. g.parent[q[1]] = NoNode
      BY <1>2, <2>2, <2>3
    <3> QED BY <1>1, <2>2, <3>1
  <2>4. CASE b # 1
    <3>1. b - 1 \in 1..(L - 1) /\ (b - 1) + 1 = b /\ b > 1
      BY <1>2, <2>4
    <3>2. g.parent[q[1]] = path[b - 1]
      BY <1>2, <2>2, <3>1
    <3> QED BY <1>1, <2>2, <3>1, <3>2
  <2> QED BY <2>3, <2>4
<1>10. q[Len(q)] = s.current
  <2>1. Len(q) \in 1..Len(q) /\ L = b + Len(q) - 1
    BY <1>2, <1>3
  <2> QED BY <1>1, <1>2, <1>4, <2>1
<1> QED BY <1>8, <1>9, <1>10 DEF ActivePath, s, q

\* What the property says of a snapshot and its conversation.
Stands(g, s) ==
    LET full == TraceActivePath(g)
        path == TraceActivePath(s)
        said == s.boundary
    IN  /\ ValidConversation(s)
        /\ path = SubSeq(full, Len(full) - Len(path) + 1, Len(full))
        /\ said.kind = "complete" <=> path = full
        /\ said.kind = "omitted-parent" => said.omittedCount = Len(full) - Len(path)

\* The snapshot that a plan asks for stands alone.
LEMMA PlannedStands ==
    ASSUME NEW g, NoNode \notin Mapping(g), ValidConversation(g),
           NEW plan, Planned(g, plan)
    PROVE  Stands(g, MaterializeSyntheticSnapshot(g, plan))
<1> DEFINE path == TraceActivePath(g)
           L == Len(path)
           s == MaterializeSyntheticSnapshot(g, plan)
           S == plan.selected
<1>1. /\ LinksMutual(g) /\ ParentChainsEnd(g) /\ path # <<>>
      /\ g.current \in Mapping(g)
  BY DEF ValidConversation
<1>2. ActivePath(g, path)
  BY <1>1, TraceFound
<1> HIDE DEF path
<1>3. PICK first \in 1..L, policy \in Policies :
            plan = PlanFrom(g, path, first, policy)
  BY DEF Planned, path
<1>4. /\ S \subseteq Mapping(g)
      /\ \A i \in first..L : path[i] \in S
      /\ \A i \in 1..(first - 1) : path[i] \in S => i = 1
  BY <1>1, <1>2, <1>3, SelectedOfPath
<1>5. /\ path \in Seq(Mapping(g)) /\ L \in Nat \ {0}
      /\ g.parent[path[1]] = NoNode /\ path[L] = g.current
      /\ \A i \in 1..(L - 1) : g.parent[path[i + 1]] = path[i]
  BY <1>2 DEF ActivePath, Linked
<1>6. /\ plan.omittedPrefix = SubSeq(path, 1, first - 1)
      /\ plan.omittedParent = IF g.parent[path[first]] \in S THEN NoNode
                              ELSE g.parent[path[first]]
      /\ s.boundary = Boundary(plan) /\ s.current = g.current /\ Mapping(s) = S
  BY <1>3 DEF PlanFrom, MaterializeSyntheticSnapshot, Mapping
<1>7. LinksMutual(s) /\ ParentChainsEnd(s)
  BY <1>1, <1>4, CutIsForest
<1>8. NoNode \notin S /\ g.current \in S
  <2>1. L \in first..L
    BY <1>5
  <2> QED BY <1>4, <1>5, <2>1
\* The place from which on the path is selected, and what is said of it.
<1> DEFINE Ends(b) ==
        /\ b \in 1..L /\ \A i \in b..L : path[i] \in S
        /\ b > 1 => path[b - 1] \notin S
        /\ s.boundary.kind = "complete" <=> b = 1
        /\ s.boundary.kind = "omitted-parent" => s.boundary.omittedCount = b - 1
<1>9. \E b \in 1..L : Ends(b)
  <2>1. CASE first = 1
    <3>1. s.boundary = [kind |-> "complete"]
      BY <1>4, <1>5, <1>6, <1>8, <2>1 DEF Boundary
    <3>2. Ends(1)
      <4>1. s.boundary.kind = "complete"
        BY <3>1
      <4> HIDE DEF s, S
      <4> QED BY <1>4, <1>5, <2>1, <4>1
    <3> HIDE DEF Ends
    <3> QED BY <1>5, <3>2
  <2>2. CASE first # 1 /\ path[first - 1] \in S
    <3>0. first - 1 \in 1..(first - 1) /\ first - 1 \in 1..(L - 1)
            /\ (first - 1) + 1 = first
      BY <1>5, <2>2
    <3>1. first = 2
      BY <1>4, <2>2, <3>0
    <3>2. g.parent[path[first]] = path[first - 1]
      BY <1>5, <3>0
    <3>3. s.boundary = [kind |-> "complete"]
      BY <1>6, <2>2, <3>2 DEF Boundary
    <3>4. \A i \in 1..L : path[i] \in S
      <4>1. \A i \in 1..L : i = first - 1 \/ i \in first..L
        BY <1>5, <3>1
      <4> HIDE DEF S
      <4> QED BY <1>4, <2>2, <4>1
    <3>5. Ends(1)
      <4>1. s.boundary.kind = "complete"
        BY <3>3
      <4> HIDE DEF s, S
      <4> QED BY <1>5, <3>4, <4>1
    <3> HIDE DEF Ends
    <3> QED BY <1>5, <3>5
  <2>3. CASE first # 1 /\ path[first - 1] \notin S
    <3>0. first - 1 \in 1..(L - 1) /\ (first - 1) + 1 = first /\ first - 1 \in 1..L
      BY <1>5, <2>3
    <3>1. g.parent[path[first]] = path[first - 1] /\ path[first - 1] # NoNode
      BY <1>5, <3>0
    <3>2. plan.omittedParent # NoNode
      BY <1>6, <2>3, <3>1
    <3>3. Len(plan.omittedPrefix) = first - 1
      BY <1>5, <1>6, <3>0
    <3>4. s.boundary.kind = "omitted-parent" /\ s.boundary.omittedCount = first - 1
      BY <1>6, <3>2, <3>3 DEF Boundary
    <3>5. Ends(first)
      <4> HIDE DEF s, S
      <4> QED BY <1>4, <2>3, <3>4
    <3> HIDE DEF Ends
    <3> QED BY <3>5
  <2> QED BY <2>1, <2>2, <2>3
<1>10. PICK b \in 1..L : Ends(b)
  <2> HIDE DEF Ends
  <2> QED BY <1>9
<1>11. TraceActivePath(s) = SubSeq(path, b, L)
  <2>1. ActivePath(s, SubSeq(path, b, L))
    BY <1>2, <1>4, <1>10, EndIsActive
  <2>2. NoNode \notin Mapping(s)
    BY <1>6, <1>8
  <2> QED BY <2>1, <2>2, TraceFinds
<1> HIDE DEF s
<1>12. Len(SubSeq(path, b, L)) = L - b + 1 /\ SubSeq(path, b, L) # <<>>
         /\ L - (L - b + 1) + 1 = b /\ L - (L - b + 1) = b - 1
  <2>1. Len(SubSeq(path, b, L)) = L - b + 1
    BY <1>5
  <2>2. L - b + 1 # 0 /\ L - (L - b + 1) + 1 = b /\ L - (L - b + 1) = b - 1
    BY <1>5
  <2> QED BY <2>1, <2>2
<1>13. ValidConversation(s)
  BY <1>6, <1>7, <1>8, <1>11, <1>12 DEF ValidConversation
<1>14. SubSeq(path, b, L) = path <=> b = 1
  <2>1. b = 1 => SubSeq(path, b, L) = path
    <3> SUFFICES ASSUME b = 1 PROVE SubSeq(path, 1, L) = path
      OBVIOUS
    <3> DEFINE q == SubSeq(path, 1, L)
    <3>1. /\ q \in Seq(Mapping(g)) /\ Len(q) = L
          /\ \A i \in 1..L : q[i] = path[i]
      BY <1>5
    <3> HIDE DEF q
    <3>2. q = path
      BY <1>5, <3>1, SeqEqual
    <3> QED BY <3>2 DEF q
  <2>2. b # 1 => Len(SubSeq(path, b, L)) # L
    BY <1>5, <1>12
  <2> QED BY <2>1, <2>2
<1>15. TraceActivePath(s) = SubSeq(path, L - Len(TraceActivePath(s)) + 1, L)
         /\ L - Len(TraceActivePath(s)) = b - 1
  BY <1>11, <1>12
<1>16. s.boundary.kind = "complete" <=> TraceActivePath(s) = path
  BY <1>10, <1>11, <1>14
<1>17. s.boundary.kind = "omitted-parent"
         => s.boundary.omittedCount = L - Len(TraceActivePath(s))
  BY <1>10, <1>15
<1>18. Stands(g, s)
  BY <1>13, <1>15, <1>16, <1>17 DEF Stands, path
<1> QED BY <1>18 DEF s

-----------------------------------------------------------------------------
(* SyntheticSnapshot: the callbacks                                         *)

\* Each callback hands on what the next one rests on: a valid conversation, a
\* plan of it, the snapshot that this plan asks for.
SnapshotInv ==
    /\ NoNode \notin Mapping(chat)
    /\ chatStage \in {"detect", "validate-input", "plan", "materialize",
                      "validate-output", "transformed", "refused"}
    /\ chatStage \in {"plan", "materialize", "validate-output", "transformed"} =>
            ValidConversation(chat)
    /\ chatStage \in {"materialize", "validate-output", "transformed"} =>
            Planned(chat, chatPlan)
    /\ IF chatStage \in {"validate-output", "transformed"}
       THEN chatSnapshot = MaterializeSyntheticSnapshot(chat, chatPlan)
       ELSE chatSnapshot = NoSnapshot

\* A plan that is answered is one of the active path.
LEMMA AnswerIsPlanned ==
    ASSUME NEW g, NEW key, NEW policy \in Policies,
           PlanActivePathWindow(g, key, policy).ok
    PROVE  Planned(g, PlanActivePathWindow(g, key, policy).value)
<1> DEFINE path == TraceActivePath(g)
           first == FirstRetained(path, key, policy.maxGroups)
<1>1. /\ path # <<>>
      /\ PlanActivePathWindow(g, key, policy).value = PlanFrom(g, path, first, policy)
  BY DEF PlanActivePathWindow
<1>2. path \in Seq(Mapping(g))
  BY <1>1, TraceFound DEF ActivePath, Linked
<1>3. policy.maxGroups \in Nat \ {0}
  BY DEF Policies
<1>4. first \in 1..Len(path)
  <2> HIDE DEF path
  <2> QED BY <1>1, <1>2, <1>3, RetainedOnPath
<1> QED BY <1>1, <1>4 DEF Planned

\* Every stage keeps it.
LEMMA SnapshotStep == SnapshotInv /\ [SyntheticNext]_syntheticVars => SnapshotInv'
<1> SUFFICES ASSUME SnapshotInv, [SyntheticNext]_syntheticVars PROVE SnapshotInv'
  OBVIOUS
<1>1. ASSUME NEW marker, DetectSynthetic(marker) PROVE SnapshotInv'
  BY <1>1 DEF SnapshotInv, DetectSynthetic
<1>2. CASE ValidateChat
  BY <1>2 DEF SnapshotInv, ValidateChat
<1>3. ASSUME NEW key, NEW policy \in Policies, PlanWindow(key, policy)
      PROVE  SnapshotInv'
  <2>1. /\ chatStage = "plan" /\ chat' = chat /\ chatSnapshot' = chatSnapshot
        /\ IF PlanActivePathWindow(chat, key, policy).ok
           THEN /\ chatPlan' = PlanActivePathWindow(chat, key, policy).value
                /\ chatStage' = "materialize"
           ELSE chatStage' = "refused"
    BY <1>3 DEF PlanWindow
  <2>2. chatStage' = "materialize" => Planned(chat, chatPlan')
    BY <2>1, AnswerIsPlanned
  <2> QED BY <2>1, <2>2 DEF SnapshotInv
<1>4. ASSUME NEW reserved \in BOOLEAN, Materialize(reserved) PROVE SnapshotInv'
  BY <1>4 DEF SnapshotInv, Materialize
<1>5. CASE ValidateSnapshot
  <2>1. /\ chatStage = "validate-output" /\ ValidConversation(chat)
        /\ Planned(chat, chatPlan) /\ NoNode \notin Mapping(chat)
        /\ chatSnapshot = MaterializeSyntheticSnapshot(chat, chatPlan)
    BY <1>5 DEF SnapshotInv, ValidateSnapshot
  <2>2. SnapshotValid(chatSnapshot, chat, chatPlan)
    BY <2>1, PlannedStands DEF Stands, SnapshotValid
  <2>3. /\ chatStage' = "transformed" /\ chat' = chat /\ chatPlan' = chatPlan
        /\ chatSnapshot' = chatSnapshot
    BY <1>5, <2>2 DEF ValidateSnapshot
  <2> QED BY <2>1, <2>3 DEF SnapshotInv
<1>6. CASE UNCHANGED syntheticVars
  BY <1>6 DEF SnapshotInv, syntheticVars
<1>7. CASE chatStage \in {"refused", "transformed"} /\ UNCHANGED syntheticVars
  BY <1>6, <1>7
<1> QED BY <1>1, <1>2, <1>3, <1>4, <1>5, <1>6, <1>7 DEF SyntheticNext

\* Nothing has been made of the conversation that comes in.
LEMMA SnapshotStart == SyntheticInit(Node \union {Unresolved}) => SnapshotInv
<1> SUFFICES ASSUME SyntheticInit(Node \union {Unresolved}) PROVE SnapshotInv
  OBVIOUS
<1>1. Mapping(chat) = Node
  BY DEF SyntheticInit, Conversation, Mapping
<1> QED BY <1>1 DEF SnapshotInv, SyntheticInit

\* Whatever the conversation, the window and the limits: what the adapter makes
\* passes its own check, its path is an end of the source's, and the boundary
\* says truly whether and by how much it falls short.
THEOREM SnapshotsStandAlone == SyntheticSpec => []SnapshotStandsAlone
<1>1. SnapshotInv => SnapshotStandsAlone
  <2> SUFFICES ASSUME SnapshotInv PROVE SnapshotStandsAlone
    OBVIOUS
  <2>1. chatStage # "disowned"
    BY DEF SnapshotInv
  <2>2. ASSUME chatSnapshot # NoSnapshot PROVE Stands(chat, chatSnapshot)
    BY <2>2, PlannedStands DEF SnapshotInv
  <2> QED BY <2>1, <2>2 DEF SnapshotStandsAlone, Stands
<1> QED BY <1>1, SnapshotStart, SnapshotStep, PTL DEF SyntheticSpec

=============================================================================
