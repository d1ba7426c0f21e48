---------------------------- MODULE Firefox_proofs ----------------------------
(***************************************************************************)
(* Proofs about the Firefox extension.  Slim mode: the controller always   *)
(* knows whether turns are missing from the page, and always has a         *)
(* configuration that a reload would recover from.  Observation: the       *)
(* totals of a run that the report calls complete are.                     *)
(***************************************************************************)
EXTENDS FirefoxObservation, SlimMode, CommonFacts_proofs

-----------------------------------------------------------------------------
(* Sequences of sequences                                                  *)

\* One step of the recursion of FlattenSeq.
FlatBody(seqs, g, i) == IF i = 1 THEN seqs[i] ELSE g[i - 1] \o seqs[i]

\* That recursion, as a function of how many sequences have been joined.
Flat(seqs) == CHOOSE g : g = [i \in 1..Len(seqs) |-> FlatBody(seqs, g, i)]

\* That recursion has a solution.
LEMMA FlatExists ==
    ASSUME NEW X, NEW seqs \in Seq(X)
    PROVE  \A i \in 1..Len(seqs) : Flat(seqs)[i] = FlatBody(seqs, Flat(seqs), i)
<1> DEFINE D == 1..Len(seqs)
           Solved(g, n) ==
              /\ g = [i \in D |-> g[i]]
              /\ \A i \in D : i <= n => g[i] = FlatBody(seqs, g, i)
           Bad == {n \in Nat : \A g : ~Solved(g, n)}
<1>1. Bad = {}
  <2> SUFFICES ASSUME Bad # {} PROVE FALSE
    OBVIOUS
  <2>1. PICK n \in Bad : \A m \in Bad : n <= m
    <3>1. Bad \in SUBSET Nat
      OBVIOUS
    <3> HIDE DEF Bad
    <3> QED BY <3>1, LeastNumber
  <2>2. n \in Nat /\ \A g : ~Solved(g, n)
    OBVIOUS
  <2>3. CASE n = 0
    <3> DEFINE z == [i \in D |-> <<>>]
    <3>1. Solved(z, 0)
      OBVIOUS
    <3> QED BY <2>2, <2>3, <3>1
  <2>4. CASE n # 0
    <3>1. n - 1 \in Nat /\ n - 1 \notin Bad
      <4> HIDE DEF Bad
      <4> QED BY <2>1, <2>2, <2>4
    <3>2. PICK g : Solved(g, n - 1)
      BY <3>1
    <3> DEFINE h == [i \in D |-> FlatBody(seqs, g, i)]
    <3>3. \A i \in D : i <= n => FlatBody(seqs, g, i) = FlatBody(seqs, h, i)
      <4> SUFFICES ASSUME NEW i \in D, i <= n
                   PROVE  FlatBody(seqs, g, i) = FlatBody(seqs, h, i)
        OBVIOUS
      <4>1. CASE i = 1
        BY <4>1 DEF FlatBody
      <4>2. CASE i # 1
        <5>1. i - 1 \in D /\ i - 1 <= n - 1
          BY <2>2, <4>2
        <5>2. g[i - 1] = FlatBody(seqs, g, i - 1)
          BY <3>2, <5>1
        <5>3. h[i - 1] = g[i - 1]
          <6> HIDE DEF D
          <6> QED BY <5>1, <5>2
        <5> HIDE DEF h
        <5> QED BY <5>3 DEF FlatBody
      <4> QED BY <4>1, <4>2
    <3>4. Solved(h, n)
      <4>1. \A i \in D : h[i] = FlatBody(seqs, g, i)
        OBVIOUS
      <4>2. h = [i \in D |-> h[i]]
        OBVIOUS
      <4> HIDE DEF h
      <4> QED BY <3>3, <4>1, <4>2
    <3> QED BY <2>2, <3>4
  <2> QED BY <2>3, <2>4
<1>2. PICK g : Solved(g, Len(seqs))
  <2>1. Len(seqs) \in Nat
    OBVIOUS
  <2>2. Len(seqs) \notin Bad
    <3> HIDE DEF Bad
    <3> QED BY <1>1
  <2> HIDE DEF Solved
  <2> QED BY <2>1, <2>2
<1>3. \A i \in D : g[i] = FlatBody(seqs, g, i)
  BY <1>2
<1>4. g = [i \in D |-> FlatBody(seqs, g, i)]
  BY <1>2, <1>3
<1>5. PICK h : h = Flat(seqs) /\ h = [i \in D |-> FlatBody(seqs, h, i)]
  BY <1>4 DEF Flat
<1>6. \A i \in D : h[i] = FlatBody(seqs, h, i)
  BY <1>5
<1> QED BY <1>5, <1>6

\* Joined sequences of elements are a sequence of elements.
LEMMA FlattenType ==
    ASSUME NEW X, NEW seqs \in Seq(Seq(X))
    PROVE  FlattenSeq(seqs) \in Seq(X)
<1> DEFINE F == Flat(seqs)
           Bad == {i \in 1..Len(seqs) : F[i] \notin Seq(X)}
<1>1. \A i \in 1..Len(seqs) : F[i] = FlatBody(seqs, F, i)
  BY FlatExists
<1> HIDE DEF F
<1>2. Bad = {}
  <2> SUFFICES ASSUME Bad # {} PROVE FALSE
    OBVIOUS
  <2>1. PICK n \in Bad : \A m \in Bad : n <= m
    <3>1. Bad \in SUBSET Nat
      OBVIOUS
    <3> HIDE DEF Bad
    <3> QED BY <3>1, LeastNumber
  <2>2. n \in 1..Len(seqs) /\ F[n] \notin Seq(X) /\ seqs[n] \in Seq(X)
    OBVIOUS
  <2>3. n # 1
    BY <1>1, <2>2 DEF FlatBody
  <2>4. n - 1 \in 1..Len(seqs) /\ F[n] = F[n - 1] \o seqs[n]
    <3>1. F[n] = F[n - 1] \o seqs[n]
      BY <1>1, <2>2, <2>3 DEF FlatBody
    <3>2. n - 1 \in 1..Len(seqs)
      BY <2>2, <2>3
    <3> QED BY <3>1, <3>2
  <2>5. n - 1 \notin Bad
    <3> HIDE DEF Bad
    <3> QED BY <2>1, <2>2
  <2>6. F[n - 1] \in Seq(X)
    BY <2>4, <2>5
  <2> QED BY <2>2, <2>4, <2>6
<1>3. CASE Len(seqs) = 0
  <2>1. FlattenSeq(seqs) = <<>>
    BY <1>3 DEF FlattenSeq
  <2> QED BY <2>1
<1>4. CASE Len(seqs) # 0
  <2>1. FlattenSeq(seqs) = F[Len(seqs)]
    BY <1>4 DEF FlattenSeq, F, Flat, FlatBody
  <2>2. Len(seqs) \in 1..Len(seqs)
    BY <1>4
  <2> QED BY <1>2, <2>1, <2>2
<1> QED BY <1>3, <1>4

-----------------------------------------------------------------------------
(* The page                                                                *)

Element == [role : {"user", "assistant", "placeholder"}, streaming : BOOLEAN,
            suppressed : BOOLEAN]
Drift == [everApplied : BOOLEAN, failures : Nat, route : {"settled", "grace"}]
Controller == [mode : SlimModes \union {"stock"}, groups : TurnGroups,
               destructive : BOOLEAN, drift : Drift, applied : BOOLEAN,
               observing : BOOLEAN, timer : {"off", "armed", "rearmed"},
               knowsUrl : BOOLEAN]
SlimRequest == [mode : SlimModes \union {"boot"}, groups : TurnGroups]

\* Turns have been removed from page p.
Missing(p) == \E i \in DOMAIN p : p[i].role = "placeholder"

\* The number of placeholders tells whether turns are missing.
LEMMA PlaceholdersTell ==
    ASSUME NEW p \in Seq(Element)
    PROVE  Placeholders(p) \in Nat /\ (Placeholders(p) > 0 <=> Missing(p))
<1> DEFINE S == DOMAIN p \ Turns(p)
<1>1. IsFiniteSet(S)
  <2>1. DOMAIN p = 1..Len(p) /\ Len(p) \in Nat
    OBVIOUS
  <2>2. IsFiniteSet(DOMAIN p)
    BY <2>1, FS_Interval
  <2>3. S \subseteq DOMAIN p
    OBVIOUS
  <2> QED BY <2>2, <2>3, FS_Subset
<1>2. S # {} <=> Missing(p)
  BY DEF Turns, Missing
<1> HIDE DEF S
<1>3. Cardinality(S) \in Nat /\ (Cardinality(S) = 0 <=> S = {})
  BY <1>1, FS_CardinalityType, FS_EmptySet
<1>4. Placeholders(p) = Cardinality(S)
  BY DEF Placeholders, S
<1> QED BY <1>2, <1>3, <1>4

\* A page that the site has rendered misses nothing.
LEMMA GenuineIsComplete ==
    ASSUME NEW p \in GenuinePage
    PROVE  p \in Seq(Element) /\ ~Missing(p)
<1>1. p \in Seq([role : {"user", "assistant"}, streaming : BOOLEAN,
                 suppressed : {FALSE}])
  BY SlimAssumption
<1>2. \A i \in 1..Len(p) : p[i] \in Element /\ p[i].role # "placeholder"
  <2> DEFINE G == [role : {"user", "assistant"}, streaming : BOOLEAN,
                   suppressed : {FALSE}]
  <2>1. \A e \in G : e \in Element /\ e.role # "placeholder"
    BY DEF Element
  <2>2. p \in Seq(G)
    BY <1>1
  <2> HIDE DEF G
  <2>3. \A i \in 1..Len(p) : p[i] \in G
    BY <2>2
  <2> QED BY <2>1, <2>3
<1>3. p \in Seq(Element)
  BY <1>1, <1>2
<1> QED BY <1>1, <1>2, <1>3 DEF Missing

\* Hiding turns, or showing them again, removes none and brings none back.
LEMMA HidingRemovesNothing ==
    ASSUME NEW p \in Seq(Element)
    PROVE  /\ Unsuppressed(p) \in Seq(Element)
           /\ Missing(Unsuppressed(p)) <=> Missing(p)
           /\ \A keep : /\ Suppressed(p, keep) \in Seq(Element)
                        /\ Missing(Suppressed(p, keep)) <=> Missing(p)
<1>1. DOMAIN p = 1..Len(p) /\ Len(p) \in Nat /\ \A i \in 1..Len(p) : p[i] \in Element
  OBVIOUS
<1>2. \A e \in Element : \A b \in BOOLEAN :
         /\ [e EXCEPT !.suppressed = b] \in Element
         /\ [e EXCEPT !.suppressed = b].role = e.role
  BY DEF Element
<1>3. /\ Unsuppressed(p) \in Seq(Element)
      /\ Missing(Unsuppressed(p)) <=> Missing(p)
  <2>1. \A i \in 1..Len(p) : /\ Unsuppressed(p)[i] \in Element
                             /\ Unsuppressed(p)[i].role = p[i].role
    BY <1>1, <1>2 DEF Unsuppressed
  <2>2. /\ DOMAIN Unsuppressed(p) = 1..Len(p)
        /\ Unsuppressed(p) = [i \in 1..Len(p) |-> Unsuppressed(p)[i]]
    BY <1>1 DEF Unsuppressed
  <2>3. Unsuppressed(p) \in Seq(Element)
    BY <1>1, <2>1, <2>2
  <2> QED BY <1>1, <2>1, <2>2, <2>3 DEF Missing
<1>4. ASSUME NEW keep
      PROVE  /\ Suppressed(p, keep) \in Seq(Element)
             /\ Missing(Suppressed(p, keep)) <=> Missing(p)
  <2>0. \A i : (i \in Turns(p) \ keep) \in BOOLEAN
    OBVIOUS
  <2>1. \A i \in 1..Len(p) : /\ Suppressed(p, keep)[i] \in Element
                             /\ Suppressed(p, keep)[i].role = p[i].role
    BY <1>1, <1>2, <2>0 DEF Suppressed
  <2>2. /\ DOMAIN Suppressed(p, keep) = 1..Len(p)
        /\ Suppressed(p, keep) = [i \in 1..Len(p) |-> Suppressed(p, keep)[i]]
    BY <1>1 DEF Suppressed
  <2>3. Suppressed(p, keep) \in Seq(Element)
    BY <1>1, <2>1, <2>2
  <2> QED BY <1>1, <2>1, <2>2, <2>3 DEF Missing
<1> QED BY <1>3, <1>4

\* What is left of a page by the removal of turns is a page.
LEMMA WindowedType ==
    ASSUME NEW p \in Seq(Element), NEW keep
    PROVE  Windowed(p, keep) \in Seq(Element)
<1> DEFINE piece(i) ==
        IF i \notin Turns(p) \/ i \in keep
        THEN <<[p[i] EXCEPT !.suppressed = FALSE]>>
        ELSE IF BeginsRange(p, keep, i) /\ (i = 1 \/ (i - 1) \in Turns(p))
             THEN <<Placeholder>> ELSE <<>>
           pieces == [i \in DOMAIN p |-> piece(i)]
<1>1. \A i \in DOMAIN p : piece(i) \in Seq(Element)
  <2> SUFFICES ASSUME NEW i \in DOMAIN p PROVE piece(i) \in Seq(Element)
    OBVIOUS
  <2>1. p[i] \in Element
    OBVIOUS
  <2>2. [p[i] EXCEPT !.suppressed = FALSE] \in Element /\ Placeholder \in Element
    BY <2>1 DEF Element, Placeholder
  <2>3. /\ <<[p[i] EXCEPT !.suppressed = FALSE]>> \in Seq(Element)
        /\ <<Placeholder>> \in Seq(Element) /\ <<>> \in Seq(Element)
    BY <2>2
  <2> QED BY <2>3
<1>2. pieces \in Seq(Seq(Element))
  <2>1. DOMAIN p = 1..Len(p) /\ Len(p) \in Nat
    OBVIOUS
  <2> HIDE DEF piece
  <2> QED BY <1>1, <2>1
<1>3. Windowed(p, keep) = FlattenSeq(pieces)
  BY DEF Windowed
<1> HIDE DEF pieces
<1> QED BY <1>2, <1>3, FlattenType

-----------------------------------------------------------------------------
(* The controller                                                          *)

\* What page p, configuration c, controller s and a scheduled reload r have to
\* do with each other.
Recoverable(p, c, s, r) ==
    /\ p \in Seq(Element) /\ c \in Config \union {NoConfig}
    /\ s \in Controller /\ r \in BOOLEAN
    /\ Missing(p) => s.destructive
    /\ Missing(p) /\ ~r => c # NoConfig
    /\ s.mode # "stock" /\ ~r => c # NoConfig

\* The inductive invariant.
SlimInv ==
    /\ Recoverable(page, config, slim, reloading)
    /\ pending \subseteq SlimRequest

\* The drift reducer's results are drift states.
LEMMA DriftTypes ==
    ASSUME NEW d \in Drift
    PROVE  /\ DriftSettled(d) \in Drift /\ DriftRouted(d) \in Drift
           /\ DriftApplied(d) \in Drift /\ InitialDrift \in Drift
           /\ DriftFailed(d).state \in Drift
<1>1. d.failures + 1 \in Nat
  BY DEF Drift
<1>2. /\ DriftSettled(d) \in Drift /\ DriftRouted(d) \in Drift
      /\ DriftApplied(d) \in Drift /\ InitialDrift \in Drift
  BY DEF Drift, DriftSettled, DriftRouted, DriftApplied, InitialDrift
<1>3. DriftFailed(d).state \in Drift
  BY <1>1 DEF Drift, DriftFailed
<1> QED BY <1>2, <1>3

\* A controller as another left it, but for the fields that decide nothing.
SameMode(t, s) ==
    /\ t \in Controller /\ t.mode = s.mode /\ t.groups = s.groups

\* Arming the timer, starting to observe, what a mutation does.
LEMMA ArmingKeeps ==
    ASSUME NEW s \in Controller
    PROVE  /\ SameMode(Scheduled(s), s) /\ Scheduled(s).destructive = s.destructive
           /\ SameMode(Watching(s), s) /\ Watching(s).destructive = s.destructive
           /\ SameMode(Observed(s), s) /\ Observed(s).destructive = s.destructive
<1>1. ASSUME NEW t \in Controller
      PROVE  SameMode(Scheduled(t), t) /\ Scheduled(t).destructive = t.destructive
  BY DEF Controller, Scheduled, SameMode
<1>2. /\ [s EXCEPT !.observing = TRUE] \in Controller
      /\ SameMode([s EXCEPT !.observing = TRUE], s)
      /\ [s EXCEPT !.observing = TRUE].destructive = s.destructive
  BY DEF Controller, SameMode
<1>3. SameMode(Watching(s), s) /\ Watching(s).destructive = s.destructive
  BY <1>1, <1>2 DEF Watching, SameMode
<1>4. SameMode(s, s)
  BY DEF SameMode
<1> QED BY <1>1, <1>3, <1>4 DEF Observed

\* A new script knows of no removed turns, and has the recorded mode.
LEMMA BootedFacts ==
    ASSUME NEW c \in Config \union {NoConfig}
    PROVE  /\ Booted(c) \in Controller
           /\ Booted(c).mode # "stock" => c # NoConfig
           /\ AwaitedAtBoot(c) \subseteq SlimRequest
<1>1. InitialDrift \in Drift
  BY DEF Drift, InitialDrift
<1>2. DEFAULT_TURN_GROUPS \in TurnGroups
  BY SlimAssumption
<1>3. CASE c = NoConfig
  BY <1>1, <1>2, <1>3 DEF Booted, Controller, AwaitedAtBoot
<1>4. CASE c # NoConfig
  <2>1. c \in Config /\ c.mode \in SlimModes /\ c.groups \in TurnGroups
    BY <1>4 DEF Config
  <2>2. Booted(c) \in Controller
    BY <1>1, <1>4, <2>1 DEF Booted, Controller
  <2>3. [c EXCEPT !.mode = "boot"] \in SlimRequest
    BY <2>1 DEF Config, SlimRequest
  <2> QED BY <1>4, <2>2, <2>3 DEF AwaitedAtBoot
<1> QED BY <1>3, <1>4

\* Failing open keeps page and controller recoverable: it restores in place
\* only a page that misses nothing.
LEMMA FailOpenRecovers ==
    ASSUME NEW s \in Controller, NEW p \in Seq(Element), reloading \in BOOLEAN,
           Missing(p) => s.destructive, FailOpen(s, p)
    PROVE  Recoverable(page', config', slim', reloading')
<1> DEFINE halted == [s EXCEPT !.observing = FALSE, !.timer = "off",
                               !.drift = InitialDrift]
<1>1. InitialDrift \in Drift
  BY DEF Drift, InitialDrift
<1>2. /\ halted \in Controller /\ halted.destructive = s.destructive
      /\ [halted EXCEPT !.mode = "stock", !.applied = FALSE] \in Controller
      /\ [halted EXCEPT !.mode = "stock", !.applied = FALSE].mode = "stock"
  BY <1>1 DEF Controller
<1>3. CASE s.destructive
  <2>1. slim' = halted /\ page' = p /\ reloading' = TRUE /\ config' = NoConfig
    BY <1>3 DEF FailOpen
  <2> HIDE DEF halted
  <2> QED BY <1>2, <1>3, <2>1 DEF Recoverable
<1>4. CASE ~s.destructive
  <2>1. /\ slim' = [halted EXCEPT !.mode = "stock", !.applied = FALSE]
        /\ page' = Unsuppressed(p) /\ reloading' = reloading /\ config' = NoConfig
    BY <1>4 DEF FailOpen
  <2>2. Unsuppressed(p) \in Seq(Element) /\ ~Missing(Unsuppressed(p))
    BY <1>4, HidingRemovesNothing
  <2> HIDE DEF halted
  <2> QED BY <1>2, <2>1, <2>2 DEF Recoverable
<1> QED BY <1>3, <1>4

\* Apply as far as it has looked at the URL.
LEMMA ReroutedKnows ==
    ASSUME NEW s \in Controller, page \in Seq(Element),
           Missing(page) => s.destructive
    PROVE  SameMode(Rerouted(s), s) /\ (Missing(page) => Rerouted(s).destructive)
<1>1. CASE s.knowsUrl
  BY <1>1 DEF Rerouted, SameMode
<1>2. CASE ~s.knowsUrl
  <2>1. s.drift \in Drift /\ DriftRouted(s.drift) \in Drift
    <3>1. s.drift \in Drift
      BY DEF Controller
    <3> QED BY <3>1, DriftTypes
  <2>2. Placeholders(page) > 0 <=> Missing(page)
    BY PlaceholdersTell
  <2>3. Rerouted(s) = [s EXCEPT !.knowsUrl = TRUE, !.applied = FALSE,
                          !.destructive = Placeholders(page) > 0,
                          !.drift = DriftRouted(s.drift)]
    BY <1>2 DEF Rerouted
  <2>4. (Placeholders(page) > 0) \in BOOLEAN
    OBVIOUS
  <2>5. SameMode(Rerouted(s), s)
    BY <2>1, <2>3, <2>4 DEF Controller, SameMode
  <2>6. Rerouted(s).destructive = (Placeholders(page) > 0)
    BY <2>3 DEF Controller
  <2> QED BY <2>2, <2>5, <2>6
<1> QED BY <1>1, <1>2

\* A success keeps everything but the drift and the applied mark.
LEMMA AppliedKeeps ==
    ASSUME NEW s \in Controller, NEW b \in BOOLEAN
    PROVE  SameMode(Applied(s, b), s) /\ Applied(s, b).destructive = s.destructive
<1>1. DriftApplied(s.drift) \in Drift
  <2>1. s.drift \in Drift
    BY DEF Controller
  <2> QED BY <2>1, DriftTypes
<1> QED BY <1>1 DEF Controller, Applied, SameMode

\* The removal of turns, whether it succeeds or overruns its budget.
LEMMA RemovalRecovers ==
    ASSUME NEW s \in Controller, page \in Seq(Element), reloading \in BOOLEAN,
           config \in Config \union {NoConfig}, ~reloading => config # NoConfig,
           Missing(page) => s.destructive, RemoveTurns(s)
    PROVE  Recoverable(page', config', slim', reloading')
<1> DEFINE windowed == Windowed(page, Retained(page, s.groups))
           removed == windowed # Unsuppressed(page)
           marked == [s EXCEPT !.observing = TRUE, !.destructive = @ \/ removed]
<1>1. windowed \in Seq(Element)
  BY WindowedType
<1>2. /\ marked \in Controller /\ marked.destructive = (s.destructive \/ removed)
      /\ marked.mode = s.mode
  <2>1. removed \in BOOLEAN /\ s.destructive \in BOOLEAN
    BY DEF Controller
  <2>2. (s.destructive \/ removed) \in BOOLEAN
    OBVIOUS
  <2> HIDE DEF removed
  <2> QED BY <2>1, <2>2 DEF Controller
<1>3. Missing(windowed) => marked.destructive
  <2>1. ~removed => (Missing(windowed) <=> Missing(page))
    BY HidingRemovesNothing
  <2> HIDE DEF windowed, removed, marked
  <2> QED BY <1>2, <2>1
<1>4. \/ FailOpen(marked, windowed)
      \/ /\ page' = windowed /\ slim' = Applied(marked, ~removed)
         /\ config' = config /\ reloading' = reloading
  BY DEF RemoveTurns
<1>5. (~removed) \in BOOLEAN
  OBVIOUS
<1> HIDE DEF windowed, removed, marked
<1>6. ASSUME FailOpen(marked, windowed)
      PROVE  Recoverable(page', config', slim', reloading')
  BY <1>1, <1>2, <1>3, <1>6, FailOpenRecovers
<1>7. ASSUME page' = windowed, slim' = Applied(marked, ~removed),
             config' = config, reloading' = reloading
      PROVE  Recoverable(page', config', slim', reloading')
  <2>1. SameMode(slim', marked) /\ slim'.destructive = marked.destructive
    BY <1>2, <1>5, <1>7, AppliedKeeps
  <2> QED BY <1>1, <1>2, <1>3, <1>7, <2>1 DEF Recoverable, SameMode
<1> QED BY <1>4, <1>6, <1>7

-----------------------------------------------------------------------------
(* The steps                                                               *)

\* The apply timer.
LEMMA ApplyRecovers ==
    ASSUME SlimInv, Apply
    PROVE  Recoverable(page', config', slim', reloading')
<1> DEFINE disarmed == [slim EXCEPT !.timer = "off"]
           s == Rerouted(disarmed)
           settled == [s EXCEPT !.drift = DriftSettled(@)]
           decision == DriftFailed(s.drift)
           next == [s EXCEPT !.drift = decision.state]
<1>1. /\ slim \in Controller /\ page \in Seq(Element) /\ reloading \in BOOLEAN
      /\ config \in Config \union {NoConfig}
      /\ Missing(page) => slim.destructive
      /\ Missing(page) /\ ~reloading => config # NoConfig
      /\ slim.mode # "stock" /\ ~reloading => config # NoConfig
  BY DEF SlimInv, Recoverable
<1>2. /\ disarmed \in Controller /\ disarmed.destructive = slim.destructive
      /\ disarmed.mode = slim.mode
  BY <1>1 DEF Controller
<1>3. /\ s \in Controller /\ s.mode = slim.mode
      /\ Missing(page) => s.destructive
  <2> HIDE DEF disarmed
  <2> QED BY <1>1, <1>2, ReroutedKnows DEF SameMode
<1>4. /\ ~Discovered => DiscoveryFails(s)
      /\ Discovered => \/ slim' = settled /\ UNCHANGED <<page, config, reloading>>
                       \/ s.mode = "latest-window" /\ RemoveTurns(settled)
                       \/ /\ page' = Suppressed(page, Retained(page, s.groups))
                          /\ slim' = Applied(settled, TRUE)
                          /\ UNCHANGED <<config, reloading>>
  BY DEF Apply
<1> HIDE DEF s
<1>5. /\ settled \in Controller /\ settled.mode = s.mode
      /\ settled.destructive = s.destructive
      /\ next \in Controller /\ next.mode = s.mode
      /\ next.destructive = s.destructive
  <2>1. s.drift \in Drift
    BY <1>3 DEF Controller
  <2>2. DriftSettled(s.drift) \in Drift /\ decision.state \in Drift
    BY <2>1, DriftTypes
  <2> HIDE DEF decision
  <2> QED BY <1>3, <2>2 DEF Controller
<1>6. ASSUME ~Discovered PROVE Recoverable(page', config', slim', reloading')
  <2>1. \/ FailOpen(next, page)
        \/ /\ slim' = Scheduled(next) \/ slim' = next
           /\ UNCHANGED <<page, config, reloading>>
    BY <1>4, <1>6 DEF DiscoveryFails
  <2> HIDE DEF next
  <2>2. ASSUME FailOpen(next, page)
        PROVE  Recoverable(page', config', slim', reloading')
    BY <1>1, <1>3, <1>5, <2>2, FailOpenRecovers
  <2>3. ASSUME slim' = Scheduled(next) \/ slim' = next,
               UNCHANGED <<page, config, reloading>>
        PROVE  Recoverable(page', config', slim', reloading')
    <3>1. /\ slim' \in Controller /\ slim'.mode = slim.mode
          /\ slim'.destructive = s.destructive
      BY <1>3, <1>5, <2>3, ArmingKeeps DEF SameMode
    <3> QED BY <1>1, <1>3, <2>3, <3>1 DEF Recoverable
  <2> QED BY <2>1, <2>2, <2>3
<1> HIDE DEF settled
<1>7. ASSUME slim' = settled, UNCHANGED <<page, config, reloading>>
      PROVE  Recoverable(page', config', slim', reloading')
  BY <1>1, <1>3, <1>5, <1>7 DEF Recoverable
<1>8. ASSUME s.mode = "latest-window", RemoveTurns(settled)
      PROVE  Recoverable(page', config', slim', reloading')
  <2>1. ~reloading => config # NoConfig
    BY <1>1, <1>3, <1>8
  <2> QED BY <1>1, <1>3, <1>5, <1>8, <2>1, RemovalRecovers
<1>9. ASSUME page' = Suppressed(page, Retained(page, s.groups)),
             slim' = Applied(settled, TRUE), UNCHANGED <<config, reloading>>
      PROVE  Recoverable(page', config', slim', reloading')
  <2>1. page' \in Seq(Element) /\ (Missing(page') <=> Missing(page))
    BY <1>1, <1>9, HidingRemovesNothing
  <2>2. /\ slim' \in Controller /\ slim'.mode = slim.mode
        /\ slim'.destructive = s.destructive
    BY <1>3, <1>5, <1>9, AppliedKeeps DEF SameMode
  <2> QED BY <1>1, <1>3, <1>9, <2>1, <2>2 DEF Recoverable
<1> QED BY <1>4, <1>6, <1>7, <1>8, <1>9

\* An answer to a request for authorization.
LEMMA AnswerRecovers ==
    ASSUME SlimInv, NEW asked \in pending,
           Denied(asked) \/ Authorized(asked) \/ Unrecorded(asked)
    PROVE  Recoverable(page', config', slim', reloading')
<1>1. /\ slim \in Controller /\ page \in Seq(Element) /\ reloading \in BOOLEAN
      /\ config \in Config \union {NoConfig}
      /\ Missing(page) => slim.destructive
      /\ Missing(page) /\ ~reloading => config # NoConfig
      /\ slim.mode # "stock" /\ ~reloading => config # NoConfig
      /\ asked \in SlimRequest
  BY DEF SlimInv, Recoverable
<1>2. ASSUME FailOpen(slim, page)
      PROVE  Recoverable(page', config', slim', reloading')
  BY <1>1, <1>2, FailOpenRecovers
<1>3. ASSUME UNCHANGED <<page, config, slim, reloading>>
      PROVE  Recoverable(page', config', slim', reloading')
  BY <1>1, <1>3 DEF Recoverable
<1>4. ASSUME slim' = Watching(slim), UNCHANGED <<page, config, reloading>>
      PROVE  Recoverable(page', config', slim', reloading')
  BY <1>1, <1>4, ArmingKeeps DEF Recoverable, SameMode
<1>5. ASSUME asked.mode # "boot", config' = asked, page' = page,
             slim' = [slim EXCEPT !.observing = FALSE], reloading' = TRUE
      PROVE  Recoverable(page', config', slim', reloading')
  <2>1. asked \in Config
    BY <1>1, <1>5 DEF SlimRequest, Config
  <2>2. slim' \in Controller /\ slim'.destructive = slim.destructive
    BY <1>1, <1>5 DEF Controller
  <2> QED BY <1>1, <1>5, <2>1, <2>2 DEF Recoverable
<1>6. ASSUME asked.mode # "boot", config' = asked, page' = page,
             slim' = Watching([slim EXCEPT
                        !.mode = asked.mode, !.groups = asked.groups,
                        !.drift = InitialDrift, !.applied = FALSE]),
             reloading' = reloading
      PROVE  Recoverable(page', config', slim', reloading')
  <2> DEFINE taken == [slim EXCEPT
                         !.mode = asked.mode, !.groups = asked.groups,
                         !.drift = InitialDrift, !.applied = FALSE]
  <2>1. asked \in Config /\ asked.mode \in SlimModes /\ asked.groups \in TurnGroups
    BY <1>1, <1>6 DEF SlimRequest, Config
  <2>2. config' # NoConfig
    BY <1>6, <2>1, SlimAssumption
  <2>3. taken \in Controller /\ taken.destructive = slim.destructive
    <3>1. InitialDrift \in Drift
      BY DEF Drift, InitialDrift
    <3> QED BY <1>1, <2>1, <3>1 DEF Controller
  <2> HIDE DEF taken
  <2>4. slim' \in Controller /\ slim'.destructive = slim.destructive
    <3>1. slim' = Watching(taken)
      BY <1>6 DEF taken
    <3> QED BY <2>3, <3>1, ArmingKeeps DEF SameMode
  <2> QED BY <1>1, <1>6, <2>1, <2>2, <2>4 DEF Recoverable
<1>7. CASE Denied(asked)
  BY <1>2, <1>3, <1>7 DEF Denied
<1>8. CASE Authorized(asked)
  BY <1>4, <1>5, <1>6, <1>8 DEF Authorized
<1>9. CASE Unrecorded(asked)
  BY <1>3, <1>9 DEF Unrecorded
<1> QED BY <1>7, <1>8, <1>9

\* What the site does to its page.
LEMMA PageRecovers ==
    ASSUME SlimInv, SlimPage
    PROVE  Recoverable(page', config', slim', reloading')
<1>1. /\ slim \in Controller /\ page \in Seq(Element) /\ reloading \in BOOLEAN
      /\ config \in Config \union {NoConfig}
      /\ Missing(page) => slim.destructive
      /\ Missing(page) /\ ~reloading => config # NoConfig
      /\ slim.mode # "stock" /\ ~reloading => config # NoConfig
  BY DEF SlimInv, Recoverable
<1>2. ASSUME NEW p \in Seq(Element), Missing(p) => Missing(page),
             page' = p, UNCHANGED <<config, reloading>>,
             slim' \in Controller, slim'.mode = slim.mode,
             slim'.destructive = slim.destructive
      PROVE  Recoverable(page', config', slim', reloading')
  BY <1>1, <1>2 DEF Recoverable
<1>3. ASSUME NEW p \in Seq(Element), Shows(p)
      PROVE  /\ page' = p /\ slim' \in Controller /\ slim'.mode = slim.mode
             /\ slim'.destructive = slim.destructive
  <2> DEFINE o == Observed(slim)
  <2>1. o \in Controller /\ o.mode = slim.mode /\ o.destructive = slim.destructive
    BY <1>1, ArmingKeeps DEF SameMode
  <2>2. page' = p /\ slim' = [o EXCEPT !.applied = @ /\ p = page]
    BY <1>3 DEF Shows
  <2> HIDE DEF o
  <2>3. (o.applied /\ p = page) \in BOOLEAN
    OBVIOUS
  <2> QED BY <2>1, <2>2, <2>3 DEF Controller
<1>4. CASE TurnArrives
  <2>1. PICK role \in {"user", "assistant"} :
           Shows(Append(page, [role |-> role, suppressed |-> FALSE,
                               streaming |-> role = "assistant"]))
    BY <1>4 DEF TurnArrives
  <2> DEFINE e == [role |-> role, suppressed |-> FALSE,
                   streaming |-> role = "assistant"]
             p == Append(page, e)
  <2>2. e \in Element /\ e.role # "placeholder"
    <3>1. (role = "assistant") \in BOOLEAN
      OBVIOUS
    <3> QED BY <3>1 DEF Element
  <2> HIDE DEF e
  <2>3. p \in Seq(Element) /\ (Missing(p) => Missing(page))
    <3>1. /\ p \in Seq(Element) /\ Len(p) = Len(page) + 1 /\ Len(page) \in Nat
          /\ p[Len(page) + 1] = e
          /\ \A i \in 1..Len(page) : p[i] = page[i]
      BY <1>1, <2>2
    <3>2. DOMAIN page = 1..Len(page) /\ DOMAIN p = 1..(Len(page) + 1)
      BY <1>1, <3>1
    <3> HIDE DEF p
    <3>3. \A i \in DOMAIN p : i \in DOMAIN page \/ i = Len(page) + 1
      BY <3>1, <3>2
    <3> QED BY <2>2, <3>1, <3>2, <3>3 DEF Missing
  <2>4. Shows(p)
    BY <2>1 DEF e
  <2> HIDE DEF p
  <2> QED BY <1>2, <1>3, <1>4, <2>3, <2>4 DEF TurnArrives
<1>5. CASE StreamEnds
  <2>1. PICK i \in DOMAIN page : Shows([page EXCEPT ![i].streaming = FALSE])
    BY <1>5 DEF StreamEnds
  <2> DEFINE p == [page EXCEPT ![i].streaming = FALSE]
  <2>2. /\ p \in Seq(Element) /\ DOMAIN p = DOMAIN page
        /\ \A j \in DOMAIN page : p[j].role = page[j].role
    <3>1. DOMAIN page = 1..Len(page) /\ Len(page) \in Nat
      BY <1>1
    <3>2. \A j \in DOMAIN page : page[j] \in Element
      BY <1>1
    <3>3. \A x \in Element : /\ [x EXCEPT !.streaming = FALSE] \in Element
                             /\ [x EXCEPT !.streaming = FALSE].role = x.role
      BY DEF Element
    <3>4. /\ p = [j \in DOMAIN page |-> IF j = i THEN [page[j] EXCEPT !.streaming = FALSE]
                                      ELSE page[j]]
      BY <1>1
    <3>5. /\ DOMAIN p = DOMAIN page
          /\ \A j \in DOMAIN page : p[j] \in Element /\ p[j].role = page[j].role
      <4> HIDE DEF p
      <4> QED BY <3>2, <3>3, <3>4
    <3>6. p = [j \in 1..Len(page) |-> p[j]]
      BY <3>1
    <3> HIDE DEF p
    <3> QED BY <3>1, <3>5, <3>6
  <2> HIDE DEF p
  <2>3. Missing(p) => Missing(page)
    BY <2>2 DEF Missing
  <2>4. Shows(p)
    BY <2>1 DEF p
  <2> QED BY <1>2, <1>3, <1>5, <2>2, <2>3, <2>4 DEF StreamEnds
<1>6. CASE LayoutChanges
  <2>1. Shows(page) /\ UNCHANGED <<config, reloading>>
    BY <1>6 DEF LayoutChanges
  <2> QED BY <1>1, <1>2, <1>3, <2>1
<1>7. CASE Mutates
  <2>1. slim' = Scheduled(slim) /\ page' = page /\ UNCHANGED <<config, reloading>>
    BY <1>7 DEF Mutates
  <2>2. /\ slim' \in Controller /\ slim'.mode = slim.mode
        /\ slim'.destructive = slim.destructive
    BY <1>1, <2>1, ArmingKeeps DEF SameMode
  <2> QED BY <1>1, <1>2, <2>1, <2>2
<1>8. CASE Navigate
  <2>1. PICK p \in GenuinePage \union {page} :
           /\ page' = p
           /\ slim' = [(IF p = page THEN slim ELSE Observed(slim)) EXCEPT
                          !.knowsUrl = FALSE]
    BY <1>8 DEF Navigate
  <2> DEFINE o == IF p = page THEN slim ELSE Observed(slim)
  <2>2. o \in Controller /\ o.mode = slim.mode /\ o.destructive = slim.destructive
    BY <1>1, ArmingKeeps DEF SameMode
  <2>3. slim' = [o EXCEPT !.knowsUrl = FALSE]
    BY <2>1
  <2> HIDE DEF o
  <2>4. /\ slim' \in Controller /\ slim'.mode = slim.mode
        /\ slim'.destructive = slim.destructive
    BY <2>2, <2>3 DEF Controller
  <2>5. p \in Seq(Element) /\ (Missing(p) => Missing(page))
    BY <1>1, GenuineIsComplete
  <2> QED BY <1>2, <1>8, <2>1, <2>4, <2>5 DEF Navigate
<1> QED BY <1>4, <1>5, <1>6, <1>7, <1>8 DEF SlimPage

\* Every step keeps the invariant.
LEMMA SlimStep == ASSUME SlimInv, [SlimNext]_slimVars PROVE SlimInv'
<1>1. /\ slim \in Controller /\ page \in Seq(Element) /\ reloading \in BOOLEAN
      /\ config \in Config \union {NoConfig}
      /\ Missing(page) => slim.destructive
      /\ Missing(page) /\ ~reloading => config # NoConfig
      /\ slim.mode # "stock" /\ ~reloading => config # NoConfig
      /\ pending \subseteq SlimRequest
  BY DEF SlimInv, Recoverable
<1>2. ASSUME Recoverable(page', config', slim', reloading'),
             pending' \subseteq SlimRequest
      PROVE  SlimInv'
  BY <1>2 DEF SlimInv
<1>3. ASSUME UNCHANGED <<page, config, slim, reloading>>
      PROVE  Recoverable(page', config', slim', reloading')
  BY <1>1, <1>3 DEF Recoverable
<1>4. CASE UNCHANGED slimVars
  BY <1>1, <1>2, <1>3, <1>4 DEF slimVars
<1>5. ASSUME NEW mode \in SlimModes, NEW groups \in TurnGroups,
             SetSlimMode(mode, groups)
      PROVE  SlimInv'
  <2>1. [mode |-> mode, groups |-> groups] \in SlimRequest
    BY DEF SlimRequest
  <2> QED BY <1>1, <1>2, <1>3, <1>5, <2>1 DEF SetSlimMode
<1>6. CASE RevealPrevious
  <2> DEFINE groups == IF slim.groups + RevealIncrement > MAX_TURN_GROUPS
                       THEN MAX_TURN_GROUPS ELSE slim.groups + RevealIncrement
  <2>1. slim.mode \in SlimModes /\ slim.groups \in TurnGroups
    BY <1>1, <1>6 DEF RevealPrevious, Controller
  <2>2. groups \in TurnGroups
    BY <2>1, SlimAssumption DEF TurnGroups
  <2>3. SetSlimMode(slim.mode, groups)
    BY <1>6 DEF RevealPrevious
  <2> HIDE DEF groups
  <2> QED BY <1>5, <2>1, <2>2, <2>3
<1>7. CASE RestoreStock
  <2>1. CASE slim.destructive
    <3>1. /\ config' = NoConfig /\ reloading' = TRUE /\ page' = page
          /\ slim' = [slim EXCEPT !.observing = FALSE, !.timer = "off"]
          /\ pending' = pending
      BY <1>7, <2>1 DEF RestoreStock
    <3>2. slim' \in Controller /\ slim'.destructive
      BY <1>1, <2>1, <3>1 DEF Controller
    <3> QED BY <1>1, <1>2, <3>1, <3>2 DEF Recoverable
  <2>2. CASE ~slim.destructive
    <3>1. /\ config' = NoConfig /\ reloading' = reloading
          /\ page' = Unsuppressed(page) /\ pending' = pending
          /\ slim' = [Booted(NoConfig) EXCEPT !.knowsUrl = slim.knowsUrl]
      BY <1>7, <2>2 DEF RestoreStock
    <3>2. page' \in Seq(Element) /\ ~Missing(page')
      BY <1>1, <2>2, <3>1, HidingRemovesNothing
    <3>3. Booted(NoConfig) \in Controller /\ Booted(NoConfig).mode = "stock"
      BY BootedFacts
    <3>4. slim' \in Controller /\ slim'.mode = "stock"
      BY <1>1, <3>1, <3>3 DEF Controller
    <3> QED BY <1>1, <1>2, <3>1, <3>2, <3>4 DEF Recoverable
  <2> QED BY <2>1, <2>2
<1>8. CASE SlimAnswer
  <2>1. PICK asked \in pending :
           Denied(asked) \/ Authorized(asked) \/ Unrecorded(asked)
    BY <1>8 DEF SlimAnswer
  <2>2. pending' \subseteq SlimRequest
    BY <1>1, <2>1 DEF Denied, Authorized, Unrecorded
  <2> QED BY <1>2, <2>1, <2>2, AnswerRecovers
<1>9. CASE SlimPage
  <2>1. pending' = pending
    BY <1>9 DEF SlimPage, TurnArrives, StreamEnds, LayoutChanges, Mutates, Navigate
  <2> QED BY <1>1, <1>2, <1>9, <2>1, PageRecovers
<1>10. CASE Apply
  <2>1. pending' = pending
    BY <1>10 DEF Apply
  <2> QED BY <1>1, <1>2, <1>10, <2>1, ApplyRecovers
<1>11. CASE GraceEnds
  <2>1. /\ slim' = [slim EXCEPT !.drift.route = "settled"]
        /\ UNCHANGED <<page, config, pending, reloading>>
    BY <1>11 DEF GraceEnds
  <2>2. /\ slim' \in Controller /\ slim'.mode = slim.mode
        /\ slim'.destructive = slim.destructive
    <3>1. [slim.drift EXCEPT !.route = "settled"] \in Drift
      BY <1>1 DEF Controller, Drift
    <3>2. slim' = [slim EXCEPT !.drift = [slim.drift EXCEPT !.route = "settled"]]
      BY <2>1
    <3> QED BY <1>1, <3>1, <3>2 DEF Controller
  <2> QED BY <1>1, <1>2, <2>1, <2>2 DEF Recoverable
<1>12. CASE Reload
  <2>1. /\ page' \in GenuinePage /\ slim' = Booted(config) /\ config' = config
        /\ pending' = AwaitedAtBoot(config) /\ reloading' = FALSE
    BY <1>12 DEF Reload
  <2>2. page' \in Seq(Element) /\ ~Missing(page')
    BY <2>1, GenuineIsComplete
  <2>3. /\ slim' \in Controller /\ pending' \subseteq SlimRequest
        /\ slim'.mode # "stock" => config # NoConfig
    BY <1>1, <2>1, BootedFacts
  <2>4. Recoverable(page', config', slim', reloading')
    BY <1>1, <2>1, <2>2, <2>3 DEF Recoverable
  <2> QED BY <1>2, <2>3, <2>4
<1> QED BY <1>4, <1>5, <1>6, <1>7, <1>8, <1>9, <1>10, <1>11, <1>12
        DEF SlimNext, SlimUser

\* The initial state satisfies the invariant.
LEMMA SlimStart == SlimInit => SlimInv
<1> SUFFICES ASSUME SlimInit PROVE SlimInv
  OBVIOUS
<1>1. /\ page \in GenuinePage /\ config = NoConfig /\ slim = Booted(NoConfig)
      /\ pending = {} /\ reloading = FALSE
  BY DEF SlimInit
<1>2. page \in Seq(Element) /\ ~Missing(page)
  BY <1>1, GenuineIsComplete
<1>3. Booted(NoConfig) \in Controller /\ Booted(NoConfig).mode = "stock"
  BY BootedFacts DEF Booted
<1> QED BY <1>1, <1>2, <1>3 DEF SlimInv, Recoverable

\* In every behaviour, page and controller are recoverable.
THEOREM SlimInvariant == SlimSpec => []SlimInv
<1>1. SlimInit => SlimInv
  BY SlimStart
<1>2. SlimInv /\ [SlimNext]_slimVars => SlimInv'
  BY SlimStep
<1> QED BY <1>1, <1>2, PTL DEF SlimSpec

\* While turns are missing from the page the controller knows it.
THEOREM RemovalIsRemembered == SlimSpec => []RemovalRemembered
<1>1. SlimInv => RemovalRemembered
  BY PlaceholdersTell DEF SlimInv, Recoverable, RemovalRemembered
<1> QED BY <1>1, SlimInvariant, PTL

\* While turns are missing and no reload is on its way, the configuration that
\* a reload would recover from has been written.
THEOREM RecoveryIsRecorded == SlimSpec => []RecoveryRecorded
<1>1. SlimInv => RecoveryRecorded
  BY PlaceholdersTell DEF SlimInv, Recoverable, RecoveryRecorded
<1> QED BY <1>1, SlimInvariant, PTL

-----------------------------------------------------------------------------
(* The observation run: the operations of the queue                        *)

\* What an operation is made of.
LEMMA OperationFields ==
    ASSUME NEW op \in Operation
    PROVE  /\ op.run \in Run /\ op.path \in Class
           /\ op.kind \in {"load", "clear", "page", "start", "unobserved", "aggregate"}
           /\ op.kind \in {"load", "clear", "page"} <=> op.run = 0
  BY BoundAssumption DEF Operation, Run, Class

\* The commands are operations.
LEMMA CommandType ==
    ASSUME NEW r \in Run \ {0}
    PROVE  /\ \A k \in {"load", "clear", "page"} : Command(k, 0) \in Operation
           /\ \A k \in {"start", "unobserved"} : Command(k, r) \in Operation
           /\ \A p \in Path : [kind |-> "aggregate", run |-> r, path |-> p] \in Operation
  BY DEF Operation, Command

\* A queue with an operation more.
LEMMA Lengthened ==
    ASSUME NEW q \in Seq(Operation), NEW op \in Operation
    PROVE  /\ Append(q, op) \in Seq(Operation) /\ Len(q) \in Nat
           /\ Len(Append(q, op)) = Len(q) + 1
           /\ Append(q, op)[Len(q) + 1] = op
           /\ \A i \in 1..Len(q) : Append(q, op)[i] = q[i]
           /\ \A i \in 1..Len(q) : q[i] \in Operation
  OBVIOUS

\* A queue without its first operation.
LEMMA Shortened ==
    ASSUME NEW q \in Seq(Operation), q # <<>>
    PROVE  /\ Tail(q) \in Seq(Operation) /\ Len(q) \in Nat \ {0}
           /\ Len(Tail(q)) = Len(q) - 1
           /\ Head(q) = q[1] /\ q[1] \in Operation
           /\ \A i \in 1..(Len(q) - 1) : Tail(q)[i] = q[i + 1]
           /\ \A i \in 1..Len(q) : q[i] \in Operation
  OBVIOUS

\* The metrics of run r in queue q, from position f on.
Metrics(q, f, r) == {i \in f..Len(q) : q[i].kind = "aggregate" /\ q[i].run = r}

\* Whether the queue holds the news, from position f on, that run r missed
\* a request.
GapQueued(q, f, r) == \E i \in f..Len(q) : q[i].kind = "unobserved" /\ q[i].run = r

IsMetric(op, r) == op.kind = "aggregate" /\ op.run = r

\* Metrics are counted.
LEMMA MetricsFinite ==
    ASSUME NEW q \in Seq(Operation), NEW f \in Nat, NEW r
    PROVE  IsFiniteSet(Metrics(q, f, r)) /\ Cardinality(Metrics(q, f, r)) \in Nat
<1>1. IsFiniteSet(f..Len(q))
  <2>1. Len(q) \in Nat
    OBVIOUS
  <2> QED BY <2>1, FS_Interval
<1>2. Metrics(q, f, r) \subseteq f..Len(q)
  BY DEF Metrics
<1>3. IsFiniteSet(Metrics(q, f, r))
  BY <1>1, <1>2, FS_Subset
<1> QED BY <1>3, FS_CardinalityType

\* A queued metric is one more.
LEMMA MetricsAppend ==
    ASSUME NEW q \in Seq(Operation), NEW op \in Operation, NEW f \in 1..2,
           f <= Len(q) + 1, NEW r
    PROVE  Cardinality(Metrics(Append(q, op), f, r)) =
              Cardinality(Metrics(q, f, r)) + (IF IsMetric(op, r) THEN 1 ELSE 0)
<1> DEFINE a == Append(q, op)
           M == Metrics(q, f, r)
           n == Len(q) + 1
<1>1. /\ Len(a) = n /\ a[n] = op /\ n \in Nat /\ n - 1 = Len(q)
      /\ \A i \in 1..(n - 1) : a[i] = q[i]
  BY Lengthened
<1>2. IsFiniteSet(M) /\ Cardinality(M) \in Nat
  BY MetricsFinite
<1> HIDE DEF a, n
<1>3. f..n = (f..(n - 1)) \union {n} /\ f..(n - 1) \subseteq 1..(n - 1) /\ n \notin f..(n - 1)
  BY <1>1
<1>4. Metrics(a, f, r) = IF IsMetric(op, r) THEN M \union {n} ELSE M
  <2>1. \A i \in f..(n - 1) : a[i] = q[i]
    BY <1>1, <1>3
  <2>2. CASE IsMetric(op, r)
    BY <1>1, <1>3, <2>1, <2>2 DEF Metrics, IsMetric
  <2>3. CASE ~IsMetric(op, r)
    BY <1>1, <1>3, <2>1, <2>3 DEF Metrics, IsMetric
  <2> QED BY <2>2, <2>3
<1>5. n \notin M
  BY <1>1, <1>3 DEF Metrics
<1> HIDE DEF M
<1>6. Cardinality(M \union {n}) = Cardinality(M) + 1
  BY <1>2, <1>5, FS_AddElement
<1> QED BY <1>2, <1>4, <1>6 DEF a, M

\* The first operation is a metric or not.
LEMMA MetricsHead ==
    ASSUME NEW q \in Seq(Operation), q # <<>>, NEW r
    PROVE  Cardinality(Metrics(q, 1, r)) =
              Cardinality(Metrics(q, 2, r)) + (IF IsMetric(q[1], r) THEN 1 ELSE 0)
<1> DEFINE M == Metrics(q, 2, r)
<1>1. Len(q) \in Nat \ {0}
  BY Shortened
<1>2. 1..Len(q) = (2..Len(q)) \union {1} /\ 1 \notin 2..Len(q)
  BY <1>1
<1>3. IsFiniteSet(M) /\ Cardinality(M) \in Nat
  BY MetricsFinite
<1>4. Metrics(q, 1, r) = IF IsMetric(q[1], r) THEN M \union {1} ELSE M
  BY <1>2 DEF Metrics, IsMetric
<1>5. 1 \notin M
  BY <1>2 DEF Metrics
<1> HIDE DEF M
<1>6. Cardinality(M \union {1}) = Cardinality(M) + 1
  <2>1. Cardinality(M \union {1}) =
           IF 1 \in M THEN Cardinality(M) ELSE Cardinality(M) + 1
    BY <1>3, FS_AddElement, Zenon
  <2> QED BY <1>5, <2>1
<1>7. CASE IsMetric(q[1], r)
  BY <1>4, <1>6, <1>7 DEF M
<1>8. CASE ~IsMetric(q[1], r)
  <2>1. Metrics(q, 1, r) = Metrics(q, 2, r)
    BY <1>4, <1>8 DEF M
  <2>2. Cardinality(Metrics(q, 2, r)) \in Nat
    BY <1>3 DEF M
  <2> QED BY <1>8, <2>1, <2>2
<1> QED BY <1>7, <1>8

\* The others stay when it is done.
LEMMA MetricsTail ==
    ASSUME NEW q \in Seq(Operation), q # <<>>, NEW r
    PROVE  Cardinality(Metrics(Tail(q), 1, r)) = Cardinality(Metrics(q, 2, r))
<1> DEFINE t == Tail(q)
           A == Metrics(t, 1, r)
           B == Metrics(q, 2, r)
           f == [i \in A |-> i + 1]
<1>1. /\ Len(q) \in Nat \ {0} /\ Len(t) = Len(q) - 1
      /\ \A i \in 1..(Len(q) - 1) : t[i] = q[i + 1]
  BY Shortened
<1>2. IsFiniteSet(A) /\ IsFiniteSet(B)
  <2>1. t \in Seq(Operation)
    BY Shortened
  <2> QED BY <2>1, MetricsFinite
<1> HIDE DEF t
<1>3. A \subseteq Nat /\ \A i \in A : i + 1 \in B
  BY <1>1 DEF Metrics
<1>4. \A j \in B : j \in Nat /\ j - 1 \in A /\ (j - 1) + 1 = j
  BY <1>1 DEF Metrics
<1> HIDE DEF A, B
<1>5. f \in Bijection(A, B)
  <2>1. f \in [A -> B]
    BY <1>3
  <2>2. \A x, y \in A : f[x] = f[y] => x = y
    BY <1>3
  <2>3. \A j \in B : \E x \in A : f[x] = j
    BY <1>4
  <2> HIDE DEF f
  <2> QED BY <2>1, <2>2, <2>3 DEF Bijection, Injection, Surjection, IsInjective
<1>6. ExistsBijection(A, B)
  <2> HIDE DEF f
  <2> QED BY <1>5 DEF ExistsBijection
<1> QED BY <1>2, <1>6, FS_Bijection DEF A, B, t

-----------------------------------------------------------------------------
(* The inductive invariant of the observation                              *)

ObsState == [run : Run, requestCount : Nat, requestPaths : [Class -> Nat],
             active : Nat, unobserved : BOOLEAN, persistenceError : BOOLEAN,
             interrupted : BOOLEAN, overflowed : BOOLEAN]
Call == [call : {"none", "get", "clear", "set"}, value : ObsState]
Status == {"new", "passed", "observing", "completed", "lost"}

ObsType ==
    /\ state \in ObsState /\ storage \in ObsState /\ io \in Call
    /\ queue \in Seq(Operation) /\ runs \in Run
    /\ request \in [Request -> [status : Status, run : Run]]
    /\ \A q \in Request : request[q].status = "new" <=> request[q].run = 0
    /\ io.call # "set" => io.value = idleState

\* No run is known that has not been created.
RunsKnown ==
    /\ {state.run, storage.run, io.value.run} \subseteq 0..runs
    /\ \A q \in Request : request[q].run <= runs
    /\ \A i \in 1..Len(queue) : queue[i].run <= runs

\* What the running operation is, for each storage call it may wait for.
CallsFit ==
    /\ io.call # "none" => queue # <<>>
    /\ \A i \in 2..Len(queue) : queue[i].kind # "load"
    /\ io.call = "get" => queue[1].kind = "load"
    /\ io.call = "clear" => queue[1].kind = "start" \/ state.run = 0

\* Until the stored run has been taken up nothing else happens to it.
LoadedFirst ==
    queue # <<>> /\ queue[1].kind = "load" /\ io.call # "set" =>
        /\ state.run = 0
        /\ \A q \in Request : request[q].status # "observing"
        /\ \A i \in 1..Len(queue) : queue[i].kind # "aggregate"

\* The position of the first operation that has not begun, when the running
\* one waits for call c.
FirstWaiting(c) == IF c.call = "none" THEN 1 ELSE 2

\* A run whose start has not begun has left no trace.
StartsAreNew ==
    \A i \in FirstWaiting(io)..Len(queue) : queue[i].kind = "start" =>
        /\ queue[i].run \notin {state.run, storage.run, io.value.run}
        /\ \A q \in Request : request[q].run # queue[i].run
        /\ \A j \in 1..Len(queue) : j # i => queue[j].run # queue[i].run

\* The metrics of run r that are still to be recorded.
Due(q, c, r) == Cardinality(Metrics(q, FirstWaiting(c), r))

\* A gap of run r is still to be recorded.
GapDue(q, c, r) == GapQueued(q, FirstWaiting(c), r)

InStatus(req, r, status) == {q \in Request : req[q].run = r /\ req[q].status = status}
CountIn(req, r, status) == Cardinality(InStatus(req, r, status))
OpenOf(req, r) == CountIn(req, r, "observing")
DoneOf(req, r) == CountIn(req, r, "completed")

\* The account of the active run.
Balanced ==
    state.run # 0 =>
        /\ state.active = OpenOf(request, state.run) + Due(queue, io, state.run)
        /\ state.active <= activeRequestLimit

\* A run that was never interrupted has counted what was completed, but for
\* the metrics in the queue, and its gaps are marked or about to be.
Counted ==
    state.run # 0 /\ ~state.interrupted =>
        /\ DoneOf(request, state.run) =
              state.requestCount + Due(queue, io, state.run)
        /\ \A q \in Request :
              request[q].run = state.run =>
                  /\ request[q].status # "lost"
                  /\ request[q].status = "passed" =>
                        state.unobserved \/ GapDue(queue, io, state.run)

\* Two states differ in their active counts only.
Alike(a, b) == a = [b EXCEPT !.active = a.active]

\* Storage holds the active run, or a call that will store it is under way.
Stored ==
    state.run # 0 /\ ~state.persistenceError =>
        /\ io.call = "none" => Alike(storage, state)
        /\ io.call = "set" => Alike(io.value, state)

ObsInv ==
    /\ ObsType /\ RunsKnown /\ CallsFit /\ LoadedFirst /\ StartsAreNew
    /\ Balanced /\ Counted /\ Stored

-----------------------------------------------------------------------------
(* What a step makes of a state, of the requests and of what is due        *)

\* Two states are alike if they agree on everything but the active count.
LEMMA AlikeFields ==
    ASSUME NEW a \in ObsState, NEW b \in ObsState
    PROVE  Alike(a, b) <=>
              /\ a.run = b.run /\ a.requestCount = b.requestCount
              /\ a.requestPaths = b.requestPaths /\ a.unobserved = b.unobserved
              /\ a.persistenceError = b.persistenceError
              /\ a.interrupted = b.interrupted /\ a.overflowed = b.overflowed
  BY DEF Alike, ObsState

\* A new state of run r.
LEMMA FreshState ==
    ASSUME NEW r \in Run
    PROVE  /\ activeState(r) \in ObsState /\ activeState(r).run = r
           /\ activeState(r).active = 0 /\ activeState(r).requestCount = 0
           /\ idleState \in ObsState /\ idleState.run = 0
<1>1. 0 \in Run
  BY BoundAssumption DEF Run
<1> QED BY <1>1 DEF activeState, idleState, ObsState

\* The marks: a gap, an error of storage, an interruption.
LEMMA MarkedState ==
    ASSUME NEW s \in ObsState, NEW b \in BOOLEAN
    PROVE  /\ [s EXCEPT !.unobserved = TRUE] \in ObsState
           /\ [s EXCEPT !.unobserved = TRUE].run = s.run
           /\ [s EXCEPT !.unobserved = TRUE].active = s.active
           /\ [s EXCEPT !.unobserved = TRUE].requestCount = s.requestCount
           /\ [s EXCEPT !.unobserved = TRUE].interrupted = s.interrupted
           /\ [s EXCEPT !.unobserved = TRUE].unobserved
           /\ [s EXCEPT !.persistenceError = b] \in ObsState
           /\ [s EXCEPT !.persistenceError = b].run = s.run
           /\ [s EXCEPT !.persistenceError = b].active = s.active
           /\ [s EXCEPT !.persistenceError = b].requestCount = s.requestCount
           /\ [s EXCEPT !.persistenceError = b].interrupted = s.interrupted
           /\ [s EXCEPT !.persistenceError = b].unobserved = s.unobserved
           /\ [s EXCEPT !.persistenceError = b].persistenceError = b
           /\ Resumed(s) \in ObsState /\ Resumed(s).run = s.run
           /\ Resumed(s).active = 0 /\ Resumed(s).interrupted
  BY DEF ObsState, Resumed

\* One more active request.
LEMMA RaisedState ==
    ASSUME NEW s \in ObsState
    PROVE  /\ [s EXCEPT !.active = @ + 1] \in ObsState
           /\ [s EXCEPT !.active = @ + 1].run = s.run
           /\ [s EXCEPT !.active = @ + 1].active = s.active + 1
           /\ [s EXCEPT !.active = @ + 1].requestCount = s.requestCount
           /\ [s EXCEPT !.active = @ + 1].requestPaths = s.requestPaths
           /\ [s EXCEPT !.active = @ + 1].unobserved = s.unobserved
           /\ [s EXCEPT !.active = @ + 1].persistenceError = s.persistenceError
           /\ [s EXCEPT !.active = @ + 1].interrupted = s.interrupted
           /\ [s EXCEPT !.active = @ + 1].overflowed = s.overflowed
  BY DEF ObsState

\* A metric recorded.
LEMMA AggregatedState ==
    ASSUME NEW s \in ObsState, NEW p \in Class
    PROVE  /\ Aggregated(s, p) \in ObsState /\ Aggregated(s, p).run = s.run
           /\ s.active > 0 => Aggregated(s, p).active = s.active - 1
           /\ Aggregated(s, p).requestCount = s.requestCount + 1
           /\ Aggregated(s, p).interrupted = s.interrupted
           /\ Aggregated(s, p).unobserved = s.unobserved
<1> DEFINE c == ClassOf(s, p)
           a == IF s.active = 0 THEN 0 ELSE s.active - 1
           o == s.overflowed \/ c = Overflow
           m == [s.requestPaths EXCEPT ![c] = @ + 1]
<1>1. c \in Class
  BY DEF ClassOf, Class
<1>2. s.active \in Nat /\ s.requestCount \in Nat /\ s.requestPaths \in [Class -> Nat]
  BY DEF ObsState
<1>3. m \in [Class -> Nat]
  <2> HIDE DEF c
  <2> QED BY <1>1, <1>2
<1>4. a \in Nat /\ (s.active > 0 => a = s.active - 1) /\ s.requestCount + 1 \in Nat
  BY <1>2
<1>5. o \in BOOLEAN
  OBVIOUS
<1>6. Aggregated(s, p) = [s EXCEPT !.active = a, !.requestCount = s.requestCount + 1,
                                   !.requestPaths = m, !.overflowed = o]
  BY DEF Aggregated
<1> HIDE DEF a, m, o
<1> QED BY <1>3, <1>4, <1>5, <1>6 DEF ObsState

\* Requests in a status are counted.
LEMMA InStatusFinite ==
    ASSUME NEW req, NEW r, NEW status
    PROVE  /\ IsFiniteSet(InStatus(req, r, status))
           /\ Cardinality(InStatus(req, r, status)) \in Nat
<1>1. InStatus(req, r, status) \subseteq Request /\ IsFiniteSet(Request)
  BY BoundAssumption DEF InStatus
<1>2. IsFiniteSet(InStatus(req, r, status))
  BY <1>1, FS_Subset
<1> QED BY <1>2, FS_CardinalityType

\* Between req and after a request went from d to e: the requests of run r in
\* that status are one less if it was one of them, and one more if it is now.
Moved(req, after, d, e, r, status) ==
    /\ CountIn(req, r, status) \in Nat /\ CountIn(after, r, status) \in Nat
    /\ CountIn(after, r, status) + (IF d.run = r /\ d.status = status THEN 1 ELSE 0)
          = CountIn(req, r, status) + (IF e.run = r /\ e.status = status THEN 1 ELSE 0)

\* What the listener does to request x changes the counts of its run only.
LEMMA RequestMoves ==
    ASSUME NEW req \in [Request -> [status : Status, run : Run]],
           NEW x \in Request, NEW e \in [status : Status, run : Run],
           NEW after, after = [req EXCEPT ![x] = e], NEW r, NEW status
    PROVE  Moved(req, after, req[x], e, r, status)
<1> DEFINE B == InStatus(req, r, status)
           A == InStatus(after, r, status)
           was == req[x].run = r /\ req[x].status = status
           is == e.run = r /\ e.status = status
<1>1. IsFiniteSet(A) /\ IsFiniteSet(B) /\ Cardinality(A) \in Nat /\ Cardinality(B) \in Nat
  BY InStatusFinite
<1>2. (x \in B <=> was) /\ (x \in A <=> is) /\ \A y \in Request : y # x => (y \in A <=> y \in B)
  BY DEF InStatus
<1>3. A \subseteq Request /\ B \subseteq Request
  BY DEF InStatus
<1> HIDE DEF A, B, was, is
<1>4. (was <=> is) => A = B
  <2> SUFFICES ASSUME was <=> is PROVE A = B
    OBVIOUS
  <2>1. \A y \in Request : y \in A <=> y \in B
    BY <1>2
  <2> QED BY <1>3, <2>1
<1>5. ~was /\ is => Cardinality(A) = Cardinality(B) + 1
  <2> SUFFICES ASSUME ~was, is PROVE Cardinality(A) = Cardinality(B) + 1
    OBVIOUS
  <2>1. A = B \union {x} /\ x \notin B
    BY <1>2, <1>3
  <2>2. Cardinality(B \union {x}) =
           IF x \in B THEN Cardinality(B) ELSE Cardinality(B) + 1
    BY <1>1, FS_AddElement, Zenon
  <2> QED BY <2>1, <2>2
<1>6. was /\ ~is => Cardinality(B) = Cardinality(A) + 1
  <2> SUFFICES ASSUME was, ~is PROVE Cardinality(B) = Cardinality(A) + 1
    OBVIOUS
  <2>1. B = A \union {x} /\ x \notin A
    BY <1>2, <1>3
  <2>2. Cardinality(A \union {x}) =
           IF x \in A THEN Cardinality(A) ELSE Cardinality(A) + 1
    BY <1>1, FS_AddElement, Zenon
  <2> QED BY <2>1, <2>2
<1>7. Cardinality(A) + (IF was THEN 1 ELSE 0) = Cardinality(B) + (IF is THEN 1 ELSE 0)
  BY <1>1, <1>4, <1>5, <1>6
<1> QED BY <1>1, <1>7 DEF A, B, was, is, CountIn, Moved

\* What is due when an operation is queued.
LEMMA DueQueued ==
    ASSUME ObsType, CallsFit, NEW op \in Operation, NEW r
    PROVE  /\ Due(queue, io, r) \in Nat
           /\ Due(Append(queue, op), io, r) =
                 Due(queue, io, r) + (IF IsMetric(op, r) THEN 1 ELSE 0)
           /\ GapDue(queue, io, r) => GapDue(Append(queue, op), io, r)
           /\ op.kind = "unobserved" /\ op.run = r => GapDue(Append(queue, op), io, r)
<1> DEFINE a == Append(queue, op)
           f == FirstWaiting(io)
<1>1. queue \in Seq(Operation)
  BY DEF ObsType
<1>2. /\ Len(a) = Len(queue) + 1 /\ a[Len(queue) + 1] = op /\ Len(queue) \in Nat
      /\ \A i \in 1..Len(queue) : a[i] = queue[i]
  BY <1>1, Lengthened
<1>3. f \in 1..2 /\ f <= Len(queue) + 1
  <2>1. io.call # "none" => Len(queue) # 0
    BY <1>1 DEF CallsFit
  <2> QED BY <1>2, <2>1 DEF FirstWaiting
<1> HIDE DEF f
<1>4. /\ Cardinality(Metrics(queue, f, r)) \in Nat
      /\ Cardinality(Metrics(a, f, r)) =
            Cardinality(Metrics(queue, f, r)) + (IF IsMetric(op, r) THEN 1 ELSE 0)
  <2>1. f \in Nat
    BY <1>3
  <2> QED BY <1>1, <1>3, <2>1, MetricsFinite, MetricsAppend
<1> HIDE DEF a
<1>5. GapQueued(queue, f, r) => GapQueued(a, f, r)
  <2>1. \A i \in f..Len(queue) : i \in f..Len(a) /\ a[i] = queue[i]
    BY <1>2, <1>3
  <2> QED BY <2>1 DEF GapQueued
<1>6. op.kind = "unobserved" /\ op.run = r => GapQueued(a, f, r)
  <2>1. Len(queue) + 1 \in f..Len(a)
    BY <1>2, <1>3
  <2> QED BY <1>2, <2>1 DEF GapQueued
<1> QED BY <1>4, <1>5, <1>6 DEF Due, GapDue, a, f

\* What is due when the first operation begins, when it is done, and when it
\* is dropped at once.
LEMMA DueServed ==
    ASSUME ObsType, queue # <<>>, NEW c, NEW n, c.call # "none", n.call = "none",
           NEW r
    PROVE  LET first == IF IsMetric(queue[1], r) THEN 1 ELSE 0
           IN  /\ Due(queue, n, r) \in Nat /\ Due(queue, c, r) \in Nat
               /\ Due(queue, n, r) = Due(queue, c, r) + first
               /\ Due(Tail(queue), n, r) = Due(queue, c, r)
               /\ queue[1].kind # "unobserved" \/ queue[1].run # r =>
                     (GapDue(queue, n, r) => GapDue(queue, c, r))
               /\ GapDue(queue, c, r) => GapDue(Tail(queue), n, r)
<1>1. queue \in Seq(Operation)
  BY DEF ObsType
<1>2. FirstWaiting(c) = 2 /\ FirstWaiting(n) = 1
  BY DEF FirstWaiting
<1>3. /\ Cardinality(Metrics(queue, 1, r)) \in Nat
      /\ Cardinality(Metrics(queue, 2, r)) \in Nat
  BY <1>1, MetricsFinite
<1>4. /\ Cardinality(Metrics(queue, 1, r)) = Cardinality(Metrics(queue, 2, r))
                                     + (IF IsMetric(queue[1], r) THEN 1 ELSE 0)
      /\ Cardinality(Metrics(Tail(queue), 1, r)) = Cardinality(Metrics(queue, 2, r))
  BY <1>1, MetricsHead, MetricsTail
<1>5. /\ Len(queue) \in Nat \ {0} /\ Len(Tail(queue)) = Len(queue) - 1
      /\ \A i \in 1..(Len(queue) - 1) : Tail(queue)[i] = queue[i + 1]
  BY <1>1, Shortened
<1>6. queue[1].kind # "unobserved" \/ queue[1].run # r =>
         (GapQueued(queue, 1, r) => GapQueued(queue, 2, r))
  <2>1. \A i \in 1..Len(queue) : i = 1 \/ i \in 2..Len(queue)
    BY <1>5
  <2> QED BY <2>1 DEF GapQueued
<1>7. GapQueued(queue, 2, r) => GapQueued(Tail(queue), 1, r)
  <2>1. \A i \in 2..Len(queue) :
           i - 1 \in 1..Len(Tail(queue)) /\ Tail(queue)[i - 1] = queue[i]
    BY <1>5
  <2> QED BY <2>1 DEF GapQueued
<1> QED BY <1>2, <1>3, <1>4, <1>6, <1>7 DEF Due, GapDue

-----------------------------------------------------------------------------
(* The listener and the commands: an operation is queued                   *)

\* The operation is of a run that is known, or starts one that is not.
MayQueue(op) ==
    /\ op \in Operation /\ op.kind # "load"
    /\ op.kind # "start" => op.run \in {0, state.run} \union {request[q].run : q \in Request}
    /\ op.kind = "start" => op.run > runs

\* The parts of the invariant that are about the queue.
LEMMA QueueGrows ==
    ASSUME ObsType, RunsKnown, CallsFit, StartsAreNew, NEW op, MayQueue(op),
           queue' = Append(queue, op), runs' \in Nat, runs <= runs', op.run <= runs',
           UNCHANGED <<state, storage, io>>,
           \A q \in Request : request'[q].run \in {request[q].run, state.run}
    PROVE  /\ queue' \in Seq(Operation) /\ queue' # <<>>
           /\ queue'[1].kind = "load" => queue # <<>> /\ queue[1].kind = "load"
           /\ \A i \in 1..Len(queue') :
                 (i \in 1..Len(queue) /\ queue'[i] = queue[i]) \/ queue'[i] = op
           /\ RunsKnown' /\ CallsFit' /\ StartsAreNew'
<1>1. queue \in Seq(Operation) /\ op \in Operation
  BY DEF ObsType, MayQueue
<1>2. /\ queue' \in Seq(Operation) /\ Len(queue) \in Nat
      /\ Len(queue') = Len(queue) + 1 /\ queue'[Len(queue) + 1] = op
      /\ \A i \in 1..Len(queue) : queue'[i] = queue[i]
      /\ \A i \in 1..Len(queue) : queue[i] \in Operation
  BY <1>1, Lengthened
<1>3. \A i \in 1..Len(queue') :
         \/ i \in 1..Len(queue) /\ queue'[i] = queue[i]
         \/ i = Len(queue) + 1 /\ queue'[i] = op
  <2>1. \A i \in 1..Len(queue') : i \in 1..Len(queue) \/ i = Len(queue) + 1
    BY <1>2
  <2> QED BY <1>2, <2>1
<1>4. queue' # <<>>
  BY <1>2
<1>5. queue'[1].kind = "load" => queue # <<>> /\ queue[1].kind = "load"
  <2>1. 1 \in 1..Len(queue')
    BY <1>2
  <2>2. op.kind # "load"
    BY DEF MayQueue
  <2>3. queue # <<>> <=> Len(queue) # 0
    BY <1>1
  <2> QED BY <1>2, <1>3, <2>1, <2>2, <2>3
<1>6. RunsKnown'
  <2>0. runs \in Nat
    BY DEF ObsType, Run
  <2>1. {state.run, storage.run, io.value.run} \subseteq 0..runs'
    BY <2>0 DEF RunsKnown
  <2>2. \A i \in 1..Len(queue') : queue'[i].run <= runs'
    <3>1. \A i \in 1..Len(queue) : queue[i].run \in Nat /\ queue[i].run <= runs
      BY <1>2, OperationFields DEF RunsKnown, Run
    <3> QED BY <1>3, <2>0, <3>1
  <2>3. \A q \in Request : request'[q].run <= runs'
    <3>1. \A q \in Request : request[q].run \in Nat /\ request[q].run <= runs
      BY DEF ObsType, RunsKnown, Run
    <3>2. state.run \in Nat /\ state.run <= runs
      BY <2>0 DEF RunsKnown
    <3> QED BY <2>0, <3>1, <3>2
  <2> QED BY <2>1, <2>2, <2>3 DEF RunsKnown
<1>7. CallsFit'
  <2>1. io.call # "none" => queue # <<>> /\ queue'[1] = queue[1]
    <3>1. queue # <<>> <=> Len(queue) # 0
      BY <1>1
    <3> QED BY <1>2, <3>1 DEF CallsFit
  <2>2. \A i \in 2..Len(queue') : queue'[i].kind # "load"
    <3>1. \A i \in 2..Len(queue') : i \in 2..Len(queue) \/ i = Len(queue) + 1
      BY <1>2
    <3>2. op.kind # "load"
      BY DEF MayQueue
    <3> QED BY <1>2, <3>1, <3>2 DEF CallsFit
  <2> QED BY <1>4, <2>1, <2>2 DEF CallsFit
<1>8. StartsAreNew'
  <2> SUFFICES ASSUME NEW i \in FirstWaiting(io)..Len(queue'),
                      queue'[i].kind = "start"
               PROVE  /\ queue'[i].run \notin {state.run, storage.run, io.value.run}
                      /\ \A q \in Request : request'[q].run # queue'[i].run
                      /\ \A j \in 1..Len(queue') :
                            j # i => queue'[j].run # queue'[i].run
    BY DEF StartsAreNew
  <2>0. FirstWaiting(io) \in 1..2 /\ runs \in Nat
    BY DEF FirstWaiting, ObsType, Run
  <2>1. CASE i \in 1..Len(queue)
    <3>1. queue'[i] = queue[i] /\ queue[i].run # 0 /\ queue[i].run <= runs
      BY <1>2, <2>1, OperationFields DEF RunsKnown
    <3>2. /\ queue[i].run \notin {state.run, storage.run, io.value.run}
          /\ \A q \in Request : request[q].run # queue[i].run
          /\ \A j \in 1..Len(queue) : j # i => queue[j].run # queue[i].run
      <4>1. i \in FirstWaiting(io)..Len(queue)
        BY <2>0, <2>1
      <4> QED BY <3>1, <4>1 DEF StartsAreNew
    <3>3. op.run # queue[i].run
      <4>1. CASE op.kind # "start"
        BY <3>1, <3>2, <4>1 DEF MayQueue
      <4>2. CASE op.kind = "start"
        <5>1. op.run > runs /\ op.run \in Nat /\ queue[i].run \in Nat
          BY <1>1, <1>2, <2>1, <4>2, OperationFields DEF MayQueue, Run
        <5> QED BY <2>0, <3>1, <5>1
      <4> QED BY <4>1, <4>2
    <3> QED BY <1>3, <3>1, <3>2, <3>3
  <2>2. CASE i = Len(queue) + 1
    <3>1. queue'[i] = op /\ op.run > runs /\ op.run \in Nat
      BY <1>1, <1>2, <2>2, OperationFields DEF MayQueue, Run
    <3>2. op.run \notin {state.run, storage.run, io.value.run}
      BY <2>0, <3>1 DEF RunsKnown
    <3>3. \A q \in Request : request[q].run # op.run
      <4>1. \A q \in Request : request[q].run \in Nat /\ request[q].run <= runs
        BY DEF ObsType, RunsKnown, Run
      <4> QED BY <2>0, <3>1, <4>1
    <3>4. \A j \in 1..Len(queue') : j # i => queue'[j].run # op.run
      <4>1. \A j \in 1..Len(queue) : queue[j].run \in Nat /\ queue[j].run <= runs
        BY <1>2, OperationFields DEF RunsKnown, Run
      <4> QED BY <1>3, <2>0, <2>2, <3>1, <4>1
    <3> QED BY <3>1, <3>2, <3>3, <3>4
  <2> QED BY <1>2, <2>0, <2>1, <2>2
<1> QED BY <1>2, <1>3, <1>4, <1>5, <1>6, <1>7, <1>8

\* A request is left alone; the news is queued.
LEMMA PassStep == ASSUME ObsInv, NEW q \in Request, PassRequest(q) PROVE ObsInv'
<1> DEFINE r == state.run
           op == Command("unobserved", r)
           e == [status |-> "passed", run |-> r]
<1>1. ObsType /\ RunsKnown /\ CallsFit /\ StartsAreNew
  BY DEF ObsInv
<1>2. /\ request[q].status = "new" /\ r # 0 /\ request' = [request EXCEPT ![q] = e]
      /\ queue' = Append(queue, op)
      /\ UNCHANGED <<state, storage, io, runs, restarts, stopped>>
  BY DEF PassRequest, Enqueue
<1>3. /\ r \in Run /\ runs \in Nat /\ r <= runs /\ runs \in Run
      /\ request \in [Request -> [status : Status, run : Run]]
      /\ e \in [status : Status, run : Run]
  BY <1>1 DEF ObsType, ObsState, Run, RunsKnown, Status
<1>4. op \in Operation /\ op.run = r /\ op.kind = "unobserved"
  BY <1>2, <1>3, CommandType DEF Command
<1>5. MayQueue(op)
  BY <1>4 DEF MayQueue
<1> HIDE DEF op
<1>6. \A x \in Request : request'[x] = IF x = q THEN e ELSE request[x]
  BY <1>2, <1>3
<1>7. /\ queue' \in Seq(Operation) /\ queue' # <<>>
      /\ queue'[1].kind = "load" => queue # <<>> /\ queue[1].kind = "load"
      /\ RunsKnown' /\ CallsFit' /\ StartsAreNew'
  <2>1. \A x \in Request : request'[x].run \in {request[x].run, state.run}
    BY <1>6
  <2>2. runs' \in Nat /\ runs <= runs' /\ op.run <= runs'
    BY <1>2, <1>3, <1>4
  <2> QED BY <1>1, <1>2, <1>5, <2>1, <2>2, QueueGrows
<1>8. ObsType'
  <2>1. request' \in [Request -> [status : Status, run : Run]]
    BY <1>2, <1>3
  <2>2. \A x \in Request : request'[x].status = "new" <=> request'[x].run = 0
    BY <1>1, <1>2, <1>6 DEF ObsType
  <2> QED BY <1>1, <1>2, <1>7, <2>1, <2>2 DEF ObsType
<1>9. LoadedFirst'
  <2>1. ~(queue # <<>> /\ queue[1].kind = "load" /\ io.call # "set")
    BY <1>2 DEF ObsInv, LoadedFirst
  <2> QED BY <1>2, <1>7, <2>1 DEF LoadedFirst
<1>10. /\ OpenOf(request', r) = OpenOf(request, r)
       /\ DoneOf(request', r) = DoneOf(request, r)
  <2>1. /\ e.status = "passed" /\ request[q].status = "new"
        /\ request' = [request EXCEPT ![q] = e]
    BY <1>2
  <2> HIDE DEF e
  <2>2. /\ CountIn(request, r, "observing") \in Nat
        /\ CountIn(request', r, "observing") \in Nat
        /\ CountIn(request', r, "observing") + 0 = CountIn(request, r, "observing") + 0
    <3>1. Moved(request, request', request[q], e, r, "observing")
      BY <1>3, <2>1, RequestMoves
    <3> QED BY <2>1, <3>1 DEF Moved
  <2>3. /\ CountIn(request, r, "completed") \in Nat
        /\ CountIn(request', r, "completed") \in Nat
        /\ CountIn(request', r, "completed") + 0 = CountIn(request, r, "completed") + 0
    <3>1. Moved(request, request', request[q], e, r, "completed")
      BY <1>3, <2>1, RequestMoves
    <3> QED BY <2>1, <3>1 DEF Moved
  <2> QED BY <2>2, <2>3 DEF OpenOf, DoneOf
<1>11. /\ Due(queue', io', r) = Due(queue, io, r)
       /\ GapDue(queue', io', r)
  <2>1. ~IsMetric(op, r)
    BY <1>4 DEF IsMetric
  <2> QED BY <1>1, <1>2, <1>4, <2>1, DueQueued
<1>12. Balanced'
  BY <1>2, <1>10, <1>11 DEF ObsInv, Balanced
<1>13. Counted'
  BY <1>2, <1>6, <1>10, <1>11 DEF ObsInv, Counted
<1>14. Stored'
  BY <1>2 DEF ObsInv, Stored
<1> QED BY <1>7, <1>8, <1>9, <1>12, <1>13, <1>14 DEF ObsInv

\* A request is observed: it is active at once.
LEMMA ObserveStep == ASSUME ObsInv, NEW q \in Request, ObserveRequest(q) PROVE ObsInv'
<1> DEFINE r == state.run
           e == [status |-> "observing", run |-> r]
<1>1. ObsType /\ RunsKnown /\ CallsFit /\ StartsAreNew
  BY DEF ObsInv
<1>2. /\ request[q].status = "new" /\ r # 0 /\ state.active < activeRequestLimit
      /\ request' = [request EXCEPT ![q] = e]
      /\ state' = [state EXCEPT !.active = @ + 1]
      /\ UNCHANGED <<storage, queue, io, runs, restarts, stopped>>
  BY DEF ObserveRequest
<1>3. /\ r \in Run /\ runs \in Nat /\ r <= runs
      /\ request \in [Request -> [status : Status, run : Run]]
      /\ e \in [status : Status, run : Run]
      /\ state \in ObsState /\ storage \in ObsState /\ io.value \in ObsState
  BY <1>1 DEF ObsType, ObsState, Run, RunsKnown, Status, Call
<1>4. /\ state' \in ObsState /\ state'.run = r /\ state'.active = state.active + 1
      /\ state'.requestCount = state.requestCount
      /\ state'.requestPaths = state.requestPaths
      /\ state'.unobserved = state.unobserved
      /\ state'.persistenceError = state.persistenceError
      /\ state'.interrupted = state.interrupted
      /\ state'.overflowed = state.overflowed
  BY <1>2, <1>3, RaisedState
<1>6. \A x \in Request : request'[x] = IF x = q THEN e ELSE request[x]
  BY <1>2, <1>3
<1>7. RunsKnown' /\ CallsFit'
  BY <1>1, <1>2, <1>3, <1>4, <1>6 DEF RunsKnown, CallsFit
<1>8. ObsType'
  <2>1. request' \in [Request -> [status : Status, run : Run]]
    BY <1>2, <1>3
  <2>2. \A x \in Request : request'[x].status = "new" <=> request'[x].run = 0
    BY <1>1, <1>2, <1>6 DEF ObsType
  <2> QED BY <1>1, <1>2, <1>4, <2>1, <2>2 DEF ObsType
<1>9. LoadedFirst'
  BY <1>2 DEF ObsInv, LoadedFirst
<1>10. StartsAreNew'
  BY <1>1, <1>2, <1>4, <1>6 DEF StartsAreNew
<1>11. /\ OpenOf(request', r) = OpenOf(request, r) + 1 /\ OpenOf(request, r) \in Nat
       /\ DoneOf(request', r) = DoneOf(request, r)
  <2>1. /\ e.status = "observing" /\ e.run = r /\ request[q].status = "new"
        /\ request' = [request EXCEPT ![q] = e]
    BY <1>2
  <2> HIDE DEF e
  <2>2. /\ CountIn(request, r, "observing") \in Nat
        /\ CountIn(request', r, "observing") \in Nat
        /\ CountIn(request', r, "observing") + 0 = CountIn(request, r, "observing") + 1
    <3>1. Moved(request, request', request[q], e, r, "observing")
      BY <1>3, <2>1, RequestMoves
    <3> QED BY <2>1, <3>1 DEF Moved
  <2>3. /\ CountIn(request, r, "completed") \in Nat
        /\ CountIn(request', r, "completed") \in Nat
        /\ CountIn(request', r, "completed") + 0 = CountIn(request, r, "completed") + 0
    <3>1. Moved(request, request', request[q], e, r, "completed")
      BY <1>3, <2>1, RequestMoves
    <3> QED BY <2>1, <3>1 DEF Moved
  <2> QED BY <2>2, <2>3 DEF OpenOf, DoneOf
<1>12. Balanced'
  <2>1. state.active = OpenOf(request, r) + Due(queue, io, r)
    BY <1>2 DEF ObsInv, Balanced
  <2>2. Due(queue, io, r) \in Nat
    <3>1. queue \in Seq(Operation) /\ FirstWaiting(io) \in Nat
      BY <1>1 DEF ObsType, FirstWaiting
    <3> QED BY <3>1, MetricsFinite DEF Due
  <2>3. state.active + 1 <= activeRequestLimit
    BY <1>2, <1>3, BoundAssumption DEF ObsState
  <2> QED BY <1>2, <1>4, <1>11, <2>1, <2>2, <2>3 DEF Balanced
<1>13. Counted'
  BY <1>2, <1>4, <1>6, <1>11 DEF ObsInv, Counted
<1>14. Stored'
  <2>1. /\ Alike(storage, state) => Alike(storage, state')
        /\ Alike(io.value, state) => Alike(io.value, state')
    BY <1>3, <1>4, AlikeFields
  <2> QED BY <1>2, <1>4, <2>1 DEF ObsInv, Stored
<1> QED BY <1>7, <1>8, <1>9, <1>10, <1>12, <1>13, <1>14 DEF ObsInv

\* A stream has ended; its metric is queued.
LEMMA FinishStep ==
    ASSUME ObsInv, NEW q \in Request, NEW p \in Path, FinishRequest(q, p)
    PROVE  ObsInv'
<1> DEFINE r == request[q].run
           op == [kind |-> "aggregate", run |-> r, path |-> p]
           e == [status |-> "completed", run |-> r]
<1>1. ObsType /\ RunsKnown /\ CallsFit /\ StartsAreNew
  BY DEF ObsInv
<1>2. /\ request[q].status = "observing"
      /\ request' = [request EXCEPT ![q].status = "completed"]
      /\ queue' = Append(queue, op)
      /\ UNCHANGED <<state, storage, io, runs, restarts, stopped>>
  BY DEF FinishRequest, Enqueue
<1>3. /\ r \in Run /\ r # 0 /\ runs \in Nat /\ r <= runs
      /\ request \in [Request -> [status : Status, run : Run]]
      /\ e \in [status : Status, run : Run] /\ state.run \in Run
  BY <1>1, <1>2 DEF ObsType, ObsState, Run, RunsKnown, Status
<1>4. op \in Operation /\ op.run = r /\ op.kind = "aggregate"
  BY <1>3, CommandType
<1>5. MayQueue(op)
  BY <1>4 DEF MayQueue
<1> HIDE DEF op
<1>0. request' = [request EXCEPT ![q] = e]
  <2>1. [request[q] EXCEPT !.status = "completed"] = e
    BY <1>3
  <2> QED BY <1>2, <2>1
<1>6. \A x \in Request : request'[x] = IF x = q THEN e ELSE request[x]
  BY <1>0, <1>3
<1>7. /\ queue' \in Seq(Operation) /\ queue' # <<>>
      /\ queue'[1].kind = "load" => queue # <<>> /\ queue[1].kind = "load"
      /\ RunsKnown' /\ CallsFit' /\ StartsAreNew'
  <2>1. \A x \in Request : request'[x].run \in {request[x].run, state.run}
    BY <1>6
  <2>2. runs' \in Nat /\ runs <= runs' /\ op.run <= runs'
    BY <1>2, <1>3, <1>4
  <2> QED BY <1>1, <1>2, <1>5, <2>1, <2>2, QueueGrows
<1>8. ObsType'
  <2>1. request' \in [Request -> [status : Status, run : Run]]
    BY <1>0, <1>3
  <2>2. \A x \in Request : request'[x].status = "new" <=> request'[x].run = 0
    BY <1>1, <1>3, <1>6 DEF ObsType
  <2> QED BY <1>1, <1>2, <1>7, <2>1, <2>2 DEF ObsType
<1>9. LoadedFirst'
  <2>1. ~(queue # <<>> /\ queue[1].kind = "load" /\ io.call # "set")
    BY <1>2 DEF ObsInv, LoadedFirst
  <2> QED BY <1>2, <1>7, <2>1 DEF LoadedFirst
<1>10. \A s \in Run : /\ OpenOf(request, s) \in Nat /\ OpenOf(request', s) \in Nat
                      /\ DoneOf(request, s) \in Nat
                      /\ OpenOf(request, s) =
                            OpenOf(request', s) + (IF s = r THEN 1 ELSE 0)
                      /\ DoneOf(request', s) =
                            DoneOf(request, s) + (IF s = r THEN 1 ELSE 0)
  <2> SUFFICES ASSUME NEW s \in Run
               PROVE  /\ OpenOf(request, s) \in Nat /\ OpenOf(request', s) \in Nat
                      /\ DoneOf(request, s) \in Nat
                      /\ OpenOf(request, s) =
                            OpenOf(request', s) + (IF s = r THEN 1 ELSE 0)
                      /\ DoneOf(request', s) =
                            DoneOf(request, s) + (IF s = r THEN 1 ELSE 0)
    OBVIOUS
  <2>1. /\ e.status = "completed" /\ e.run = r /\ request[q].status = "observing"
        /\ request[q].run = r
    BY <1>2
  <2> HIDE DEF e
  <2>2. /\ CountIn(request, s, "observing") \in Nat
        /\ CountIn(request', s, "observing") \in Nat
        /\ CountIn(request', s, "observing") + (IF s = r THEN 1 ELSE 0)
              = CountIn(request, s, "observing") + 0
    <3>1. Moved(request, request', request[q], e, s, "observing")
      BY <1>0, <1>3, <2>1, RequestMoves
    <3> QED BY <2>1, <3>1 DEF Moved
  <2>3. /\ CountIn(request, s, "completed") \in Nat
        /\ CountIn(request', s, "completed") \in Nat
        /\ CountIn(request', s, "completed") + 0
              = CountIn(request, s, "completed") + (IF s = r THEN 1 ELSE 0)
    <3>1. Moved(request, request', request[q], e, s, "completed")
      BY <1>0, <1>3, <2>1, RequestMoves
    <3> QED BY <2>1, <3>1 DEF Moved
  <2> QED BY <2>2, <2>3 DEF OpenOf, DoneOf
<1>11. \A s \in Run : /\ Due(queue, io, s) \in Nat
                      /\ Due(queue', io', s) =
                            Due(queue, io, s) + (IF s = r THEN 1 ELSE 0)
                      /\ GapDue(queue, io, s) => GapDue(queue', io', s)
  <2> SUFFICES ASSUME NEW s \in Run
               PROVE  /\ Due(queue, io, s) \in Nat
                      /\ Due(queue', io', s) =
                            Due(queue, io, s) + (IF s = r THEN 1 ELSE 0)
                      /\ GapDue(queue, io, s) => GapDue(queue', io', s)
    OBVIOUS
  <2>1. IsMetric(op, s) <=> s = r
    BY <1>4 DEF IsMetric
  <2> QED BY <1>1, <1>2, <1>4, <2>1, DueQueued
<1>12. Balanced'
  <2> SUFFICES ASSUME state.run # 0
               PROVE  /\ state.active = OpenOf(request', state.run)
                                        + Due(queue', io', state.run)
                      /\ state.active <= activeRequestLimit
    BY <1>2 DEF Balanced
  <2>1. /\ state.active = OpenOf(request, state.run) + Due(queue, io, state.run)
        /\ state.active <= activeRequestLimit
    BY DEF ObsInv, Balanced
  <2> QED BY <1>3, <1>10, <1>11, <2>1
<1>13. Counted'
  <2> SUFFICES ASSUME state.run # 0, ~state.interrupted
               PROVE  /\ DoneOf(request', state.run) =
                            state.requestCount + Due(queue', io', state.run)
                      /\ \A x \in Request :
                            request'[x].run = state.run =>
                               /\ request'[x].status # "lost"
                               /\ request'[x].status = "passed" =>
                                     state.unobserved \/ GapDue(queue', io', state.run)
    BY <1>2 DEF Counted
  <2>1. /\ DoneOf(request, state.run) = state.requestCount + Due(queue, io, state.run)
        /\ \A x \in Request :
              request[x].run = state.run =>
                 /\ request[x].status # "lost"
                 /\ request[x].status = "passed" =>
                       state.unobserved \/ GapDue(queue, io, state.run)
    BY DEF ObsInv, Counted
  <2>2. state.requestCount \in Nat
    BY <1>1 DEF ObsType, ObsState
  <2>3. DoneOf(request', state.run) =
           state.requestCount + Due(queue', io', state.run)
    BY <1>3, <1>10, <1>11, <2>1, <2>2
  <2>4. \A x \in Request : /\ request'[x].run = request[x].run
                           /\ x # q => request'[x].status = request[x].status
                           /\ x = q => request'[x].status = "completed"
    BY <1>6
  <2>5. GapDue(queue, io, state.run) => GapDue(queue', io', state.run)
    BY <1>3, <1>11
  <2> QED BY <2>1, <2>3, <2>4, <2>5
<1>14. Stored'
  BY <1>2 DEF ObsInv, Stored
<1> QED BY <1>7, <1>8, <1>9, <1>12, <1>13, <1>14 DEF ObsInv

\* A command is queued.
LEMMA CommandStep == ASSUME ObsInv, StartRun \/ ClearRun \/ PageMetric PROVE ObsInv'
<1>1. ObsType /\ RunsKnown /\ CallsFit /\ StartsAreNew
  BY DEF ObsInv
<1>0. runs \in Nat /\ runs \in Run /\ maxRuns \in Nat
  BY <1>1, BoundAssumption DEF ObsType, Run
<1>2. PICK op : /\ queue' = Append(queue, op) /\ op \in Operation
                /\ op.kind \in {"start", "clear", "page"}
                /\ op.kind = "start" => runs' = runs + 1 /\ op.run = runs + 1
                /\ op.kind # "start" => runs' = runs /\ op.run = 0
                /\ runs' \in Run
                /\ UNCHANGED <<state, storage, io, request>>
  <2>1. CASE StartRun
    <3>1. /\ runs < maxRuns /\ runs' = runs + 1
          /\ queue' = Append(queue, Command("start", runs + 1))
          /\ UNCHANGED <<state, storage, io, request>>
      BY <2>1 DEF StartRun, Enqueue
    <3>2. runs + 1 \in Run \ {0}
      BY <1>0, <3>1 DEF Run
    <3>3. /\ Command("start", runs + 1) \in Operation
          /\ Command("start", runs + 1).kind = "start"
          /\ Command("start", runs + 1).run = runs + 1
      BY <3>2, CommandType DEF Command
    <3> QED BY <3>1, <3>2, <3>3
  <2>2. CASE ClearRun \/ PageMetric
    <3>1. PICK k \in {"clear", "page"} :
             /\ queue' = Append(queue, Command(k, 0))
             /\ UNCHANGED <<state, storage, io, request, runs>>
      BY <2>2 DEF ClearRun, PageMetric, Enqueue
    <3>2. /\ Command(k, 0) \in Operation /\ Command(k, 0).kind = k
          /\ Command(k, 0).run = 0
      BY DEF Command, Operation
    <3> QED BY <1>0, <3>1, <3>2
  <2> QED BY <2>1, <2>2
<1>3. MayQueue(op)
  BY <1>0, <1>2 DEF MayQueue
<1>4. /\ queue' \in Seq(Operation) /\ queue' # <<>>
      /\ queue'[1].kind = "load" => queue # <<>> /\ queue[1].kind = "load"
      /\ \A i \in 1..Len(queue') :
            (i \in 1..Len(queue) /\ queue'[i] = queue[i]) \/ queue'[i] = op
      /\ RunsKnown' /\ CallsFit' /\ StartsAreNew'
  <2>1. runs' \in Nat /\ runs <= runs' /\ op.run <= runs'
    BY <1>0, <1>2
  <2> QED BY <1>1, <1>2, <1>3, <2>1, QueueGrows
<1>5. ObsType'
  BY <1>1, <1>2, <1>4 DEF ObsType
<1>6. LoadedFirst'
  BY <1>2, <1>4 DEF ObsInv, LoadedFirst
<1>7. \A s \in Run : /\ Due(queue', io', s) = Due(queue, io, s)
                     /\ GapDue(queue, io, s) => GapDue(queue', io', s)
  <2> SUFFICES ASSUME NEW s \in Run
               PROVE  /\ Due(queue', io', s) = Due(queue, io, s)
                      /\ GapDue(queue, io, s) => GapDue(queue', io', s)
    OBVIOUS
  <2>1. ~IsMetric(op, s)
    BY <1>2 DEF IsMetric
  <2> QED BY <1>1, <1>2, <2>1, DueQueued
<1>8. state.run \in Run
  BY <1>1 DEF ObsType, ObsState
<1>9. Balanced'
  BY <1>2, <1>7, <1>8 DEF ObsInv, Balanced
<1>10. Counted'
  BY <1>2, <1>7, <1>8 DEF ObsInv, Counted
<1>11. Stored'
  BY <1>2 DEF ObsInv, Stored
<1> QED BY <1>4, <1>5, <1>6, <1>9, <1>10, <1>11 DEF ObsInv

-----------------------------------------------------------------------------
(* The queue: an operation begins, its storage call settles, it is done    *)

\* The storage calls.
LEMMA CallForms ==
    ASSUME ObsType
    PROVE  /\ NoIo \in Call /\ NoIo.call = "none" /\ NoIo.value = idleState
           /\ Get \in Call /\ Get.call = "get" /\ Get.value = idleState
           /\ ClearCall \in Call /\ ClearCall.call = "clear"
           /\ ClearCall.value = idleState
           /\ \A s \in ObsState : /\ SetCall(s) \in Call /\ SetCall(s).call = "set"
                                  /\ SetCall(s).value = s
           /\ io = NoIo <=> io.call = "none"
<1>1. 0 \in Run
  BY BoundAssumption DEF Run
<1>2. idleState \in ObsState
  BY <1>1, FreshState
<1>3. io.call = "none" => io = NoIo
  BY DEF ObsType, Call, NoIo
<1> QED BY <1>2, <1>3 DEF NoIo, Get, ClearCall, SetCall, Call

\* The queue's first operation begins: what it changes besides.
LEMMA OperationBegins ==
    ASSUME ObsType, RunsKnown, StartsAreNew, queue # <<>>, io.call = "none",
           io' \in Call, io'.call # "none", state' \in ObsState,
           state'.run \in {state.run, queue[1].run},
           io'.value.run \in {0, state'.run}, io'.call # "set" => io'.value = idleState,
           UNCHANGED <<storage, queue, request, runs>>
    PROVE  ObsType' /\ RunsKnown' /\ StartsAreNew'
<1>1. /\ queue \in Seq(Operation) /\ runs \in Nat
      /\ Len(queue) \in Nat \ {0} /\ \A i \in 1..Len(queue) : queue[i] \in Operation
  <2>1. queue \in Seq(Operation) /\ runs \in Nat
    BY DEF ObsType, Run
  <2> QED BY <2>1, Shortened
<1>2. ObsType'
  BY DEF ObsType
<1>3. RunsKnown'
  <2>1. queue[1].run \in Nat /\ queue[1].run <= runs
    BY <1>1, OperationFields DEF RunsKnown, Run
  <2> QED BY <1>1, <2>1 DEF RunsKnown
<1>4. StartsAreNew'
  <2> SUFFICES ASSUME NEW i \in FirstWaiting(io')..Len(queue), queue[i].kind = "start"
               PROVE  /\ queue[i].run \notin {state'.run, storage.run, io'.value.run}
                      /\ \A q \in Request : request[q].run # queue[i].run
                      /\ \A j \in 1..Len(queue) : j # i => queue[j].run # queue[i].run
    BY DEF StartsAreNew
  <2>1. /\ i \in FirstWaiting(io)..Len(queue) /\ i # 1 /\ 1 \in 1..Len(queue)
        /\ i \in 1..Len(queue)
    BY <1>1 DEF FirstWaiting
  <2>2. queue[i].run # 0
    BY <1>1, <2>1, OperationFields
  <2> QED BY <2>1, <2>2 DEF StartsAreNew
<1> QED BY <1>2, <1>3, <1>4

\* The stored run is asked for.
LEMMA LoadBegins == ASSUME ObsInv, BeginLoad PROVE ObsInv'
<1>1. ObsType /\ RunsKnown /\ CallsFit /\ StartsAreNew /\ LoadedFirst
  BY DEF ObsInv
<1>2. /\ io = NoIo /\ queue # <<>> /\ queue[1].kind = "load" /\ io' = Get
      /\ UNCHANGED <<state, storage, queue, request, runs>>
  BY <1>1, Shortened DEF ObsType, BeginLoad, Idle
<1>3. /\ io.call = "none" /\ io'.call = "get" /\ io' \in Call
      /\ io'.value = idleState /\ idleState.run = 0
  <2>1. 0 \in Run
    BY BoundAssumption DEF Run
  <2> QED BY <1>1, <1>2, <2>1, CallForms, FreshState
<1>4. ObsType' /\ RunsKnown' /\ StartsAreNew'
  <2>1. state \in ObsState
    BY <1>1 DEF ObsType
  <2> QED BY <1>1, <1>2, <1>3, <2>1, OperationBegins
<1>5. state.run = 0
  BY <1>1, <1>2, <1>3 DEF LoadedFirst
<1>6. CallsFit' /\ LoadedFirst'
  BY <1>1, <1>2, <1>3 DEF CallsFit, LoadedFirst
<1>7. Balanced' /\ Counted' /\ Stored'
  BY <1>2, <1>5 DEF Balanced, Counted, Stored
<1> QED BY <1>4, <1>6, <1>7 DEF ObsInv

\* A start or a clear replaces the state.
LEMMA ResetBegins == ASSUME ObsInv, BeginReset PROVE ObsInv'
<1> DEFINE r == queue[1].run
<1>1. ObsType /\ RunsKnown /\ CallsFit /\ StartsAreNew
  BY DEF ObsInv
<1>2. /\ io = NoIo /\ queue # <<>> /\ queue[1].kind \in {"start", "clear"}
      /\ state' = activeState(r) /\ io' = ClearCall /\ queue[1] \in Operation
      /\ queue \in Seq(Operation) /\ Len(queue) \in Nat \ {0}
      /\ UNCHANGED <<storage, queue, request, runs>>
  BY <1>1, Shortened DEF ObsType, BeginReset, Idle
<1>3. /\ io.call = "none" /\ io'.call = "clear" /\ io' \in Call
      /\ io'.value = idleState /\ idleState.run = 0
  <2>1. 0 \in Run
    BY BoundAssumption DEF Run
  <2> QED BY <1>1, <1>2, <2>1, CallForms, FreshState
<1>4. r \in Run /\ (queue[1].kind # "start" => r = 0)
  BY <1>2, OperationFields
<1>5. /\ state' \in ObsState /\ state'.run = r /\ state'.active = 0
      /\ state'.requestCount = 0
  BY <1>2, <1>4, FreshState
<1>6. ObsType' /\ RunsKnown' /\ StartsAreNew'
  BY <1>1, <1>2, <1>3, <1>5, OperationBegins
<1>7. CallsFit' /\ LoadedFirst'
  BY <1>1, <1>2, <1>3, <1>4, <1>5 DEF CallsFit, LoadedFirst
<1>8. ASSUME r # 0
      PROVE  /\ OpenOf(request, r) = 0 /\ DoneOf(request, r) = 0
             /\ Due(queue, io', r) = 0
             /\ \A q \in Request : request[q].run # r
  <2>1. /\ \A q \in Request : request[q].run # r
        /\ \A j \in 1..Len(queue) : j # 1 => queue[j].run # r
    <3>1. 1 \in FirstWaiting(io)..Len(queue) /\ queue[1].kind = "start"
      BY <1>2, <1>3, <1>4, <1>8 DEF FirstWaiting
    <3> QED BY <1>1, <3>1 DEF StartsAreNew
  <2>2. InStatus(request, r, "observing") = {} /\ InStatus(request, r, "completed") = {}
    BY <2>1 DEF InStatus
  <2>3. Metrics(queue, FirstWaiting(io'), r) = {}
    <3>1. \A j \in FirstWaiting(io')..Len(queue) : j \in 1..Len(queue) /\ j # 1
      BY <1>2, <1>3 DEF FirstWaiting
    <3> QED BY <2>1, <3>1 DEF Metrics
  <2> QED BY <2>1, <2>2, <2>3, FS_EmptySet DEF OpenOf, DoneOf, Due, CountIn
<1>9. Balanced'
  <2>1. 0 <= activeRequestLimit
    BY BoundAssumption
  <2> QED BY <1>2, <1>5, <1>8, <2>1 DEF Balanced
<1>10. Counted'
  BY <1>2, <1>5, <1>8 DEF Counted
<1>11. Stored'
  BY <1>3 DEF Stored
<1> QED BY <1>6, <1>7, <1>9, <1>10, <1>11 DEF ObsInv

\* A metric or a gap of the active run is recorded, or its page looked at.
LEMMA RecordBegins ==
    ASSUME ObsInv, io = NoIo, queue # <<>>, state.run # 0,
           \/ /\ queue[1].kind \in {"aggregate", "unobserved"}
              /\ queue[1].run = state.run
           \/ queue[1].kind = "page",
           state' = Recorded(queue[1]), io' = SetCall(state'),
           UNCHANGED <<storage, queue, request, runs>>
    PROVE  ObsInv'
<1> DEFINE op == queue[1]
           r == state.run
<1>1. ObsType /\ RunsKnown /\ CallsFit /\ StartsAreNew
  BY DEF ObsInv
<1>2. /\ op \in Operation /\ state \in ObsState /\ r \in Run
      /\ queue \in Seq(Operation) /\ Len(queue) \in Nat \ {0}
  <2>1. queue \in Seq(Operation) /\ state \in ObsState
    BY <1>1 DEF ObsType
  <2> QED BY <2>1, Shortened DEF ObsState
<1>3. /\ op.kind = "aggregate" => state' = Aggregated(state, op.path)
      /\ op.kind = "unobserved" => state' = [state EXCEPT !.unobserved = TRUE]
      /\ op.kind = "page" => state' = state
  BY DEF Recorded
<1>4. op.path \in Class
  BY <1>2, OperationFields
<1> HIDE DEF op
<1>5. op.kind \in {"aggregate", "unobserved", "page"}
  BY DEF op
<1>6. /\ state' \in ObsState /\ state'.run = r
      /\ state'.interrupted = state.interrupted
      /\ state.unobserved => state'.unobserved
      /\ op.kind = "unobserved" => state'.unobserved
      /\ op.kind # "aggregate" => /\ state'.active = state.active
                                  /\ state'.requestCount = state.requestCount
      /\ op.kind = "aggregate" => /\ state.active > 0 => state'.active = state.active - 1
                                  /\ state'.requestCount = state.requestCount + 1
  <2>1. CASE op.kind = "aggregate"
    BY <1>2, <1>3, <1>4, <2>1, AggregatedState
  <2>2. CASE op.kind = "unobserved"
    <3> DEFINE marked == [state EXCEPT !.unobserved = TRUE]
    <3>1. /\ marked \in ObsState /\ marked.run = state.run
          /\ marked.interrupted = state.interrupted /\ marked.unobserved
          /\ marked.active = state.active
          /\ marked.requestCount = state.requestCount
      BY <1>2, MarkedState
    <3>2. state' = marked
      BY <1>3, <2>2
    <3> HIDE DEF marked
    <3> QED BY <2>2, <3>1, <3>2
  <2>3. CASE op.kind = "page"
    BY <1>2, <1>3, <2>3
  <2> QED BY <1>5, <2>1, <2>2, <2>3
<1>7. io.call = "none" /\ io' \in Call /\ io'.call = "set" /\ io'.value = state'
  BY <1>1, <1>6, CallForms
<1>8. ObsType' /\ RunsKnown' /\ StartsAreNew'
  BY <1>1, <1>6, <1>7, OperationBegins
<1>9. CallsFit' /\ LoadedFirst'
  BY <1>1, <1>7 DEF CallsFit, LoadedFirst
<1>10. /\ Due(queue, io, r) \in Nat /\ Due(queue, io', r) \in Nat
       /\ Due(queue, io, r) = Due(queue, io', r)
                               + (IF op.kind = "aggregate" THEN 1 ELSE 0)
       /\ op.kind # "unobserved" => (GapDue(queue, io, r) => GapDue(queue, io', r))
  <2>1. IsMetric(op, r) <=> op.kind = "aggregate"
    BY DEF IsMetric, op
  <2>2. /\ Due(queue, io, r) \in Nat /\ Due(queue, io', r) \in Nat
        /\ Due(queue, io, r) = Due(queue, io', r)
                                + (IF IsMetric(queue[1], r) THEN 1 ELSE 0)
        /\ queue[1].kind # "unobserved" => (GapDue(queue, io, r) => GapDue(queue, io', r))
    BY <1>1, <1>7, DueServed
  <2> QED BY <2>1, <2>2 DEF op
<1>11. /\ state.active = OpenOf(request, r) + Due(queue, io, r)
       /\ state.active <= activeRequestLimit
       /\ OpenOf(request, r) \in Nat
  BY InStatusFinite DEF ObsInv, Balanced, OpenOf, CountIn
<1>12. Balanced'
  <2>1. /\ state'.active = OpenOf(request, r) + Due(queue, io', r)
        /\ state'.active <= activeRequestLimit
    <3>1. activeRequestLimit \in Nat
      BY BoundAssumption
    <3>2. CASE op.kind = "aggregate"
      <4>1. state.active > 0
        BY <1>10, <1>11, <3>2
      <4> QED BY <1>6, <1>10, <1>11, <3>1, <3>2, <4>1
    <3>3. CASE op.kind # "aggregate"
      BY <1>6, <1>10, <1>11, <3>3
    <3> QED BY <3>2, <3>3
  <2> QED BY <1>6, <2>1 DEF Balanced
<1>13. Counted'
  <2> SUFFICES ASSUME ~state.interrupted
               PROVE  /\ DoneOf(request, r) = state'.requestCount + Due(queue, io', r)
                      /\ \A q \in Request :
                            request[q].run = r =>
                               /\ request[q].status # "lost"
                               /\ request[q].status = "passed" =>
                                     state'.unobserved \/ GapDue(queue, io', r)
    BY <1>6 DEF Counted
  <2>1. /\ DoneOf(request, r) = state.requestCount + Due(queue, io, r)
        /\ \A q \in Request :
              request[q].run = r =>
                 /\ request[q].status # "lost"
                 /\ request[q].status = "passed" =>
                       state.unobserved \/ GapDue(queue, io, r)
    BY DEF ObsInv, Counted
  <2>2. state.requestCount \in Nat
    BY <1>2 DEF ObsState
  <2>3. DoneOf(request, r) = state'.requestCount + Due(queue, io', r)
    BY <1>6, <1>10, <2>1, <2>2
  <2>4. state.unobserved \/ GapDue(queue, io, r) =>
           state'.unobserved \/ GapDue(queue, io', r)
    BY <1>6, <1>10
  <2> QED BY <2>1, <2>3, <2>4
<1>14. Stored'
  <2>1. Alike(state', state')
    BY <1>6, AlikeFields
  <2> QED BY <1>7, <2>1 DEF Stored
<1> QED BY <1>8, <1>9, <1>12, <1>13, <1>14 DEF ObsInv

\* Nothing was stored, or a run was; or storage is clear for a new one.
LEMMA CallGoesOn ==
    ASSUME ObsInv,
           \/ LoadNothing \/ LoadRun
           \/ ClearDone /\ queue[1].kind = "start"
    PROVE  ObsInv'
<1>1. /\ ObsType /\ RunsKnown /\ CallsFit /\ StartsAreNew /\ LoadedFirst
      /\ state \in ObsState /\ storage \in ObsState /\ queue \in Seq(Operation)
  BY DEF ObsInv, ObsType
<1>2. /\ idleState \in ObsState /\ idleState.run = 0 /\ runs \in Nat /\ 0 \in Run
  <2>1. 0 \in Run /\ runs \in Nat
    BY <1>1, BoundAssumption DEF Run, ObsType
  <2> QED BY <2>1, FreshState
<1>3. \A i \in FirstWaiting(io)..Len(queue) : queue[i].kind = "start" => queue[i].run # 0
  <2>1. FirstWaiting(io) \in Nat \ {0}
    BY DEF FirstWaiting
  <2>2. \A i \in FirstWaiting(io)..Len(queue) : queue[i] \in Operation
    BY <1>1, <2>1
  <2> QED BY <2>2, OperationFields
<1>4. CASE LoadNothing
  <2>1. /\ io = Get /\ io' = ClearCall
        /\ UNCHANGED <<state, storage, queue, request, runs>>
    BY <1>4 DEF LoadNothing
  <2>2. /\ io.call = "get" /\ io'.call = "clear" /\ io' \in Call
        /\ io'.value = idleState /\ io.value = idleState
    BY <1>1, <2>1, CallForms
  <2>3. queue # <<>> /\ queue[1].kind = "load" /\ state.run = 0
    BY <1>1, <2>2 DEF CallsFit, LoadedFirst
  <2>4. ObsType' /\ RunsKnown' /\ CallsFit' /\ LoadedFirst' /\ StartsAreNew'
    BY <1>1, <2>1, <2>2, <2>3
       DEF ObsType, RunsKnown, CallsFit, LoadedFirst, StartsAreNew, FirstWaiting
  <2>5. Balanced' /\ Counted' /\ Stored'
    BY <2>1, <2>3 DEF Balanced, Counted, Stored
  <2> QED BY <2>4, <2>5 DEF ObsInv
<1>5. CASE LoadRun
  <2> DEFINE r == storage.run
  <2>1. /\ io = Get /\ state' = Resumed(storage) /\ io' = SetCall(state')
        /\ UNCHANGED <<storage, queue, request, runs>>
    BY <1>5 DEF LoadRun
  <2>2. /\ state' \in ObsState /\ state'.run = r /\ state'.active = 0
        /\ state'.interrupted
    BY <1>1, <2>1, MarkedState
  <2>3. io.call = "get" /\ io'.call = "set" /\ io' \in Call /\ io'.value = state'
    BY <1>1, <2>1, <2>2, CallForms
  <2>4. /\ queue # <<>> /\ queue[1].kind = "load"
        /\ \A q \in Request : request[q].status # "observing"
        /\ \A i \in 1..Len(queue) : queue[i].kind # "aggregate"
    BY <1>1, <2>3 DEF CallsFit, LoadedFirst
  <2>5. ObsType' /\ RunsKnown' /\ CallsFit' /\ LoadedFirst'
    BY <1>1, <2>1, <2>2, <2>3, <2>4 DEF ObsType, RunsKnown, CallsFit, LoadedFirst
  <2>6. StartsAreNew'
    BY <1>1, <2>1, <2>2, <2>3 DEF StartsAreNew, FirstWaiting
  <2>7. OpenOf(request, r) = 0 /\ Due(queue, io', r) = 0
    <3>1. InStatus(request, r, "observing") = {}
      BY <2>4 DEF InStatus
    <3>2. Metrics(queue, FirstWaiting(io'), r) = {}
      <4>1. FirstWaiting(io') \in Nat \ {0}
        BY DEF FirstWaiting
      <4>2. \A i \in FirstWaiting(io')..Len(queue) : i \in 1..Len(queue)
        BY <1>1, <4>1
      <4> QED BY <2>4, <4>2 DEF Metrics
    <3> QED BY <3>1, <3>2, FS_EmptySet DEF OpenOf, CountIn, Due
  <2>8. Balanced'
    <3>1. 0 <= activeRequestLimit
      BY BoundAssumption
    <3> QED BY <2>1, <2>2, <2>7, <3>1 DEF Balanced
  <2>9. Counted'
    BY <2>2 DEF Counted
  <2>10. Stored'
    <3>1. Alike(state', state')
      BY <2>2, AlikeFields
    <3> QED BY <2>3, <3>1 DEF Stored
  <2> QED BY <2>5, <2>6, <2>8, <2>9, <2>10 DEF ObsInv
<1>6. CASE ClearDone /\ queue[1].kind = "start"
  <2>1. io = ClearCall
    BY <1>6 DEF ClearDone
  <2>2. io.call = "clear"
    BY <1>1, <2>1, CallForms
  <2>3. queue # <<>> /\ Head(queue) = queue[1]
    BY <1>1, <2>2, Shortened DEF CallsFit
  <2>4. /\ storage' = idleState /\ io' = SetCall(state)
        /\ UNCHANGED <<state, queue, request, runs>>
    BY <1>6, <2>3 DEF ClearDone
  <2>5. io'.call = "set" /\ io' \in Call /\ io'.value = state
    BY <1>1, <2>4, CallForms
  <2>6. ObsType' /\ CallsFit' /\ LoadedFirst'
    BY <1>1, <1>2, <2>3, <2>4, <2>5 DEF ObsType, CallsFit, LoadedFirst
  <2>7. RunsKnown'
    BY <1>1, <1>2, <2>4, <2>5 DEF RunsKnown
  <2>8. StartsAreNew'
    BY <1>1, <1>2, <1>3, <2>2, <2>4, <2>5 DEF StartsAreNew, FirstWaiting
  <2>9. FirstWaiting(io') = FirstWaiting(io)
    BY <2>2, <2>5 DEF FirstWaiting
  <2>10. Balanced' /\ Counted'
    BY <2>4, <2>9 DEF ObsInv, Balanced, Counted, Due, GapDue
  <2>11. Stored'
    <3>1. Alike(state, state)
      BY <1>1, AlikeFields
    <3> QED BY <2>4, <2>5, <3>1 DEF Stored
  <2> QED BY <2>6, <2>7, <2>8, <2>10, <2>11 DEF ObsInv
<1> QED BY <1>4, <1>5, <1>6

\* The first operation is done or dropped.
LEMMA OperationEnds ==
    ASSUME ObsInv, queue # <<>>, queue' = Tail(queue), io' = NoIo,
           UNCHANGED <<request, runs>>,
           state' \in ObsState, state'.run = state.run, state'.active = state.active,
           state'.requestCount = state.requestCount,
           state'.interrupted = state.interrupted,
           state'.unobserved = state.unobserved,
           storage' \in {storage, idleState, io.value},
           \/ io.call # "none"
           \/ queue[1].kind = "page" \/ state.run = 0 \/ queue[1].run # state.run,
           Stored'
    PROVE  ObsInv'
<1> DEFINE r == state.run
<1>1. /\ ObsType /\ RunsKnown /\ CallsFit /\ StartsAreNew
      /\ queue \in Seq(Operation) /\ io.value \in ObsState
  BY DEF ObsInv, ObsType, Call
<1>2. /\ Tail(queue) \in Seq(Operation) /\ Len(queue) \in Nat \ {0}
      /\ Len(queue') = Len(queue) - 1 /\ queue[1] \in Operation
      /\ \A i \in 1..Len(queue') : queue'[i] = queue[i + 1] /\ i + 1 \in 2..Len(queue)
      /\ \A i \in 1..Len(queue) : queue[i] \in Operation
  <2>1. /\ Tail(queue) \in Seq(Operation) /\ Len(queue) \in Nat \ {0}
        /\ Len(queue') = Len(queue) - 1 /\ queue[1] \in Operation
        /\ \A i \in 1..(Len(queue) - 1) : queue'[i] = queue[i + 1]
        /\ \A i \in 1..Len(queue) : queue[i] \in Operation
    BY <1>1, Shortened
  <2>2. \A i \in 1..(Len(queue) - 1) : i + 1 \in 2..Len(queue)
    BY <2>1
  <2> QED BY <2>1, <2>2
<1>3. /\ io' \in Call /\ io'.call = "none" /\ io'.value = idleState
      /\ idleState \in ObsState /\ idleState.run = 0 /\ runs \in Nat
  <2>1. 0 \in Run /\ runs \in Nat
    BY <1>1, BoundAssumption DEF Run, ObsType
  <2> QED BY <1>1, <2>1, CallForms, FreshState
<1>4. /\ storage' \in ObsState /\ storage'.run \in {0, storage.run, io.value.run}
      /\ storage'.run \in 0..runs
  BY <1>1, <1>3 DEF ObsType, RunsKnown
<1>5. ObsType'
  BY <1>1, <1>2, <1>3, <1>4 DEF ObsType
<1>6. RunsKnown'
  <2>1. \A i \in 1..Len(queue') : queue'[i].run <= runs
    BY <1>1, <1>2 DEF RunsKnown
  <2> QED BY <1>1, <1>3, <1>4, <2>1 DEF RunsKnown
<1>7. \A i \in 1..Len(queue') : queue'[i].kind # "load"
  BY <1>1, <1>2 DEF CallsFit
<1>8. CallsFit'
  BY <1>2, <1>3, <1>7 DEF CallsFit
<1>9. LoadedFirst'
  <2>1. queue' # <<>> => 1 \in 1..Len(queue')
    BY <1>2
  <2> QED BY <1>7, <2>1 DEF LoadedFirst
<1>10. StartsAreNew'
  <2>0. FirstWaiting(io') = 1 /\ request' = request
    BY <1>3 DEF FirstWaiting
  <2> SUFFICES ASSUME NEW i \in 1..Len(queue'), queue'[i].kind = "start"
               PROVE  /\ queue'[i].run \notin {state'.run, storage'.run, io'.value.run}
                      /\ \A q \in Request : request[q].run # queue'[i].run
                      /\ \A j \in 1..Len(queue') : j # i => queue'[j].run # queue'[i].run
    BY <2>0 DEF StartsAreNew
  <2>1. /\ queue'[i] = queue[i + 1] /\ i + 1 \in FirstWaiting(io)..Len(queue)
        /\ i + 1 \in 1..Len(queue)
    BY <1>2 DEF FirstWaiting
  <2>2. queue[i + 1].run # 0
    BY <1>2, <2>1, OperationFields
  <2>3. \A j \in 1..Len(queue') : /\ queue'[j] = queue[j + 1] /\ j + 1 \in 1..Len(queue)
                                  /\ j # i => j + 1 # i + 1
    BY <1>2
  <2>4. /\ queue[i + 1].run \notin {state.run, storage.run, io.value.run}
        /\ \A q \in Request : request[q].run # queue[i + 1].run
        /\ \A j \in 1..Len(queue) : j # i + 1 => queue[j].run # queue[i + 1].run
    BY <1>1, <2>1 DEF StartsAreNew
  <2>5. queue'[i].run \notin {state'.run, storage'.run, io'.value.run}
    BY <1>3, <1>4, <2>1, <2>2, <2>4
  <2>6. \A j \in 1..Len(queue') : j # i => queue'[j].run # queue'[i].run
    BY <2>1, <2>3, <2>4
  <2> QED BY <2>1, <2>4, <2>5, <2>6
<1>11. ASSUME r # 0
       PROVE  /\ Due(queue', io', r) = Due(queue, io, r)
              /\ GapDue(queue, io, r) => GapDue(queue', io', r)
  <2>1. CASE io.call # "none"
    BY <1>1, <1>3, <2>1, DueServed
  <2>2. CASE io.call = "none"
    <3>1. Get.call # "none"
      BY DEF Get
    <3>2. ~IsMetric(queue[1], r) /\ (queue[1].kind # "unobserved" \/ queue[1].run # r)
      BY <1>11, <2>2 DEF IsMetric
    <3>3. /\ Due(queue, io, r) = Due(queue, Get, r) + 0
          /\ Due(queue, Get, r) \in Nat
          /\ Due(Tail(queue), io, r) = Due(queue, Get, r)
          /\ GapDue(queue, io, r) => GapDue(queue, Get, r)
          /\ GapDue(queue, Get, r) => GapDue(Tail(queue), io, r)
      BY <1>1, <2>2, <3>1, <3>2, DueServed
    <3>4. io' = io
      BY <1>1, <2>2, CallForms
    <3> QED BY <3>3, <3>4
  <2> QED BY <2>1, <2>2
<1>12. Balanced'
  BY <1>11 DEF ObsInv, Balanced
<1>13. Counted'
  BY <1>11 DEF ObsInv, Counted
<1> QED BY <1>5, <1>6, <1>8, <1>9, <1>10, <1>12, <1>13 DEF ObsInv

\* The operations that end.
LEMMA EndStep ==
    ASSUME ObsInv,
           \/ BeginRecord /\ ~ForThisRun(Head(queue))
           \/ BeginPage /\ queue' = Tail(queue)
           \/ ClearDone /\ queue[1].kind # "start"
           \/ SetDone \/ StorageFails
    PROVE  ObsInv'
<1>1. /\ ObsType /\ CallsFit /\ StartsAreNew /\ queue \in Seq(Operation)
      /\ state \in ObsState /\ storage \in ObsState /\ io.value \in ObsState
  BY DEF ObsInv, ObsType, Call
<1>2. /\ io = NoIo <=> io.call = "none"
      /\ NoIo.call = "none" /\ ClearCall.call = "clear"
  BY <1>1, CallForms
<1>3. queue # <<>> => Head(queue) = queue[1] /\ Tail(queue) # queue
  BY <1>1
<1>4. CASE BeginRecord /\ ~ForThisRun(Head(queue))
  <2>1. /\ io = NoIo /\ queue # <<>> /\ queue' = Tail(queue) /\ io' = NoIo
        /\ UNCHANGED <<state, storage, request, runs>>
        /\ ~ForThisRun(queue[1])
    BY <1>3, <1>4 DEF BeginRecord, Idle, Dequeue
  <2>2. Stored'
    BY <1>2, <2>1 DEF ObsInv, Stored
  <2>3. state.run = 0 \/ queue[1].run # state.run
    BY <2>1 DEF ForThisRun
  <2> QED BY <1>1, <2>1, <2>2, <2>3, OperationEnds
<1>5. CASE BeginPage /\ queue' = Tail(queue)
  <2>1. /\ io = NoIo /\ queue # <<>> /\ queue' = Tail(queue) /\ io' = NoIo
        /\ queue[1].kind = "page"
        /\ UNCHANGED <<state, storage, request, runs>>
    BY <1>3, <1>5 DEF BeginPage, Idle, Dequeue
  <2>2. Stored'
    BY <1>2, <2>1 DEF ObsInv, Stored
  <2> QED BY <1>1, <2>1, <2>2, OperationEnds
<1>6. CASE ClearDone /\ queue[1].kind # "start"
  <2>1. io = ClearCall /\ io.call = "clear"
    BY <1>2, <1>6 DEF ClearDone
  <2>2. queue # <<>> /\ state.run = 0
    BY <1>1, <1>6, <2>1 DEF CallsFit
  <2>3. /\ queue' = Tail(queue) /\ io' = NoIo /\ storage' = idleState
        /\ UNCHANGED <<state, request, runs>>
    BY <1>3, <1>6, <2>2 DEF ClearDone, Dequeue
  <2>4. Stored'
    BY <2>2, <2>3 DEF Stored
  <2> QED BY <1>1, <2>1, <2>2, <2>3, <2>4, OperationEnds
<1>7. CASE SetDone
  <2>1. /\ io.call = "set" /\ queue' = Tail(queue) /\ io' = NoIo
        /\ storage' = io.value /\ UNCHANGED <<state, request, runs>>
    BY <1>7 DEF SetDone, Dequeue
  <2>2. queue # <<>>
    BY <1>1, <2>1 DEF CallsFit
  <2>3. Stored'
    BY <1>2, <2>1 DEF ObsInv, Stored
  <2> QED BY <1>1, <2>1, <2>2, <2>3, OperationEnds
<1>8. CASE StorageFails
  <2> DEFINE b == state.persistenceError \/ state.run # 0
  <2>1. /\ io # NoIo /\ queue' = Tail(queue) /\ io' = NoIo
        /\ state' = [state EXCEPT !.persistenceError = b]
        /\ UNCHANGED <<storage, request, runs>>
    BY <1>8 DEF StorageFails, Dequeue
  <2>2. b \in BOOLEAN
    OBVIOUS
  <2>3. io.call # "none" /\ queue # <<>>
    BY <1>1, <1>2, <2>1 DEF CallsFit
  <2>4. state.run # 0 => b
    OBVIOUS
  <2> HIDE DEF b
  <2>5. /\ state' \in ObsState /\ state'.run = state.run
        /\ state'.active = state.active
        /\ state'.requestCount = state.requestCount
        /\ state'.interrupted = state.interrupted
        /\ state'.unobserved = state.unobserved
        /\ state'.persistenceError = b
    BY <1>1, <2>1, <2>2, MarkedState
  <2>6. Stored'
    BY <2>4, <2>5 DEF Stored
  <2> QED BY <1>1, <2>1, <2>3, <2>5, <2>6, OperationEnds
<1> QED BY <1>4, <1>5, <1>6, <1>7, <1>8

\* The background page is recreated.
LEMMA RestartStep == ASSUME ObsInv, Restart PROVE ObsInv'
<1> DEFINE load == Command("load", 0)
<1>1. /\ ObsType /\ RunsKnown /\ storage \in ObsState /\ io.value \in ObsState
      /\ request \in [Request -> [status : Status, run : Run]] /\ runs \in Run
  BY DEF ObsInv, ObsType, Call
<1>2. 0 \in Run /\ runs \in Nat
  BY <1>1, BoundAssumption DEF Run
<1>3. /\ state' = idleState /\ idleState \in ObsState /\ idleState.run = 0
      /\ queue' = <<load>> /\ io' = NoIo /\ runs' = runs
      /\ storage' \in {storage, io.value}
      /\ request' = [q \in Request |->
            IF request[q].status = "observing"
            THEN [request[q] EXCEPT !.status = "lost"] ELSE request[q]]
  BY <1>2, FreshState DEF Restart
<1>4. io' \in Call /\ io'.call = "none" /\ io'.value = idleState
  BY <1>1, <1>3, CallForms
<1>5. load \in Operation /\ load.kind = "load" /\ load.run = 0
  BY DEF Operation, Command
<1> HIDE DEF load
<1>6. /\ queue' \in Seq(Operation) /\ Len(queue') = 1 /\ queue'[1] = load
      /\ queue' # <<>>
  BY <1>3, <1>5
<1>7. \A q \in Request :
         /\ request'[q] \in [status : Status, run : Run]
         /\ request'[q].run = request[q].run
         /\ request'[q].status # "observing"
         /\ request'[q].status = "new" <=> request[q].status = "new"
  <2> SUFFICES ASSUME NEW q \in Request
               PROVE  /\ request'[q] \in [status : Status, run : Run]
                      /\ request'[q].run = request[q].run
                      /\ request'[q].status # "observing"
                      /\ request'[q].status = "new" <=> request[q].status = "new"
    OBVIOUS
  <2>1. request[q] \in [status : Status, run : Run]
    BY <1>1
  <2>2. request'[q] = IF request[q].status = "observing"
                      THEN [request[q] EXCEPT !.status = "lost"] ELSE request[q]
    BY <1>3
  <2> QED BY <2>1, <2>2 DEF Status
<1>8. ObsType'
  <2>1. request' \in [Request -> [status : Status, run : Run]]
    BY <1>3, <1>7
  <2> QED BY <1>1, <1>3, <1>4, <1>6, <1>7, <2>1 DEF ObsType
<1>9. RunsKnown'
  <2>1. \A i \in 1..Len(queue') : queue'[i].run <= runs
    BY <1>2, <1>5, <1>6
  <2> QED BY <1>1, <1>2, <1>3, <1>4, <1>7, <2>1 DEF RunsKnown
<1>10. CallsFit' /\ StartsAreNew'
  BY <1>4, <1>5, <1>6 DEF CallsFit, StartsAreNew, FirstWaiting
<1>11. LoadedFirst'
  BY <1>3, <1>5, <1>6, <1>7 DEF LoadedFirst
<1>12. Balanced' /\ Counted' /\ Stored'
  BY <1>3 DEF Balanced, Counted, Stored
<1> QED BY <1>8, <1>9, <1>10, <1>11, <1>12 DEF ObsInv

\* Every step keeps the invariant.
LEMMA ObsStep == ASSUME ObsInv, [Next]_vars PROVE ObsInv'
<1>0. ObsType /\ queue \in Seq(Operation)
  BY DEF ObsInv, ObsType
<1>1. queue # <<>> => Head(queue) = queue[1] /\ Tail(queue) # queue
  BY <1>0
<1>2. CASE UNCHANGED vars
  BY <1>2 DEF vars, ObsInv, ObsType, RunsKnown, CallsFit, LoadedFirst, StartsAreNew,
              Balanced, Counted, Stored
<1>3. CASE \E q \in Request : PassRequest(q)
  BY <1>3, PassStep
<1>4. CASE \E q \in Request : ObserveRequest(q)
  BY <1>4, ObserveStep
<1>5. CASE \E q \in Request, p \in Path : FinishRequest(q, p)
  BY <1>5, FinishStep
<1>6. CASE StartRun \/ ClearRun \/ PageMetric
  BY <1>6, CommandStep
<1>7. CASE BeginLoad \/ BeginReset
  BY <1>7, LoadBegins, ResetBegins
<1>8. CASE BeginRecord
  <2>1. CASE ForThisRun(Head(queue))
    <3>1. /\ io = NoIo /\ queue # <<>> /\ state' = Recorded(queue[1])
          /\ queue[1].kind \in {"aggregate", "unobserved"}
          /\ io' = SetCall(state') /\ UNCHANGED <<storage, queue, request, runs>>
      BY <1>1, <1>8, <2>1 DEF BeginRecord, Idle
    <3>2. state.run # 0 /\ queue[1].run = state.run
      BY <1>1, <2>1, <3>1 DEF ForThisRun
    <3> QED BY <3>1, <3>2, RecordBegins
  <2>2. CASE ~ForThisRun(Head(queue))
    BY <1>8, <2>2, EndStep
  <2> QED BY <2>1, <2>2
<1>9. CASE BeginPage
  <2>1. CASE queue' = Tail(queue)
    BY <1>9, <2>1, EndStep
  <2>2. CASE queue' # Tail(queue)
    <3>1. /\ io = NoIo /\ queue # <<>> /\ queue[1].kind = "page" /\ state.run # 0
          /\ io' = SetCall(state) /\ UNCHANGED <<state, storage, queue, request, runs>>
      BY <1>1, <1>9, <2>2 DEF BeginPage, Idle, Dequeue
    <3>2. state' = Recorded(queue[1])
      BY <3>1 DEF Recorded
    <3> QED BY <3>1, <3>2, RecordBegins
  <2> QED BY <2>1, <2>2
<1>10. CASE LoadNothing \/ LoadRun \/ ClearDone
  BY <1>10, CallGoesOn, EndStep
<1>11. CASE SetDone \/ StorageFails
  BY <1>11, EndStep
<1>12. CASE Restart
  BY <1>12, RestartStep
<1> QED BY <1>2, <1>3, <1>4, <1>5, <1>6, <1>7, <1>8, <1>9, <1>10, <1>11, <1>12
        DEF Next, QueueStep

\* The initial state satisfies the invariant.
LEMMA ObsStart == Init => ObsInv
<1> SUFFICES ASSUME Init PROVE ObsInv
  OBVIOUS
<1> DEFINE load == Command("load", 0)
<1>1. 0 \in Run /\ maxRuns \in Nat
  BY BoundAssumption DEF Run
<1>2. idleState \in ObsState /\ idleState.run = 0
  BY <1>1, FreshState
<1>3. /\ state = idleState /\ storage = idleState /\ queue = <<load>> /\ io = NoIo
      /\ request = [q \in Request |-> [status |-> "new", run |-> 0]] /\ runs = 0
  BY DEF Init
<1>4. NoIo \in Call /\ NoIo.call = "none" /\ NoIo.value = idleState
  BY <1>2 DEF NoIo, Call
<1>5. load \in Operation /\ load.kind = "load" /\ load.run = 0
  BY DEF Operation, Command
<1> HIDE DEF load
<1>6. queue \in Seq(Operation) /\ Len(queue) = 1 /\ queue[1] = load /\ queue # <<>>
  BY <1>3, <1>5
<1>7. ObsType
  BY <1>1, <1>2, <1>3, <1>4, <1>6 DEF ObsType, Status
<1>8. RunsKnown
  BY <1>2, <1>3, <1>4, <1>5, <1>6 DEF RunsKnown
<1>9. CallsFit /\ StartsAreNew
  BY <1>3, <1>4, <1>5, <1>6 DEF CallsFit, StartsAreNew, FirstWaiting
<1>10. LoadedFirst
  BY <1>2, <1>3, <1>5, <1>6 DEF LoadedFirst
<1>11. Balanced /\ Counted /\ Stored
  BY <1>2, <1>3 DEF Balanced, Counted, Stored
<1> QED BY <1>7, <1>8, <1>9, <1>10, <1>11 DEF ObsInv

\* In every behaviour, the account of the active run is balanced and storage
\* follows it.
THEOREM ObservationInvariant == Spec => []ObsInv
<1>1. Init => ObsInv
  BY ObsStart
<1>2. ObsInv /\ [Next]_vars => ObsInv'
  BY ObsStep
<1> QED BY <1>1, <1>2, PTL DEF Spec

\* The active count that a report waits for is exact, and totals that it calls
\* complete have counted every request the run saw.
THEOREM AccountIsHonest == Spec => []HonestAccount
<1>1. ObsInv => HonestAccount
  <2> SUFFICES ASSUME ObsInv PROVE HonestAccount
    OBVIOUS
  <2>1. ObsType /\ state \in ObsState /\ queue \in Seq(Operation)
    BY DEF ObsInv, ObsType
  <2>2. io = NoIo <=> io.call = "none"
    BY <2>1, CallForms
  <2>3. \A r : /\ {q \in Seen(r) : request[q].status = "observing"}
                    = InStatus(request, r, "observing")
               /\ {i \in Waiting : queue[i].kind = "aggregate" /\ queue[i].run = r}
                    = Metrics(queue, FirstWaiting(io), r)
    <3> SUFFICES ASSUME NEW r
                 PROVE  /\ {q \in Seen(r) : request[q].status = "observing"}
                              = InStatus(request, r, "observing")
                        /\ {i \in Waiting : queue[i].kind = "aggregate" /\ queue[i].run = r}
                              = Metrics(queue, FirstWaiting(io), r)
      OBVIOUS
    <3>1. {q \in Seen(r) : request[q].status = "observing"}
             = InStatus(request, r, "observing")
      BY DEF Seen, InStatus
    <3>2. Waiting = FirstWaiting(io)..Len(queue)
      <4>1. Len(queue) \in Nat
        BY <2>1
      <4>2. CASE io = NoIo
        BY <2>2, <4>1, <4>2 DEF Waiting, FirstWaiting
      <4>3. CASE io # NoIo
        BY <2>2, <4>1, <4>3 DEF Waiting, FirstWaiting
      <4> QED BY <4>2, <4>3
    <3> QED BY <3>1, <3>2 DEF Metrics
  <2>4. ActiveCount
    BY <2>3 DEF ObsInv, Balanced, ActiveCount, OpenOf, CountIn, Due
  <2>5. HonestTotals
    <3> SUFFICES ASSUME queue = <<>>, state.run # 0, TotalsComplete(state)
                 PROVE  state.requestCount = Cardinality(Seen(state.run))
      BY DEF HonestTotals
    <3> DEFINE r == state.run
    <3>1. ~state.interrupted /\ ~state.unobserved /\ state.active = 0
      BY DEF TotalsComplete
    <3>2. /\ state.active = OpenOf(request, r) + Due(queue, io, r)
          /\ DoneOf(request, r) = state.requestCount + Due(queue, io, r)
          /\ \A q \in Request :
                request[q].run = r =>
                   /\ request[q].status # "lost"
                   /\ request[q].status = "passed" => GapDue(queue, io, r)
      BY <3>1 DEF ObsInv, Balanced, Counted
    <3>3. /\ Metrics(queue, FirstWaiting(io), r) = {} /\ ~GapDue(queue, io, r)
          /\ Due(queue, io, r) = 0
      <4>1. Len(queue) = 0 /\ FirstWaiting(io) \in Nat \ {0}
        BY DEF FirstWaiting
      <4>2. FirstWaiting(io)..Len(queue) = {}
        BY <4>1
      <4> QED BY <4>2, FS_EmptySet DEF Metrics, GapDue, GapQueued, Due
    <3>4. InStatus(request, r, "observing") = {}
      <4>1. /\ IsFiniteSet(InStatus(request, r, "observing"))
            /\ Cardinality(InStatus(request, r, "observing")) \in Nat
        BY InStatusFinite
      <4>2. Cardinality(InStatus(request, r, "observing")) = 0
        BY <3>1, <3>2, <3>3, <4>1 DEF OpenOf, CountIn
      <4> QED BY <4>1, <4>2, FS_EmptySet
    <3>5. Seen(r) = InStatus(request, r, "completed")
      <4>1. \A q \in Request : request[q].run = r => request[q].status = "completed"
        <5> SUFFICES ASSUME NEW q \in Request, request[q].run = r
                     PROVE  request[q].status = "completed"
          OBVIOUS
        <5>1. request[q].status \in Status
          BY <2>1 DEF ObsType
        <5>2. request[q].status # "new"
          BY <2>1 DEF ObsType
        <5>3. request[q].status # "observing"
          BY <3>4 DEF InStatus
        <5> QED BY <3>2, <3>3, <5>1, <5>2, <5>3 DEF Status
      <4> QED BY <4>1 DEF Seen, InStatus
    <3> QED
      <4>1. state.requestCount \in Nat
        BY <2>1 DEF ObsState
      <4> QED BY <3>2, <3>3, <3>5, <4>1 DEF DoneOf, CountIn
  <2> QED BY <2>4, <2>5 DEF HonestAccount
<1> QED BY <1>1, ObservationInvariant, PTL

\* When the queue is empty storage holds the active run, or the run carries a
\* persistence error.
THEOREM StateIsWrittenThrough == Spec => []WrittenThrough
<1>1. ObsInv => WrittenThrough
  <2> SUFFICES ASSUME ObsInv, queue = <<>>, state.run # 0, ~state.persistenceError
               PROVE  storage = [state EXCEPT !.active = storage.active]
    BY DEF WrittenThrough
  <2>1. io.call = "none"
    BY DEF ObsInv, CallsFit
  <2> QED BY <2>1 DEF ObsInv, Stored, Alike
<1> QED BY <1>1, ObservationInvariant, PTL

=============================================================================
