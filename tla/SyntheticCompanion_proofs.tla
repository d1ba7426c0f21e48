---------------------- MODULE SyntheticCompanion_proofs ----------------------
(* Proofs about SyntheticCompanion, for every value of its constants.       *)
EXTENDS SyntheticCompanion, CommonFacts_proofs

-----------------------------------------------------------------------------
(* The inductive invariant                                                  *)

\* The working set: its types, and the three accounts of it.
ResidentType ==
    /\ conversationOrder \in Seq(Conversation)
    /\ DOMAIN recordKeys = Conversation
    /\ records \in Seq(Record)
    /\ residentSize \in Nat

Agreed ==
    /\ \A c \in Conversation :
            recordKeys[c] = {k \in ToSet(records) : k.conversation = c}
    /\ ToSet(conversationOrder) = {c \in Conversation : recordKeys[c] # {}}
    /\ IsInjective(conversationOrder) /\ IsInjective(records)
    /\ residentSize = Total(ToSet(records))

ResidentOK == ResidentType /\ Agreed /\ WithinLimits

\* A session ends once, and nothing is resident afterwards.
SessionOK ==
    /\ sessionEpoch = IF active THEN 0 ELSE 1
    /\ active => \A c \in Conversation : generation[c] <= MaxGeneration
    /\ ~active => conversationOrder = <<>> /\ records = <<>>

\* No request is ahead of its conversation, and one that would commit a record
\* and is not outdated is of an accepted source.
RequestsOK ==
    \A s \in Slot : request[s] # NoRequest =>
        LET q == request[s]
            c == q.conversation
        IN /\ c # NoConversation => q.generation <= generation[c]
           /\ q.operation \in Kind \union {"close"} => c \in Conversation
           /\ q.operation \in Kind =>
                /\ q.item \in Item
                /\ q.generation = generation[c] => c \in accepted

\* Whatever the history calls lost has been outdated by a newer generation.
LostIsOutdated ==
    \A s \in lost :
        /\ request[s] # NoRequest
        /\ request[s].conversation \in Conversation
        /\ request[s].generation < generation[request[s].conversation]

IInv ==
    /\ TypeOK /\ ResidentOK /\ ResidentIsCurrent
    /\ SessionOK /\ RequestsOK /\ LostIsOutdated

-----------------------------------------------------------------------------
(* The size of a set of records                                             *)

RecordSize == [k \in Record |-> SizeOf[k.item]]

\* Sizes are natural numbers.
LEMMA RecordSizeType ==
    \A k \in Record : RecordSize[k] \in Nat /\ SizeOf[k.item] \in Nat
  BY SourceAssumption DEF RecordSize, Record

\* The size of a set of records is a sum of one function.
LEMMA TotalIsSum ==
    ASSUME NEW K \in SUBSET Record, IsFiniteSet(K)
    PROVE  Total(K) = SumFunctionOnSet(RecordSize, K)
<1> DEFINE f == [k \in K |-> SizeOf[k.item]]
<1>1. \A k \in K : f[k] = RecordSize[k]
  BY DEF RecordSize
<1> HIDE DEF f
<1>2. SumFunctionOnSet(f, K) = SumFunctionOnSet(RecordSize, K)
  BY <1>1, SumAgree
<1> QED BY <1>2 DEF Total, f

\* It is a natural number, and that of a part and of the rest make the whole.
LEMMA TotalFacts ==
    ASSUME NEW K \in SUBSET Record, IsFiniteSet(K)
    PROVE  /\ Total(K) \in Nat /\ Total({}) = 0
           /\ \A T \in SUBSET K : Total(T) \in Nat /\ Total(K) = Total(T) + Total(K \ T)
           /\ \A k \in Record \ K : Total(K \union {k}) = Total(K) + SizeOf[k.item]
<1>1. \A T \in SUBSET K : Total(T) = SumFunctionOnSet(RecordSize, T)
  BY TotalIsSum, FS_Subset
<1>2. \A T \in SUBSET K : SumFunctionOnSet(RecordSize, T) \in Nat
  BY RecordSizeType, FS_Subset, SumType
<1>3. Total({}) = 0
  BY <1>1, SumEmpty
<1>4. ASSUME NEW T \in SUBSET K
      PROVE  Total(K) = Total(T) + Total(K \ T)
  <2>1. SumFunctionOnSet(RecordSize, K) =
           SumFunctionOnSet(RecordSize, T) + SumFunctionOnSet(RecordSize, K \ T)
    BY RecordSizeType, SumSplit
  <2> QED BY <1>1, <2>1
<1>5. ASSUME NEW k \in Record \ K
      PROVE  Total(K \union {k}) = Total(K) + SizeOf[k.item]
  <2> DEFINE L == K \union {k}
  <2>1. L \in SUBSET Record /\ IsFiniteSet(L) /\ k \in L /\ L \ {k} = K
    BY FS_AddElement
  <2> HIDE DEF L
  <2>2. SumFunctionOnSet(RecordSize, L) =
           RecordSize[k] + SumFunctionOnSet(RecordSize, L \ {k})
    BY <2>1, RecordSizeType, SumRemove
  <2>3. Total(L) = SizeOf[k.item] + Total(K)
    BY <2>1, <2>2, TotalIsSum DEF RecordSize
  <2>4. SizeOf[k.item] \in Nat /\ Total(K) \in Nat
    BY <1>1, <1>2, RecordSizeType DEF RecordSize
  <2> QED BY <2>3, <2>4 DEF L
<1> QED BY <1>1, <1>2, <1>3, <1>4, <1>5

\* The oldest that have to leave so that one more is within a limit.
LEMMA ExcessLeaves ==
    ASSUME NEW X, NEW s \in Seq(X), IsInjective(s), NEW limit \in Nat \ {0}
    PROVE  /\ First(s, Excess(Len(s) + 1, limit)) \subseteq ToSet(s)
           /\ Cardinality(ToSet(s) \ First(s, Excess(Len(s) + 1, limit))) < limit
<1> DEFINE n == Excess(Len(s) + 1, limit)
           F == First(s, n)
<1>1. n \in 0..Len(s) /\ Len(s) - n < limit /\ Len(s) \in Nat
  BY DEF Excess
<1>2. F \subseteq ToSet(s) /\ IsFiniteSet(F) /\ Cardinality(F) = n
  BY <1>1, PrefixCardinality DEF First
<1>3. IsFiniteSet(ToSet(s)) /\ Cardinality(ToSet(s)) = Len(s)
  BY LenIsCardinality
<1> HIDE DEF n, F
<1>4. Cardinality(ToSet(s) \ F) = Cardinality(ToSet(s)) - Cardinality(ToSet(s) \cap F)
  BY <1>3, FS_Difference
<1>5. ToSet(s) \cap F = F
  BY <1>2
<1> QED BY <1>1, <1>2, <1>3, <1>4, <1>5 DEF F, n

-----------------------------------------------------------------------------
(* What the three changes of the working set leave behind                   *)

\* Facts about a working set that is in order, for the lemmas that follow.
LEMMA ResidentFacts ==
    ASSUME ResidentOK
    PROVE  /\ ToSet(records) \subseteq Record /\ IsFiniteSet(ToSet(records))
           /\ Len(records) = Cardinality(ToSet(records)) /\ Len(records) \in Nat
           /\ ToSet(conversationOrder) \subseteq Conversation
           /\ IsFiniteSet(ToSet(conversationOrder))
           /\ Len(conversationOrder) = Cardinality(ToSet(conversationOrder))
           /\ \A c \in Conversation :
                 recordKeys[c] \subseteq ToSet(records) /\ IsFiniteSet(recordKeys[c])
<1>1. ToSet(records) \subseteq Record /\ ToSet(conversationOrder) \subseteq Conversation
  BY DEF ResidentOK, ResidentType, ToSet
<1>2. /\ IsFiniteSet(ToSet(records))
      /\ Len(records) = Cardinality(ToSet(records)) /\ Len(records) \in Nat
  BY LenIsCardinality DEF ResidentOK, ResidentType, Agreed
<1>3. /\ IsFiniteSet(ToSet(conversationOrder))
      /\ Len(conversationOrder) = Cardinality(ToSet(conversationOrder))
  BY LenIsCardinality DEF ResidentOK, ResidentType, Agreed
<1>4. \A c \in Conversation : recordKeys[c] \subseteq ToSet(records)
  BY DEF ResidentOK, Agreed
<1>5. \A c \in Conversation : IsFiniteSet(recordKeys[c])
  BY <1>2, <1>4, FS_Subset
<1> QED BY <1>1, <1>2, <1>3, <1>4, <1>5

\* Releasing conversations takes away their records and nothing else.
LEMMA ReleaseEffect ==
    ASSUME ResidentOK, NEW cs \in SUBSET Conversation, Release(cs)
    PROVE  /\ ResidentOK'
           /\ ToSet(records') = {k \in ToSet(records) : k.conversation \notin cs}
           /\ ToSet(conversationOrder') = ToSet(conversationOrder) \ cs
<1> DEFINE keys == UNION {recordKeys[c] : c \in cs}
<1>1. /\ records' = KeysWithout(records, keys)
      /\ recordKeys' = [c \in Conversation |-> recordKeys[c] \ keys]
      /\ conversationOrder' = KeysWithout(conversationOrder, cs)
      /\ residentSize' = residentSize - Total(keys)
  BY DEF Release
<1>2. /\ keys = {k \in ToSet(records) : k.conversation \in cs}
      /\ \A k \in ToSet(records) : k.conversation \in Conversation
  <2>1. \A k \in ToSet(records) : k.conversation \in Conversation
    BY ResidentFacts DEF Record
  <2> QED BY <2>1 DEF ResidentOK, Agreed
<1> HIDE DEF keys
<1>3. /\ records' \in Seq(Record) /\ ToSet(records') = ToSet(records) \ keys
      /\ IsInjective(records')
  BY <1>1, KeysWithoutFacts DEF ResidentOK, ResidentType, Agreed
<1>4. /\ conversationOrder' \in Seq(Conversation)
      /\ ToSet(conversationOrder') = ToSet(conversationOrder) \ cs
      /\ IsInjective(conversationOrder')
  BY <1>1, KeysWithoutFacts DEF ResidentOK, ResidentType, Agreed
<1>5. \A c \in Conversation :
        recordKeys'[c] = IF c \in cs THEN {} ELSE recordKeys[c]
  BY <1>1, <1>2 DEF ResidentOK, Agreed
<1>6. \A c \in Conversation :
        recordKeys'[c] = {k \in ToSet(records') : k.conversation = c}
  BY <1>2, <1>3, <1>5 DEF ResidentOK, Agreed
<1>7. ToSet(conversationOrder') = {c \in Conversation : recordKeys'[c] # {}}
  BY <1>4, <1>5 DEF ResidentOK, Agreed
<1>8. /\ residentSize' = Total(ToSet(records')) /\ residentSize' \in Nat
      /\ residentSize' <= residentSize
  <2>1. keys \in SUBSET ToSet(records)
    BY <1>2
  <2>2. /\ Total(keys) \in Nat /\ Total(ToSet(records)) \in Nat
        /\ Total(ToSet(records) \ keys) \in Nat
        /\ Total(ToSet(records)) = Total(keys) + Total(ToSet(records) \ keys)
    BY <2>1, ResidentFacts, TotalFacts
  <2> QED BY <1>1, <1>3, <2>2 DEF ResidentOK, Agreed
<1>9. WithinLimits'
  <2>1. Len(records') <= Len(records)
    <3>1. Len(records') = Cardinality(ToSet(records'))
      BY <1>3, LenIsCardinality
    <3>2. ToSet(records') \in SUBSET ToSet(records)
      BY <1>3
    <3>3. Cardinality(ToSet(records')) <= Cardinality(ToSet(records))
      BY <3>2, ResidentFacts, FS_Subset
    <3> QED BY <3>1, <3>3, ResidentFacts
  <2>2. Len(conversationOrder') <= Len(conversationOrder)
    <3>1. Len(conversationOrder') = Cardinality(ToSet(conversationOrder'))
      BY <1>4, LenIsCardinality
    <3>2. ToSet(conversationOrder') \in SUBSET ToSet(conversationOrder)
      BY <1>4
    <3>3. Cardinality(ToSet(conversationOrder')) <= Cardinality(ToSet(conversationOrder))
      BY <3>2, ResidentFacts, FS_Subset
    <3> QED BY <3>1, <3>3, ResidentFacts
  <2>3. ASSUME NEW c \in Conversation, NEW kind \in Kind
        PROVE  Cardinality({k \in recordKeys'[c] : k.kind = kind}) <= MaximumKind(kind)
    <3>1. CASE c \in cs
      <4>1. {k \in recordKeys'[c] : k.kind = kind} = {}
        BY <1>5, <3>1
      <4>2. MaximumKind(kind) \in Nat
        BY PolicyAssumption DEF MaximumKind
      <4> QED BY <4>1, <4>2, FS_EmptySet
    <3>2. CASE c \notin cs
      BY <1>5, <3>2 DEF ResidentOK, WithinLimits
    <3> QED BY <3>1, <3>2
  <2>4. /\ Len(records) \in Nat /\ Len(records') \in Nat
        /\ Len(conversationOrder) \in Nat /\ Len(conversationOrder') \in Nat
        /\ residentSize \in Nat
    BY <1>3, <1>4 DEF ResidentOK, ResidentType
  <2>5. /\ Len(records') <= maxResidentRecords
        /\ Len(conversationOrder') <= maxResidentConversations
        /\ residentSize' <= maxResidentSize
    BY <1>8, <2>1, <2>2, <2>4, PolicyAssumption DEF ResidentOK, WithinLimits
  <2> QED BY <2>3, <2>5 DEF WithinLimits, MaximumKind
<1>10. ResidentType'
  BY <1>1, <1>3, <1>4, <1>8 DEF ResidentType
<1>11. Agreed'
  BY <1>3, <1>4, <1>6, <1>7, <1>8 DEF Agreed, Total
<1>12. ToSet(records') = {k \in ToSet(records) : k.conversation \notin cs}
  BY <1>2, <1>3
<1> QED BY <1>4, <1>9, <1>10, <1>11, <1>12 DEF ResidentOK

Nothing ==
    /\ conversationOrder = <<>> /\ records = <<>> /\ residentSize = 0
    /\ recordKeys = [c \in Conversation |-> {}]

\* An empty working set is in order.
LEMMA NothingIsOK ==
    Nothing => ResidentOK /\ ToSet(records) = {} /\ ToSet(conversationOrder) = {}
<1> SUFFICES ASSUME Nothing
             PROVE  ResidentOK /\ ToSet(records) = {} /\ ToSet(conversationOrder) = {}
  OBVIOUS
<1>1. /\ ToSet(records) = {} /\ ToSet(conversationOrder) = {}
      /\ IsInjective(records) /\ IsInjective(conversationOrder)
  BY DEF Nothing, ToSet, IsInjective
<1>2. Total({}) = 0
  BY FS_EmptySet, TotalFacts
<1>3. ResidentType
  BY DEF Nothing, ResidentType
<1>4. Agreed
  BY <1>1, <1>2 DEF Nothing, Agreed
<1>5. WithinLimits
  <2>1. Len(conversationOrder) = 0 /\ Len(records) = 0
    BY DEF Nothing
  <2>2. ASSUME NEW c \in Conversation, NEW kind \in Kind
        PROVE  Cardinality({k \in recordKeys[c] : k.kind = kind}) <= MaximumKind(kind)
    <3>1. {k \in recordKeys[c] : k.kind = kind} = {}
      BY DEF Nothing
    <3>2. MaximumKind(kind) \in Nat
      BY PolicyAssumption DEF MaximumKind
    <3> QED BY <3>1, <3>2, FS_EmptySet
  <2> QED BY <2>1, <2>2, PolicyAssumption DEF Nothing, WithinLimits
<1> QED BY <1>1, <1>3, <1>4, <1>5 DEF ResidentOK

\* With the session everything goes.
LEMMA EndEffect ==
    EndSession => ResidentOK' /\ ToSet(records') = {} /\ ToSet(conversationOrder') = {}
<1>1. (Nothing => ResidentOK /\ ToSet(records) = {} /\ ToSet(conversationOrder) = {})'
  BY NothingIsOK, PTL
<1>2. EndSession => Nothing'
  BY DEF EndSession, Nothing
<1> QED BY <1>1, <1>2

\* The conversations crowded out leave room for one more.
LEMMA CrowdedOutFacts ==
    ASSUME ResidentOK, NEW own \in Conversation
    PROVE  /\ CrowdedOut(own) \subseteq ToSet(conversationOrder) \ {own}
           /\ Cardinality((ToSet(conversationOrder) \ {own}) \ CrowdedOut(own))
                < maxResidentConversations
<1> DEFINE others == KeysWithout(conversationOrder, {own})
<1>1. /\ others \in Seq(Conversation) /\ IsInjective(others)
      /\ ToSet(others) = ToSet(conversationOrder) \ {own}
  BY KeysWithoutFacts DEF ResidentOK, ResidentType, Agreed
<1>2. CrowdedOut(own) = First(others, Excess(Len(others) + 1, maxResidentConversations))
  BY DEF CrowdedOut
<1> HIDE DEF others
<1> QED BY <1>1, <1>2, PolicyAssumption, ExcessLeaves

\* So do the records replaced, among those of their kind.
LEMMA ReplacedFacts ==
    ASSUME ResidentOK, NEW rec \in Record
    PROVE  LET same == {k \in recordKeys[rec.conversation] : k.kind = rec.kind} \ {rec}
           IN /\ Replaced(rec) \subseteq same
              /\ Cardinality(same \ Replaced(rec)) < MaximumKind(rec.kind)
<1> DEFINE same == {k \in recordKeys[rec.conversation] : k.kind = rec.kind} \ {rec}
           listed == KeysWithout(records, ToSet(records) \ same)
<1>1. same \subseteq ToSet(records)
  BY ResidentFacts DEF Record
<1>2. Replaced(rec) = First(listed, Excess(Len(listed) + 1, MaximumKind(rec.kind)))
  BY DEF Replaced
<1> HIDE DEF same
<1>3. listed \in Seq(Record) /\ IsInjective(listed) /\ ToSet(listed) = same
  <2>1. /\ listed \in Seq(Record) /\ IsInjective(listed)
        /\ ToSet(listed) = ToSet(records) \ (ToSet(records) \ same)
    BY KeysWithoutFacts DEF ResidentOK, ResidentType, Agreed
  <2> QED BY <1>1, <2>1
<1> HIDE DEF listed
<1>4. MaximumKind(rec.kind) \in Nat \ {0}
  BY PolicyAssumption DEF MaximumKind
<1>5. /\ Replaced(rec) \subseteq same
      /\ Cardinality(same \ Replaced(rec)) < MaximumKind(rec.kind)
  BY <1>2, <1>3, <1>4, ExcessLeaves
<1> QED BY <1>5 DEF same

\* What is planned to go is resident.
LEMMA OutgoingFacts ==
    ASSUME ResidentOK, NEW rec \in Record
    PROVE  Outgoing(rec) \subseteq ToSet(records)
<1>1. rec.conversation \in Conversation
  BY DEF Record
<1>2. CrowdedOut(rec.conversation) \subseteq Conversation
  BY <1>1, CrowdedOutFacts, ResidentFacts
<1>3. Replaced(rec) \subseteq recordKeys[rec.conversation]
  BY ReplacedFacts
<1>4. (UNION {recordKeys[c] : c \in CrowdedOut(rec.conversation)}) \subseteq ToSet(records)
  BY <1>2, ResidentFacts
<1>5. Replaced(rec) \subseteq ToSet(records)
  BY <1>1, <1>3, ResidentFacts
<1> QED BY <1>4, <1>5 DEF Outgoing

\* There are enough records to remove: the plan is what must go and as many of
\* the oldest as it takes, and then the new record fits.
LEMMA RemovalsFacts ==
    ASSUME ResidentOK, NEW rec \in Record, Admissible(rec)
    PROVE  /\ Outgoing(rec) \subseteq Removals(rec)
           /\ Removals(rec) \subseteq ToSet(records)
           /\ Fits(rec, Removals(rec))
<1> DEFINE outgoing == Outgoing(rec)
           others == KeysWithout(records, outgoing)
           plan(i) == outgoing \union First(others, i)
           T == {i \in 0..Len(others) : Fits(rec, plan(i))}
           Enough(i) == Fits(rec, plan(i)) /\ \A j \in 0..(i - 1) : ~Fits(rec, plan(j))
           n == CHOOSE i \in 0..Len(others) : Enough(i)
<1>1. /\ others \in Seq(Record) /\ ToSet(others) = ToSet(records) \ outgoing
      /\ outgoing \subseteq ToSet(records) /\ Len(others) \in Nat
  <2>1. others \in Seq(Record) /\ ToSet(others) = ToSet(records) \ outgoing
    BY KeysWithoutFacts DEF ResidentOK, ResidentType
  <2> QED BY <2>1, OutgoingFacts
<1> HIDE DEF others, outgoing
<1>2. \A i \in 0..Len(others) : plan(i) \subseteq ToSet(records)
  BY <1>1, PrefixCardinality DEF First
<1>3. plan(Len(others)) = ToSet(records)
  BY <1>1, PrefixCardinality DEF First
<1>4. Fits(rec, ToSet(records))
  <2>1. SizeOf[rec.item] \in Nat /\ SizeOf[rec.item] <= maxResidentSize
    BY RecordSizeType DEF Admissible
  <2>2. residentSize = Total(ToSet(records)) /\ residentSize \in Nat
    BY DEF ResidentOK, ResidentType, Agreed
  <2> QED BY <2>1, <2>2, ResidentFacts, PolicyAssumption DEF Fits
<1>5. T \in SUBSET Nat /\ Len(others) \in T
  <2> HIDE DEF plan
  <2> QED BY <1>1, <1>3, <1>4
<1>6. PICK m \in T : \A j \in T : m <= j
  <2> HIDE DEF T
  <2> QED BY <1>5, LeastNumber
<1>7. m \in 0..Len(others) /\ Enough(m)
  <2>1. m \in 0..Len(others) /\ Fits(rec, plan(m))
    OBVIOUS
  <2>2. ASSUME NEW j \in 0..(m - 1), Fits(rec, plan(j)) PROVE FALSE
    <3>1. j \in 0..Len(others) /\ ~(m <= j)
      BY <1>1, <2>1
    <3>2. j \in T
      BY <2>2, <3>1
    <3> HIDE DEF T
    <3> QED BY <1>6, <3>1, <3>2
  <2> QED BY <2>1, <2>2
<1>8. n \in 0..Len(others) /\ Enough(n)
  <2> HIDE DEF Enough
  <2> QED BY <1>7
<1>9. Removals(rec) = plan(n)
  BY DEF Removals, outgoing, others
<1>10. Fits(rec, plan(n)) /\ plan(n) \subseteq ToSet(records)
  <2> HIDE DEF n, plan
  <2> QED BY <1>2, <1>8
<1> QED BY <1>9, <1>10 DEF outgoing

\* Admission puts the record in the place of what its plan removes, and only
\* conversations that lost their last record leave.
LEMMA AdmitEffect ==
    ASSUME ResidentOK, NEW rec \in Record, Admissible(rec), Admit(rec)
    PROVE  LET removed == Removals(rec)
               dropped == Emptied(rec.conversation, removed)
           IN /\ ResidentOK'
              /\ ToSet(records') = (ToSet(records) \ removed) \union {rec}
              /\ ToSet(conversationOrder) \ ToSet(conversationOrder') \subseteq dropped
              /\ \A k \in ToSet(records') : k.conversation \in Conversation \ dropped
              /\ Bump(dropped)
<1> DEFINE own == rec.conversation
           R == Removals(rec)
           D == Emptied(own, R)
<1>1. /\ own \in Conversation /\ rec.kind \in Kind
      /\ SizeOf[rec.item] \in Nat /\ SizeOf[rec.item] <= maxResidentSize
  BY RecordSizeType DEF Record, Admissible
<1>2. Outgoing(rec) \subseteq R /\ R \subseteq ToSet(records) /\ Fits(rec, R)
  BY RemovalsFacts
<1>3. /\ {rec} \cap ToSet(records) \subseteq R /\ Replaced(rec) \subseteq R
      /\ \A c \in CrowdedOut(own) : recordKeys[c] \subseteq R
  BY <1>2 DEF Outgoing
<1>4. D = {c \in ToSet(conversationOrder) \ {own} : recordKeys[c] \subseteq R}
  BY DEF Emptied
<1>5. /\ records' = Append(KeysWithout(records, R), rec)
      /\ residentSize' = residentSize - Total(R) + SizeOf[rec.item]
      /\ recordKeys' = [c \in Conversation |->
              IF c \in D THEN {}
              ELSE (recordKeys[c] \ R) \union (IF c = own THEN {rec} ELSE {})]
      /\ conversationOrder' =
              Append(KeysWithout(conversationOrder, D \union {own}), own)
      /\ Bump(D)
  BY DEF Admit
<1> HIDE DEF D, R
<1>6. /\ records' \in Seq(Record) /\ IsInjective(records')
      /\ ToSet(records') = (ToSet(records) \ R) \union {rec}
  <2> DEFINE kept == KeysWithout(records, R)
  <2>1. /\ kept \in Seq(Record) /\ IsInjective(kept)
        /\ ToSet(kept) = ToSet(records) \ R
    BY KeysWithoutFacts DEF ResidentOK, ResidentType, Agreed
  <2> HIDE DEF kept
  <2>2. rec \notin ToSet(kept)
    BY <1>3, <2>1
  <2>3. /\ Append(kept, rec) \in Seq(Record) /\ IsInjective(Append(kept, rec))
        /\ ToSet(Append(kept, rec)) = ToSet(kept) \union {rec}
    BY <2>1, <2>2, AppendSet
  <2> QED BY <1>5, <2>1, <2>3 DEF kept
<1>7. /\ conversationOrder' \in Seq(Conversation) /\ IsInjective(conversationOrder')
      /\ ToSet(conversationOrder') = (ToSet(conversationOrder) \ D) \union {own}
  <2> DEFINE kept == KeysWithout(conversationOrder, D \union {own})
  <2>1. /\ kept \in Seq(Conversation) /\ IsInjective(kept)
        /\ ToSet(kept) = ToSet(conversationOrder) \ (D \union {own})
    BY KeysWithoutFacts DEF ResidentOK, ResidentType, Agreed
  <2> HIDE DEF kept
  <2>2. /\ Append(kept, own) \in Seq(Conversation) /\ IsInjective(Append(kept, own))
        /\ ToSet(Append(kept, own)) = ToSet(kept) \union {own}
    BY <1>1, <2>1, AppendSet
  <2>3. own \notin D
    BY <1>4
  <2> QED BY <1>5, <2>1, <2>2, <2>3 DEF kept
<1>8. \A k \in ToSet(records') : k.conversation \in Conversation \ D
  <2> SUFFICES ASSUME NEW k \in ToSet(records') PROVE k.conversation \in Conversation \ D
    OBVIOUS
  <2>1. CASE k = rec
    BY <1>1, <1>4, <2>1
  <2>2. CASE k # rec
    <3>1. k \in ToSet(records) /\ k \notin R /\ k \in Record
      BY <1>6, <2>2, ResidentFacts
    <3>2. k.conversation \in Conversation /\ k \in recordKeys[k.conversation]
      BY <3>1 DEF ResidentOK, Agreed, Record
    <3> QED BY <1>4, <3>1, <3>2
  <2> QED BY <2>1, <2>2
<1>9. \A c \in Conversation :
        recordKeys'[c] = {k \in ToSet(records') : k.conversation = c}
  <2> SUFFICES ASSUME NEW c \in Conversation
               PROVE  recordKeys'[c] = {k \in ToSet(records') : k.conversation = c}
    OBVIOUS
  <2>1. CASE c \in D
    BY <1>5, <1>8, <2>1
  <2>2. CASE c \notin D
    BY <1>5, <1>6, <2>2 DEF ResidentOK, Agreed
  <2> QED BY <2>1, <2>2
<1>10. ToSet(conversationOrder') = {c \in Conversation : recordKeys'[c] # {}}
  <2>1. ASSUME NEW c \in Conversation
        PROVE  c \in ToSet(conversationOrder') <=> recordKeys'[c] # {}
    <3>1. CASE c = own
      <4>1. own \notin D
        BY <1>4
      <4> QED BY <1>5, <1>7, <3>1, <4>1
    <3>2. CASE c # own /\ c \in D
      BY <1>5, <1>7, <3>2
    <3>3. CASE c # own /\ c \notin D
      <4>1. recordKeys'[c] = recordKeys[c] \ R
        BY <1>5, <3>3
      <4>2. c \in ToSet(conversationOrder) <=> recordKeys[c] # {}
        BY DEF ResidentOK, Agreed
      <4> QED BY <1>4, <1>7, <3>3, <4>1, <4>2
    <3> QED BY <3>1, <3>2, <3>3
  <2>2. ToSet(conversationOrder') \subseteq Conversation
    BY <1>7 DEF ToSet
  <2> QED BY <2>1, <2>2
<1>11. /\ residentSize' = Total(ToSet(records')) /\ residentSize' \in Nat
       /\ residentSize' <= maxResidentSize
  <2> DEFINE K == ToSet(records) \ R
  <2>1. K \in SUBSET Record /\ IsFiniteSet(K) /\ rec \in Record \ K
    BY <1>3, ResidentFacts, FS_Difference
  <2>2. /\ Total(ToSet(records)) = Total(R) + Total(K)
        /\ Total(R) \in Nat /\ Total(ToSet(records)) \in Nat
    BY <1>2, ResidentFacts, TotalFacts
  <2> HIDE DEF K
  <2>3. Total(K) \in Nat /\ Total(K \union {rec}) = Total(K) + SizeOf[rec.item]
    BY <2>1, TotalFacts
  <2>4. residentSize = Total(ToSet(records))
    BY DEF ResidentOK, Agreed
  <2>5. residentSize + SizeOf[rec.item] - Total(R) <= maxResidentSize
    BY <1>2 DEF Fits
  <2>6. ToSet(records') = K \union {rec}
    BY <1>6 DEF K
  <2> QED BY <1>1, <1>5, <2>2, <2>3, <2>4, <2>5, <2>6, PolicyAssumption
<1>12. Len(records') <= maxResidentRecords
  <2> DEFINE kept == KeysWithout(records, R)
  <2>1. /\ kept \in Seq(Record) /\ IsInjective(kept)
        /\ ToSet(kept) = ToSet(records) \ R
    BY KeysWithoutFacts DEF ResidentOK, ResidentType, Agreed
  <2>2. records' = Append(kept, rec)
    BY <1>5
  <2> HIDE DEF kept
  <2>3. Cardinality(ToSet(kept)) = Len(kept)
    BY <2>1, LenIsCardinality
  <2>4. Len(kept) \in Nat /\ Len(records') = Len(kept) + 1
    BY <2>1, <2>2
  <2>5. Cardinality(ToSet(kept)) = Cardinality(ToSet(records)) - Cardinality(R)
    <3>1. Cardinality(ToSet(records) \ R)
            = Cardinality(ToSet(records)) - Cardinality(ToSet(records) \cap R)
      BY ResidentFacts, FS_Difference
    <3>2. ToSet(records) \cap R = R
      BY <1>2
    <3> QED BY <2>1, <3>1, <3>2
  <2>6. Cardinality(R) \in Nat
    BY <1>2, ResidentFacts, FS_Subset, FS_CardinalityType
  <2>7. Len(records) = Cardinality(ToSet(records)) /\ Len(records) \in Nat
    BY ResidentFacts
  <2>8. Len(records) + 1 - Cardinality(R) <= maxResidentRecords
    BY <1>2 DEF Fits
  <2> QED BY <2>3, <2>4, <2>5, <2>6, <2>7, <2>8, PolicyAssumption
<1>13. Len(conversationOrder') <= maxResidentConversations
  <2> DEFINE kept == KeysWithout(conversationOrder, D \union {own})
             rest == (ToSet(conversationOrder) \ {own}) \ CrowdedOut(own)
  <2>1. /\ kept \in Seq(Conversation) /\ IsInjective(kept)
        /\ ToSet(kept) = ToSet(conversationOrder) \ (D \union {own})
    BY KeysWithoutFacts DEF ResidentOK, ResidentType, Agreed
  <2>2. CrowdedOut(own) \subseteq D
    BY <1>1, <1>3, <1>4, CrowdedOutFacts
  <2>3. Cardinality(rest) < maxResidentConversations /\ IsFiniteSet(rest)
    BY <1>1, CrowdedOutFacts, ResidentFacts, FS_Difference
  <2>4. ToSet(kept) \in SUBSET rest
    BY <2>1, <2>2
  <2> HIDE DEF rest, kept
  <2>5. Len(kept) = Cardinality(ToSet(kept)) /\ Len(kept) \in Nat
    <3>1. Cardinality(ToSet(kept)) = Len(kept)
      BY <2>1, LenIsCardinality
    <3>2. Len(kept) \in Nat
      BY <2>1
    <3> QED BY <3>1, <3>2
  <2>6. Cardinality(ToSet(kept)) <= Cardinality(rest) /\ Cardinality(rest) \in Nat
    BY <2>3, <2>4, FS_Subset, FS_CardinalityType
  <2>7. Len(conversationOrder') = Len(kept) + 1
    BY <1>1, <1>5, <2>1, AppendSet DEF kept
  <2> QED BY <2>3, <2>5, <2>6, <2>7, PolicyAssumption
<1>14. ASSUME NEW c \in Conversation, NEW kind \in Kind
       PROVE  Cardinality({k \in recordKeys'[c] : k.kind = kind}) <= MaximumKind(kind)
  <2> DEFINE old == {k \in recordKeys[c] : k.kind = kind}
             new == {k \in recordKeys'[c] : k.kind = kind}
  <2>1. /\ MaximumKind(kind) \in Nat /\ Cardinality(old) <= MaximumKind(kind)
        /\ IsFiniteSet(old) /\ Cardinality(old) \in Nat
    <3>1. MaximumKind(kind) \in Nat
      BY PolicyAssumption DEF MaximumKind
    <3>2. Cardinality(old) <= MaximumKind(kind)
      BY DEF ResidentOK, WithinLimits
    <3>3. IsFiniteSet(old)
      <4>1. old \in SUBSET recordKeys[c]
        OBVIOUS
      <4> QED BY <4>1, ResidentFacts, FS_Subset
    <3> QED BY <3>1, <3>2, <3>3, FS_CardinalityType
  <2>2. CASE ~(c = own /\ kind = rec.kind)
    <3>1. new \in SUBSET old
      <4>1. recordKeys'[c] \subseteq recordKeys[c] \union (IF c = own THEN {rec} ELSE {})
        BY <1>5
      <4> QED BY <2>2, <4>1
    <3> HIDE DEF old, new
    <3>2. Cardinality(new) <= Cardinality(old) /\ Cardinality(new) \in Nat
      BY <2>1, <3>1, FS_Subset, FS_CardinalityType
    <3>3. Cardinality(new) <= MaximumKind(kind)
      BY <2>1, <3>2
    <3> QED BY <3>3 DEF new
  <2>3. CASE c = own /\ kind = rec.kind
    <3> DEFINE left == (old \ {rec}) \ Replaced(rec)
    <3>1. Cardinality(left) < MaximumKind(kind)
      BY <2>3, ReplacedFacts
    <3>2. new \in SUBSET (left \union {rec})
      <4>1. recordKeys'[c] \subseteq (recordKeys[c] \ R) \union {rec}
        BY <1>5, <2>3
      <4> QED BY <1>3, <2>3, <4>1
    <3> HIDE DEF old, new
    <3>3. IsFiniteSet(left) /\ Cardinality(left) \in Nat
      BY <2>1, FS_Difference, FS_CardinalityType
    <3> HIDE DEF left
    <3>4. /\ IsFiniteSet(left \union {rec})
          /\ Cardinality(left \union {rec}) <= Cardinality(left) + 1
          /\ Cardinality(left \union {rec}) \in Nat
      <4>1. /\ IsFiniteSet(left \union {rec})
            /\ \/ Cardinality(left \union {rec}) = Cardinality(left)
               \/ Cardinality(left \union {rec}) = Cardinality(left) + 1
        BY <3>3, FS_AddElement
      <4>2. Cardinality(left \union {rec}) \in Nat
        BY <4>1, FS_CardinalityType
      <4> QED BY <3>3, <4>1, <4>2
    <3>5. Cardinality(new) <= Cardinality(left \union {rec}) /\ Cardinality(new) \in Nat
      BY <3>2, <3>4, FS_Subset, FS_CardinalityType
    <3>6. Cardinality(new) <= MaximumKind(kind)
      BY <2>1, <3>1, <3>3, <3>4, <3>5
    <3> QED BY <3>6 DEF new
  <2> QED BY <2>2, <2>3
<1>15. ResidentType'
  BY <1>5, <1>6, <1>7, <1>11 DEF ResidentType
<1>16. Agreed'
  BY <1>6, <1>7, <1>9, <1>10, <1>11 DEF Agreed, Total
<1>17. WithinLimits'
  BY <1>11, <1>12, <1>13, <1>14 DEF WithinLimits, MaximumKind
<1>18. ToSet(conversationOrder) \ ToSet(conversationOrder') \subseteq D
  BY <1>7
<1> QED BY <1>5, <1>6, <1>8, <1>15, <1>16, <1>17, <1>18 DEF ResidentOK, D, R

-----------------------------------------------------------------------------
(* What a step does                                                         *)

\* A sequence with no elements is empty.
LEMMA NoElements ==
    ASSUME NEW X, NEW s \in Seq(X), ToSet(s) = {}
    PROVE  s = <<>>
<1>1. Len(s) \in Nat /\ DOMAIN s = 1..Len(s)
  OBVIOUS
<1>2. Len(s) = 0
  <2> SUFFICES ASSUME Len(s) # 0 PROVE FALSE
    OBVIOUS
  <2>1. s[1] \in ToSet(s)
    BY <1>1 DEF ToSet
  <2> QED BY <2>1
<1> QED BY <1>2

\* A step that leaves the working set alone leaves it in order.
LEMMA ResidentKept ==
    ASSUME ResidentOK, UNCHANGED resident
    PROVE  ResidentOK'
  BY DEF resident, ResidentOK, ResidentType, Agreed, WithinLimits, MaximumKind, Total

KeysAreRecords == \A c \in Conversation : recordKeys[c] \subseteq Record

\* The keys of a working set in order are records.
LEMMA KeysTyped == ResidentOK => KeysAreRecords
<1> SUFFICES ASSUME ResidentOK PROVE KeysAreRecords
  OBVIOUS
<1>1. /\ ToSet(records) \subseteq Record
      /\ \A c \in Conversation : recordKeys[c] \subseteq ToSet(records)
  BY ResidentFacts
<1> QED BY <1>1 DEF KeysAreRecords

\* A request as #prepare makes it.
Fresh(q) ==
    /\ q \in Prepared
    /\ q.conversation # NoConversation =>
          q.conversation \in Conversation /\ q.generation = generation[q.conversation]
    /\ q.operation \in Kind \union {"close"} => q.conversation \in Conversation
    /\ q.operation \in Kind => q.item \in Item /\ q.conversation \in accepted

\* The working set stays in order and current, generations only rise, and they
\* rise for whatever leaves the working set or the accepted adapters.
Keeps ==
    /\ ResidentOK' /\ ResidentIsCurrent'
    /\ \E cs \in SUBSET Conversation :
          /\ Bump(cs) \/ (cs = {} /\ UNCHANGED generation)
          /\ ToSet(conversationOrder) \ ToSet(conversationOrder') \subseteq cs
          /\ accepted \ accepted' \subseteq cs

\* Requests are prepared, wait, and are gone.
Requests ==
    \/ \A s \in Slot : request'[s] \in {request[s], NoRequest}
    \/ /\ \E t \in Slot :
            /\ request[t] = NoRequest /\ Fresh(request'[t])
            /\ \A s \in Slot \ {t} : request'[s] = request[s]
       /\ UNCHANGED <<generation, accepted>>

\* A session goes on, or ends once.
Session == UNCHANGED session \/ (active /\ EndSession)

\* No record comes, unless it is the record of a request that is current.
Records ==
    \/ ToSet(records') \subseteq ToSet(records)
    \/ \E s \in Slot :
          /\ request[s] # NoRequest /\ StillCurrent(request[s])
          /\ request[s].operation \in Kind
          /\ \A t \in Slot \ {s} : request'[t] = request[t]

Effect ==
    /\ Keeps /\ Requests /\ Session /\ Records
    /\ clock' \in 0..MaxClock /\ accepted' \subseteq Conversation
    /\ request' \in [Slot -> Prepared \union {NoRequest}]

\* Steps that leave working set, generations and adapters alone.
LEMMA QuietKeeps ==
    ASSUME IInv, UNCHANGED <<session, accepted, generation, resident>>
    PROVE  Keeps /\ Session /\ ToSet(records') \subseteq ToSet(records)
<1>1. ResidentOK'
  BY ResidentKept DEF IInv
<1>2. ResidentIsCurrent'
  BY DEF IInv, ResidentIsCurrent, session, resident
<1>3. \E cs \in SUBSET Conversation :
          /\ Bump(cs) \/ (cs = {} /\ UNCHANGED generation)
          /\ ToSet(conversationOrder) \ ToSet(conversationOrder') \subseteq cs
          /\ accepted \ accepted' \subseteq cs
  <2>1. /\ ToSet(conversationOrder) \ ToSet(conversationOrder') = {}
        /\ accepted \ accepted' = {}
    BY DEF resident
  <2> WITNESS {} \in SUBSET Conversation
  <2> QED BY <2>1
<1> QED BY <1>1, <1>2, <1>3 DEF Keeps, Session, resident

\* Releasing conversations.
LEMMA ReleaseKeeps ==
    ASSUME IInv, NEW cs \in SUBSET Conversation, Release(cs),
           accepted' \subseteq Conversation, accepted \ accepted' \subseteq cs,
           UNCHANGED session
    PROVE  Keeps /\ Session /\ ToSet(records') \subseteq ToSet(records)
<1>1. /\ ResidentOK'
      /\ ToSet(records') = {k \in ToSet(records) : k.conversation \notin cs}
      /\ ToSet(conversationOrder') = ToSet(conversationOrder) \ cs
  BY ReleaseEffect DEF IInv
<1>2. Bump(cs)
  BY DEF Release
<1>3. ResidentIsCurrent'
  <2> SUFFICES ASSUME NEW k \in ToSet(records')
               PROVE  /\ active'
                      /\ k.conversation \in accepted'
                      /\ k.generation = generation'[k.conversation]
    BY DEF ResidentIsCurrent
  <2>1. k \in ToSet(records) /\ k.conversation \notin cs
    BY <1>1
  <2>2. active /\ k.conversation \in accepted /\ k.generation = generation[k.conversation]
    BY <2>1 DEF IInv, ResidentIsCurrent
  <2>3. k.conversation \in Conversation
    BY <2>2 DEF IInv, TypeOK
  <2> QED BY <1>2, <2>1, <2>2, <2>3 DEF Bump, session
<1>4. ToSet(conversationOrder) \ ToSet(conversationOrder') \subseteq cs
  BY <1>1
<1> QED BY <1>1, <1>2, <1>3, <1>4 DEF Keeps, Session

\* The end of the session.
LEMMA EndKeeps ==
    ASSUME IInv, active, EndSession, UNCHANGED accepted
    PROVE  Keeps /\ Session /\ ToSet(records') \subseteq ToSet(records)
<1>1. ResidentOK' /\ ToSet(records') = {}
  BY EndEffect
<1>2. Bump(Conversation) /\ ToSet(conversationOrder) \subseteq Conversation
  BY ResidentFacts DEF EndSession, IInv
<1>3. ResidentIsCurrent'
  BY <1>1 DEF ResidentIsCurrent
<1>4. \E cs \in SUBSET Conversation :
          /\ Bump(cs) \/ (cs = {} /\ UNCHANGED generation)
          /\ ToSet(conversationOrder) \ ToSet(conversationOrder') \subseteq cs
          /\ accepted \ accepted' \subseteq cs
  <2> WITNESS Conversation \in SUBSET Conversation
  <2> QED BY <1>2
<1> QED BY <1>1, <1>3, <1>4 DEF Keeps, Session

\* The commit of a record.
LEMMA CommitKeeps ==
    ASSUME IInv, NEW s \in Slot, CommitRecord(s)
    PROVE  Keeps /\ Session /\ Records
<1> DEFINE q == request[s]
           rec == RecordOf(q)
           removed == Removals(rec)
           dropped == Emptied(rec.conversation, removed)
<1>1. /\ q # NoRequest /\ q \in Prepared /\ q.operation \in Kind
      /\ StillCurrent(q) /\ Admissible(rec) /\ Admit(rec)
      /\ UNCHANGED <<clock, session, accepted>>
  BY DEF CommitRecord, InFlight, IInv, TypeOK
<1>2. q.conversation \in Conversation /\ q.item \in Item
  BY <1>1 DEF IInv, RequestsOK
<1>3. /\ active /\ q.generation = generation[q.conversation]
      /\ q.conversation \in accepted
  <2>1. active /\ q.generation = generation[q.conversation]
    BY <1>1, <1>2, SourceAssumption DEF StillCurrent
  <2> QED BY <1>1, <2>1 DEF IInv, RequestsOK
<1>4. rec \in Record /\ rec.conversation = q.conversation /\ rec.generation = q.generation
  BY <1>1, <1>2 DEF RecordOf, Record, Prepared
<1> HIDE DEF rec
<1>5. /\ ResidentOK'
      /\ ToSet(records') = (ToSet(records) \ removed) \union {rec}
      /\ ToSet(conversationOrder) \ ToSet(conversationOrder') \subseteq dropped
      /\ \A k \in ToSet(records') : k.conversation \in Conversation \ dropped
      /\ Bump(dropped)
  BY <1>1, <1>4, AdmitEffect DEF IInv
<1>6. dropped \in SUBSET Conversation
  BY ResidentFacts DEF Emptied, IInv
<1> HIDE DEF dropped, removed
<1>7. ResidentIsCurrent'
  <2> SUFFICES ASSUME NEW k \in ToSet(records')
               PROVE  /\ active'
                      /\ k.conversation \in accepted'
                      /\ k.generation = generation'[k.conversation]
    BY DEF ResidentIsCurrent
  <2>1. active' = active /\ accepted' = accepted
    BY <1>1 DEF session
  <2>2. /\ k.conversation \in Conversation
        /\ generation'[k.conversation] = generation[k.conversation]
    BY <1>5 DEF Bump
  <2>3. k = rec \/ k \in ToSet(records)
    BY <1>5
  <2>4. k.conversation \in accepted /\ k.generation = generation[k.conversation]
    BY <1>3, <1>4, <2>3 DEF IInv, ResidentIsCurrent
  <2> QED BY <1>3, <2>1, <2>2, <2>4
<1>8. Keeps
  BY <1>1, <1>5, <1>6, <1>7 DEF Keeps
<1>9. Records
  BY <1>1 DEF Records, CommitRecord, Finish, IInv, TypeOK
<1> QED BY <1>1, <1>8, <1>9 DEF Session

\* Every step, in these terms.
LEMMA StepEffect ==
    IInv /\ Step => Effect
<1> SUFFICES ASSUME IInv, Step PROVE Effect
  OBVIOUS
<1> USE DEF Effect
<1>0. /\ clock \in 0..MaxClock /\ accepted \subseteq Conversation
      /\ request \in [Slot -> Prepared \union {NoRequest}]
      /\ generation \in [Conversation -> Nat] /\ sessionEpoch \in Nat
  BY DEF IInv, TypeOK
<1>1. UNCHANGED request => Requests
  BY DEF Requests
<1>2. \A s \in Slot : Finish(s) =>
        Requests /\ request' \in [Slot -> Prepared \union {NoRequest}]
  BY <1>0 DEF Requests, Finish
<1>3. ToSet(records') \subseteq ToSet(records) => Records
  BY DEF Records
<1>4. CASE DispatchExpired
  BY <1>0, <1>1, <1>3, <1>4, EndKeeps DEF DispatchExpired
<1>5. ASSUME NEW c \in Conversation, SourceExpired(c) PROVE Effect
  <2>1. /\ {c} \in SUBSET Conversation /\ Release({c})
        /\ UNCHANGED <<clock, session, accepted, request>>
    BY <1>5 DEF SourceExpired
  <2> QED BY <1>0, <1>1, <1>3, <2>1, ReleaseKeeps
<1>6. ASSUME NEW s \in Slot, NEW op \in Operation,
             NEW c \in Conversation \union {NoConversation}, NEW g \in Nat,
             NEW item \in Item \union {NoItem}, Start(s, op, c, g, item),
             c # NoConversation => g = generation[c],
             op \in Kind \union {"close"} => c \in Conversation,
             op \in Kind => item \in Item /\ c \in accepted
      PROVE  Effect
  <2> DEFINE q == [operation |-> op, conversation |-> c, generation |-> g,
                   epoch |-> sessionEpoch, item |-> item]
  <2>1. /\ request' = [request EXCEPT ![s] = q]
        /\ request[s] = NoRequest
        /\ UNCHANGED <<clock, session, accepted, generation, resident>>
    BY <1>6 DEF Start
  <2>2. q \in Prepared
    BY <1>0 DEF Prepared
  <2>3. Fresh(q)
    BY <1>6, <2>2 DEF Fresh
  <2> HIDE DEF q
  <2>4. Requests /\ request' \in [Slot -> Prepared \union {NoRequest}]
    <3>1. request'[s] = q /\ \A t \in Slot \ {s} : request'[t] = request[t]
      BY <1>0, <2>1
    <3>2. request' \in [Slot -> Prepared \union {NoRequest}]
      BY <1>0, <2>1, <2>2
    <3> QED BY <2>1, <2>3, <3>1, <3>2 DEF Requests
  <2> QED BY <1>0, <1>3, <2>1, <2>4, QuietKeeps
<1>7. ASSUME NEW s \in Slot, NEW kind \in Kind, NEW c \in Conversation,
             NEW item \in Item, Prepare(s, kind, c, item)
      PROVE  Effect
  BY <1>0, <1>6, <1>7, SourceAssumption DEF Prepare, Readable, Kind, Operation
<1>8. ASSUME NEW s \in Slot, PrepareRead(s) PROVE Effect
  BY <1>0, <1>6, <1>8 DEF PrepareRead, Kind, Operation
<1>9. ASSUME NEW s \in Slot, NEW c \in Conversation, PrepareClose(s, c) PROVE Effect
  BY <1>0, <1>6, <1>9 DEF PrepareClose, Kind, Operation
<1>10. ASSUME NEW s \in Slot, PrepareRevoke(s) PROVE Effect
  BY <1>0, <1>6, <1>10 DEF PrepareRevoke, Kind, Operation
<1>11. ASSUME NEW s \in Slot, Cancel(s) \/ CommitRead(s) PROVE Effect
  BY <1>0, <1>2, <1>3, <1>11, QuietKeeps DEF Cancel, CommitRead
<1>12. ASSUME NEW s \in Slot, CommitRecord(s) PROVE Effect
  BY <1>0, <1>2, <1>12, CommitKeeps DEF CommitRecord
<1>13. ASSUME NEW s \in Slot, CommitClose(s) PROVE Effect
  <2> DEFINE c == request[s].conversation
  <2>1. /\ Release({c}) /\ Finish(s) /\ UNCHANGED <<clock, session, accepted>>
        /\ request[s] # NoRequest /\ request[s].operation = "close"
    BY <1>13 DEF CommitClose, InFlight
  <2>2. {c} \in SUBSET Conversation
    BY <2>1 DEF IInv, RequestsOK
  <2> HIDE DEF c
  <2> QED BY <1>0, <1>2, <1>3, <2>1, <2>2, ReleaseKeeps
<1>14. ASSUME NEW s \in Slot, CommitRevoke(s) PROVE Effect
  BY <1>0, <1>2, <1>3, <1>14, EndKeeps DEF CommitRevoke, StillCurrent
<1>15. ASSUME NEW cs \in SUBSET Conversation, UpdateAcceptedAdapters(cs) PROVE Effect
  <2>1. /\ Conversation \ cs \in SUBSET Conversation /\ Release(Conversation \ cs)
        /\ accepted' = cs /\ UNCHANGED <<clock, session, request>>
    BY <1>15 DEF UpdateAcceptedAdapters
  <2> QED BY <1>0, <1>1, <1>3, <2>1, ReleaseKeeps
<1>16. CASE Tick
  BY <1>0, <1>1, <1>3, <1>16, QuietKeeps, SourceAssumption DEF Tick
<1> QED
  BY <1>4, <1>5, <1>7, <1>8, <1>9, <1>10, <1>11, <1>12, <1>13, <1>14, <1>15, <1>16
  DEF Step

-----------------------------------------------------------------------------
(* The invariant                                                            *)

\* The initial states satisfy it.
LEMMA InitInv == Init => IInv
<1> SUFFICES ASSUME Init PROVE IInv
  OBVIOUS
<1>1. Nothing
  BY DEF Init, Nothing
<1>2. ResidentOK /\ ToSet(records) = {}
  BY <1>1, NothingIsOK
<1>3. ResidentIsCurrent
  BY <1>2 DEF ResidentIsCurrent
<1>4. SessionOK
  BY SourceAssumption DEF Init, SessionOK
<1>5. RequestsOK /\ LostIsOutdated
  BY DEF Init, RequestsOK, LostIsOutdated
<1>6. TypeOK
  BY SourceAssumption DEF Init, TypeOK
<1> QED BY <1>2, <1>3, <1>4, <1>5, <1>6 DEF IInv

\* Every step preserves it.
LEMMA NextInv == IInv /\ [Next]_vars => IInv'
<1> SUFFICES ASSUME IInv, [Next]_vars PROVE IInv'
  OBVIOUS
<1>1. CASE UNCHANGED vars
  <2>1. ResidentOK'
    BY <1>1, ResidentKept DEF IInv, vars
  <2> QED BY <1>1, <2>1
      DEF vars, resident, session, IInv, TypeOK, ResidentIsCurrent, SessionOK,
          RequestsOK, LostIsOutdated
<1>2. CASE Next
  <2>1. Effect /\ Watch /\ Bounded
    BY <1>2, StepEffect DEF Next
  <2>2. PICK cs \in SUBSET Conversation :
          /\ Bump(cs) \/ (cs = {} /\ UNCHANGED generation)
          /\ ToSet(conversationOrder) \ ToSet(conversationOrder') \subseteq cs
          /\ accepted \ accepted' \subseteq cs
    BY <2>1 DEF Effect, Keeps
  <2>3. /\ generation \in [Conversation -> 0..(MaxGeneration + 1)] /\ MaxGeneration \in Nat
        /\ DOMAIN generation' = Conversation
        /\ \A c \in Conversation : /\ generation[c] \in Nat /\ generation'[c] \in Nat
                                   /\ generation[c] <= generation'[c]
                                   /\ c \in cs => generation[c] < generation'[c]
                                   /\ generation'[c] <= generation[c] + 1
    <3>1. generation \in [Conversation -> 0..(MaxGeneration + 1)] /\ MaxGeneration \in Nat
      BY SourceAssumption DEF IInv, TypeOK
    <3> QED BY <2>2, <3>1 DEF Bump
  <2>4. SessionOK'
    <3>1. CASE UNCHANGED session
      <4>1. /\ sessionEpoch' = IF active' THEN 0 ELSE 1
            /\ active' = active /\ sessionEpoch' = sessionEpoch
        BY <3>1 DEF session, IInv, SessionOK
      <4>2. active' => \A c \in Conversation : generation'[c] <= MaxGeneration
        BY <2>1, <2>3, <4>1 DEF Bounded, IInv, SessionOK
      <4>3. ~active' => conversationOrder' = <<>> /\ records' = <<>>
        <5> SUFFICES ASSUME ~active' PROVE conversationOrder' = <<>> /\ records' = <<>>
          OBVIOUS
        <5>1. records' \in Seq(Record) /\ conversationOrder' \in Seq(Conversation)
          BY <2>1 DEF Effect, Keeps, ResidentOK, ResidentType
        <5>2. ToSet(records') = {}
          BY <2>1 DEF Effect, Keeps, ResidentIsCurrent
        <5>3. ToSet(conversationOrder') = {}
          BY <2>1, <5>2 DEF Effect, Keeps, ResidentOK, Agreed
        <5> QED BY <5>1, <5>2, <5>3, NoElements
      <4> QED BY <4>1, <4>2, <4>3 DEF SessionOK
    <3>2. CASE active /\ EndSession
      BY <3>2 DEF EndSession, IInv, SessionOK
    <3> QED BY <2>1, <3>1, <3>2 DEF Effect, Session
  <2>5. RequestsOK'
    <3> SUFFICES ASSUME NEW s \in Slot, request'[s] # NoRequest
                 PROVE  LET q == request'[s]
                            c == q.conversation
                        IN /\ c # NoConversation => q.generation <= generation'[c]
                           /\ q.operation \in Kind \union {"close"} => c \in Conversation
                           /\ q.operation \in Kind =>
                                /\ q.item \in Item
                                /\ q.generation = generation'[c] => c \in accepted'
      BY DEF RequestsOK
    <3>1. CASE request'[s] = request[s]
      <4> DEFINE q == request[s]
                 c == q.conversation
      <4>1. /\ c # NoConversation => q.generation <= generation[c]
            /\ q.operation \in Kind \union {"close"} => c \in Conversation
            /\ q.operation \in Kind =>
                 /\ q.item \in Item
                 /\ q.generation = generation[c] => c \in accepted
        BY <3>1 DEF IInv, RequestsOK
      <4>2. q \in Prepared
        BY <3>1 DEF IInv, TypeOK
      <4>3. c \in Conversation \union {NoConversation} /\ q.generation \in Nat
        BY <4>2 DEF Prepared
      <4> HIDE DEF c
      <4>4. c # NoConversation => q.generation <= generation'[c]
        BY <2>3, <4>1, <4>3
      <4>5. ASSUME q.operation \in Kind, q.generation = generation'[c]
            PROVE  c \in accepted'
        <5>1. c \in Conversation /\ c # NoConversation
          BY <4>1, <4>5, SourceAssumption
        <5>2. q.generation = generation[c] /\ c \notin cs
          BY <2>3, <4>1, <4>3, <4>5, <5>1
        <5> QED BY <2>2, <4>1, <4>5, <5>2
      <4> QED BY <3>1, <4>1, <4>4, <4>5 DEF c
    <3>2. CASE Fresh(request'[s]) /\ UNCHANGED <<generation, accepted>>
      BY <2>3, <3>2 DEF Fresh, Kind
    <3> QED BY <2>1, <3>1, <3>2 DEF Effect, Requests
  <2>6. LostIsOutdated'
    <3> SUFFICES ASSUME NEW s \in lost'
                 PROVE  /\ request'[s] # NoRequest
                        /\ request'[s].conversation \in Conversation
                        /\ request'[s].generation < generation'[request'[s].conversation]
      BY DEF LostIsOutdated
    <3> DEFINE c == request[s].conversation
    <3>1. /\ s \in Slot /\ request'[s] # NoRequest /\ request[s] # NoRequest
          /\ c # NoConversation
          /\ \/ s \in lost
             \/ c \in ToSet(conversationOrder) \ ToSet(conversationOrder')
             \/ c \in accepted \ accepted'
      BY <2>1 DEF Watch
    <3>2. request[s] \in Prepared
      BY <3>1 DEF IInv, TypeOK
    <3>3. c \in Conversation /\ request[s].generation \in Nat
      BY <3>1, <3>2 DEF Prepared
    <3>4. request[s].generation <= generation[c]
      BY <3>1 DEF IInv, RequestsOK
    <3>5. request[s].generation < generation'[c]
      <4>1. CASE s \in lost
        <5>1. request[s].generation < generation[c]
          BY <4>1 DEF IInv, LostIsOutdated
        <5> QED BY <2>3, <3>3, <5>1
      <4>2. CASE c \in cs
        BY <2>3, <3>3, <3>4, <4>2
      <4> QED BY <2>2, <3>1, <4>1, <4>2
    <3>6. request'[s] = request[s]
      <4>1. CASE \A t \in Slot : request'[t] \in {request[t], NoRequest}
        BY <3>1, <4>1
      <4>2. ASSUME NEW t \in Slot, \A r \in Slot \ {t} : request'[r] = request[r],
                   request[t] = NoRequest
            PROVE  request'[s] = request[s]
        BY <3>1, <4>2
      <4> QED BY <2>1, <3>1, <4>1, <4>2 DEF Effect, Requests
    <3> QED BY <3>1, <3>3, <3>5, <3>6
  <2>7. TypeOK'
    <3>1. /\ clock' \in 0..MaxClock /\ accepted' \subseteq Conversation
          /\ request' \in [Slot -> Prepared \union {NoRequest}]
      BY <2>1 DEF Effect
    <3>2. active' \in BOOLEAN /\ sessionEpoch' \in 0..1
      <4>1. active' \in BOOLEAN
        BY <2>1 DEF Effect, Session, session, EndSession, IInv, TypeOK
      <4>2. sessionEpoch' \in 0..1
        BY <2>4 DEF SessionOK
      <4> QED BY <4>1, <4>2
    <3>3. generation' \in [Conversation -> 0..(MaxGeneration + 1)]
      <4>1. \A c \in Conversation : generation'[c] <= MaxGeneration + 1
        <5>1. CASE UNCHANGED session
          BY <2>1, <2>3, <5>1 DEF Bounded, session
        <5>2. CASE active
          BY <2>3, <5>2 DEF IInv, SessionOK
        <5> QED BY <2>1, <5>1, <5>2 DEF Effect, Session
      <4>2. generation' = [c \in Conversation |-> generation'[c]]
        BY <2>2, <2>3 DEF Bump
      <4> QED BY <2>3, <4>1, <4>2
    <3>4. /\ conversationOrder' \in Seq(Conversation) /\ DOMAIN recordKeys' = Conversation
          /\ records' \in Seq(Record) /\ residentSize' \in Nat
      BY <2>1 DEF Effect, Keeps, ResidentOK, ResidentType
    <3>5. \A c \in Conversation : recordKeys'[c] \subseteq Record
      <4>1. (ResidentOK => KeysAreRecords)'
        BY KeysTyped, PTL
      <4> QED BY <2>1, <4>1 DEF Effect, Keeps, KeysAreRecords
    <3>6. lost' \subseteq Slot
      BY <2>1 DEF Watch
    <3> QED BY <3>1, <3>2, <3>3, <3>4, <3>5, <3>6 DEF TypeOK
  <2> QED BY <2>1, <2>4, <2>5, <2>6, <2>7 DEF IInv, Effect, Keeps
<1> QED BY <1>1, <1>2

\* It holds throughout.
LEMMA Invariance == Spec => []IInv
<1>1. Init => IInv
  BY InitInv
<1>2. IInv /\ [Next]_vars => IInv'
  BY NextInv
<1> QED BY <1>1, <1>2, PTL DEF Spec

-----------------------------------------------------------------------------
(* The theorems                                                             *)

\* Every variable keeps to its type, with the bounds on time and generations.
THEOREM TypeCorrect == Spec => []TypeOK
<1>1. IInv => TypeOK
  BY DEF IInv
<1> QED BY <1>1, Invariance, PTL

\* The three accounts of the working set agree, and every limit of the policy
\* holds, after any mix of admission, replacement, eviction and release.
THEOREM WorkingSetStaysBounded == Spec => []WorkingSetBounded
<1>1. IInv => WorkingSetBounded
  <2> SUFFICES ASSUME IInv PROVE WorkingSetBounded
    OBVIOUS
  <2>1. /\ Len(conversationOrder) = Cardinality(ToSet(conversationOrder))
        /\ Len(records) = Cardinality(ToSet(records))
    BY ResidentFacts DEF IInv
  <2>2. WorkingSetAgrees
    BY <2>1 DEF IInv, ResidentOK, Agreed, WorkingSetAgrees
  <2> QED BY <2>2 DEF IInv, ResidentOK, WorkingSetBounded
<1> QED BY <1>1, Invariance, PTL

\* What is resident is of the current generation of an accepted source of a
\* live session.
THEOREM ResidentStaysCurrent == Spec => []ResidentIsCurrent
<1>1. IInv => ResidentIsCurrent
  BY DEF IInv
<1> QED BY <1>1, Invariance, PTL

\* A request that waited while its conversation, its source or its session went
\* away brings nothing back, and an ended session stays ended and empty.
THEOREM LateWorkStaysDropped == Spec => LateWorkIsDropped
<1>1. ASSUME IInv, [Next]_vars, NEW s \in lost, request'[s] = NoRequest
      PROVE  ToSet(records') \subseteq ToSet(records)
  <2>1. CASE UNCHANGED vars
    BY <2>1 DEF vars, resident
  <2>2. CASE Next
    <3>1. Records
      BY <1>1, <2>2, StepEffect DEF Next, Effect
    <3>2. ASSUME NEW t \in Slot, request[t] # NoRequest, StillCurrent(request[t]),
                 \A r \in Slot \ {t} : request'[r] = request[r]
          PROVE  FALSE
      <4>1. /\ s \in Slot /\ request[s] # NoRequest
            /\ request[s].conversation \in Conversation
            /\ request[s].generation < generation[request[s].conversation]
        <5>1. s \in Slot
          BY <1>1 DEF IInv, TypeOK
        <5> QED BY <1>1, <5>1 DEF IInv, LostIsOutdated
      <4>2. s = t
        BY <1>1, <3>2, <4>1
      <4>3. request[s].generation = generation[request[s].conversation]
        BY <3>2, <4>1, <4>2, SourceAssumption DEF StillCurrent
      <4>4. generation[request[s].conversation] \in Nat
        BY <1>1, <4>1, SourceAssumption DEF IInv, TypeOK
      <4> QED BY <4>1, <4>3, <4>4
    <3> QED BY <3>1, <3>2 DEF Records
  <2> QED BY <1>1, <2>1, <2>2
<1>2. ASSUME IInv, [Next]_vars, ~active
      PROVE  ~active' /\ conversationOrder' = <<>> /\ records' = <<>> /\ residentSize' = 0
  <2>1. IInv'
    BY <1>2, NextInv
  <2>2. ~active'
    <3>1. CASE UNCHANGED vars
      BY <1>2, <3>1 DEF vars, session
    <3>2. CASE Next
      <4>1. Session
        BY <1>2, <3>2, StepEffect DEF Next, Effect
      <4> QED BY <1>2, <4>1 DEF Session, session
    <3> QED BY <1>2, <3>1, <3>2
  <2>3. conversationOrder' = <<>> /\ records' = <<>>
    BY <2>1, <2>2 DEF IInv, SessionOK
  <2>4. residentSize' = Total({})
    <3>1. residentSize' = Total(ToSet(records'))
      BY <2>1 DEF IInv, ResidentOK, Agreed, Total
    <3>2. ToSet(records') = {}
      BY <2>3 DEF ToSet
    <3> QED BY <3>1, <3>2
  <2>5. Total({}) = 0
    BY FS_EmptySet, TotalFacts
  <2> QED BY <2>2, <2>3, <2>4, <2>5
<1>3. IInv /\ [Next]_vars =>
        [\A s \in lost : request'[s] = NoRequest =>
            ToSet(records') \subseteq ToSet(records)]_vars
  BY <1>1
<1>4. IInv /\ [Next]_vars =>
        [~active => ~active' /\ conversationOrder' = <<>> /\ records' = <<>>
                        /\ residentSize' = 0]_vars
  BY <1>2
<1>5. Spec => NoLateRepopulation
  BY <1>3, Invariance, PTL DEF Spec, NoLateRepopulation
<1>6. Spec => EndedForGood
  BY <1>4, Invariance, PTL DEF Spec, EndedForGood
<1> QED BY <1>5, <1>6 DEF LateWorkIsDropped

=============================================================================
