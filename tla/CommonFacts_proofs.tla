-------------------------- MODULE CommonFacts_proofs --------------------------
(***************************************************************************)
(* Lemmas that the other proof modules rest on: induction, chains of early *)
(* returns, sums over finite sets, and sequences read as ordered sets.     *)
(*                                                                         *)
(* The library's induction theorems take an operator as a parameter, which *)
(* the provers cannot instantiate.  Its theorem that a well-founded set    *)
(* has a least element (WFMin) takes none: a proof by induction is one by  *)
(* least counterexample here, where the set of counterexamples is Bad.     *)
(***************************************************************************)
EXTENDS EarlyReturns, InsertionOrder, Integers, FiniteSets, SequencesExt,
        FiniteSetTheorems, SequenceTheorems, WellFoundedInduction, TLAPS

-----------------------------------------------------------------------------
(* Induction                                                               *)

\* Every set of natural numbers that is not empty has a least element.
LEMMA LeastNumber ==
    ASSUME NEW T \in SUBSET Nat, T # {}
    PROVE  \E n \in T : \A m \in T : n <= m
<1> DEFINE Less == {p \in Nat \X Nat : p[1] < p[2]}
<1>0. IsWellFoundedOn(Less, Nat)
  BY NatLessThanWellFounded DEF OpToRel
<1>1. PICK n \in T : \A m \in T : ~(<<m, n>> \in Less)
  <2> HIDE DEF Less
  <2> QED BY <1>0, WFMin
<1>2. \A m \in T : n <= m
  <2> SUFFICES ASSUME NEW m \in T, m < n PROVE FALSE
    OBVIOUS
  <2>1. <<m, n>> \in Less
    OBVIOUS
  <2> QED BY <1>1, <2>1
<1> QED BY <1>2

\* In a set of finite sets one has the fewest elements.
LEMMA SmallestSet ==
    ASSUME NEW F, F # {}, \A s \in F : IsFiniteSet(s)
    PROVE  \E s \in F : \A t \in F : Cardinality(t) >= Cardinality(s)
<1> DEFINE N == {Cardinality(s) : s \in F}
<1>1. N \subseteq Nat /\ N # {}
  BY FS_CardinalityType
<1>2. PICK n \in N : \A m \in N : n <= m
  <2> HIDE DEF N
  <2> QED BY <1>1, LeastNumber
<1>3. PICK s \in F : n = Cardinality(s)
  BY <1>2
<1> QED BY <1>2, <1>3, FS_CardinalityType

\* A finite set without one of its elements is a smaller one.
LEMMA OneLess ==
    ASSUME NEW S, IsFiniteSet(S), NEW x \in S
    PROVE  /\ S \ {x} \in SUBSET S /\ IsFiniteSet(S \ {x})
           /\ Cardinality(S) \in Nat /\ Cardinality(S \ {x}) \in Nat
           /\ Cardinality(S \ {x}) = Cardinality(S) - 1
           /\ ~(Cardinality(S \ {x}) >= Cardinality(S))
<1>1. /\ IsFiniteSet(S \ {x}) /\ Cardinality(S \ {x}) = Cardinality(S) - 1
      /\ Cardinality(S) \in Nat
  BY FS_RemoveElement, FS_CardinalityType
<1>2. Cardinality(S \ {x}) \in Nat
  BY <1>1, FS_CardinalityType
<1> QED BY <1>1, <1>2

-----------------------------------------------------------------------------
(* Chains of early returns                                                 *)

\* The result of a chain is that of a rule whose guard holds and none of
\* whose predecessors' guards does, if any guard holds: the code returns at
\* the first condition that is true.
THEOREM FirstRuleIsFirst ==
    ASSUME NEW rules, NEW n \in Nat, DOMAIN rules = 1..n,
           \E i \in 1..n : rules[i][1]
    PROVE  \E i \in 1..n :
              /\ rules[i][1]
              /\ \A j \in 1..(i - 1) : ~rules[j][1]
              /\ FirstRule(rules) = rules[i][2]
<1> DEFINE T == {i \in 1..n : rules[i][1]}
           first == CHOOSE i \in DOMAIN rules :
                       rules[i][1] /\ \A j \in 1..(i - 1) : ~rules[j][1]
<1>1. T \in SUBSET Nat /\ T # {}
  OBVIOUS
<1>2. PICK x \in T : \A m \in T : x <= m
  <2> HIDE DEF T
  <2> QED BY <1>1, LeastNumber
<1>3. x \in DOMAIN rules /\ rules[x][1] /\ \A j \in 1..(x - 1) : ~rules[j][1]
  BY <1>2
<1>4. first \in DOMAIN rules /\ rules[first][1]
        /\ \A j \in 1..(first - 1) : ~rules[j][1]
  BY <1>3
<1>5. FirstRule(rules) = rules[first][2]
  BY DEF FirstRule
<1> QED BY <1>4, <1>5

\* A chain of n rules, the last of which needs no condition, and of which only
\* the k-th has the chain's result.
OnlyRule(rules, n, k) ==
    /\ n \in Nat /\ k \in 1..n /\ DOMAIN rules = 1..n /\ rules[n][1]
    /\ \A i \in 1..n : i # k => rules[i][2] # FirstRule(rules)

\* The chain gets to its k-th rule and returns there.
ReturnsAt(rules, k) ==
    /\ rules[k][1] /\ FirstRule(rules) = rules[k][2]
    /\ \A j \in 1..(k - 1) : ~rules[j][1]

\* If only one rule has the result of the chain then that rule was taken.
LEMMA OnlyRuleIsTaken ==
    ASSUME NEW rules, NEW n, NEW k, OnlyRule(rules, n, k)
    PROVE  ReturnsAt(rules, k)
<1>1. n \in Nat /\ DOMAIN rules = 1..n /\ \E i \in 1..n : rules[i][1]
  BY DEF OnlyRule
<1>2. PICK i \in 1..n : /\ rules[i][1] /\ FirstRule(rules) = rules[i][2]
                        /\ \A j \in 1..(i - 1) : ~rules[j][1]
  BY <1>1, FirstRuleIsFirst, Zenon
<1>3. i = k
  BY <1>2 DEF OnlyRule
<1> QED BY <1>2, <1>3 DEF ReturnsAt

-----------------------------------------------------------------------------
(* Sums over finite sets                                                   *)

\* One step of the recursion that defines a sum, which g has got to on s.
SumBody(f, g, s) ==
    IF s = {} THEN 0
    ELSE f[CHOOSE x \in s : TRUE] + g[s \ {CHOOSE x \in s : TRUE}]

\* That recursion, as a function of the subsets of S.
SumIter(f, S) == CHOOSE g : g = [s \in SUBSET S |-> SumBody(f, g, s)]

\* The library's sum is the end of that recursion.
LEMMA SumIsIter ==
    ASSUME NEW f, NEW S
    PROVE  SumFunctionOnSet(f, S) = SumIter(f, S)[S]
  BY DEF SumFunctionOnSet, FoldFunctionOnSet, MapThenFoldSet, SumIter, SumBody

\* The recursion has a solution.
LEMMA SumIterExists ==
    ASSUME NEW f, NEW S, IsFiniteSet(S)
    PROVE  \A s \in SUBSET S :
              SumIter(f, S)[s] = SumBody(f, SumIter(f, S), s)
<1> DEFINE Solved(g, n) ==
        /\ g = [s \in SUBSET S |-> g[s]]
        /\ \A s \in SUBSET S : Cardinality(s) <= n => g[s] = SumBody(f, g, s)
           Bad == {n \in Nat : \A g : ~Solved(g, n)}
<1>1. Bad = {}
  <2> SUFFICES ASSUME Bad # {} PROVE FALSE
    OBVIOUS
  <2>1. PICK n \in Bad : \A m \in Bad : n <= m
    <3>1. Bad \in SUBSET Nat
      OBVIOUS
    <3> HIDE DEF Bad
    <3> QED BY <3>1, LeastNumber
  <2>2. n \in Nat /\ \A g : ~Solved(g, n)
    OBVIOUS
  <2>3. CASE n = 0
    <3> DEFINE z == [s \in SUBSET S |-> 0]
    <3>1. \A s \in SUBSET S : Cardinality(s) <= 0 => s = {}
      BY FS_Subset, FS_EmptySet, FS_CardinalityType
    <3>2. Solved(z, 0)
      BY <3>1 DEF SumBody
    <3> QED BY <2>2, <2>3, <3>2
  <2>4. CASE n # 0
    <3>1. n - 1 \in Nat /\ n - 1 \notin Bad
      <4> HIDE DEF Bad
      <4> QED BY <2>1, <2>2, <2>4
    <3>2. PICK g : Solved(g, n - 1)
      BY <3>1
    <3> DEFINE h == [s \in SUBSET S |-> SumBody(f, g, s)]
    <3>3. \A s \in SUBSET S : Cardinality(s) <= n => h[s] = SumBody(f, h, s)
      <4> SUFFICES ASSUME NEW s \in SUBSET S, Cardinality(s) <= n
                   PROVE  SumBody(f, g, s) = SumBody(f, h, s)
        OBVIOUS
      <4>1. CASE s = {}
        BY <4>1 DEF SumBody
      <4>2. CASE s # {}
        <5> DEFINE x == CHOOSE x \in s : TRUE
                   r == s \ {x}
        <5>1. x \in s
          BY <4>2
        <5>2. r \in SUBSET S /\ Cardinality(r) <= n - 1
          <6> HIDE DEF x
          <6> QED BY <5>1, <2>2, FS_RemoveElement, FS_Subset, FS_CardinalityType
        <5>3. g[r] = SumBody(f, g, r)
          <6> HIDE DEF r
          <6> QED BY <3>2, <5>2
        <5>4. h[r] = SumBody(f, g, r)
          <6> HIDE DEF r
          <6> QED BY <5>2
        <5>5. SumBody(f, g, s) = f[x] + g[r] /\ SumBody(f, h, s) = f[x] + h[r]
          <6> HIDE DEF h
          <6> QED BY <4>2 DEF SumBody
        <5> QED BY <5>3, <5>4, <5>5
      <4> QED BY <4>1, <4>2
    <3>4. h = [s \in SUBSET S |-> h[s]]
      OBVIOUS
    <3>5. Solved(h, n)
      <4> HIDE DEF h
      <4> QED BY <3>3, <3>4
    <3> QED BY <2>2, <3>5
  <2> QED BY <2>3, <2>4
<1>2. PICK g : Solved(g, Cardinality(S))
  BY <1>1, FS_CardinalityType
<1>3. \A s \in SUBSET S : g[s] = SumBody(f, g, s)
  BY <1>2, FS_Subset
<1>4. g = [s \in SUBSET S |-> SumBody(f, g, s)]
  BY <1>2, <1>3
<1>5. PICK h : h = SumIter(f, S) /\ h = [s \in SUBSET S |-> SumBody(f, h, s)]
  BY <1>4 DEF SumIter
<1>6. \A s \in SUBSET S : h[s] = SumBody(f, h, s)
  BY <1>5
<1> QED BY <1>5, <1>6

\* Two sums over the same recursion agree wherever both are defined.
LEMMA SumIterAgree ==
    ASSUME NEW f, NEW S, IsFiniteSet(S)
    PROVE  \A s \in SUBSET S : SumIter(f, S)[s] = SumIter(f, s)[s]
<1> DEFINE Bad == {s \in SUBSET S :
                     \E T \in SUBSET S :
                        s \in SUBSET T /\ SumIter(f, T)[s] # SumIter(f, s)[s]}
<1>1. Bad = {}
  <2> SUFFICES ASSUME Bad # {} PROVE FALSE
    OBVIOUS
  <2>1. PICK s \in Bad : \A t \in Bad : Cardinality(t) >= Cardinality(s)
    <3>1. \A t \in Bad : IsFiniteSet(t)
      BY FS_Subset
    <3> HIDE DEF Bad
    <3> QED BY <3>1, SmallestSet
  <2>2. PICK T \in SUBSET S : s \in SUBSET T /\ SumIter(f, T)[s] # SumIter(f, s)[s]
    OBVIOUS
  <2>3. IsFiniteSet(T) /\ IsFiniteSet(s) /\ s \in SUBSET S
    BY FS_Subset
  <2>4. /\ SumIter(f, T)[s] = SumBody(f, SumIter(f, T), s)
        /\ SumIter(f, s)[s] = SumBody(f, SumIter(f, s), s)
    BY <2>2, <2>3, SumIterExists
  <2>5. CASE s = {}
    BY <2>2, <2>4, <2>5 DEF SumBody
  <2>6. CASE s # {}
    <3> DEFINE x == CHOOSE x \in s : TRUE
               r == s \ {x}
    <3>1. x \in s
      BY <2>6
    <3> HIDE DEF x
    <3>2. r \in SUBSET T /\ r \in SUBSET s /\ r \in SUBSET S
      BY <2>2, <2>3
    <3>3. r \notin Bad
      <4>1. ~(Cardinality(r) >= Cardinality(s))
        BY <2>3, <3>1, OneLess
      <4> HIDE DEF Bad, r
      <4> QED BY <2>1, <4>1
    <3>4. SumIter(f, T)[r] = SumIter(f, s)[r]
      BY <2>3, <3>2, <3>3
    <3>5. /\ SumBody(f, SumIter(f, T), s) = f[x] + SumIter(f, T)[r]
          /\ SumBody(f, SumIter(f, s), s) = f[x] + SumIter(f, s)[r]
      BY <2>6 DEF SumBody, x
    <3> QED BY <2>2, <2>4, <3>4, <3>5
  <2> QED BY <2>5, <2>6
<1> QED BY <1>1

\* The sum over no elements.
LEMMA SumEmpty == ASSUME NEW f PROVE SumFunctionOnSet(f, {}) = 0
<1>1. IsFiniteSet({}) /\ {} \in SUBSET {}
  BY FS_EmptySet
<1>2. SumIter(f, {})[{}] = SumBody(f, SumIter(f, {}), {})
  BY <1>1, SumIterExists
<1> QED BY <1>2, SumIsIter DEF SumBody

\* The recursion, unrolled once.
LEMMA SumUnrolled ==
    ASSUME NEW f, NEW S, IsFiniteSet(S), S # {}
    PROVE  \E x \in S : SumFunctionOnSet(f, S) = f[x] + SumFunctionOnSet(f, S \ {x})
<1> DEFINE x == CHOOSE x \in S : TRUE
           r == S \ {x}
<1>1. x \in S
  OBVIOUS
<1>2. SumIter(f, S)[S] = f[x] + SumIter(f, S)[r]
  <2>1. SumIter(f, S)[S] = SumBody(f, SumIter(f, S), S)
    BY SumIterExists
  <2> QED BY <2>1 DEF SumBody
<1>3. SumIter(f, S)[r] = SumIter(f, r)[r]
  BY SumIterAgree
<1> HIDE DEF x
<1> QED BY <1>1, <1>2, <1>3, SumIsIter

\* A sum of natural numbers is one.
LEMMA SumType ==
    ASSUME NEW f, NEW S, IsFiniteSet(S), \A x \in S : f[x] \in Nat
    PROVE  SumFunctionOnSet(f, S) \in Nat
<1> DEFINE Bad == {s \in SUBSET S : SumFunctionOnSet(f, s) \notin Nat}
<1>1. Bad = {}
  <2> SUFFICES ASSUME Bad # {} PROVE FALSE
    OBVIOUS
  <2>1. PICK s \in Bad : \A t \in Bad : Cardinality(t) >= Cardinality(s)
    <3>1. \A t \in Bad : IsFiniteSet(t)
      BY FS_Subset
    <3> HIDE DEF Bad
    <3> QED BY <3>1, SmallestSet
  <2>2. IsFiniteSet(s) /\ s \in SUBSET S /\ s # {}
    <3>1. s \in SUBSET S /\ SumFunctionOnSet(f, s) \notin Nat
      OBVIOUS
    <3>2. s # {}
      <4> SUFFICES ASSUME s = {} PROVE FALSE
        OBVIOUS
      <4>1. SumFunctionOnSet(f, s) = 0
        BY SumEmpty
      <4> QED BY <3>1, <4>1
    <3> QED BY <3>1, <3>2, FS_Subset
  <2>3. PICK x \in s : SumFunctionOnSet(f, s) = f[x] + SumFunctionOnSet(f, s \ {x})
    BY <2>2, SumUnrolled
  <2> DEFINE r == s \ {x}
  <2>4. r \in SUBSET S /\ ~(Cardinality(r) >= Cardinality(s))
    BY <2>2, OneLess
  <2>5. r \notin Bad
    <3> HIDE DEF Bad, r
    <3> QED BY <2>1, <2>4
  <2>6. SumFunctionOnSet(f, r) \in Nat
    <3> HIDE DEF r
    <3> QED BY <2>4, <2>5
  <2> QED BY <2>2, <2>3, <2>6
<1> QED BY <1>1

\* Any element may be taken out of a sum first.
LEMMA SumRemove ==
    ASSUME NEW f, NEW S, IsFiniteSet(S), \A x \in S : f[x] \in Nat, NEW y \in S
    PROVE  SumFunctionOnSet(f, S) = f[y] + SumFunctionOnSet(f, S \ {y})
<1> DEFINE Bad == {s \in SUBSET S : \E z \in s :
                     SumFunctionOnSet(f, s) # f[z] + SumFunctionOnSet(f, s \ {z})}
<1>1. Bad = {}
  <2> SUFFICES ASSUME Bad # {} PROVE FALSE
    OBVIOUS
  <2>1. PICK s \in Bad : \A t \in Bad : Cardinality(t) >= Cardinality(s)
    <3>1. \A t \in Bad : IsFiniteSet(t)
      BY FS_Subset
    <3> HIDE DEF Bad
    <3> QED BY <3>1, SmallestSet
  <2>2. PICK z \in s : SumFunctionOnSet(f, s) # f[z] + SumFunctionOnSet(f, s \ {z})
    OBVIOUS
  <2>3. IsFiniteSet(s) /\ s \in SUBSET S /\ s # {}
    BY FS_Subset
  <2>4. PICK x \in s : SumFunctionOnSet(f, s) = f[x] + SumFunctionOnSet(f, s \ {x})
    BY <2>3, SumUnrolled
  <2>5. x # z
    BY <2>2, <2>4
  <2> DEFINE r == s \ {x}
             q == s \ {z}
             m == s \ {x, z}
  <2>6. /\ r \in SUBSET S /\ q \in SUBSET S /\ m \in SUBSET S
        /\ IsFiniteSet(r) /\ IsFiniteSet(q) /\ IsFiniteSet(m)
        /\ ~(Cardinality(r) >= Cardinality(s))
        /\ ~(Cardinality(q) >= Cardinality(s))
    BY <2>3, OneLess, FS_Subset
  <2>7. r \notin Bad /\ q \notin Bad
    <3> HIDE DEF Bad, r, q
    <3> QED BY <2>1, <2>6
  <2>8. SumFunctionOnSet(f, r) = f[z] + SumFunctionOnSet(f, r \ {z})
    <3>1. z \in r
      BY <2>5
    <3> HIDE DEF r
    <3> QED BY <2>6, <2>7, <3>1
  <2>9. SumFunctionOnSet(f, q) = f[x] + SumFunctionOnSet(f, q \ {x})
    <3>1. x \in q
      BY <2>5
    <3> HIDE DEF q
    <3> QED BY <2>6, <2>7, <3>1
  <2>10. r \ {z} = m /\ q \ {x} = m
    OBVIOUS
  <2>11. SumFunctionOnSet(f, m) \in Nat /\ f[x] \in Nat /\ f[z] \in Nat
    BY <2>3, <2>6, SumType
  <2> QED BY <2>2, <2>4, <2>8, <2>9, <2>10, <2>11
<1> QED BY <1>1

\* A sum over disjoint sets is the sum of the sums.
LEMMA SumSplit ==
    ASSUME NEW f, NEW S, IsFiniteSet(S), \A x \in S : f[x] \in Nat,
           NEW T \in SUBSET S
    PROVE  SumFunctionOnSet(f, S) =
              SumFunctionOnSet(f, T) + SumFunctionOnSet(f, S \ T)
<1> DEFINE Bad == {t \in SUBSET T : SumFunctionOnSet(f, S) #
                     SumFunctionOnSet(f, t) + SumFunctionOnSet(f, S \ t)}
<1>1. Bad = {}
  <2> SUFFICES ASSUME Bad # {} PROVE FALSE
    OBVIOUS
  <2>0. IsFiniteSet(T)
    BY FS_Subset
  <2>1. PICK t \in Bad : \A u \in Bad : Cardinality(u) >= Cardinality(t)
    <3>1. \A u \in Bad : IsFiniteSet(u)
      BY <2>0, FS_Subset
    <3> HIDE DEF Bad
    <3> QED BY <3>1, SmallestSet
  <2>2. IsFiniteSet(t) /\ t \in SUBSET S
    BY <2>0, FS_Subset
  <2>3. CASE t = {}
    <3>1. S \ t = S /\ SumFunctionOnSet(f, S) \in Nat
      BY <2>3, SumType
    <3> QED BY <2>3, <3>1, SumEmpty
  <2>4. CASE t # {}
    <3>1. PICK x \in t : TRUE
      BY <2>4
    <3> DEFINE u == t \ {x}
    <3>2. u \in SUBSET T /\ ~(Cardinality(u) >= Cardinality(t))
      BY <2>2, OneLess
    <3>3. u \notin Bad
      <4> HIDE DEF Bad, u
      <4> QED BY <2>1, <3>2
    <3>4. SumFunctionOnSet(f, S) =
             SumFunctionOnSet(f, u) + SumFunctionOnSet(f, S \ u)
      <4> HIDE DEF u
      <4> QED BY <3>2, <3>3
    <3>5. /\ IsFiniteSet(u) /\ IsFiniteSet(S \ u) /\ IsFiniteSet(S \ t)
          /\ x \in S \ u /\ (S \ u) \ {x} = S \ t
      BY <2>2, FS_Subset
    <3>6. SumFunctionOnSet(f, t) = f[x] + SumFunctionOnSet(f, u)
      BY <2>2, SumRemove
    <3>7. SumFunctionOnSet(f, S \ u) = f[x] + SumFunctionOnSet(f, S \ t)
      <4> DEFINE v == S \ u
      <4>1. IsFiniteSet(v) /\ (\A y \in v : f[y] \in Nat) /\ x \in v /\ v \ {x} = S \ t
        BY <3>5
      <4> HIDE DEF v
      <4>2. SumFunctionOnSet(f, v) = f[x] + SumFunctionOnSet(f, v \ {x})
        BY <4>1, SumRemove
      <4> QED BY <4>1, <4>2 DEF v
    <3>8. /\ SumFunctionOnSet(f, u) \in Nat /\ SumFunctionOnSet(f, S \ t) \in Nat
          /\ f[x] \in Nat
      BY <2>2, <3>5, SumType
    <3> QED BY <3>4, <3>6, <3>7, <3>8
  <2> QED BY <2>3, <2>4
<1> QED BY <1>1

\* A sum depends on the values at the summed elements only.
LEMMA SumAgree ==
    ASSUME NEW f, NEW g, NEW S, IsFiniteSet(S), \A x \in S : f[x] = g[x]
    PROVE  SumFunctionOnSet(f, S) = SumFunctionOnSet(g, S)
<1>2. \A h : \A s \in SUBSET S : SumBody(f, h, s) = SumBody(g, h, s)
  <2> SUFFICES ASSUME NEW h, NEW s \in SUBSET S
               PROVE  SumBody(f, h, s) = SumBody(g, h, s)
    OBVIOUS
  <2>1. CASE s = {}
    BY <2>1 DEF SumBody
  <2>2. CASE s # {}
    <3>1. (CHOOSE x \in s : TRUE) \in s
      BY <2>2
    <3> QED BY <2>2, <3>1 DEF SumBody
  <2> QED BY <2>1, <2>2
<1>3. \A h : [s \in SUBSET S |-> SumBody(f, h, s)] = [s \in SUBSET S |-> SumBody(g, h, s)]
  BY <1>2
<1>4. SumIter(f, S) = SumIter(g, S)
  BY <1>3 DEF SumIter
<1> QED BY <1>4, SumIsIter

-----------------------------------------------------------------------------
(* Sequences as ordered sets                                               *)

\* A sequence is as long as it has elements if and only if none is repeated.
LEMMA LenIsCardinality ==
    ASSUME NEW X, NEW s \in Seq(X)
    PROVE  /\ IsFiniteSet(ToSet(s)) /\ Cardinality(ToSet(s)) <= Len(s)
           /\ Cardinality(ToSet(s)) = Len(s) <=> IsInjective(s)
<1> DEFINE I == 1..Len(s)
           T == ToSet(s)
<1>1. IsFiniteSet(I) /\ Cardinality(I) = Len(s)
  <2>1. Len(s) \in Nat
    OBVIOUS
  <2> QED BY <2>1, FS_Interval
<1>2. s \in [I -> T] /\ s \in Surjection(I, T)
  BY DEF ToSet, Surjection
<1>3. s \in Injection(I, T) <=> IsInjective(s)
  BY <1>2 DEF Injection
<1> HIDE DEF I, T
<1>4. /\ IsFiniteSet(T) /\ Cardinality(T) <= Cardinality(I)
      /\ Cardinality(T) = Cardinality(I) <=> s \in Injection(I, T)
  BY <1>1, <1>2, FS_Surjection
<1> QED BY <1>1, <1>3, <1>4 DEF T

\* The first n of a sequence without repetition are n elements.
LEMMA PrefixCardinality ==
    ASSUME NEW X, NEW s \in Seq(X), NEW n \in 0..Len(s)
    PROVE  /\ ToSet(SubSeq(s, 1, n)) = {s[i] : i \in 1..n}
           /\ ToSet(SubSeq(s, 1, n)) \subseteq ToSet(s)
           /\ IsFiniteSet(ToSet(SubSeq(s, 1, n)))
           /\ IsInjective(s) => Cardinality(ToSet(SubSeq(s, 1, n))) = n
           /\ n = Len(s) => ToSet(SubSeq(s, 1, n)) = ToSet(s)
<1> DEFINE t == SubSeq(s, 1, n)
<1>1. t \in Seq(X) /\ Len(t) = n /\ \A i \in 1..n : t[i] = s[i]
  OBVIOUS
<1>2. /\ ToSet(t) = {s[i] : i \in 1..n} /\ ToSet(t) \subseteq ToSet(s)
      /\ IsInjective(s) => IsInjective(t)
  <2> HIDE DEF t
  <2> QED BY <1>1 DEF ToSet, IsInjective
<1>3. IsFiniteSet(ToSet(t)) /\ (IsInjective(t) => Cardinality(ToSet(t)) = Len(t))
  <2> HIDE DEF t
  <2> QED BY <1>1, LenIsCardinality
<1>4. n = Len(s) => ToSet(t) = ToSet(s)
  <2>1. DOMAIN s = 1..Len(s)
    OBVIOUS
  <2> HIDE DEF t
  <2> QED BY <1>2, <2>1 DEF ToSet
<1> QED BY <1>1, <1>2, <1>3, <1>4

\* Appending a new element.
LEMMA AppendSet ==
    ASSUME NEW X, NEW s \in Seq(X), NEW x \in X
    PROVE  /\ Append(s, x) \in Seq(X) /\ Len(Append(s, x)) = Len(s) + 1
           /\ ToSet(Append(s, x)) = ToSet(s) \union {x}
           /\ IsInjective(s) /\ x \notin ToSet(s) => IsInjective(Append(s, x))
<1> DEFINE t == Append(s, x)
<1>1. /\ t \in Seq(X) /\ Len(t) = Len(s) + 1 /\ t[Len(s) + 1] = x
      /\ \A i \in 1..Len(s) : t[i] = s[i]
  OBVIOUS
<1>2. ToSet(t) = ToSet(s) \union {x}
  <2>1. ToSet(t) \subseteq ToSet(s) \union {x}
    <3> HIDE DEF t
    <3> QED BY <1>1 DEF ToSet
  <2>2. ToSet(s) \subseteq ToSet(t) /\ x \in ToSet(t)
    <3>1. Len(s) \in Nat /\ DOMAIN s = 1..Len(s) /\ DOMAIN t = 1..(Len(s) + 1)
      BY <1>1
    <3>2. Len(s) + 1 \in DOMAIN t /\ DOMAIN s \subseteq DOMAIN t
      BY <3>1
    <3> HIDE DEF t
    <3> QED BY <1>1, <3>1, <3>2 DEF ToSet
  <2> QED BY <2>1, <2>2
<1>3. IsInjective(s) /\ x \notin ToSet(s) => IsInjective(t)
  <2> HIDE DEF t
  <2> QED BY <1>1 DEF ToSet, IsInjective
<1> QED BY <1>1, <1>2, <1>3

\* One step of the recursion of KeysWithout.
KeysKeptBody(s, R, g, i) ==
    IF i = 0 THEN <<>>
    ELSE IF s[i] \in R THEN g[i - 1]
    ELSE Append(g[i - 1], s[i])

\* That recursion, as a function of how much of s has been read.
KeysKept(s, R) == CHOOSE g : g = [i \in 0..Len(s) |-> KeysKeptBody(s, R, g, i)]

\* That recursion has a solution.
LEMMA KeysKeptExists ==
    ASSUME NEW X, NEW s \in Seq(X), NEW R
    PROVE  \A i \in 0..Len(s) : KeysKept(s, R)[i] = KeysKeptBody(s, R, KeysKept(s, R), i)
<1> DEFINE D == 0..Len(s)
           Solved(g, n) ==
              /\ g = [i \in D |-> g[i]]
              /\ \A i \in D : i <= n => g[i] = KeysKeptBody(s, R, g, i)
           Bad == {n \in Nat : \A g : ~Solved(g, n)}
<1>1. Bad = {}
  <2> SUFFICES ASSUME Bad # {} PROVE FALSE
    OBVIOUS
  <2>1. PICK n \in Bad : \A m \in Bad : n <= m
    <3>1. Bad \in SUBSET Nat
      OBVIOUS
    <3> HIDE DEF Bad
    <3> QED BY <3>1, LeastNumber
  <2>2. n \in Nat /\ \A g : ~Solved(g, n)
    OBVIOUS
  <2>3. CASE n = 0
    <3> DEFINE z == [i \in D |-> <<>>]
    <3>1. Solved(z, 0)
      BY DEF KeysKeptBody
    <3> QED BY <2>2, <2>3, <3>1
  <2>4. CASE n # 0
    <3>1. n - 1 \in Nat /\ n - 1 \notin Bad
      <4> HIDE DEF Bad
      <4> QED BY <2>1, <2>2, <2>4
    <3>2. PICK g : Solved(g, n - 1)
      BY <3>1
    <3> DEFINE h == [i \in D |-> KeysKeptBody(s, R, g, i)]
    <3>3. \A i \in D : i <= n => KeysKeptBody(s, R, g, i) = KeysKeptBody(s, R, h, i)
      <4> SUFFICES ASSUME NEW i \in D, i <= n
                   PROVE  KeysKeptBody(s, R, g, i) = KeysKeptBody(s, R, h, i)
        OBVIOUS
      <4>1. CASE i = 0
        BY <4>1 DEF KeysKeptBody
      <4>2. CASE i # 0
        <5>1. i - 1 \in D /\ i - 1 <= n - 1
          BY <2>2, <4>2
        <5>2. g[i - 1] = KeysKeptBody(s, R, g, i - 1)
          BY <3>2, <5>1
        <5>3. h[i - 1] = g[i - 1]
          <6> HIDE DEF D
          <6> QED BY <5>1, <5>2
        <5> HIDE DEF h
        <5> QED BY <5>3 DEF KeysKeptBody
      <4> QED BY <4>1, <4>2
    <3>4. Solved(h, n)
      <4>1. \A i \in D : h[i] = KeysKeptBody(s, R, g, i)
        OBVIOUS
      <4>2. h = [i \in D |-> h[i]]
        OBVIOUS
      <4> HIDE DEF h
      <4> QED BY <3>3, <4>1, <4>2
    <3> QED BY <2>2, <3>4
  <2> QED BY <2>3, <2>4
<1>2. PICK g : Solved(g, Len(s))
  <2>1. Len(s) \in Nat
    OBVIOUS
  <2>2. Len(s) \notin Bad
    <3> HIDE DEF Bad
    <3> QED BY <1>1
  <2> HIDE DEF Solved
  <2> QED BY <2>1, <2>2
<1>3. \A i \in D : g[i] = KeysKeptBody(s, R, g, i)
  BY <1>2
<1>4. g = [i \in D |-> KeysKeptBody(s, R, g, i)]
  BY <1>2, <1>3
<1>5. PICK h : h = KeysKept(s, R) /\ h = [i \in D |-> KeysKeptBody(s, R, h, i)]
  BY <1>4 DEF KeysKept
<1>6. \A i \in D : h[i] = KeysKeptBody(s, R, h, i)
  BY <1>5
<1> QED BY <1>5, <1>6

\* What stays are the elements that are not removed, each as often as before.
LEMMA KeysWithoutFacts ==
    ASSUME NEW X, NEW s \in Seq(X), NEW R
    PROVE  /\ KeysWithout(s, R) \in Seq(X)
           /\ ToSet(KeysWithout(s, R)) = ToSet(s) \ R
           /\ IsInjective(s) => IsInjective(KeysWithout(s, R))
<1> DEFINE K == KeysKept(s, R)
           P(i) == /\ K[i] \in Seq(X)
                   /\ ToSet(K[i]) = {s[j] : j \in 1..i} \ R
                   /\ IsInjective(s) => IsInjective(K[i])
           Bad == {i \in 0..Len(s) : ~P(i)}
<1>0. \A i \in 0..Len(s) : K[i] = KeysKeptBody(s, R, K, i)
  BY KeysKeptExists
<1> HIDE DEF K
<1>1. Bad = {}
  <2> SUFFICES ASSUME Bad # {} PROVE FALSE
    OBVIOUS
  <2>1. PICK n \in Bad : \A m \in Bad : n <= m
    <3>1. Bad \in SUBSET Nat
      OBVIOUS
    <3> HIDE DEF Bad
    <3> QED BY <3>1, LeastNumber
  <2>2. n \in 0..Len(s) /\ ~P(n)
    OBVIOUS
  <2>3. CASE n = 0
    <3>1. K[n] = <<>>
      BY <1>0, <2>2, <2>3 DEF KeysKeptBody
    <3>2. P(n)
      BY <2>3, <3>1 DEF ToSet, IsInjective
    <3> QED BY <2>2, <3>2
  <2>4. CASE n # 0
    <3>1. n - 1 \in 0..Len(s) /\ n \in 1..Len(s) /\ ~(n <= n - 1)
      BY <2>2, <2>4
    <3>2. P(n - 1)
      <4>1. n - 1 \notin Bad
        <5> HIDE DEF Bad
        <5> QED BY <2>1, <3>1
      <4> HIDE DEF P
      <4> QED BY <3>1, <4>1
    <3>3. /\ s[n] \in X
          /\ {s[j] : j \in 1..n} = {s[j] : j \in 1..(n - 1)} \union {s[n]}
      BY <3>1
    <3>4. CASE s[n] \in R
      <4>1. K[n] = K[n - 1]
        BY <1>0, <2>2, <2>4, <3>4 DEF KeysKeptBody
      <4> QED BY <2>2, <3>2, <3>3, <3>4, <4>1
    <3>5. CASE s[n] \notin R
      <4>1. K[n] = Append(K[n - 1], s[n])
        BY <1>0, <2>2, <2>4, <3>5 DEF KeysKeptBody
      <4>2. IsInjective(s) => s[n] \notin ToSet(K[n - 1])
        BY <3>1, <3>2 DEF IsInjective
      <4>3. P(n)
        <5>1. /\ K[n] \in Seq(X) /\ ToSet(K[n]) = ToSet(K[n - 1]) \union {s[n]}
              /\ IsInjective(K[n - 1]) /\ s[n] \notin ToSet(K[n - 1])
                    => IsInjective(K[n])
          BY <3>2, <3>3, <4>1, AppendSet
        <5>2. ToSet(K[n]) = {s[j] : j \in 1..n} \ R
          BY <3>2, <3>3, <3>5, <5>1
        <5> QED BY <3>2, <4>2, <5>1, <5>2
      <4> QED BY <2>2, <4>3
    <3> QED BY <3>4, <3>5
  <2> QED BY <2>3, <2>4
<1>2. P(Len(s)) /\ {s[j] : j \in 1..Len(s)} = ToSet(s)
  <2>1. Len(s) \in 0..Len(s) /\ DOMAIN s = 1..Len(s)
    OBVIOUS
  <2>2. P(Len(s))
    <3>1. Len(s) \notin Bad
      BY <1>1
    <3> HIDE DEF P
    <3> QED BY <2>1, <3>1
  <2> QED BY <2>1, <2>2 DEF ToSet
<1>3. KeysWithout(s, R) = K[Len(s)]
  BY DEF KeysWithout, K, KeysKept, KeysKeptBody
<1> QED BY <1>2, <1>3

=============================================================================
