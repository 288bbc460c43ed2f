----------------------------- MODULE StatsProofs -----------------------------
(***************************************************************************)
(* Proofs about Stats for any number of CPUs, reasons, VLANs and map sets  *)
(* and any thresholds: every variable keeps its type however the readings  *)
(* interleave with the counting, a drop spike is never learned as the      *)
(* baseline it is measured against, all that a reader shows of a counter   *)
(* adds up to no more than was counted, and every drop in a reading has    *)
(* its reason in the same reading.                                         *)
(***************************************************************************)
EXTENDS Stats, FiniteSetTheorems, TLAPS

----------------------------------------------------------------------------
(* The inductive invariant *)

\* The clock the readings are stamped with.
Stamped == now \in Nat

\* A map set is left for the next attachment whenever the data path is down.
Room == attached = 0 => sets <= site.swaps

\* A spike stands on a baseline it exceeded by far when it began, and that
\* baseline has not moved since.
Standing ==
    \A r \in Reasons : since[r] # 0 =>
        /\ baseline[r] # 0
        /\ raised[r] > MinRate /\ raised[r] > baseline[r] * Factor

StatsInv == TypeOK /\ Stamped /\ Room /\ Standing

----------------------------------------------------------------------------
(* Sums over finitely many CPUs, reasons and map sets *)

\* Induction over the subsets of a finite set: a property that every subset has once
\* its proper subsets have it.
LEMMA SubsetInduction ==
    ASSUME NEW S, IsFiniteSet(S), NEW P,
           \A T \in SUBSET S : (\A U \in SUBSET T : U # T => U \in P) => T \in P
    PROVE  S \in P
<1> SUFFICES ASSUME S \notin P PROVE FALSE
  OBVIOUS
<1> DEFINE Left == {T \in SUBSET S : T \notin P}
<1>1. Left # {} /\ Left \subseteq FiniteSubsetsOf(S)
  BY FS_FiniteSubsetsOfFinite
<1>2. PICK T \in Left : \A U \in Left : ~(<<U, T>> \in StrictSubsetOrdering(S))
  <2>1. IsWellFoundedOn(StrictSubsetOrdering(S), FiniteSubsetsOf(S))
    BY FS_StrictSubsetOrderingWellFounded
  <2> HIDE DEF Left
  <2> QED
    BY <1>1, <2>1, WFMin
<1>3. ASSUME NEW U \in SUBSET T, U # T PROVE U \in P
  <2>1. U \in SUBSET S
    OBVIOUS
  <2>2. <<U, T>> \in StrictSubsetOrdering(S)
    BY <1>3, <2>1 DEF StrictSubsetOrdering
  <2> QED
    BY <1>2, <2>1, <2>2
<1> QED
  BY <1>3

\* What a sum counts: as many pairs for each index as its value.
Area(f, S) == {p \in S \X Nat : p[2] \in 1 .. f[p[1]]}

\* Taking an index out of a sum takes as many pairs as its value.
LEMMA AreaSplits ==
    ASSUME NEW S, NEW f, NEW x \in S, f[x] \in Nat, IsFiniteSet(Area(f, S \ {x}))
    PROVE  /\ IsFiniteSet(Area(f, S))
           /\ Cardinality(Area(f, S)) = f[x] + Cardinality(Area(f, S \ {x}))
<1> DEFINE Part == {x} \X (1 .. f[x])
           Rest == Area(f, S \ {x})
<1>1. Area(f, S) = Part \cup Rest
  <2>1. ASSUME NEW p \in Area(f, S) PROVE p \in Part \cup Rest
    <3>1. p \in S \X Nat /\ p[2] \in 1 .. f[p[1]]
      BY DEF Area
    <3>2. PICK a \in S, b \in Nat : p = <<a, b>>
      BY <3>1
    <3> QED
      BY <3>1, <3>2 DEF Area
  <2>2. ASSUME NEW p \in Part PROVE p \in Area(f, S)
    BY DEF Area
  <2>3. ASSUME NEW p \in Rest PROVE p \in Area(f, S)
    <3>1. p \in (S \ {x}) \X Nat /\ p[2] \in 1 .. f[p[1]]
      BY DEF Area
    <3> QED
      BY <3>1 DEF Area
  <2> QED
    BY <2>1, <2>2, <2>3
<1>2. Part \cap Rest = {}
  BY DEF Area
<1>3. IsFiniteSet({x}) /\ Cardinality({x}) = 1
  BY FS_Singleton
<1>4. IsFiniteSet(1 .. f[x]) /\ Cardinality(1 .. f[x]) = f[x]
  <2>1. \A b \in Int : IsFiniteSet(1 .. b) /\ Cardinality(1 .. b) = IF 1 > b THEN 0 ELSE b - 1 + 1
    BY FS_Interval
  <2> QED
    BY <2>1
<1>5. IsFiniteSet(Part) /\ Cardinality(Part) = f[x]
  <2>1. IsFiniteSet(Part) /\ Cardinality(Part) = Cardinality({x}) * Cardinality(1 .. f[x])
    BY <1>3, <1>4, FS_Product
  <2> QED
    BY <2>1, <1>3, <1>4
<1> HIDE DEF Part
<1>6. Cardinality(Rest) \in Nat
  BY FS_CardinalityType
<1>7. /\ IsFiniteSet(Part \cup Rest)
      /\ Cardinality(Part \cup Rest) = Cardinality(Part) + Cardinality(Rest) - Cardinality(Part \cap Rest)
  BY <1>5, FS_Union
<1>8. Cardinality(Part \cap Rest) = 0
  BY <1>2, FS_EmptySet
<1>9. Cardinality(Part \cup Rest) = f[x] + Cardinality(Rest)
  <2> HIDE DEF Rest
  <2> QED
    BY <1>5, <1>6, <1>7, <1>8
<1> QED
  BY <1>1, <1>7, <1>9, Zenon

\* A sum of naturals over finitely many indices counts finitely many pairs.
LEMMA AreaFinite ==
    ASSUME NEW S, IsFiniteSet(S), NEW f, \A x \in S : f[x] \in Nat
    PROVE  \A T \in SUBSET S : IsFiniteSet(Area(f, T))
<1> DEFINE P == {T \in SUBSET S : IsFiniteSet(Area(f, T))}
<1> SUFFICES ASSUME NEW R \in SUBSET S PROVE R \in P
  OBVIOUS
<1>1. ASSUME NEW T \in SUBSET R, \A U \in SUBSET T : U # T => U \in P
      PROVE  T \in P
  <2>1. CASE T = {}
    <3>1. Area(f, T) = {}
      BY <2>1 DEF Area
    <3> QED
      BY <3>1, FS_EmptySet
  <2>2. CASE T # {}
    <3>1. PICK x \in T : TRUE
      BY <2>2
    <3>2. T \ {x} \in P
      BY <1>1
    <3>3. f[x] \in Nat /\ IsFiniteSet(Area(f, T \ {x}))
      BY <3>2
    <3>4. IsFiniteSet(Area(f, T))
      BY <3>3, AreaSplits
    <3> QED
      BY <3>4
  <2> QED
    BY <2>1, <2>2
<1>2. IsFiniteSet(R)
  BY FS_Subset
<1> HIDE DEF P
<1> QED
  BY <1>1, <1>2, SubsetInduction

\* The fold with which the counters of all CPUs are added up counts these pairs,
\* whatever order it takes the CPUs in.
LEMMA SumIsArea ==
    ASSUME NEW S, IsFiniteSet(S), NEW f, \A x \in S : f[x] \in Nat
    PROVE  SumFunctionOnSet(f, S) = Cardinality(Area(f, S))
<1> DEFINE Def(g) == [s \in SUBSET S |-> IF s = {} THEN 0
                        ELSE f[CHOOSE x \in s : TRUE] + g[s \ {CHOOSE x \in s : TRUE}]]
           iter == CHOOSE g : g = Def(g)
           area == [s \in SUBSET S |-> Cardinality(Area(f, s))]
<1>1. SumFunctionOnSet(f, S) = iter[S]
  BY DEF SumFunctionOnSet, FoldFunctionOnSet, MapThenFoldSet
<1>2. ASSUME NEW s \in SUBSET S, s # {}
      PROVE  /\ (CHOOSE x \in s : TRUE) \in s
             /\ Cardinality(Area(f, s))
                  = f[CHOOSE x \in s : TRUE] + Cardinality(Area(f, s \ {CHOOSE x \in s : TRUE}))
  <2>1. PICK y \in s : y = CHOOSE x \in s : TRUE
    BY <1>2
  <2>2. IsFiniteSet(Area(f, s \ {y})) /\ f[y] \in Nat
    BY AreaFinite
  <2> QED
    BY <2>1, <2>2, AreaSplits
<1>3. Cardinality(Area(f, {})) = 0
  <2>1. Area(f, {}) = {}
    BY DEF Area
  <2> QED
    BY <2>1, FS_EmptySet
<1>4. area = Def(area)
  <2>1. ASSUME NEW s \in SUBSET S PROVE area[s] = Def(area)[s]
    <3>1. CASE s = {}
      BY <1>3, <3>1
    <3>2. CASE s # {}
      <4>1. s \ {CHOOSE x \in s : TRUE} \in SUBSET S
        OBVIOUS
      <4> QED
        BY <1>2, <3>2, <4>1
    <3> QED
      BY <3>1, <3>2
  <2> QED
    BY <2>1, Zenon
<1>5. iter = Def(iter)
  BY <1>4, Zenon
<1> DEFINE P == {s \in SUBSET S : iter[s] = area[s]}
<1> HIDE DEF iter
<1>6. ASSUME NEW T \in SUBSET S, \A U \in SUBSET T : U # T => U \in P
      PROVE  T \in P
  <2>1. CASE T = {}
    BY <1>3, <1>5, <2>1
  <2>2. CASE T # {}
    <3>1. PICK y \in T : y = CHOOSE x \in T : TRUE
      BY <2>2
    <3>2. T \ {y} \in P
      BY <1>6
    <3>3. iter[T] = f[y] + iter[T \ {y}]
      BY <1>5, <2>2, <3>1
    <3>4. Cardinality(Area(f, T)) = f[y] + Cardinality(Area(f, T \ {y}))
      BY <1>2, <2>2, <3>1
    <3> QED
      BY <3>2, <3>3, <3>4
  <2> QED
    BY <2>1, <2>2
<1>7. S \in P
  <2> HIDE DEF P
  <2> QED
    BY <1>6, SubsetInduction
<1> QED
  BY <1>1, <1>7

\* A sum of naturals is a natural number.
LEMMA SumTyped ==
    ASSUME NEW S, IsFiniteSet(S), NEW f, \A x \in S : f[x] \in Nat
    PROVE  SumFunctionOnSet(f, S) \in Nat
<1>1. IsFiniteSet(Area(f, S))
  BY AreaFinite
<1> QED
  BY <1>1, SumIsArea, FS_CardinalityType

\* Nothing adds up to nothing.
LEMMA SumEmpty ==
    ASSUME NEW f
    PROVE  SumFunctionOnSet(f, {}) = 0
<1>1. IsFiniteSet({}) /\ Cardinality({}) = 0
  BY FS_EmptySet
<1>2. Area(f, {}) = {}
  BY DEF Area
<1> QED
  BY <1>1, <1>2, SumIsArea

\* Zeroes add up to nothing.
LEMMA SumZero ==
    ASSUME NEW S, IsFiniteSet(S), NEW f, \A x \in S : f[x] = 0
    PROVE  SumFunctionOnSet(f, S) = 0
<1>1. Area(f, S) = {}
  <2> SUFFICES ASSUME NEW p \in Area(f, S) PROVE FALSE
    OBVIOUS
  <2>1. p \in S \X Nat /\ p[2] \in 1 .. f[p[1]]
    BY DEF Area
  <2>2. p[1] \in S
    BY <2>1
  <2> QED
    BY <2>1, <2>2
<1>2. \A x \in S : f[x] \in Nat
  OBVIOUS
<1> QED
  BY <1>1, <1>2, SumIsArea, FS_EmptySet

\* Any summand can be taken out of a sum.
LEMMA SumSplits ==
    ASSUME NEW S, IsFiniteSet(S), NEW f, \A x \in S : f[x] \in Nat, NEW x \in S
    PROVE  /\ SumFunctionOnSet(f, S) = f[x] + SumFunctionOnSet(f, S \ {x})
           /\ SumFunctionOnSet(f, S \ {x}) \in Nat
<1>1. IsFiniteSet(S \ {x}) /\ \A y \in S \ {x} : f[y] \in Nat
  BY FS_RemoveElement
<1>2. IsFiniteSet(Area(f, S \ {x}))
  BY AreaFinite
<1>3. Cardinality(Area(f, S)) = f[x] + Cardinality(Area(f, S \ {x}))
  BY <1>2, AreaSplits
<1>4. SumFunctionOnSet(f, S \ {x}) = Cardinality(Area(f, S \ {x}))
  BY <1>1, SumIsArea
<1> QED
  BY <1>1, <1>3, <1>4, SumIsArea, SumTyped

\* More summands, and larger ones, make a larger sum.
LEMMA SumMonotone ==
    ASSUME NEW T, IsFiniteSet(T), NEW S \in SUBSET T, NEW f, NEW g,
           \A x \in S : f[x] \in Nat /\ f[x] <= g[x], \A x \in T : g[x] \in Nat
    PROVE  SumFunctionOnSet(f, S) <= SumFunctionOnSet(g, T)
<1>1. IsFiniteSet(S)
  BY FS_Subset
<1>2. IsFiniteSet(Area(g, T))
  BY AreaFinite
<1>3. Area(f, S) \subseteq Area(g, T)
  <2>1. ASSUME NEW p \in Area(f, S) PROVE p \in Area(g, T)
    <3>1. p \in S \X Nat /\ p[2] \in 1 .. f[p[1]]
      BY DEF Area
    <3>2. PICK a \in S, b \in Nat : p = <<a, b>>
      BY <3>1
    <3>3. b \in 1 .. g[a]
      BY <3>1, <3>2
    <3> QED
      BY <3>2, <3>3 DEF Area
  <2> QED
    BY <2>1
<1>4. Cardinality(Area(f, S)) <= Cardinality(Area(g, T))
  BY <1>2, <1>3, FS_Subset
<1> QED
  BY <1>1, <1>4, SumIsArea

\* Equal summands have equal sums.
LEMMA SumSame ==
    ASSUME NEW S, IsFiniteSet(S), NEW f, NEW g, \A x \in S : f[x] \in Nat /\ f[x] = g[x]
    PROVE  SumFunctionOnSet(f, S) = SumFunctionOnSet(g, S)
<1>1. S \in SUBSET S
  OBVIOUS
<1>2. /\ SumFunctionOnSet(f, S) <= SumFunctionOnSet(g, S)
      /\ SumFunctionOnSet(g, S) <= SumFunctionOnSet(f, S)
  BY <1>1, SumMonotone
<1>3. SumFunctionOnSet(f, S) \in Nat /\ SumFunctionOnSet(g, S) \in Nat
  BY SumTyped
<1> QED
  BY <1>2, <1>3

\* When one summand grows, the sum grows by as much.
LEMMA SumGrows ==
    ASSUME NEW S, IsFiniteSet(S), NEW f, NEW g, NEW x \in S, NEW d \in Nat,
           \A y \in S : f[y] \in Nat, \A y \in S \ {x} : g[y] = f[y], g[x] = f[x] + d
    PROVE  SumFunctionOnSet(g, S) = SumFunctionOnSet(f, S) + d
<1>1. \A y \in S : g[y] \in Nat
  OBVIOUS
<1>2. IsFiniteSet(S \ {x}) /\ \A y \in S \ {x} : f[y] \in Nat
  BY FS_RemoveElement
<1>3. SumFunctionOnSet(f, S \ {x}) = SumFunctionOnSet(g, S \ {x})
  BY <1>2, SumSame
<1>4. /\ SumFunctionOnSet(f, S) = f[x] + SumFunctionOnSet(f, S \ {x})
      /\ SumFunctionOnSet(f, S \ {x}) \in Nat
  BY SumSplits
<1>5. SumFunctionOnSet(g, S) = g[x] + SumFunctionOnSet(g, S \ {x})
  BY <1>1, SumSplits
<1> QED
  BY <1>3, <1>4, <1>5

\* Two parts of a sum add up to it.
LEMMA SumUnion ==
    ASSUME NEW X, NEW Y, IsFiniteSet(X), IsFiniteSet(Y), X \cap Y = {},
           NEW f, \A x \in X \cup Y : f[x] \in Nat
    PROVE  SumFunctionOnSet(f, X \cup Y) = SumFunctionOnSet(f, X) + SumFunctionOnSet(f, Y)
<1> DEFINE A == Area(f, X)
           B == Area(f, Y)
<1>1. IsFiniteSet(X \cup Y)
  BY FS_Union
<1>2. IsFiniteSet(A) /\ IsFiniteSet(B)
  BY AreaFinite
<1>3. Area(f, X \cup Y) = A \cup B
  <2>1. ASSUME NEW q \in Area(f, X \cup Y) PROVE q \in A \cup B
    <3>1. q \in (X \cup Y) \X Nat /\ q[2] \in 1 .. f[q[1]]
      BY DEF Area
    <3>2. PICK a \in X \cup Y, b \in Nat : q = <<a, b>>
      BY <3>1
    <3> QED
      BY <3>1, <3>2 DEF Area
  <2>2. ASSUME NEW q \in A \cup B PROVE q \in Area(f, X \cup Y)
    BY DEF Area
  <2> QED
    BY <2>1, <2>2
<1>4. A \cap B = {}
  <2> SUFFICES ASSUME NEW q \in A \cap B PROVE FALSE
    OBVIOUS
  <2>1. q \in X \X Nat /\ q \in Y \X Nat
    BY DEF Area
  <2>2. q[1] \in X /\ q[1] \in Y
    BY <2>1
  <2> QED
    BY <2>2
<1>5. SumFunctionOnSet(f, X) = Cardinality(A) /\ SumFunctionOnSet(f, Y) = Cardinality(B)
  BY SumIsArea
<1>6. SumFunctionOnSet(f, X \cup Y) = Cardinality(A \cup B)
  BY <1>1, <1>3, SumIsArea
<1> HIDE DEF A, B
<1>7. Cardinality(A \cup B) = Cardinality(A) + Cardinality(B) - Cardinality(A \cap B)
  BY <1>2, FS_Union
<1>8. Cardinality(A \cap B) = 0 /\ Cardinality(A) \in Nat /\ Cardinality(B) \in Nat
  BY <1>2, <1>4, FS_EmptySet, FS_CardinalityType
<1> QED
  BY <1>5, <1>6, <1>7, <1>8

----------------------------------------------------------------------------
(* Sequences of map elements *)

\* A finite set listed once is a sequence over the set.
LEMMA ListedOnce ==
    ASSUME NEW S, IsFiniteSet(S)
    PROVE  SetToSeq(S) \in Seq(S)
<1>1. Cardinality(S) \in Nat /\ ExistsBijection(1 .. Cardinality(S), S)
  BY FS_CardinalityType
<1>2. \E f \in [1 .. Cardinality(S) -> S] : IsInjective(f)
  BY <1>1 DEF ExistsBijection, Bijection, Injection
<1>3. SetToSeq(S) \in [1 .. Cardinality(S) -> S]
  BY <1>2 DEF SetToSeq
<1> QED
  BY <1>1, <1>3

\* There are finitely many reason elements and finitely many VLAN elements.
LEMMA FiniteElements ==
    /\ IsFiniteSet({{<<"reason", r>>} : r \in Reasons})
    /\ IsFiniteSet({{<<"vpkts", v>>, <<"vdrops", v>>} : v \in Vlans})
<1>1. IsFiniteSet(Reasons) /\ IsFiniteSet(Vlans)
  BY StatsConstants
<1>2. [r \in Reasons |-> {<<"reason", r>>}]
        \in Surjection(Reasons, {{<<"reason", r>>} : r \in Reasons})
  BY Zenon DEF Surjection
<1>3. [v \in Vlans |-> {<<"vpkts", v>>, <<"vdrops", v>>}]
        \in Surjection(Vlans, {{<<"vpkts", v>>, <<"vdrops", v>>} : v \in Vlans})
  BY Zenon DEF Surjection
<1>4. IsFiniteSet({{<<"reason", r>>} : r \in Reasons})
  BY <1>1, <1>2, FS_Surjection
<1>5. IsFiniteSet({{<<"vpkts", v>>, <<"vdrops", v>>} : v \in Vlans})
  BY <1>1, <1>3, FS_Surjection
<1> QED
  BY <1>4, <1>5

\* A sequence over a set is one over a larger set.
LEMMA SeqWider ==
    ASSUME NEW S, NEW T, S \subseteq T, NEW s \in Seq(S)
    PROVE  s \in Seq(T)
OBVIOUS

\* Every lookup of Collect names counters.
LEMMA LookupsTyped == Lookups \in Seq(SUBSET Counter)
<1>1. {"g"} \X GlobalWords \in SUBSET Counter
  BY DEF Counter
<1>2. GlobalElem \in Seq(SUBSET Counter)
  BY <1>1 DEF GlobalElem
<1>3. {{<<"reason", r>>} : r \in Reasons} \subseteq SUBSET Counter
  BY DEF Counter
<1>4. {{<<"vpkts", v>>, <<"vdrops", v>>} : v \in Vlans} \subseteq SUBSET Counter
  BY DEF Counter
<1>5. ReasonElems \in Seq(SUBSET Counter)
  <2>1. ReasonElems \in Seq({{<<"reason", r>>} : r \in Reasons})
    BY FiniteElements, ListedOnce DEF ReasonElems
  <2> QED
    BY <1>3, <2>1, SeqWider
<1>6. VlanElems \in Seq(SUBSET Counter)
  <2>1. VlanElems \in Seq({{<<"vpkts", v>>, <<"vdrops", v>>} : v \in Vlans})
    BY FiniteElements, ListedOnce DEF VlanElems
  <2> QED
    BY <1>4, <2>1, SeqWider
<1>7. \A S : \A a, b, c \in Seq(S) : a \o b \o c \in Seq(S)
  OBVIOUS
<1> QED
  BY <1>2, <1>5, <1>6, <1>7 DEF Lookups

\* Cells number the CPUs of one lookup after those of the lookup before it.
LEMMA CellIndex ==
    ASSUME NEW L \in Nat, NEW n \in Nat, NEW j \in 1 .. L * n
    PROVE  1 + ((j - 1) \div n) \in 1 .. L /\ 1 + ((j - 1) % n) \in 1 .. n
<1>1. L * n \in Nat
  OBVIOUS
<1>2. n # 0
  <2>1. ASSUME n = 0 PROVE L * n = 0
    BY <2>1
  <2> QED
    BY <1>1, <2>1
<1>3. PICK q \in Nat : q = (j - 1) \div n
  BY <1>1, <1>2
<1>4. PICK m \in 0 .. n - 1 : m = (j - 1) % n
  BY <1>1, <1>2
<1>5. j - 1 = n * q + m
  BY <1>1, <1>2, <1>3, <1>4
<1>6. q < L
  <2>1. n * q < L * n
    BY <1>1, <1>4, <1>5
  <2>2. ASSUME L <= q PROVE n * L <= n * q
    BY <2>2
  <2>3. n * L = L * n
    OBVIOUS
  <2>4. n * q \in Nat /\ n * L \in Nat
    OBVIOUS
  <2> QED
    BY <2>1, <2>2, <2>3, <2>4
<1> QED
  BY <1>2, <1>3, <1>4, <1>6

\* The cells a reading visits: words that are counters, of CPUs that exist.
LEMMA CellsTyped ==
    ASSUME site \in Sites
    PROVE  /\ Len(Cells) \in Nat /\ DOMAIN Cells = 1 .. Len(Cells)
           /\ \A j \in DOMAIN Cells : Cells[j].words \in SUBSET Counter /\ Cells[j].cpu \in Cpus
<1> DEFINE cpu == SetToSeq(site.cpus)
           n == Len(cpu)
           L == Len(Lookups)
           Cell(j) == [lookup |-> 1 + ((j - 1) \div n), cpu |-> cpu[1 + ((j - 1) % n)],
                       words |-> Lookups[1 + ((j - 1) \div n)]]
<1>1. Cells = [j \in 1 .. L * n |-> Cell(j)]
  BY Zenon DEF Cells, CellsOf
<1>2. site.cpus \subseteq Cpus /\ IsFiniteSet(Cpus)
  BY StatsConstants
<1>3. IsFiniteSet(site.cpus)
  BY <1>2, FS_Subset
<1>4. cpu \in Seq(Cpus)
  BY <1>2, <1>3, ListedOnce, SeqWider
<1>5. n \in Nat /\ \A i \in 1 .. n : cpu[i] \in Cpus
  <2>1. \A S : \A s \in Seq(S) : Len(s) \in Nat /\ \A i \in 1 .. Len(s) : s[i] \in S
    OBVIOUS
  <2> QED
    BY <1>4, <2>1, Zenon
<1>6. L \in Nat /\ \A i \in 1 .. L : Lookups[i] \in SUBSET Counter
  <2>1. \A S : \A s \in Seq(S) : Len(s) \in Nat /\ \A i \in 1 .. Len(s) : s[i] \in S
    OBVIOUS
  <2> QED
    BY LookupsTyped, <2>1, Zenon
<1> HIDE DEF cpu, n, L
<1>7. L * n \in Nat
  BY <1>5, <1>6
<1>8. Len(Cells) = L * n /\ DOMAIN Cells = 1 .. L * n
  <2> HIDE DEF Cell
  <2>1. \A m \in Nat : Len([j \in 1 .. m |-> Cell(j)]) = m
    OBVIOUS
  <2> QED
    BY <1>1, <1>7, <2>1
<1>9. ASSUME NEW j \in 1 .. L * n
      PROVE  Cells[j].words \in SUBSET Counter /\ Cells[j].cpu \in Cpus
  <2>1. 1 + ((j - 1) \div n) \in 1 .. L /\ 1 + ((j - 1) % n) \in 1 .. n
    BY <1>5, <1>6, CellIndex
  <2>2. Cells[j].words = Lookups[1 + ((j - 1) \div n)] /\ Cells[j].cpu = cpu[1 + ((j - 1) % n)]
    BY <1>1, Zenon
  <2> QED
    BY <1>5, <1>6, <2>1, <2>2
<1> QED
  BY <1>7, <1>8, <1>9

\* What a frame bumps is a sequence of counters, whatever its fate.
LEMMA BumpsTyped ==
    ASSUME NEW o \in Outcomes, NEW r \in Reasons, NEW v \in Vlans
    PROVE  Bumps(o, r, v) \in Seq(Counter)
<1>1. /\ \A w \in GlobalWords : G(w) \in Counter
      /\ <<"reason", r>> \in Counter /\ <<"reason", MapFail>> \in Counter
      /\ <<"vpkts", v>> \in Counter /\ <<"vdrops", v>> \in Counter
  BY StatsConstants, Zenon DEF Counter, G
<1>2. /\ G("rx") \in Counter /\ G("redir") \in Counter /\ G("drop") \in Counter
      /\ G("other") \in Counter /\ G("l1") \in Counter /\ G("rst") \in Counter
  BY <1>1 DEF GlobalWords
<1>3. \A S : \A a, b \in Seq(S) : a \o b \in Seq(S)
  OBVIOUS
<1>4. \A S : /\ <<>> \in Seq(S)
             /\ \A a \in S : <<a>> \in Seq(S)
             /\ \A a, b \in S : <<a, b>> \in Seq(S)
             /\ \A a, b, c \in S : <<a, b, c>> \in Seq(S)
  OBVIOUS
<1>5. <<G("rx"), <<"vpkts", v>>>> \in Seq(Counter)
  BY <1>1, <1>2, <1>4, Zenon
<1> DEFINE rest == CASE o = "forward"   -> <<G("redir")>>
                     [] o \in {"other", "l1"} -> <<G(o), G("redir")>>
                     [] o = "mapfail"   -> <<<<"reason", MapFail>>, G("redir")>>
                     [] o = "drop"      -> <<<<"reason", r>>, G("drop"), <<"vdrops", v>>>>
                     [] o = "monitor"   -> <<<<"reason", r>>, G("redir")>>
                     [] o = "rst"       -> <<<<"reason", r>>, G("rst")>>
                     [] o = "bootstrap" -> <<>>
<1>6. rest \in Seq(Counter)
  <2>1. CASE o = "forward"
    <3>1. rest = <<G("redir")>>
      BY <2>1
    <3> QED
      BY <3>1, <1>2, <1>4, Zenon
  <2>2. CASE o = "other"
    <3>1. rest = <<G("other"), G("redir")>>
      BY <2>2
    <3> QED
      BY <3>1, <1>2, <1>4, Zenon
  <2>3. CASE o = "l1"
    <3>1. rest = <<G("l1"), G("redir")>>
      BY <2>3
    <3> QED
      BY <3>1, <1>2, <1>4, Zenon
  <2>4. CASE o = "mapfail"
    <3>1. rest = <<<<"reason", MapFail>>, G("redir")>>
      BY <2>4
    <3> QED
      BY <3>1, <1>1, <1>2, <1>4, Zenon
  <2>5. CASE o = "drop"
    <3>1. rest = <<<<"reason", r>>, G("drop"), <<"vdrops", v>>>>
      BY <2>5
    <3> QED
      BY <3>1, <1>1, <1>2, <1>4, Zenon
  <2>6. CASE o = "monitor"
    <3>1. rest = <<<<"reason", r>>, G("redir")>>
      BY <2>6
    <3> QED
      BY <3>1, <1>1, <1>2, <1>4, Zenon
  <2>7. CASE o = "rst"
    <3>1. rest = <<<<"reason", r>>, G("rst")>>
      BY <2>7
    <3> QED
      BY <3>1, <1>1, <1>2, <1>4, Zenon
  <2>8. CASE o = "bootstrap"
    <3>1. rest = <<>>
      BY <2>8
    <3> QED
      BY <3>1, <1>4, Zenon
  <2> QED
    BY <2>1, <2>2, <2>3, <2>4, <2>5, <2>6, <2>7, <2>8 DEF Outcomes
<1>7. Bumps(o, r, v) = <<G("rx"), <<"vpkts", v>>>> \o rest
  BY Zenon DEF Bumps, RstReply
<1> QED
  BY <1>3, <1>5, <1>6, <1>7, Zenon

----------------------------------------------------------------------------
(* The data path keeps the invariant *)

\* The bounds of the installation are numbers.
LEMMA SiteFacts ==
    ASSUME site \in Sites
    PROVE  /\ site.swaps \in Nat /\ site.intervals \subseteq Nat \ {0}
           /\ site.outcomes \subseteq Outcomes /\ site.reasons \subseteq Reasons
BY StatsConstants

\* The initial state satisfies the invariant.
LEMMA InitInv == Init => StatsInv
<1> SUFFICES ASSUME Init PROVE StatsInv
  OBVIOUS
<1> USE DEF Init
<1>1. site \in Sites /\ site.swaps \in Nat
  BY SiteFacts
<1>2. Zero \in [Counter -> Nat] /\ Nil \in Snapshots
  BY DEF Zero, Nil, Snapshots
<1>3. 1 \in MapSet /\ sets \in MapSet /\ attached \in {0, sets} /\ reading \in 1 .. sets
  BY <1>1 DEF MapSet
<1>4. ctr \in [MapSet -> [Cpus -> [Counter -> Nat]]]
  BY <1>2
<1>5. todo \in [Cpus -> [set : 1 .. sets, left : Seq(Counter)]]
  <2>1. <<>> \in Seq(Counter)
    OBVIOUS
  <2>2. [set |-> 1, left |-> <<>>] \in [set : 1 .. sets, left : Seq(Counter)]
    BY <2>1
  <2> QED
    BY <2>2
<1>6. at \in 0 .. Len(Cells) + 1
  BY <1>1, CellsTyped
<1>7. shown.total \in [Counter -> Nat] /\ shown.more \in [Counter -> Nat]
  BY <1>2 DEF Blank
<1>8. baseline \in [Reasons -> Nat] /\ since \in [Reasons -> Nat] /\ raised \in [Reasons -> Nat]
  OBVIOUS
<1>9. TypeOK
  BY <1>1, <1>2, <1>3, <1>4, <1>5, <1>6, <1>7, <1>8 DEF TypeOK
<1>10. Stamped /\ Room /\ Standing
  BY DEF Stamped, Room, Standing
<1> QED
  BY <1>9, <1>10 DEF StatsInv

\* A frame is given the counters its fate will bump, in the map set in use.
LEMMA ReceiveInv ==
    ASSUME StatsInv, NEW c \in Cpus, Receive(c)
    PROVE  StatsInv'
<1>1. PICK o \in site.outcomes, r \in site.reasons, v \in Vlans :
        todo' = [todo EXCEPT ![c] = [set |-> attached, left |-> Bumps(o, r, v)]]
  BY DEF Receive
<1>2. site \in Sites /\ sets \in MapSet /\ attached \in {0, sets} /\ attached # 0
  BY DEF StatsInv, TypeOK, Receive
<1>3. Bumps(o, r, v) \in Seq(Counter)
  BY <1>2, SiteFacts, BumpsTyped
<1>4. attached \in 1 .. sets
  BY <1>2, SiteFacts DEF MapSet
<1>5. [set |-> attached, left |-> Bumps(o, r, v)] \in [set : 1 .. sets, left : Seq(Counter)]
  BY <1>3, <1>4
<1>6. todo' \in [Cpus -> [set : 1 .. sets, left : Seq(Counter)]]
  BY <1>1, <1>5 DEF StatsInv, TypeOK
<1>7. UNCHANGED <<site, attached, sets, ctr, snap, at, reading, prev, shown, baseline, since, raised, now>>
  BY DEF Receive, spikes
<1>8. MapSet' = MapSet /\ Cells' = Cells
  BY <1>7 DEF MapSet, Cells
<1> QED
  BY <1>6, <1>7, <1>8 DEF StatsInv, TypeOK, Stamped, Room, Standing

\* A CPU bumps a counter of its own copy in the map set its frame began with.
LEMMA BumpInv ==
    ASSUME StatsInv, NEW c \in Cpus, Bump(c)
    PROVE  StatsInv'
<1>1. UNCHANGED <<site, attached, sets, snap, at, reading, prev, shown, baseline, since, raised, now>>
  BY DEF Bump, spikes
<1>2. MapSet' = MapSet /\ Cells' = Cells
  BY <1>1 DEF MapSet, Cells
<1>3. todo[c].left \in Seq(Counter) /\ todo[c].left # <<>> /\ todo[c].set \in 1 .. sets
  BY DEF Bump, StatsInv, TypeOK
<1>4. Head(todo[c].left) \in Counter /\ Tail(todo[c].left) \in Seq(Counter)
  <2>1. \A S : \A s \in Seq(S) : s # <<>> => Head(s) \in S /\ Tail(s) \in Seq(S)
    OBVIOUS
  <2> QED
    BY <1>3, <2>1, Zenon
<1>5. todo' \in [Cpus -> [set : 1 .. sets, left : Seq(Counter)]]
  <2>1. todo' = [todo EXCEPT ![c].left = Tail(@)]
    BY DEF Bump
  <2>2. [todo[c] EXCEPT !.left = Tail(@)] \in [set : 1 .. sets, left : Seq(Counter)]
    BY <1>3, <1>4 DEF StatsInv, TypeOK
  <2> QED
    BY <2>1, <2>2 DEF StatsInv, TypeOK
<1>6. ctr' \in [MapSet -> [Cpus -> [Counter -> Nat]]]
  <2> DEFINE s == todo[c].set
             k == Head(todo[c].left)
  <2>1. site \in Sites /\ site.swaps \in Nat /\ sets \in MapSet
    BY SiteFacts DEF StatsInv, TypeOK
  <2>2. s \in MapSet
    BY <1>3, <2>1 DEF MapSet
  <2>3. ctr' = [ctr EXCEPT ![s][c][k] = @ + 1]
    BY DEF Bump
  <2>4. k \in Counter
    BY <1>4
  <2> HIDE DEF s, k
  <2>5. ctr \in [MapSet -> [Cpus -> [Counter -> Nat]]]
    BY DEF StatsInv, TypeOK
  <2>6. ctr[s][c][k] + 1 \in Nat /\ ctr[s][c] \in [Counter -> Nat] /\ ctr[s] \in [Cpus -> [Counter -> Nat]]
    BY <2>2, <2>4, <2>5
  <2>7. [ctr[s][c] EXCEPT ![k] = @ + 1] \in [Counter -> Nat]
    BY <2>6
  <2>8. [ctr[s] EXCEPT ![c][k] = @ + 1] \in [Cpus -> [Counter -> Nat]]
    BY <2>6, <2>7
  <2> QED
    BY <2>3, <2>5, <2>8
<1> QED
  BY <1>1, <1>2, <1>5, <1>6 DEF StatsInv, TypeOK, Stamped, Room, Standing

\* Tearing the data path down leaves room for its successor.
LEMMA DetachInv ==
    ASSUME StatsInv, Detach
    PROVE  StatsInv'
<1>1. UNCHANGED <<site, sets, ctr, todo, snap, at, reading, prev, shown, baseline, since, raised, now>>
  BY DEF Detach, spikes
<1>2. MapSet' = MapSet /\ Cells' = Cells
  BY <1>1 DEF MapSet, Cells
<1>3. site \in Sites /\ site.swaps \in Nat /\ sets \in MapSet
  BY SiteFacts DEF StatsInv, TypeOK
<1>4. Cardinality(MapSet) = site.swaps + 1
  <2>1. \A b \in Int : Cardinality(1 .. b) = IF 1 > b THEN 0 ELSE b - 1 + 1
    BY FS_Interval
  <2> QED
    BY <1>3, <2>1 DEF MapSet
<1>5. attached' = 0 /\ sets <= site.swaps
  BY <1>3, <1>4 DEF Detach, MapSet
<1> QED
  BY <1>1, <1>2, <1>5 DEF StatsInv, TypeOK, Stamped, Room, Standing

\* The next data path comes up with the next map set.
LEMMA AttachInv ==
    ASSUME StatsInv, Attach
    PROVE  StatsInv'
<1>1. UNCHANGED <<site, ctr, todo, snap, at, reading, prev, shown, baseline, since, raised, now>>
  BY DEF Attach, spikes
<1>2. MapSet' = MapSet /\ Cells' = Cells
  BY <1>1 DEF MapSet, Cells
<1>3. /\ site \in Sites /\ site.swaps \in Nat /\ sets \in MapSet /\ reading \in 1 .. sets
      /\ sets <= site.swaps
  BY SiteFacts DEF StatsInv, TypeOK, Room, Attach
<1>4. sets' = sets + 1 /\ attached' = sets + 1
  BY DEF Attach
<1>5. sets' \in MapSet /\ attached' \in {0, sets'} /\ attached' # 0 /\ reading \in 1 .. sets'
  BY <1>3, <1>4 DEF MapSet
<1>6. todo' \in [Cpus -> [set : 1 .. sets', left : Seq(Counter)]]
  <2>1. 1 .. sets \subseteq 1 .. sets'
    BY <1>3, <1>4 DEF MapSet
  <2>2. todo \in [Cpus -> [set : 1 .. sets, left : Seq(Counter)]]
    BY DEF StatsInv, TypeOK
  <2> QED
    BY <1>1, <2>1, <2>2
<1> QED
  BY <1>1, <1>2, <1>5, <1>6 DEF StatsInv, TypeOK, Stamped, Room, Standing

----------------------------------------------------------------------------
(* The readers keep the invariant *)

\* What a step of a reader has to re-establish when it leaves the data path and
\* the spikes alone.
LEMMA ReaderStep ==
    ASSUME StatsInv, UNCHANGED <<site, traffic, spikes>>,
           reading' \in 1 .. sets, snap' \in Snapshots, prev' \in Snapshots,
           at' \in 0 .. Len(Cells) + 1, now' \in Nat,
           shown'.total \in [Counter -> Nat], shown'.more \in [Counter -> Nat]
    PROVE  StatsInv'
<1>1. UNCHANGED <<site, attached, sets, ctr, todo, baseline, since, raised>>
  BY DEF traffic, spikes
<1>2. MapSet' = MapSet /\ Cells' = Cells
  BY <1>1 DEF MapSet, Cells
<1> QED
  BY <1>1, <1>2 DEF StatsInv, TypeOK, Stamped, Room, Standing

\* What a reader finds.
LEMMA ReaderFacts ==
    ASSUME StatsInv
    PROVE  /\ site \in Sites /\ site.swaps \in Nat /\ sets \in MapSet /\ sets \in Nat
           /\ site.intervals \subseteq Nat \ {0}
           /\ reading \in 1 .. sets /\ reading \in MapSet
           /\ snap \in Snapshots /\ prev \in Snapshots /\ Nil \in Snapshots
           /\ Len(Cells) \in Nat /\ at \in 0 .. Len(Cells) + 1 /\ now \in Nat
           /\ shown.total \in [Counter -> Nat] /\ shown.more \in [Counter -> Nat]
           /\ Blank.total \in [Counter -> Nat] /\ Blank.more \in [Counter -> Nat]
<1>1. /\ site \in Sites /\ sets \in MapSet /\ reading \in 1 .. sets
      /\ snap \in Snapshots /\ prev \in Snapshots /\ at \in 0 .. Len(Cells) + 1 /\ now \in Nat
      /\ shown.total \in [Counter -> Nat] /\ shown.more \in [Counter -> Nat]
  BY DEF StatsInv, TypeOK, Stamped
<1>2. site.swaps \in Nat /\ Len(Cells) \in Nat /\ site.intervals \subseteq Nat \ {0}
  BY <1>1, SiteFacts, CellsTyped
<1>3. sets \in Nat /\ reading \in MapSet
  BY <1>1, <1>2 DEF MapSet
<1>4. Nil \in Snapshots
  BY DEF Zero, Nil, Snapshots
<1>5. Blank.total \in [Counter -> Nat] /\ Blank.more \in [Counter -> Nat]
  BY DEF Blank, Zero
<1> QED
  BY <1>1, <1>2, <1>3, <1>4, <1>5

\* A reading begins.
LEMMA BeginInv ==
    ASSUME StatsInv, NEW dt \in site.intervals, Begin(dt)
    PROVE  StatsInv'
<1>1. now + dt \in Nat /\ now' = now + dt
  BY ReaderFacts DEF Begin
<1>2. snap' = [Nil EXCEPT !.when = now + dt] /\ Nil \in Snapshots
  BY ReaderFacts DEF Begin
<1>3. snap' \in Snapshots
  BY <1>1, <1>2 DEF Snapshots
<1>4. \/ reading' = reading
      \/ attached \in {0, sets} /\ attached # 0 /\ reading' = attached
  BY DEF Begin, StatsInv, TypeOK
<1>5. reading' \in 1 .. sets
  BY <1>4, ReaderFacts DEF MapSet
<1>6. at' \in 0 .. Len(Cells) + 1
  BY ReaderFacts DEF Begin
<1>7. UNCHANGED <<site, traffic, spikes, prev, shown>>
  BY DEF Begin
<1> QED
  BY <1>1, <1>3, <1>5, <1>6, <1>7, ReaderFacts, ReaderStep

\* The console finds no data path.
LEMMA UnavailableInv ==
    ASSUME StatsInv, NEW dt \in site.intervals, Unavailable(dt)
    PROVE  StatsInv'
<1>1. now' \in Nat
  BY ReaderFacts DEF Unavailable
<1>2. UNCHANGED <<site, traffic, spikes, snap, at, reading>> /\ prev' = Nil /\ shown' = Blank
  BY DEF Unavailable
<1> QED
  BY <1>1, <1>2, ReaderFacts, ReaderStep

\* A reading copies one CPU's words of one element.
LEMMA CopyInv ==
    ASSUME StatsInv, Copy
    PROVE  StatsInv'
<1> DEFINE add(k) == IF k \in Cells[at].words THEN ctr[reading][Cells[at].cpu][k] ELSE 0
<1>1. UNCHANGED <<site, traffic, spikes, reading, prev, shown, now>> /\ at' = at + 1
  BY DEF Copy
<1>2. at \in DOMAIN Cells /\ Cells[at].cpu \in Cpus /\ at \in 1 .. Len(Cells)
  BY ReaderFacts, CellsTyped DEF Copy
<1>3. at' \in 0 .. Len(Cells) + 1
  BY <1>1, <1>2, ReaderFacts
<1>4. ctr \in [MapSet -> [Cpus -> [Counter -> Nat]]] /\ reading \in MapSet
  BY ReaderFacts DEF StatsInv, TypeOK
<1>5. \A k \in Counter : add(k) \in Nat
  BY <1>2, <1>4
<1>6. snap' = [snap EXCEPT !.val = [k \in Counter |-> @[k] + add(k)]]
  BY DEF Copy
<1> HIDE DEF add
<1>7. snap \in Snapshots
  BY ReaderFacts
<1>8. [k \in Counter |-> snap.val[k] + add(k)] \in [Counter -> Nat]
  BY <1>5, <1>7 DEF Snapshots
<1>9. snap' \in Snapshots
  BY <1>6, <1>7, <1>8 DEF Snapshots
<1> QED
  BY <1>1, <1>3, <1>9, ReaderFacts, ReaderStep

\* A lookup that fails ends the reading, or the reading goes on behind it.
LEMMA LookupFailsInv ==
    ASSUME StatsInv, LookupFails
    PROVE  StatsInv'
<1>1. UNCHANGED <<site, traffic, spikes, reading, prev, now>>
  BY DEF LookupFails
<1>2. at \in DOMAIN Cells /\ Cells[at].words \in SUBSET Counter /\ DOMAIN Cells = 1 .. Len(Cells)
  BY ReaderFacts, CellsTyped DEF LookupFails
<1>3. CASE G("rx") \in Cells[at].words
  <2>1. at' = 0 /\ snap' = Nil /\ shown' \in {Blank, shown}
    BY <1>3 DEF LookupFails
  <2> QED
    BY <1>1, <2>1, ReaderFacts, ReaderStep
<1>4. CASE G("rx") \notin Cells[at].words
  <2> DEFINE behind == {i \in DOMAIN Cells : Cells[i].lookup <= Cells[at].lookup}
  <2>1. /\ at' = 1 + Cardinality(behind)
        /\ snap' = [snap EXCEPT !.bad = @ \cup Cells[at].words]
        /\ UNCHANGED shown
    BY <1>4 DEF LookupFails
  <2>2. behind \in SUBSET (1 .. Len(Cells))
    BY <1>2
  <2> HIDE DEF behind
  <2>3. Len(Cells) \in Nat
    BY ReaderFacts
  <2>4. \A b \in Int : IsFiniteSet(1 .. b) /\ Cardinality(1 .. b) = IF 1 > b THEN 0 ELSE b - 1 + 1
    BY FS_Interval
  <2>5. IsFiniteSet(1 .. Len(Cells)) /\ Cardinality(1 .. Len(Cells)) = Len(Cells)
    BY <2>3, <2>4
  <2>6. IsFiniteSet(behind) /\ Cardinality(behind) <= Cardinality(1 .. Len(Cells))
    BY <2>2, <2>5, FS_Subset
  <2>7. Cardinality(behind) \in Nat
    BY <2>6, FS_CardinalityType
  <2>8. at' \in 0 .. Len(Cells) + 1
    BY <2>1, <2>3, <2>5, <2>6, <2>7
  <2>9. snap \in Snapshots
    BY ReaderFacts
  <2>10. snap.bad \cup Cells[at].words \in SUBSET Counter
    BY <1>2, <2>9 DEF Snapshots
  <2>11. snap' \in Snapshots
    BY <2>1, <2>9, <2>10 DEF Snapshots
  <2> QED
    BY <1>1, <2>1, <2>8, <2>11, ReaderFacts, ReaderStep
<1> QED
  BY <1>3, <1>4

----------------------------------------------------------------------------
(* Rates *)

\* The seconds between two readings.
LEMMA SecsTyped == StatsInv => Secs \in Int
<1>1. StatsInv => snap \in Snapshots /\ prev \in Snapshots
  BY ReaderFacts
<1> QED
  BY <1>1 DEF Secs, Snapshots

\* Both ways to subtract two readings give a natural number, whatever the readings.
LEMMA IncreaseTyped ==
    ASSUME StatsInv, NEW k \in Counter
    PROVE  Increase(k) \in Nat /\ Gain(k) \in Nat
<1>1. snap.val[k] \in Nat /\ prev.val[k] \in Nat /\ Modulus \in Nat \ {0}
  BY ReaderFacts, StatsConstants DEF Snapshots
<1>2. Previous(k) \in Nat
  BY <1>1 DEF Previous
<1>3. \A x \in Int : x % Modulus \in Nat
  BY <1>1
<1>4. (snap.val[k] + Modulus - Previous(k)) % Modulus \in Nat
  BY <1>1, <1>2, <1>3
<1>5. Increase(k) \in Nat
  BY <1>4, Zenon DEF Increase
<1>6. Gain(k) \in Nat
  BY <1>1 DEF Gain
<1> QED
  BY <1>5, <1>6

\* The rate of a reason that is judged is a natural number.
LEMMA RateTyped ==
    ASSUME StatsInv, NEW r \in Reasons, Judged(r)
    PROVE  Rate(r) \in Nat
<1>1. <<"reason", r>> \in Counter
  BY DEF Counter
<1>2. Increase(<<"reason", r>>) \in Nat
  BY <1>1, IncreaseTyped
<1>3. Secs \in Nat /\ Secs > 0 /\ Scale \in Nat
  BY SecsTyped, StatsConstants DEF Judged
<1>4. \A a, b \in Nat : a * b \in Nat
  OBVIOUS
<1>5. \A a, b \in Nat : b > 0 => a \div b \in Nat
  OBVIOUS
<1> QED
  BY <1>2, <1>3, <1>4, <1>5 DEF Rate

\* So is the baseline learned from it.
LEMMA LearnedTyped ==
    ASSUME StatsInv, NEW r \in Reasons
    PROVE  Learned(r) \in Nat
<1>1. baseline[r] \in Nat
  BY DEF StatsInv, TypeOK
<1>2. CASE ~Judged(r) \/ Spiking(r)
  BY <1>1, <1>2, Zenon DEF Learned
<1>3. CASE Judged(r) /\ ~Spiking(r)
  <2>1. Rate(r) \in Nat
    BY <1>3, RateTyped
  <2>2. (3 * Rate(r) + 7 * baseline[r]) \div 10 \in Nat
    BY <1>1, <2>1
  <2>3. \A x \in Nat : Max({1, x}) \in Nat
    <3> SUFFICES ASSUME NEW x \in Nat PROVE Max({1, x}) \in Nat
      OBVIOUS
    <3>1. \E m \in {1, x} : \A y \in {1, x} : m >= y
      OBVIOUS
    <3>2. Max({1, x}) \in {1, x}
      BY <3>1 DEF Max
    <3> QED
      BY <3>2
  <2>4. Smoothed(r) \in Nat
    BY <2>2, <2>3, Zenon DEF Smoothed
  <2>5. Learned(r) \in {Rate(r), Smoothed(r)}
    BY <1>3, Zenon DEF Learned
  <2> QED
    BY <2>1, <2>4, <2>5
<1> QED
  BY <1>2, <1>3

\* One tick of detectSpike: a reason that is not judged, or has no baseline yet,
\* keeps its spike; a judged one spikes or has none; and a spiking one keeps the
\* baseline it is measured against.
LEMMA SpikeStep ==
    ASSUME StatsInv, DetectSpikes, NEW r \in Reasons
    PROVE  /\ baseline'[r] = Learned(r)
           /\ \/ /\ ~Judged(r) \/ baseline[r] = 0
                 /\ since'[r] = since[r] /\ raised'[r] = raised[r]
              \/ /\ Judged(r) /\ baseline[r] # 0 /\ ~Spiking(r)
                 /\ since'[r] = 0 /\ raised'[r] = 0
              \/ /\ Spiking(r) /\ since[r] = 0 /\ baseline'[r] = baseline[r]
                 /\ since'[r] = snap.when /\ raised'[r] = Rate(r)
              \/ /\ Spiking(r) /\ since[r] # 0 /\ baseline'[r] = baseline[r]
                 /\ since'[r] = since[r] /\ raised'[r] = raised[r]
<1>1. baseline'[r] = Learned(r)
  BY Zenon DEF DetectSpikes
<1>2. since'[r] = IF ~Judged(r) \/ baseline[r] = 0 THEN since[r]
                   ELSE IF ~Spiking(r) THEN 0
                   ELSE IF since[r] = 0 THEN snap.when ELSE since[r]
  BY Zenon DEF DetectSpikes
<1>3. raised'[r] = IF ~Judged(r) \/ baseline[r] = 0 THEN raised[r]
                    ELSE IF ~Spiking(r) THEN 0
                    ELSE IF since[r] = 0 THEN Rate(r) ELSE raised[r]
  BY Zenon DEF DetectSpikes
<1>4. Spiking(r) => Judged(r) /\ baseline[r] # 0
  BY DEF Spiking
<1>5. Spiking(r) => Learned(r) = baseline[r]
  BY Zenon DEF Learned
<1>6. CASE ~Judged(r) \/ baseline[r] = 0
  BY <1>1, <1>2, <1>3, <1>6, Zenon
<1>7. CASE Judged(r) /\ baseline[r] # 0 /\ ~Spiking(r)
  BY <1>1, <1>2, <1>3, <1>7, Zenon
<1>8. CASE Spiking(r) /\ since[r] = 0
  BY <1>1, <1>2, <1>3, <1>4, <1>5, <1>8, Zenon
<1>9. CASE Spiking(r) /\ since[r] # 0
  <2>1. since'[r] = since[r] /\ raised'[r] = raised[r]
    BY <1>2, <1>3, <1>4, <1>9, Zenon
  <2> QED
    BY <1>1, <1>5, <1>9, <2>1, Zenon
<1> QED
  BY <1>4, <1>6, <1>7, <1>8, <1>9, Zenon

\* The daemon's spike state keeps its type, and every spike stands on a baseline
\* that has not moved since it began.
LEMMA DetectSpikesInv ==
    ASSUME StatsInv, DetectSpikes
    PROVE  /\ baseline' \in [Reasons -> Nat] /\ since' \in [Reasons -> Nat]
           /\ raised' \in [Reasons -> Nat] /\ Standing'
<1>1. /\ baseline' = [r \in Reasons |-> baseline'[r]]
      /\ since' = [r \in Reasons |-> since'[r]]
      /\ raised' = [r \in Reasons |-> raised'[r]]
  BY Zenon DEF DetectSpikes
<1>2. ASSUME NEW r \in Reasons
      PROVE  /\ baseline'[r] \in Nat /\ since'[r] \in Nat /\ raised'[r] \in Nat
             /\ since'[r] # 0 =>
                  baseline'[r] # 0 /\ raised'[r] > MinRate /\ raised'[r] > baseline'[r] * Factor
  <2>1. baseline[r] \in Nat /\ since[r] \in Nat /\ raised[r] \in Nat /\ snap.when \in Nat
    BY DEF StatsInv, TypeOK, Snapshots
  <2>2. Learned(r) \in Nat
    BY LearnedTyped
  <2>3. since[r] # 0 =>
          baseline[r] # 0 /\ raised[r] > MinRate /\ raised[r] > baseline[r] * Factor
    BY DEF StatsInv, Standing
  <2>4. Spiking(r) => /\ Judged(r) /\ baseline[r] # 0
                      /\ Rate(r) > MinRate /\ Rate(r) > baseline[r] * Factor
    BY DEF Spiking
  <2>5. Judged(r) => Rate(r) \in Nat
    BY RateTyped
  <2>6. CASE (~Judged(r) \/ baseline[r] = 0) /\ since'[r] = since[r] /\ raised'[r] = raised[r]
    <3>1. since[r] # 0 => ~Judged(r) /\ Learned(r) = baseline[r]
      BY <2>3, <2>6 DEF Learned
    <3> QED
      BY <2>1, <2>2, <2>3, <2>6, <3>1, SpikeStep
  <2>7. CASE since'[r] = 0 /\ raised'[r] = 0
    BY <2>2, <2>7, SpikeStep
  <2>8. CASE Spiking(r) /\ baseline'[r] = baseline[r] /\ since'[r] = snap.when /\ raised'[r] = Rate(r)
    BY <2>1, <2>4, <2>5, <2>8
  <2>9. CASE Spiking(r) /\ baseline'[r] = baseline[r] /\ since'[r] = since[r] /\ raised'[r] = raised[r]
    BY <2>1, <2>3, <2>9
  <2> QED
    BY <2>6, <2>7, <2>8, <2>9, SpikeStep
<1>3. baseline' \in [Reasons -> Nat] /\ since' \in [Reasons -> Nat] /\ raised' \in [Reasons -> Nat]
  <2>1. \A f : f = [r \in Reasons |-> f[r]] /\ (\A r \in Reasons : f[r] \in Nat) => f \in [Reasons -> Nat]
    BY Zenon
  <2> QED
    BY <1>1, <1>2, <2>1, Zenon
<1>4. Standing'
  BY <1>2, Zenon DEF Standing
<1> QED
  BY <1>3, <1>4

\* The daemon's tick turns the reading into rates and judges the reasons.
LEMMA TickInv ==
    ASSUME StatsInv, Tick
    PROVE  StatsInv'
<1>1. UNCHANGED <<site, attached, sets, ctr, todo, reading, now>> /\ at' = 0
  BY DEF Tick, Done, traffic
<1>2. MapSet' = MapSet /\ Cells' = Cells
  BY <1>1 DEF MapSet, Cells
<1>3. snap' \in Snapshots /\ prev' \in Snapshots /\ at' \in 0 .. Len(Cells) + 1
  BY ReaderFacts DEF Tick, Done
<1>4. shown'.total \in [Counter -> Nat] /\ shown'.more \in [Counter -> Nat]
  <2>1. CASE UNCHANGED shown
    BY <2>1, ReaderFacts
  <2>2. CASE shown' = [total |-> snap.val, more |-> [k \in Counter |-> Increase(k)], secs |-> Secs]
    <3>1. snap.val \in [Counter -> Nat]
      BY ReaderFacts DEF Snapshots
    <3>2. [k \in Counter |-> Increase(k)] \in [Counter -> Nat]
      BY IncreaseTyped
    <3>3. shown'.total = snap.val /\ shown'.more = [k \in Counter |-> Increase(k)]
      BY <2>2
    <3> QED
      BY <3>1, <3>2, <3>3, Zenon
  <2> QED
    BY <2>1, <2>2 DEF Tick, Show
<1>5. /\ baseline' \in [Reasons -> Nat] /\ since' \in [Reasons -> Nat]
      /\ raised' \in [Reasons -> Nat] /\ Standing'
  BY DetectSpikesInv DEF Tick
<1>6. TypeOK'
  BY <1>1, <1>2, <1>3, <1>4, <1>5 DEF StatsInv, TypeOK
<1>7. Stamped' /\ Room'
  BY <1>1 DEF StatsInv, Stamped, Room
<1> QED
  BY <1>5, <1>6, <1>7 DEF StatsInv

\* The console's sample shows increases only.
LEMMA SampleInv ==
    ASSUME StatsInv, Sample
    PROVE  StatsInv'
<1>1. UNCHANGED <<site, traffic, spikes, reading, now>> /\ at' = 0 /\ snap' = Nil /\ prev' = snap
  BY DEF Sample, Done
<1>2. shown' = [total |-> snap.val, more |-> [k \in Counter |-> Gain(k)], secs |-> Secs]
  BY DEF Sample, Show
<1>3. snap.val \in [Counter -> Nat]
  BY ReaderFacts DEF Snapshots
<1>4. [k \in Counter |-> Gain(k)] \in [Counter -> Nat]
  BY IncreaseTyped
<1>5. shown'.total = snap.val /\ shown'.more = [k \in Counter |-> Gain(k)]
  BY <1>2
<1>6. shown'.total \in [Counter -> Nat] /\ shown'.more \in [Counter -> Nat]
  BY <1>3, <1>4, <1>5, Zenon
<1>7. at' \in 0 .. Len(Cells) + 1
  BY <1>1, ReaderFacts
<1> QED
  BY <1>1, <1>6, <1>7, ReaderFacts, ReaderStep

\* `xdpfilter status` shows totals.
LEMMA PrintStatusInv ==
    ASSUME StatsInv, PrintStatus
    PROVE  StatsInv'
<1>1. UNCHANGED <<site, traffic, spikes, reading, prev, now>> /\ at' = 0 /\ snap' = Nil
  BY DEF PrintStatus, Done
<1>2. shown'.total = snap.val /\ shown'.more = Blank.more
  BY DEF PrintStatus, Blank
<1>3. snap.val \in [Counter -> Nat]
  BY ReaderFacts DEF Snapshots
<1>4. at' \in 0 .. Len(Cells) + 1
  BY <1>1, ReaderFacts
<1> QED
  BY <1>1, <1>2, <1>3, <1>4, ReaderFacts, ReaderStep

\* Every step keeps the invariant.
LEMMA StepInv == StatsInv /\ [Next]_vars => StatsInv'
<1> SUFFICES ASSUME StatsInv, [Next]_vars PROVE StatsInv'
  OBVIOUS
<1>1. CASE UNCHANGED vars
  <2>1. /\ UNCHANGED <<site, traffic, spikes, snap, at, reading, prev, shown, now>>
    BY <1>1 DEF vars
  <2> QED
    BY <2>1, ReaderFacts, ReaderStep
<1>2. ASSUME NEW c \in Cpus, Receive(c) \/ Bump(c) PROVE StatsInv'
  BY <1>2, ReceiveInv, BumpInv
<1>3. ASSUME Detach \/ Attach PROVE StatsInv'
  BY <1>3, DetachInv, AttachInv
<1>4. ASSUME NEW dt \in site.intervals, Begin(dt) \/ Unavailable(dt) PROVE StatsInv'
  BY <1>4, BeginInv, UnavailableInv
<1>5. ASSUME Copy \/ LookupFails \/ Tick \/ Sample \/ PrintStatus PROVE StatsInv'
  BY <1>5, CopyInv, LookupFailsInv, TickInv, SampleInv, PrintStatusInv
<1> QED
  BY <1>1, <1>2, <1>3, <1>4, <1>5 DEF Next

----------------------------------------------------------------------------
(* Types and spikes *)

\* However the CPUs, the readers and the attachments interleave, every variable of
\* the counters and their readers keeps the inductive invariant.
THEOREM StatsInvariant == Spec => []StatsInv
BY InitInv, StepInv, PTL DEF Spec

\* Collect() and the code that turns readings into rates stay within their types: a
\* reader never leaves the cells of the map, holds a map set that was created, and
\* no increase or rate is negative, whatever was torn down between two readings.
THEOREM TypeCorrect == Spec => []TypeOK
<1>1. StatsInv => TypeOK
  BY DEF StatsInv
<1> QED
  BY <1>1, StatsInvariant, PTL

\* detectSpike never learns a spike it called: it keeps the time it began, and ends only
\* with a rate below the one it began with.
THEOREM SpikesAreSustained == Spec => SpikeSustained
<1> DEFINE Kept == \A r \in Reasons : since[r] # 0 =>
                      \/ since'[r] = since[r]
                      \/ since'[r] = 0 /\ Rate(r) < raised[r]
<1>1. ASSUME StatsInv, [Next]_vars PROVE Kept
  <2>1. CASE UNCHANGED since
    BY <2>1
  <2>2. CASE Tick
    <3> SUFFICES ASSUME NEW r \in Reasons, since[r] # 0
                 PROVE  since'[r] = since[r] \/ (since'[r] = 0 /\ Rate(r) < raised[r])
      OBVIOUS
    <3>1. DetectSpikes
      BY <2>2 DEF Tick
    <3>2. CASE Judged(r) /\ baseline[r] # 0 /\ ~Spiking(r) /\ since'[r] = 0
      <4>1. raised[r] > MinRate /\ raised[r] > baseline[r] * Factor
        BY <1>1 DEF StatsInv, Standing
      <4>2. Rate(r) \in Nat
        BY <1>1, <3>2, RateTyped
      <4>3. raised[r] \in Nat /\ baseline[r] \in Nat /\ MinRate \in Nat /\ Factor \in Nat
        BY <1>1, StatsConstants DEF StatsInv, TypeOK
      <4>4. baseline[r] * Factor \in Nat
        BY <4>3
      <4>5. ~(Rate(r) > MinRate /\ Rate(r) > baseline[r] * Factor)
        BY <3>2, Zenon DEF Spiking
      <4> QED
        BY <3>2, <4>1, <4>2, <4>3, <4>4, <4>5
    <3>3. \/ since'[r] = since[r]
          \/ Judged(r) /\ baseline[r] # 0 /\ ~Spiking(r) /\ since'[r] = 0
      BY <1>1, <3>1, SpikeStep, Zenon
    <3> QED
      BY <3>2, <3>3
  <2>3. CASE \E c \in Cpus : Receive(c) \/ Bump(c)
    BY <2>1, <2>3 DEF Receive, Bump, spikes
  <2>4. CASE Detach \/ Attach
    BY <2>1, <2>4 DEF Detach, Attach, spikes
  <2>5. CASE \E dt \in site.intervals : Begin(dt) \/ Unavailable(dt)
    BY <2>1, <2>5 DEF Begin, Unavailable, spikes
  <2>6. CASE Copy \/ LookupFails \/ Sample \/ PrintStatus
    <3>1. UNCHANGED spikes
      BY <2>6, Zenon DEF Copy, LookupFails, Sample, PrintStatus
    <3> QED
      BY <2>1, <3>1 DEF spikes
  <2>7. CASE UNCHANGED vars
    BY <2>1, <2>7 DEF vars, spikes
  <2> QED
    BY <1>1, <2>2, <2>3, <2>4, <2>5, <2>6, <2>7 DEF Next
<1>2. ASSUME StatsInv, [Next]_vars PROVE [Kept]_vars
  BY <1>1, <1>2
<1> QED
  BY <1>2, StatsInvariant, PTL DEF Spec, SpikeSustained

----------------------------------------------------------------------------
(* The order of a reading *)

\* A finite set listed once lists every element, and none of them twice.
LEMMA ListedAll ==
    ASSUME NEW S, IsFiniteSet(S)
    PROVE  /\ \A i, j \in 1 .. Len(SetToSeq(S)) : SetToSeq(S)[i] = SetToSeq(S)[j] => i = j
           /\ \A x \in S : \E i \in 1 .. Len(SetToSeq(S)) : SetToSeq(S)[i] = x
<1> DEFINE n == Cardinality(S)
           l == SetToSeq(S)
<1>1. n \in Nat /\ ExistsBijection(1 .. n, S)
  BY FS_CardinalityType
<1>2. \E f \in [1 .. n -> S] : IsInjective(f)
  BY <1>1 DEF ExistsBijection, Bijection, Injection
<1>3. l \in [1 .. n -> S] /\ IsInjective(l)
  BY <1>2 DEF SetToSeq
<1>4. Len(l) = n
  BY <1>1, <1>3
<1>5. l \in Injection(1 .. n, S)
  BY <1>3 DEF Injection
<1>6. Cardinality(1 .. n) = n
  <2>1. \A b \in Int : Cardinality(1 .. b) = IF 1 > b THEN 0 ELSE b - 1 + 1
    BY FS_Interval
  <2> QED
    BY <1>1, <2>1
<1>7. l \in Surjection(1 .. n, S)
  BY <1>5, <1>6, FS_Injection
<1> HIDE DEF l
<1>8. \A i, j \in 1 .. n : l[i] = l[j] => i = j
  BY <1>3 DEF IsInjective
<1>9. \A x \in S : \E i \in 1 .. n : l[i] = x
  BY <1>7 DEF Surjection
<1> QED
  BY <1>4, <1>8, <1>9 DEF l

\* What Collect looks up and when: stats_global first, then one reason at a time,
\* then one VLAN at a time.
LookupAt(i) ==
    \/ i = 1 /\ Lookups[i] = {"g"} \X GlobalWords
    \/ i > 1 /\ \E r \in Reasons : Lookups[i] = {<<"reason", r>>}
    \/ i > 1 /\ \E v \in Vlans : Lookups[i] = {<<"vpkts", v>>, <<"vdrops", v>>}

\* Collect looks every counter up, and no counter twice.
LEMMA LookupsOnce ==
    /\ Len(Lookups) \in Nat
    /\ \A i \in 1 .. Len(Lookups) : LookupAt(i)
    /\ \A i, j \in 1 .. Len(Lookups) : \A k \in Counter : k \in Lookups[i] /\ k \in Lookups[j] => i = j
    /\ \A k \in Counter : \E i \in 1 .. Len(Lookups) : k \in Lookups[i]
<1> DEFINE RS == {{<<"reason", r>>} : r \in Reasons}
           VS == {{<<"vpkts", v>>, <<"vdrops", v>>} : v \in Vlans}
           R == ReasonElems
           V == VlanElems
           n == Len(R)
           m == Len(V)
           W == {"g"} \X GlobalWords
<1>1. R \in Seq(RS) /\ V \in Seq(VS)
  BY FiniteElements, ListedOnce DEF ReasonElems, VlanElems
<1>2. /\ \A i, j \in 1 .. n : R[i] = R[j] => i = j
      /\ \A x \in RS : \E i \in 1 .. n : R[i] = x
  BY FiniteElements, ListedAll DEF ReasonElems
<1>3. /\ \A i, j \in 1 .. m : V[i] = V[j] => i = j
      /\ \A x \in VS : \E i \in 1 .. m : V[i] = x
  BY FiniteElements, ListedAll DEF VlanElems
<1>4. /\ n \in Nat /\ m \in Nat
      /\ \A i \in 1 .. n : R[i] \in RS
      /\ \A i \in 1 .. m : V[i] \in VS
  <2>1. \A S : \A s \in Seq(S) : Len(s) \in Nat /\ \A i \in 1 .. Len(s) : s[i] \in S
    OBVIOUS
  <2> QED
    BY <1>1, <2>1, Zenon
<1>5. Lookups = <<W>> \o R \o V
  BY DEF Lookups, GlobalElem
<1>6. /\ Len(Lookups) = 1 + n + m
      /\ Lookups[1] = W
      /\ \A i \in 1 .. n : Lookups[i + 1] = R[i]
      /\ \A i \in 1 .. m : Lookups[i + n + 1] = V[i]
  <2>1. \A A, B, w : \A a \in Seq(A), b \in Seq(B) :
           /\ Len(<<w>> \o a \o b) = 1 + Len(a) + Len(b)
           /\ (<<w>> \o a \o b)[1] = w
           /\ \A i \in 1 .. Len(a) : (<<w>> \o a \o b)[i + 1] = a[i]
           /\ \A i \in 1 .. Len(b) : (<<w>> \o a \o b)[i + Len(a) + 1] = b[i]
    OBVIOUS
  <2> HIDE DEF R, V, RS, VS, W
  <2>2. /\ Len(<<W>> \o R \o V) = 1 + n + m
        /\ (<<W>> \o R \o V)[1] = W
        /\ \A i \in 1 .. n : (<<W>> \o R \o V)[i + 1] = R[i]
        /\ \A i \in 1 .. m : (<<W>> \o R \o V)[i + n + 1] = V[i]
    BY <1>1, <2>1
  <2> QED
    BY <1>5, <2>2
<1> HIDE DEF n, m, R, V
<1>7. ASSUME NEW i \in 1 .. 1 + n + m
      PROVE  \/ i = 1 /\ Lookups[i] = W
             \/ \E p \in 1 .. n : i = p + 1 /\ Lookups[i] = R[p]
             \/ \E p \in 1 .. m : i = p + n + 1 /\ Lookups[i] = V[p]
  <2>1. CASE i = 1
    BY <1>6, <2>1
  <2>2. CASE i \in 2 .. n + 1
    <3>1. i - 1 \in 1 .. n /\ i = (i - 1) + 1
      BY <1>4, <2>2
    <3> QED
      BY <1>6, <3>1
  <2>3. CASE i \in n + 2 .. 1 + n + m
    <3>1. i - n - 1 \in 1 .. m /\ i = (i - n - 1) + n + 1
      BY <1>4, <2>3
    <3> QED
      BY <1>6, <3>1
  <2> QED
    BY <1>4, <2>1, <2>2, <2>3
<1>8. ASSUME NEW p \in 1 .. n PROVE \E r \in Reasons : R[p] = {<<"reason", r>>}
  BY <1>4
<1>9. ASSUME NEW p \in 1 .. m PROVE \E v \in Vlans : V[p] = {<<"vpkts", v>>, <<"vdrops", v>>}
  BY <1>4
<1>10. ASSUME NEW i \in 1 .. 1 + n + m PROVE LookupAt(i)
  <2>1. CASE i = 1 /\ Lookups[i] = W
    BY <2>1 DEF LookupAt
  <2>2. ASSUME NEW p \in 1 .. n, i = p + 1, Lookups[i] = R[p] PROVE LookupAt(i)
    <3>1. i > 1
      BY <1>4, <2>2
    <3> QED
      BY <1>8, <2>2, <3>1 DEF LookupAt
  <2>3. ASSUME NEW p \in 1 .. m, i = p + n + 1, Lookups[i] = V[p] PROVE LookupAt(i)
    <3>1. i > 1
      BY <1>4, <2>3
    <3> QED
      BY <1>9, <2>3, <3>1 DEF LookupAt
  <2> QED
    BY <1>7, <2>1, <2>2, <2>3
<1>11. ASSUME NEW i \in 1 .. 1 + n + m, NEW j \in 1 .. 1 + n + m, NEW k \in Counter,
              k \in Lookups[i], k \in Lookups[j]
       PROVE  i = j
  <2>1. k \in W => k[1] = "g"
    OBVIOUS
  <2>2. \A p \in 1 .. n : k \in R[p] => k[1] = "reason" /\ R[p] = {k}
    BY <1>8
  <2>3. \A p \in 1 .. m : k \in V[p] => k[1] \in {"vpkts", "vdrops"}
                            /\ V[p] = {<<"vpkts", k[2]>>, <<"vdrops", k[2]>>}
    BY <1>9
  <2>4. CASE k[1] = "g"
    BY <1>7, <1>11, <2>2, <2>3, <2>4
  <2>5. CASE k[1] = "reason"
    <3>1. PICK p \in 1 .. n : i = p + 1 /\ k \in R[p]
      BY <1>7, <1>11, <2>1, <2>3, <2>5
    <3>2. PICK q \in 1 .. n : j = q + 1 /\ k \in R[q]
      BY <1>7, <1>11, <2>1, <2>3, <2>5
    <3>3. R[p] = R[q]
      BY <2>2, <3>1, <3>2
    <3>4. p = q
      BY <1>2, <3>3 DEF R, n
    <3> QED
      BY <3>1, <3>2, <3>4
  <2>6. CASE k[1] # "g" /\ k[1] # "reason"
    <3>1. PICK p \in 1 .. m : i = p + n + 1 /\ k \in V[p]
      BY <1>7, <1>11, <2>1, <2>2, <2>6
    <3>2. PICK q \in 1 .. m : j = q + n + 1 /\ k \in V[q]
      BY <1>7, <1>11, <2>1, <2>2, <2>6
    <3>3. V[p] = V[q]
      BY <2>3, <3>1, <3>2
    <3>4. p = q
      BY <1>3, <3>3 DEF V, m
    <3> QED
      BY <3>1, <3>2, <3>4
  <2> QED
    BY <2>4, <2>5, <2>6
<1>12. ASSUME NEW k \in Counter PROVE \E i \in 1 .. 1 + n + m : k \in Lookups[i]
  <2>1. CASE k \in W
    <3>1. 1 \in 1 .. 1 + n + m
      BY <1>4
    <3> QED
      BY <1>6, <2>1, <3>1
  <2>2. CASE k \in {"reason"} \X Reasons
    <3>1. {k} \in RS
      BY <2>2
    <3>2. PICK p \in 1 .. n : R[p] = {k}
      BY <1>2, <3>1 DEF R, n
    <3>3. p + 1 \in 1 .. 1 + n + m
      BY <1>4
    <3> QED
      BY <1>6, <3>2, <3>3
  <2>3. CASE k \in {"vpkts", "vdrops"} \X Vlans
    <3>1. PICK v \in Vlans : k \in {<<"vpkts", v>>, <<"vdrops", v>>}
      BY <2>3
    <3>2. {<<"vpkts", v>>, <<"vdrops", v>>} \in VS
      OBVIOUS
    <3>3. PICK p \in 1 .. m : V[p] = {<<"vpkts", v>>, <<"vdrops", v>>}
      BY <1>3, <3>2 DEF V, m
    <3>4. p + n + 1 \in 1 .. 1 + n + m
      BY <1>4
    <3> QED
      BY <1>6, <3>1, <3>3, <3>4
  <2> QED
    BY <2>1, <2>2, <2>3 DEF Counter
<1> QED
  BY <1>4, <1>6, <1>10, <1>11, <1>12

\* Quotient and remainder are unique, and a larger number has no smaller quotient.
LEMMA DivisionOrder ==
    ASSUME NEW n \in Nat, NEW p \in Nat, NEW q \in Nat, NEW a \in 0 .. n - 1, NEW b \in 0 .. n - 1,
           n * p + a <= n * q + b
    PROVE  p <= q /\ (n * p + a = n * q + b => p = q /\ a = b)
<1>1. ASSUME NEW x \in Nat, NEW y \in Nat, x < y PROVE n * x + n <= n * y
  <2>1. PICK d \in Nat : y = x + 1 + d
    <3>1. y - x - 1 \in Nat /\ y = x + 1 + (y - x - 1)
      BY <1>1
    <3> QED
      BY <3>1
  <2>2. n * y = n * x + n + n * d
    BY <2>1
  <2>3. n * d \in Nat /\ n * x \in Nat
    OBVIOUS
  <2> QED
    BY <2>2, <2>3
<1>2. n * p \in Nat /\ n * q \in Nat
  OBVIOUS
<1>3. ~(q < p)
  BY <1>1, <1>2
<1>4. n * p + a = n * q + b => ~(p < q)
  BY <1>1, <1>2
<1>5. p = q => n * p = n * q
  OBVIOUS
<1> QED
  BY <1>2, <1>3, <1>4, <1>5

\* A reading visits the lookups one after the other, and within a lookup every CPU
\* of the installation exactly once.
LEMMA CellsInOrder ==
    ASSUME site \in Sites
    PROVE  /\ \A j \in DOMAIN Cells :
                /\ Cells[j].lookup \in 1 .. Len(Lookups) /\ Cells[j].cpu \in site.cpus
                /\ Cells[j].words = Lookups[Cells[j].lookup]
           /\ \A i, j \in DOMAIN Cells : i <= j => Cells[i].lookup <= Cells[j].lookup
           /\ \A i, j \in DOMAIN Cells :
                Cells[i].lookup = Cells[j].lookup /\ Cells[i].cpu = Cells[j].cpu => i = j
           /\ \A i \in 1 .. Len(Lookups), c \in site.cpus :
                \E j \in DOMAIN Cells : Cells[j].lookup = i /\ Cells[j].cpu = c
<1> DEFINE cpu == SetToSeq(site.cpus)
           n == Len(cpu)
           L == Len(Lookups)
           Cell(j) == [lookup |-> 1 + ((j - 1) \div n), cpu |-> cpu[1 + ((j - 1) % n)],
                       words |-> Lookups[1 + ((j - 1) \div n)]]
<1>1. Cells = [j \in 1 .. L * n |-> Cell(j)]
  BY Zenon DEF Cells, CellsOf
<1>2. IsFiniteSet(site.cpus)
  <2>1. site.cpus \subseteq Cpus /\ IsFiniteSet(Cpus)
    BY StatsConstants
  <2> QED
    BY <2>1, FS_Subset
<1>3. n \in Nat /\ \A i \in 1 .. n : cpu[i] \in site.cpus
  <2>1. \A S : \A s \in Seq(S) : Len(s) \in Nat /\ \A i \in 1 .. Len(s) : s[i] \in S
    OBVIOUS
  <2> QED
    BY <1>2, <2>1, ListedOnce, Zenon
<1>4. /\ \A i, j \in 1 .. n : cpu[i] = cpu[j] => i = j
      /\ \A c \in site.cpus : \E i \in 1 .. n : cpu[i] = c
  BY <1>2, ListedAll
<1>5. L \in Nat
  BY LookupsOnce
<1> HIDE DEF cpu, n, L
<1>6. L * n \in Nat /\ n * L = L * n
  BY <1>3, <1>5
<1>7. ASSUME NEW j \in 1 .. L * n
      PROVE  \E q \in 0 .. L - 1, m \in 0 .. n - 1 :
               /\ j - 1 = n * q + m
               /\ Cells[j].lookup = 1 + q /\ Cells[j].cpu = cpu[1 + m] /\ Cells[j].words = Lookups[1 + q]
  <2>1. 1 + ((j - 1) \div n) \in 1 .. L /\ 1 + ((j - 1) % n) \in 1 .. n
    BY <1>3, <1>5, CellIndex
  <2>2. n # 0 /\ j - 1 \in Nat
    BY <1>3, <1>6, <2>1
  <2>3. j - 1 = n * ((j - 1) \div n) + ((j - 1) % n)
    BY <1>3, <2>2
  <2>4. (j - 1) \div n \in 0 .. L - 1 /\ (j - 1) % n \in 0 .. n - 1
    <3>1. (j - 1) \div n \in Int /\ (j - 1) % n \in Int
      BY <1>3, <2>2
    <3> QED
      BY <1>3, <1>5, <2>1, <3>1
  <2>5. Cells[j] = Cell(j)
    BY <1>1, Zenon
  <2>6. /\ Cells[j].lookup = 1 + ((j - 1) \div n) /\ Cells[j].cpu = cpu[1 + ((j - 1) % n)]
        /\ Cells[j].words = Lookups[1 + ((j - 1) \div n)]
    BY <2>5
  <2> QED
    BY <2>3, <2>4, <2>6
<1>8. DOMAIN Cells = 1 .. L * n
  BY <1>1, Zenon
<1>9. ASSUME NEW j \in 1 .. L * n
      PROVE  /\ Cells[j].lookup \in 1 .. L /\ Cells[j].cpu \in site.cpus
             /\ Cells[j].words = Lookups[Cells[j].lookup]
  BY <1>3, <1>5, <1>7
<1>10. ASSUME NEW i \in 1 .. L * n, NEW j \in 1 .. L * n, i <= j
       PROVE  Cells[i].lookup <= Cells[j].lookup
  <2>1. PICK p \in 0 .. L - 1, a \in 0 .. n - 1 : i - 1 = n * p + a /\ Cells[i].lookup = 1 + p
    BY <1>7
  <2>2. PICK q \in 0 .. L - 1, b \in 0 .. n - 1 : j - 1 = n * q + b /\ Cells[j].lookup = 1 + q
    BY <1>7
  <2>3. p \in Nat /\ q \in Nat /\ n * p + a <= n * q + b
    BY <1>10, <2>1, <2>2, <1>6
  <2>4. p <= q
    BY <1>3, <2>3, DivisionOrder
  <2> QED
    BY <2>1, <2>2, <2>3, <2>4
<1>11. ASSUME NEW i \in 1 .. L * n, NEW j \in 1 .. L * n,
              Cells[i].lookup = Cells[j].lookup, Cells[i].cpu = Cells[j].cpu
       PROVE  i = j
  <2>1. PICK p \in 0 .. L - 1, a \in 0 .. n - 1 :
          i - 1 = n * p + a /\ Cells[i].lookup = 1 + p /\ Cells[i].cpu = cpu[1 + a]
    BY <1>7
  <2>2. PICK q \in 0 .. L - 1, b \in 0 .. n - 1 :
          j - 1 = n * q + b /\ Cells[j].lookup = 1 + q /\ Cells[j].cpu = cpu[1 + b]
    BY <1>7
  <2>3. p = q
    <3>1. 1 + p = 1 + q
      BY <1>11, <2>1, <2>2
    <3>2. p \in Int /\ q \in Int
      OBVIOUS
    <3> QED
      BY <3>1, <3>2
  <2>4. 1 + a \in 1 .. n /\ 1 + b \in 1 .. n
    BY <1>3
  <2>5. 1 + a = 1 + b
    BY <1>4, <1>11, <2>1, <2>2, <2>4 DEF cpu, n
  <2>6. a = b
    BY <1>3, <2>5
  <2> QED
    BY <1>6, <2>1, <2>2, <2>3, <2>6
<1>12. ASSUME NEW i \in 1 .. L, NEW c \in site.cpus
       PROVE  \E j \in 1 .. L * n : Cells[j].lookup = i /\ Cells[j].cpu = c
  <2>1. PICK p \in 1 .. n : cpu[p] = c
    BY <1>4 DEF cpu, n
  <2> DEFINE j == n * (i - 1) + (p - 1) + 1
  <2>2. i - 1 \in Nat /\ p - 1 \in 0 .. n - 1
    BY <1>3, <1>5
  <2>3. j \in 1 .. L * n
    <3>1. n * (i - 1) \in Nat /\ n * (L - i) \in Nat
      BY <1>3, <1>5
    <3>2. L * n = n * (i - 1) + n + n * (L - i)
      BY <1>3, <1>5
    <3> QED
      BY <1>3, <1>6, <2>2, <3>1, <3>2
  <2>4. PICK q \in 0 .. L - 1, m \in 0 .. n - 1 :
          j - 1 = n * q + m /\ Cells[j].lookup = 1 + q /\ Cells[j].cpu = cpu[1 + m]
    BY <1>7, <2>3
  <2>5. n * (i - 1) + (p - 1) = n * q + m
    <3>1. n * (i - 1) \in Nat
      BY <1>3, <2>2
    <3> QED
      BY <2>2, <2>4, <3>1
  <2>6. i - 1 = q /\ p - 1 = m
    <3>1. q \in Nat /\ n * q + m <= n * q + m
      BY <1>3, <1>5
    <3> QED
      BY <1>3, <2>2, <2>5, <3>1, DivisionOrder
  <2>7. 1 + q = i /\ 1 + m = p
    BY <1>3, <1>5, <2>6
  <2> QED
    BY <2>1, <2>3, <2>4, <2>7
<1>13. \A i \in 1 .. L, c \in site.cpus : \E j \in DOMAIN Cells : Cells[j].lookup = i /\ Cells[j].cpu = c
  BY <1>8, <1>12
<1>14. \A i, j \in DOMAIN Cells : i <= j => Cells[i].lookup <= Cells[j].lookup
  BY <1>8, <1>10
<1>15. \A i, j \in DOMAIN Cells :
         Cells[i].lookup = Cells[j].lookup /\ Cells[i].cpu = Cells[j].cpu => i = j
  BY <1>8, <1>11, Zenon
<1>16. \A j \in DOMAIN Cells : /\ Cells[j].lookup \in 1 .. L /\ Cells[j].cpu \in site.cpus
                               /\ Cells[j].words = Lookups[Cells[j].lookup]
  BY <1>8, <1>9, Zenon
<1> QED
  BY <1>13, <1>14, <1>15, <1>16, Zenon DEF L

\* The CPUs whose copy of a counter is still to be read when cell p is the next.
Unread(p, k) ==
    {c \in site.cpus : \E j \in DOMAIN Cells : j >= p /\ Cells[j].cpu = c /\ k \in Cells[j].words}

\* The words of a cell, and when they are read.
LEMMA CellWords ==
    ASSUME site \in Sites, NEW j \in DOMAIN Cells
    PROVE  \/ Cells[j].lookup = 1 /\ Cells[j].words = {"g"} \X GlobalWords
           \/ Cells[j].lookup > 1 /\ \E r \in Reasons : Cells[j].words = {<<"reason", r>>}
           \/ Cells[j].lookup > 1 /\ \E v \in Vlans : Cells[j].words = {<<"vpkts", v>>, <<"vdrops", v>>}
<1>1. Cells[j].lookup \in 1 .. Len(Lookups) /\ Cells[j].words = Lookups[Cells[j].lookup]
  BY CellsInOrder
<1>2. LookupAt(Cells[j].lookup)
  BY <1>1, LookupsOnce
<1> QED
  BY <1>1, <1>2 DEF LookupAt

\* Two cells with a counter in common belong to one lookup.
LEMMA SameLookup ==
    ASSUME site \in Sites, NEW i \in DOMAIN Cells, NEW j \in DOMAIN Cells, NEW k \in Counter,
           k \in Cells[i].words, k \in Cells[j].words
    PROVE  Cells[i].lookup = Cells[j].lookup
<1>1. /\ Cells[i].lookup \in 1 .. Len(Lookups) /\ Cells[i].words = Lookups[Cells[i].lookup]
      /\ Cells[j].lookup \in 1 .. Len(Lookups) /\ Cells[j].words = Lookups[Cells[j].lookup]
  BY CellsInOrder
<1> QED
  BY <1>1, LookupsOnce

\* Every CPU's copy of every counter is in some cell.
LEMMA CellsCover ==
    ASSUME site \in Sites, NEW c \in site.cpus, NEW k \in Counter
    PROVE  \E j \in DOMAIN Cells : Cells[j].cpu = c /\ k \in Cells[j].words
<1>1. PICK i \in 1 .. Len(Lookups) : k \in Lookups[i]
  BY LookupsOnce
<1>2. PICK j \in DOMAIN Cells : Cells[j].lookup = i /\ Cells[j].cpu = c
  BY CellsInOrder
<1>3. Cells[j].words = Lookups[i]
  BY <1>2, CellsInOrder
<1> QED
  BY <1>1, <1>2, <1>3

\* At first everything is to be read.
LEMMA UnreadAtFirst ==
    ASSUME site \in Sites, NEW k \in Counter
    PROVE  Unread(1, k) = site.cpus
<1>1. \A j \in DOMAIN Cells : j >= 1
  BY CellsTyped
<1> QED
  BY <1>1, CellsCover DEF Unread

\* At last nothing is.
LEMMA UnreadAtLast ==
    ASSUME site \in Sites, NEW k \in Counter
    PROVE  Unread(Len(Cells) + 1, k) = {}
<1>1. \A j \in DOMAIN Cells : ~(j >= Len(Cells) + 1)
  BY CellsTyped
<1> QED
  BY <1>1 DEF Unread

\* Reading a cell reads one copy of each of its words, and nothing else.
LEMMA UnreadNext ==
    ASSUME site \in Sites, NEW p \in DOMAIN Cells, NEW k \in Counter
    PROVE  /\ k \in Cells[p].words => /\ Cells[p].cpu \in Unread(p, k)
                                      /\ Unread(p + 1, k) = Unread(p, k) \ {Cells[p].cpu}
           /\ k \notin Cells[p].words => Unread(p + 1, k) = Unread(p, k)
<1>1. Len(Cells) \in Nat /\ DOMAIN Cells = 1 .. Len(Cells)
  BY CellsTyped
<1>2. p >= p /\ \A j \in DOMAIN Cells : j >= p + 1 <=> j >= p /\ j # p
  BY <1>1
<1>3. Cells[p].cpu \in site.cpus
  BY CellsInOrder
<1>4. ASSUME k \notin Cells[p].words PROVE Unread(p + 1, k) = Unread(p, k)
  BY <1>2, <1>4 DEF Unread
<1>5. ASSUME k \in Cells[p].words
      PROVE  Cells[p].cpu \in Unread(p, k) /\ Unread(p + 1, k) = Unread(p, k) \ {Cells[p].cpu}
  <2>1. Cells[p].cpu \in Unread(p, k)
    BY <1>2, <1>3, <1>5 DEF Unread
  <2>2. ASSUME NEW j \in DOMAIN Cells, k \in Cells[j].words, Cells[j].cpu = Cells[p].cpu PROVE j = p
    <3>1. Cells[j].lookup = Cells[p].lookup
      BY <1>5, <2>2, SameLookup
    <3> QED
      BY <2>2, <3>1, CellsInOrder
  <2>3. ASSUME NEW c \in Unread(p + 1, k) PROVE c \in Unread(p, k) /\ c # Cells[p].cpu
    <3>1. PICK j \in DOMAIN Cells : j >= p + 1 /\ Cells[j].cpu = c /\ k \in Cells[j].words
      BY DEF Unread
    <3> QED
      BY <1>2, <2>2, <3>1 DEF Unread
  <2>4. ASSUME NEW c \in Unread(p, k), c # Cells[p].cpu PROVE c \in Unread(p + 1, k)
    <3>1. PICK j \in DOMAIN Cells : j >= p /\ Cells[j].cpu = c /\ k \in Cells[j].words
      BY DEF Unread
    <3> QED
      BY <1>2, <2>4, <3>1 DEF Unread
  <2> QED
    BY <2>1, <2>3, <2>4
<1> QED
  BY <1>4, <1>5

\* A CPU whose drops are still to be read has all its reasons still to be read:
\* Collect reads stats_global first.
LEMMA ReasonsRemain ==
    ASSUME site \in Sites, NEW p, NEW w \in GlobalWords, NEW r \in Reasons, NEW c \in Unread(p, G(w)),
           p \in Nat
    PROVE  c \in Unread(p, <<"reason", r>>)
<1>1. PICK i \in DOMAIN Cells : i >= p /\ Cells[i].cpu = c /\ G(w) \in Cells[i].words
  BY DEF Unread
<1>2. <<"reason", r>> \in Counter /\ c \in site.cpus
  BY DEF Counter, Unread
<1>3. PICK j \in DOMAIN Cells : Cells[j].cpu = c /\ <<"reason", r>> \in Cells[j].words
  BY <1>2, CellsCover
<1>4. Cells[i].lookup = 1
  BY <1>1, CellWords DEF G
<1>5. Cells[j].lookup > 1 /\ Cells[j].lookup \in Int
  <2>1. Cells[j].lookup \in Int
    BY CellsInOrder
  <2>2. ~(<<"reason", r>> \in {"g"} \X GlobalWords)
    OBVIOUS
  <2> QED
    BY <1>3, <2>1, <2>2, CellWords
<1>6. ~(j <= i)
  BY <1>4, <1>5, CellsInOrder
<1>7. DOMAIN Cells = 1 .. Len(Cells) /\ Len(Cells) \in Nat
  BY CellsTyped
<1>8. j >= p
  BY <1>1, <1>6, <1>7
<1> QED
  BY <1>2, <1>3, <1>8 DEF Unread

\* A lookup that fails passes over the cells of its element only: none of its words
\* is still to be read then, and nothing else has been skipped.
LEMMA UnreadSkip ==
    ASSUME site \in Sites, NEW p \in DOMAIN Cells, NEW k \in Counter, NEW q,
           q = 1 + Cardinality({i \in DOMAIN Cells : Cells[i].lookup <= Cells[p].lookup})
    PROVE  /\ q \in Nat /\ q > p
           /\ k \in Cells[p].words => Unread(q, k) = {}
           /\ k \notin Cells[p].words => Unread(q, k) = Unread(p, k)
<1> DEFINE D == {i \in DOMAIN Cells : Cells[i].lookup <= Cells[p].lookup}
           m == Cardinality(D)
<1>1. Len(Cells) \in Nat /\ DOMAIN Cells = 1 .. Len(Cells)
  BY CellsTyped
<1>2. \A j \in DOMAIN Cells : Cells[j].lookup \in Int
  BY CellsInOrder
<1>3. \A i, j \in DOMAIN Cells : i <= j => Cells[i].lookup <= Cells[j].lookup
  BY CellsInOrder
<1>4. /\ \A b \in Int : IsFiniteSet(1 .. b)
      /\ \A b \in Nat : Cardinality(1 .. b) = b
  <2>1. \A b \in Int : IsFiniteSet(1 .. b) /\ Cardinality(1 .. b) = IF 1 > b THEN 0 ELSE b - 1 + 1
    BY FS_Interval
  <2> QED
    BY <2>1
<1>5. IsFiniteSet(D) /\ m \in Nat
  <2>1. IsFiniteSet(1 .. Len(Cells)) /\ D \in SUBSET (1 .. Len(Cells))
    BY <1>1, <1>4
  <2>2. IsFiniteSet(D)
    BY <2>1, FS_Subset
  <2> QED
    BY <2>2, FS_CardinalityType
<1>6. ASSUME NEW i \in DOMAIN Cells PROVE i \in D <=> i <= m
  <2>1. ASSUME i \in D PROVE i <= m
    <3>1. 1 .. i \in SUBSET D
      <4> SUFFICES ASSUME NEW j \in 1 .. i PROVE j \in D
        OBVIOUS
      <4>1. j \in DOMAIN Cells /\ j <= i
        BY <1>1
      <4>2. Cells[j].lookup <= Cells[i].lookup
        BY <1>3, <4>1
      <4> QED
        BY <1>2, <2>1, <4>1, <4>2
    <3>2. Cardinality(1 .. i) <= Cardinality(D)
      BY <1>5, <3>1, FS_Subset
    <3> QED
      BY <1>1, <1>4, <3>2
  <2>2. ASSUME i \notin D PROVE ~(i <= m)
    <3>1. D \in SUBSET (1 .. i - 1)
      <4> SUFFICES ASSUME NEW j \in D, ~(j <= i - 1) PROVE FALSE
        BY <1>1
      <4>1. j \in DOMAIN Cells /\ i <= j
        BY <1>1
      <4>2. Cells[i].lookup <= Cells[j].lookup
        BY <1>3, <4>1
      <4> QED
        BY <1>2, <2>2, <4>1, <4>2
    <3>2. i - 1 \in Nat /\ IsFiniteSet(1 .. i - 1) /\ Cardinality(1 .. i - 1) = i - 1
      BY <1>1, <1>4
    <3>3. Cardinality(D) <= Cardinality(1 .. i - 1)
      BY <3>1, <3>2, FS_Subset
    <3> QED
      BY <1>1, <1>5, <3>2, <3>3
  <2> QED
    BY <2>1, <2>2
<1>7. q = 1 + m
  OBVIOUS
<1> HIDE DEF m
<1>8. ASSUME NEW i \in DOMAIN Cells PROVE i >= q <=> ~(Cells[i].lookup <= Cells[p].lookup)
  BY <1>1, <1>5, <1>6, <1>7
<1>9. q \in Nat /\ q > p
  <2>1. p \in D
    BY <1>2
  <2> QED
    BY <1>1, <1>5, <1>6, <1>7, <2>1
<1> HIDE DEF D
<1>10. ASSUME k \in Cells[p].words PROVE Unread(q, k) = {}
  <2> SUFFICES ASSUME NEW j \in DOMAIN Cells, j >= q, k \in Cells[j].words PROVE FALSE
    BY DEF Unread
  <2>1. Cells[j].lookup = Cells[p].lookup
    BY <1>10, SameLookup
  <2> QED
    BY <1>2, <1>8, <2>1
<1>11. ASSUME k \notin Cells[p].words PROVE Unread(q, k) = Unread(p, k)
  <2>1. ASSUME NEW j \in DOMAIN Cells, k \in Cells[j].words PROVE j >= q <=> j >= p
    <3>1. ASSUME j >= p, ~(j >= q) PROVE FALSE
      <4>1. Cells[j].lookup <= Cells[p].lookup
        BY <1>8, <3>1
      <4>2. Cells[p].lookup <= Cells[j].lookup
        BY <1>1, <1>3, <3>1
      <4>3. Cells[j].lookup = Cells[p].lookup
        BY <1>2, <4>1, <4>2
      <4>4. Cells[j].words = Cells[p].words
        BY <4>3, CellsInOrder
      <4> QED
        BY <1>11, <2>1, <4>4
    <3> QED
      BY <1>1, <1>9, <3>1
  <2> QED
    BY <2>1 DEF Unread
<1> QED
  BY <1>9, <1>10, <1>11

----------------------------------------------------------------------------
(* The order of a frame's bumps *)

\* The two counters that a reason must account for.
Answer == {G("drop"), G("rst")}

\* A frame bumps no counter twice, and a drop or a reset right after its reason.
InOrder(l) ==
    /\ \A i, j \in 1 .. Len(l) : l[i] = l[j] => i = j
    /\ \A i \in 2 .. Len(l) : l[i] \in Answer => l[i - 1][1] = "reason"

\* Only CPUs of the installation handle frames.
Orderly == \A c \in Cpus : (todo[c].left # <<>> => c \in site.cpus) /\ InOrder(todo[c].left)

\* The CPUs that are about to bump a counter.
Pending(k) == {c \in Cpus : k \in Range(todo[c].left)}

\* Two different counters, the second neither a drop nor a reset, are in order.
LEMMA TwoInOrder ==
    ASSUME NEW l, Len(l) = 2, l[1] # l[2], l[2] \notin Answer
    PROVE  InOrder(l)
<1>1. \A i \in 1 .. Len(l) : i = 1 \/ i = 2
  OBVIOUS
<1>2. \A i, j \in 1 .. Len(l) : l[i] = l[j] => i = j
  BY <1>1
<1>3. \A i \in 2 .. Len(l) : (i = 2 /\ i - 1 = 1)
  OBVIOUS
<1>4. \A i \in 2 .. Len(l) : l[i] \in Answer => l[i - 1][1] = "reason"
  BY <1>3
<1> QED
  BY <1>2, <1>4 DEF InOrder

\* So are three,
LEMMA ThreeInOrder ==
    ASSUME NEW l, Len(l) = 3, l[1] # l[2], l[1] # l[3], l[2] # l[3], l[2] \notin Answer,
           l[3] \notin Answer
    PROVE  InOrder(l)
<1>1. \A i \in 1 .. Len(l) : i = 1 \/ i = 2 \/ i = 3
  OBVIOUS
<1>2. \A i, j \in 1 .. Len(l) : l[i] = l[j] => i = j
  BY <1>1
<1>3. \A i \in 2 .. Len(l) : (i = 2 /\ i - 1 = 1) \/ (i = 3 /\ i - 1 = 2)
  OBVIOUS
<1>4. \A i \in 2 .. Len(l) : l[i] \in Answer => l[i - 1][1] = "reason"
  BY <1>3
<1> QED
  BY <1>2, <1>4 DEF InOrder

\* four, when the last one may follow a reason,
LEMMA FourInOrder ==
    ASSUME NEW l, Len(l) = 4, l[1] # l[2], l[1] # l[3], l[1] # l[4], l[2] # l[3], l[2] # l[4],
           l[3] # l[4], l[2] \notin Answer, l[3] \notin Answer,
           l[4] \in Answer => l[3][1] = "reason"
    PROVE  InOrder(l)
<1>1. \A i \in 1 .. Len(l) : i = 1 \/ i = 2 \/ i = 3 \/ i = 4
  OBVIOUS
<1>2. \A i, j \in 1 .. Len(l) : l[i] = l[j] => i = j
  BY <1>1
<1>3. \A i \in 2 .. Len(l) : (i = 2 /\ i - 1 = 1) \/ (i = 3 /\ i - 1 = 2) \/ (i = 4 /\ i - 1 = 3)
  OBVIOUS
<1>4. \A i \in 2 .. Len(l) : l[i] \in Answer => l[i - 1][1] = "reason"
  BY <1>3
<1> QED
  BY <1>2, <1>4 DEF InOrder

\* and five.
LEMMA FiveInOrder ==
    ASSUME NEW l, Len(l) = 5, l[1] # l[2], l[1] # l[3], l[1] # l[4], l[1] # l[5], l[2] # l[3],
           l[2] # l[4], l[2] # l[5], l[3] # l[4], l[3] # l[5], l[4] # l[5],
           l[2] \notin Answer, l[3] \notin Answer, l[5] \notin Answer,
           l[4] \in Answer => l[3][1] = "reason"
    PROVE  InOrder(l)
<1>1. \A i \in 1 .. Len(l) : i = 1 \/ i = 2 \/ i = 3 \/ i = 4 \/ i = 5
  OBVIOUS
<1>2. \A i, j \in 1 .. Len(l) : l[i] = l[j] => i = j
  BY <1>1
<1>3. \A i \in 2 .. Len(l) : (i = 2 /\ i - 1 = 1) \/ (i = 3 /\ i - 1 = 2) \/ (i = 4 /\ i - 1 = 3) \/ (i = 5 /\ i - 1 = 4)
  OBVIOUS
<1>4. \A i \in 2 .. Len(l) : l[i] \in Answer => l[i - 1][1] = "reason"
  BY <1>3
<1> QED
  BY <1>2, <1>4 DEF InOrder

\* The sequence that each outcome bumps.
LEMMA BumpsOf ==
    ASSUME NEW o, NEW r, NEW v
    PROVE  LET seen == <<G("rx"), <<"vpkts", v>>>> IN
           /\ o = "forward" => Bumps(o, r, v) = seen \o <<G("redir")>>
           /\ o \in {"other", "l1"} => Bumps(o, r, v) = seen \o <<G(o), G("redir")>>
           /\ o = "mapfail" => Bumps(o, r, v) = seen \o <<<<"reason", MapFail>>, G("redir")>>
           /\ o = "drop" => Bumps(o, r, v) = seen \o <<<<"reason", r>>, G("drop"), <<"vdrops", v>>>>
           /\ o = "monitor" => Bumps(o, r, v) = seen \o <<<<"reason", r>>, G("redir")>>
           /\ o = "rst" => Bumps(o, r, v) = seen \o <<<<"reason", r>>, G("rst")>>
           /\ o = "bootstrap" => Bumps(o, r, v) = seen \o <<>>
<1> DEFINE rest == CASE o = "forward"   -> <<G("redir")>>
                     [] o \in {"other", "l1"} -> <<G(o), G("redir")>>
                     [] o = "mapfail"   -> <<<<"reason", MapFail>>, G("redir")>>
                     [] o = "drop"      -> <<<<"reason", r>>, G("drop"), <<"vdrops", v>>>>
                     [] o = "monitor"   -> <<<<"reason", r>>, G("redir")>>
                     [] o = "rst"       -> <<<<"reason", r>>, G("rst")>>
                     [] o = "bootstrap" -> <<>>
<1>1. Bumps(o, r, v) = <<G("rx"), <<"vpkts", v>>>> \o rest
  BY Zenon DEF Bumps, RstReply
<1>2. o = "forward" => rest = <<G("redir")>>
  OBVIOUS
<1>3. o \in {"other", "l1"} => rest = <<G(o), G("redir")>>
  OBVIOUS
<1>4. o = "mapfail" => rest = <<<<"reason", MapFail>>, G("redir")>>
  OBVIOUS
<1>5. o = "drop" => rest = <<<<"reason", r>>, G("drop"), <<"vdrops", v>>>>
  OBVIOUS
<1>6. o = "monitor" => rest = <<<<"reason", r>>, G("redir")>>
  OBVIOUS
<1>7. o = "rst" => rest = <<<<"reason", r>>, G("rst")>>
  OBVIOUS
<1>8. o = "bootstrap" => rest = <<>>
  OBVIOUS
<1> HIDE DEF rest
<1> QED
  BY <1>1, <1>2, <1>3, <1>4, <1>5, <1>6, <1>7, <1>8, Zenon

\* Every path through do_drop, do_drop_tcp and the forwarding code bumps its counters
\* in order, beginning with rx.
LEMMA BumpsInOrder ==
    ASSUME NEW o \in Outcomes, NEW r \in Reasons, NEW v \in Vlans
    PROVE  /\ InOrder(Bumps(o, r, v))
           /\ Bumps(o, r, v) # <<>> /\ Head(Bumps(o, r, v)) = G("rx")
<1> DEFINE l == Bumps(o, r, v)
<1>1. CASE o = "forward"
  <2> DEFINE a == G("rx")
             b == <<"vpkts", v>>
             c == G("redir")
  <2>1. l = <<a, b>> \o <<c>>
    BY <1>1, BumpsOf, Zenon
  <2>2. /\ a # b /\ a # c /\ b # c
        /\ b \notin Answer /\ c \notin Answer
    BY <1>1 DEF G, Answer
  <2>3. a = G("rx")
    OBVIOUS
  <2> HIDE DEF l, a, b, c
  <2>4. Len(l) = 3 /\ l # <<>> /\ Head(l) = a
    BY <2>1
  <2>5. l[1] = a /\ l[2] = b /\ l[3] = c
    BY <2>1
  <2>6. InOrder(l)
    BY <2>2, <2>4, <2>5, ThreeInOrder
  <2> QED
    BY <2>3, <2>4, <2>6, Zenon DEF l
<1>2. CASE o \in {"other", "l1"}
  <2> DEFINE a == G("rx")
             b == <<"vpkts", v>>
             c == G(o)
             d == G("redir")
  <2>1. l = <<a, b>> \o <<c, d>>
    BY <1>2, BumpsOf, Zenon
  <2>2. /\ a # b /\ a # c /\ a # d /\ b # c /\ b # d /\ c # d
        /\ b \notin Answer /\ c \notin Answer /\ (d \in Answer => c[1] = "reason")
    BY <1>2 DEF G, Answer
  <2>3. a = G("rx")
    OBVIOUS
  <2> HIDE DEF l, a, b, c, d
  <2>4. Len(l) = 4 /\ l # <<>> /\ Head(l) = a
    BY <2>1
  <2>5. l[1] = a /\ l[2] = b /\ l[3] = c /\ l[4] = d
    BY <2>1
  <2>6. InOrder(l)
    BY <2>2, <2>4, <2>5, FourInOrder
  <2> QED
    BY <2>3, <2>4, <2>6, Zenon DEF l
<1>3. CASE o = "mapfail"
  <2> DEFINE a == G("rx")
             b == <<"vpkts", v>>
             c == <<"reason", MapFail>>
             d == G("redir")
  <2>1. l = <<a, b>> \o <<c, d>>
    BY <1>3, BumpsOf, Zenon
  <2>2. /\ a # b /\ a # c /\ a # d /\ b # c /\ b # d /\ c # d
        /\ b \notin Answer /\ c \notin Answer /\ (d \in Answer => c[1] = "reason")
    BY <1>3 DEF G, Answer
  <2>3. a = G("rx")
    OBVIOUS
  <2> HIDE DEF l, a, b, c, d
  <2>4. Len(l) = 4 /\ l # <<>> /\ Head(l) = a
    BY <2>1
  <2>5. l[1] = a /\ l[2] = b /\ l[3] = c /\ l[4] = d
    BY <2>1
  <2>6. InOrder(l)
    BY <2>2, <2>4, <2>5, FourInOrder
  <2> QED
    BY <2>3, <2>4, <2>6, Zenon DEF l
<1>4. CASE o = "drop"
  <2> DEFINE a == G("rx")
             b == <<"vpkts", v>>
             c == <<"reason", r>>
             d == G("drop")
             e == <<"vdrops", v>>
  <2>1. l = <<a, b>> \o <<c, d, e>>
    BY <1>4, BumpsOf, Zenon
  <2>2. /\ a # b /\ a # c /\ a # d /\ a # e /\ b # c /\ b # d /\ b # e /\ c # d /\ c # e /\ d # e
        /\ b \notin Answer /\ c \notin Answer /\ e \notin Answer /\ (d \in Answer => c[1] = "reason")
    BY <1>4 DEF G, Answer
  <2>3. a = G("rx")
    OBVIOUS
  <2> HIDE DEF l, a, b, c, d, e
  <2>4. Len(l) = 5 /\ l # <<>> /\ Head(l) = a
    BY <2>1
  <2>5. l[1] = a /\ l[2] = b /\ l[3] = c /\ l[4] = d /\ l[5] = e
    BY <2>1
  <2>6. InOrder(l)
    BY <2>2, <2>4, <2>5, FiveInOrder
  <2> QED
    BY <2>3, <2>4, <2>6, Zenon DEF l
<1>5. CASE o = "monitor"
  <2> DEFINE a == G("rx")
             b == <<"vpkts", v>>
             c == <<"reason", r>>
             d == G("redir")
  <2>1. l = <<a, b>> \o <<c, d>>
    BY <1>5, BumpsOf, Zenon
  <2>2. /\ a # b /\ a # c /\ a # d /\ b # c /\ b # d /\ c # d
        /\ b \notin Answer /\ c \notin Answer /\ (d \in Answer => c[1] = "reason")
    BY <1>5 DEF G, Answer
  <2>3. a = G("rx")
    OBVIOUS
  <2> HIDE DEF l, a, b, c, d
  <2>4. Len(l) = 4 /\ l # <<>> /\ Head(l) = a
    BY <2>1
  <2>5. l[1] = a /\ l[2] = b /\ l[3] = c /\ l[4] = d
    BY <2>1
  <2>6. InOrder(l)
    BY <2>2, <2>4, <2>5, FourInOrder
  <2> QED
    BY <2>3, <2>4, <2>6, Zenon DEF l
<1>6. CASE o = "rst"
  <2> DEFINE a == G("rx")
             b == <<"vpkts", v>>
             c == <<"reason", r>>
             d == G("rst")
  <2>1. l = <<a, b>> \o <<c, d>>
    BY <1>6, BumpsOf, Zenon
  <2>2. /\ a # b /\ a # c /\ a # d /\ b # c /\ b # d /\ c # d
        /\ b \notin Answer /\ c \notin Answer /\ (d \in Answer => c[1] = "reason")
    BY <1>6 DEF G, Answer
  <2>3. a = G("rx")
    OBVIOUS
  <2> HIDE DEF l, a, b, c, d
  <2>4. Len(l) = 4 /\ l # <<>> /\ Head(l) = a
    BY <2>1
  <2>5. l[1] = a /\ l[2] = b /\ l[3] = c /\ l[4] = d
    BY <2>1
  <2>6. InOrder(l)
    BY <2>2, <2>4, <2>5, FourInOrder
  <2> QED
    BY <2>3, <2>4, <2>6, Zenon DEF l
<1>7. CASE o = "bootstrap"
  <2> DEFINE a == G("rx")
             b == <<"vpkts", v>>
  <2>1. l = <<a, b>> \o <<>>
    BY <1>7, BumpsOf, Zenon
  <2>2. /\ a # b
        /\ b \notin Answer
    BY <1>7 DEF G, Answer
  <2>3. a = G("rx")
    OBVIOUS
  <2> HIDE DEF l, a, b
  <2>4. Len(l) = 2 /\ l # <<>> /\ Head(l) = a
    BY <2>1
  <2>5. l[1] = a /\ l[2] = b
    BY <2>1
  <2>6. InOrder(l)
    BY <2>2, <2>4, <2>5, TwoInOrder
  <2> QED
    BY <2>3, <2>4, <2>6, Zenon DEF l
<1> QED
  BY <1>1, <1>2, <1>3, <1>4, <1>5, <1>6, <1>7 DEF Outcomes

\* Bumping the first of the counters leaves the others in order.
LEMMA TailInOrder ==
    ASSUME NEW l \in Seq(Counter), l # <<>>, InOrder(l)
    PROVE  /\ InOrder(Tail(l))
           /\ Head(l) \in Range(l) /\ Range(Tail(l)) = Range(l) \ {Head(l)}
           /\ Tail(l) # <<>> /\ Head(Tail(l)) \in Answer => Head(l)[1] = "reason"
<1>1. /\ Len(l) \in Nat /\ Len(l) > 0 /\ DOMAIN l = 1 .. Len(l) /\ Head(l) = l[1]
      /\ Len(Tail(l)) = Len(l) - 1 /\ DOMAIN Tail(l) = 1 .. Len(l) - 1
      /\ \A i \in 1 .. Len(l) - 1 : Tail(l)[i] = l[i + 1]
  OBVIOUS
<1>2. \A i \in 1 .. Len(l) - 1 : i + 1 \in 1 .. Len(l) /\ i + 1 # 1
  BY <1>1
<1>3. \A i \in 1 .. Len(l) : i = 1 \/ i - 1 \in 1 .. Len(l) - 1
  BY <1>1
<1>4. \A i, j \in 1 .. Len(l) : l[i] = l[j] => i = j
  BY DEF InOrder
<1>5. \A i \in 2 .. Len(l) : l[i] \in Answer => l[i - 1][1] = "reason"
  BY DEF InOrder
<1>6. ASSUME NEW i \in 1 .. Len(Tail(l)), NEW j \in 1 .. Len(Tail(l)), Tail(l)[i] = Tail(l)[j]
      PROVE  i = j
  <2>1. l[i + 1] = l[j + 1] /\ i + 1 \in 1 .. Len(l) /\ j + 1 \in 1 .. Len(l)
    BY <1>1, <1>2, <1>6
  <2>2. i + 1 = j + 1
    BY <1>4, <2>1
  <2> QED
    BY <1>1, <2>2
<1>7. ASSUME NEW i \in 2 .. Len(Tail(l)), Tail(l)[i] \in Answer
      PROVE  Tail(l)[i - 1][1] = "reason"
  <2>1. i \in 1 .. Len(l) - 1 /\ i - 1 \in 1 .. Len(l) - 1 /\ i + 1 \in 2 .. Len(l) /\ (i - 1) + 1 = (i + 1) - 1
    BY <1>1
  <2>2. Tail(l)[i] = l[i + 1] /\ Tail(l)[i - 1] = l[(i + 1) - 1]
    BY <1>1, <2>1
  <2> QED
    BY <1>5, <1>7, <2>1, <2>2
<1>8. InOrder(Tail(l))
  BY <1>6, <1>7 DEF InOrder
<1>9. Head(l) \in Range(l)
  BY <1>1 DEF Range
<1>10. ASSUME NEW k \in Range(Tail(l)) PROVE k \in Range(l) /\ k # Head(l)
  <2>1. PICK i \in 1 .. Len(l) - 1 : k = l[i + 1]
    BY <1>1 DEF Range
  <2>2. i + 1 \in 1 .. Len(l) /\ i + 1 # 1 /\ 1 \in 1 .. Len(l)
    BY <1>1, <1>2
  <2> QED
    BY <1>1, <1>4, <2>1, <2>2 DEF Range
<1>11. ASSUME NEW k \in Range(l), k # Head(l) PROVE k \in Range(Tail(l))
  <2>1. PICK i \in 1 .. Len(l) : k = l[i]
    BY <1>1 DEF Range
  <2>2. i - 1 \in 1 .. Len(l) - 1 /\ (i - 1) + 1 = i
    BY <1>1, <1>3, <1>11, <2>1
  <2>3. Tail(l)[i - 1] = k
    BY <1>1, <2>1, <2>2
  <2> QED
    BY <1>1, <2>2, <2>3 DEF Range
<1>12. ASSUME Tail(l) # <<>>, Head(Tail(l)) \in Answer PROVE Head(l)[1] = "reason"
  <2>1. Tail(l) \in Seq(Counter)
    OBVIOUS
  <2>2. Len(Tail(l)) > 0 /\ Head(Tail(l)) = Tail(l)[1]
    BY <1>12, <2>1
  <2>3. 2 \in 2 .. Len(l) /\ 1 \in 1 .. Len(l) - 1 /\ Tail(l)[1] = l[2]
    BY <1>1, <2>2
  <2>4. l[2 - 1][1] = "reason"
    BY <1>5, <1>12, <2>2, <2>3
  <2> QED
    BY <1>1, <2>4
<1> QED
  BY <1>8, <1>9, <1>10, <1>11, <1>12

----------------------------------------------------------------------------
(* Sums of a counter's copies *)

\* What the reader's map set holds of a counter: in the copies still to be read, and
\* in all of them.
Ahead(k) == SumFunctionOnSet(Copies(k), {reading} \X Unread(at, k))
Whole(k) == SumFunctionOnSet(Copies(k), {reading} \X site.cpus)

\* The installation has finitely many copies of a counter, each a natural number.
LEMMA CopiesTyped ==
    ASSUME StatsInv, NEW k \in Counter
    PROVE  /\ IsFiniteSet(MapSet \X Cpus)
           /\ \A x \in MapSet \X Cpus : Copies(k)[x] \in Nat
<1>1. site \in Sites /\ site.swaps \in Nat /\ IsFiniteSet(Cpus)
  BY SiteFacts, StatsConstants DEF StatsInv, TypeOK
<1>2. IsFiniteSet(MapSet)
  <2>1. \A b \in Int : IsFiniteSet(1 .. b)
    BY FS_Interval
  <2> QED
    BY <1>1, <2>1 DEF MapSet
<1>3. IsFiniteSet(MapSet \X Cpus)
  BY <1>1, <1>2, FS_Product
<1>4. ctr \in [MapSet -> [Cpus -> [Counter -> Nat]]]
  BY DEF StatsInv, TypeOK
<1>5. ASSUME NEW x \in MapSet \X Cpus PROVE Copies(k)[x] \in Nat
  <2>1. x[1] \in MapSet /\ x[2] \in Cpus
    OBVIOUS
  <2>2. ctr[x[1]][x[2]][k] \in Nat
    BY <1>4, <2>1
  <2> QED
    BY <2>2, Zenon DEF Copies
<1> QED
  BY <1>3, <1>5

\* Any copies of a counter add up to a natural number, and to no more than any
\* larger set of them.
LEMMA CopiesSum ==
    ASSUME StatsInv, NEW k \in Counter, NEW Y \in SUBSET (MapSet \X Cpus), NEW X \in SUBSET Y
    PROVE  /\ IsFiniteSet(X) /\ \A x \in X : Copies(k)[x] \in Nat
           /\ SumFunctionOnSet(Copies(k), X) \in Nat
           /\ SumFunctionOnSet(Copies(k), Y) \in Nat
           /\ SumFunctionOnSet(Copies(k), X) <= SumFunctionOnSet(Copies(k), Y)
<1>1. \A x \in MapSet \X Cpus : Copies(k)[x] \in Nat
  BY CopiesTyped
<1>2. IsFiniteSet(X) /\ IsFiniteSet(Y)
  <2>1. IsFiniteSet(MapSet \X Cpus)
    BY CopiesTyped
  <2> QED
    BY <2>1, FS_Subset
<1>3. /\ \A x \in Y : Copies(k)[x] \in Nat
      /\ \A x \in X : Copies(k)[x] \in Nat /\ Copies(k)[x] <= Copies(k)[x]
  BY <1>1
<1>4. SumFunctionOnSet(Copies(k), X) <= SumFunctionOnSet(Copies(k), Y)
  BY <1>2, <1>3, SumMonotone
<1>5. SumFunctionOnSet(Copies(k), X) \in Nat /\ SumFunctionOnSet(Copies(k), Y) \in Nat
  BY <1>2, <1>3, SumTyped
<1> QED
  BY <1>2, <1>3, <1>4, <1>5

\* What is still to be read is part of what the reader's maps hold, and that part of
\* all that was ever counted.
LEMMA Totals ==
    ASSUME StatsInv, NEW k \in Counter
    PROVE  /\ Ahead(k) \in Nat /\ Whole(k) \in Nat /\ Events[k] \in Nat
           /\ Ahead(k) <= Whole(k) /\ Whole(k) <= Events[k]
           /\ {reading} \X Unread(at, k) \in SUBSET (MapSet \X Cpus)
           /\ {reading} \X site.cpus \in SUBSET (MapSet \X Cpus)
           /\ {reading} \X Unread(at, k) \in SUBSET ({reading} \X site.cpus)
<1>1. reading \in MapSet /\ site \in Sites
  BY ReaderFacts
<1>2. site.cpus \subseteq Cpus
  BY <1>1, StatsConstants
<1>3. Unread(at, k) \subseteq site.cpus
  BY DEF Unread
<1>4. /\ {reading} \X Unread(at, k) \in SUBSET (MapSet \X Cpus)
      /\ {reading} \X site.cpus \in SUBSET (MapSet \X Cpus)
      /\ {reading} \X Unread(at, k) \in SUBSET ({reading} \X site.cpus)
      /\ MapSet \X Cpus \in SUBSET (MapSet \X Cpus)
  BY <1>1, <1>2, <1>3
<1>5. Ahead(k) \in Nat /\ Whole(k) \in Nat /\ Ahead(k) <= Whole(k)
  BY <1>4, CopiesSum DEF Ahead, Whole
<1>6. Events[k] = SumFunctionOnSet(Copies(k), MapSet \X Cpus)
  BY Zenon DEF Events
<1>7. Events[k] \in Nat /\ Whole(k) <= Events[k]
  BY <1>4, <1>6, CopiesSum DEF Whole
<1> QED
  BY <1>4, <1>5, <1>7

\* A bump adds one to one copy of one counter.
LEMMA BumpCopies ==
    ASSUME StatsInv, NEW c \in Cpus, Bump(c), NEW k \in Counter, NEW x \in MapSet \X Cpus
    PROVE  Copies(k)'[x] = IF k = Head(todo[c].left) /\ x = <<todo[c].set, c>>
                           THEN Copies(k)[x] + 1 ELSE Copies(k)[x]
<1> DEFINE s == todo[c].set
           h == Head(todo[c].left)
<1>1. /\ ctr' = [ctr EXCEPT ![s][c][h] = @ + 1] /\ site' = site
  BY DEF Bump
<1>2. todo[c].left \in Seq(Counter) /\ todo[c].left # <<>> /\ todo[c].set \in 1 .. sets
  BY DEF Bump, StatsInv, TypeOK
<1>3. h \in Counter
  <2>1. \A S : \A l \in Seq(S) : l # <<>> => Head(l) \in S
    OBVIOUS
  <2> QED
    BY <1>2, <2>1, Zenon
<1>4. s \in MapSet
  <2>1. site.swaps \in Nat /\ sets \in MapSet
    BY ReaderFacts
  <2> QED
    BY <1>2, <2>1 DEF MapSet
<1>5. ctr \in [MapSet -> [Cpus -> [Counter -> Nat]]]
  BY DEF StatsInv, TypeOK
<1> HIDE DEF s, h
<1>6. PICK a \in MapSet, b \in Cpus : x = <<a, b>>
  OBVIOUS
<1>7. ctr'[a][b][k] = IF k = h /\ a = s /\ b = c THEN ctr[a][b][k] + 1 ELSE ctr[a][b][k]
  BY <1>1, <1>3, <1>4, <1>5
<1>8. MapSet' = MapSet
  BY <1>1 DEF MapSet
<1>9. Copies(k)[x] = ctr[a][b][k] /\ Copies(k)'[x] = ctr'[a][b][k]
  BY <1>6, <1>8 DEF Copies
<1>10. x = <<s, c>> <=> a = s /\ b = c
  BY <1>6
<1> QED
  BY <1>7, <1>9, <1>10 DEF s, h

\* So it adds one to every sum over that copy.
LEMMA BumpSum ==
    ASSUME StatsInv, NEW c \in Cpus, Bump(c), NEW k \in Counter, NEW X \in SUBSET (MapSet \X Cpus)
    PROVE  SumFunctionOnSet(Copies(k)', X)
             = SumFunctionOnSet(Copies(k), X)
                 + (IF k = Head(todo[c].left) /\ <<todo[c].set, c>> \in X THEN 1 ELSE 0)
<1> DEFINE f == Copies(k)
           g == Copies(k)'
           x == <<todo[c].set, c>>
<1>1. IsFiniteSet(X) /\ \A y \in X : f[y] \in Nat
  <2>1. X \in SUBSET X
    OBVIOUS
  <2> QED
    BY <2>1, CopiesSum
<1>2. \A y \in X : g[y] = IF k = Head(todo[c].left) /\ y = x THEN f[y] + 1 ELSE f[y]
  BY BumpCopies
<1>3. SumFunctionOnSet(f, X) \in Nat
  BY <1>1, SumTyped
<1> HIDE DEF f, g, x
<1>4. CASE k = Head(todo[c].left) /\ x \in X
  <2>1. g[x] = f[x] + 1 /\ \A y \in X \ {x} : g[y] = f[y]
    BY <1>2, <1>4
  <2>2. SumFunctionOnSet(g, X) = SumFunctionOnSet(f, X) + 1
    BY <1>1, <1>4, <2>1, SumGrows
  <2> QED
    BY <1>4, <2>2 DEF f, g, x
<1>5. CASE ~(k = Head(todo[c].left) /\ x \in X)
  <2>1. \A y \in X : f[y] \in Nat /\ f[y] = g[y]
    BY <1>1, <1>2, <1>5
  <2>2. SumFunctionOnSet(f, X) = SumFunctionOnSet(g, X)
    BY <1>1, <2>1, SumSame
  <2> QED
    BY <1>3, <1>5, <2>2 DEF f, g, x
<1> QED
  BY <1>4, <1>5

----------------------------------------------------------------------------
(* No packet is shown twice *)

\* No counter runs over: a frame bumps each counter at most once.
Bounded ==
    /\ frames \in Nat /\ frames <= site.frames
    /\ \A k \in Counter : Events[k] + Cardinality(Pending(k)) <= frames

\* A reading never exceeds the maps it is taken from.
Within == at # 0 => \A k \in Counter : snap.val[k] + Ahead(k) <= Whole(k)

\* Nor does the last completed reading exceed what was counted; the daemon's, what its
\* own maps hold.
Behind ==
    \A k \in Counter :
        prev.val[k] <= Events[k] /\ (site.reader = "daemon" => prev.val[k] <= Whole(k))

\* The daemon's reading will not fall below its last one, but for lookups that failed.
Rising ==
    site.reader = "daemon" /\ at # 0 =>
        \A k \in Counter \ snap.bad : prev.val[k] <= snap.val[k] + Ahead(k)

\* A lookup that failed leaves zeroes for all words of a reason or a VLAN.
Missed ==
    /\ \A k \in snap.bad : snap.val[k] = 0 /\ k[1] # "g" /\ Unread(at, k) = {}
    /\ \A v \in Vlans : <<"vpkts", v>> \in snap.bad <=> <<"vdrops", v>> \in snap.bad

\* A counter is zero until one of its cells was read.
Untouched ==
    at # 0 => \A k \in Counter :
        snap.val[k] # 0 => \E j \in DOMAIN Cells : j < at /\ k \in Cells[j].words

\* Together, what is known about the counts and the reading under way.
CountInv == Orderly /\ Bounded /\ Within /\ Behind /\ Rising /\ Missed /\ Untouched

\* Sums change only with the counters, the cell that is next and the map set read.
LEMMA SameCounts ==
    ASSUME UNCHANGED <<site, ctr>>, NEW k \in Counter
    PROVE  /\ MapSet' = MapSet /\ Cells' = Cells /\ Copies(k)' = Copies(k) /\ Events' = Events
           /\ Unread(at, k)' = Unread(at', k)
           /\ Ahead(k)' = SumFunctionOnSet(Copies(k), {reading'} \X Unread(at', k))
           /\ Whole(k)' = SumFunctionOnSet(Copies(k), {reading'} \X site.cpus)
<1>1. MapSet' = MapSet /\ Cells' = Cells
  BY DEF MapSet, Cells
<1>2. \A q : Copies(q)' = Copies(q)
  BY <1>1 DEF Copies
<1>3. Events' = Events
  BY <1>1, <1>2 DEF Events
<1>4. Unread(at, k)' = Unread(at', k)
  BY <1>1 DEF Unread
<1>5. /\ Ahead(k)' = SumFunctionOnSet(Copies(k), {reading'} \X Unread(at', k))
      /\ Whole(k)' = SumFunctionOnSet(Copies(k), {reading'} \X site.cpus)
  BY <1>2, <1>4 DEF Ahead, Whole
<1> QED
  BY <1>1, <1>2, <1>3, <1>4, <1>5

\* What a step of the reader has to show.
LEMMA ReaderCounts ==
    ASSUME CountInv, UNCHANGED <<site, traffic>>
    PROVE  Orderly' /\ Bounded'
<1>1. UNCHANGED <<site, ctr, todo, frames>>
  BY DEF traffic
<1>2. Orderly'
  BY <1>1 DEF CountInv, Orderly, InOrder
<1>3. \A k \in Counter : Pending(k)' = Pending(k)
  BY <1>1 DEF Pending
<1>4. \A k \in Counter : Events'[k] = Events[k]
  BY <1>1, SameCounts
<1>5. Bounded'
  BY <1>1, <1>3, <1>4 DEF CountInv, Bounded
<1> QED
  BY <1>2, <1>5

\* A step that leaves the counters, the frames and the reading alone.
LEMMA SteadyCounts ==
    ASSUME CountInv, UNCHANGED <<site, ctr, snap, at, reading, prev>>
    PROVE  Within' /\ Behind' /\ Rising' /\ Missed' /\ Untouched'
<1>1. ASSUME NEW k \in Counter
      PROVE  Ahead(k)' = Ahead(k) /\ Whole(k)' = Whole(k) /\ Unread(at, k)' = Unread(at, k)
  BY SameCounts DEF Ahead, Whole
<1>2. Events' = Events /\ Cells' = Cells
  BY DEF Events, Copies, MapSet, Cells
<1>3. Within' /\ Behind' /\ Rising'
  BY <1>1, <1>2 DEF CountInv, Within, Behind, Rising
<1>4. \A k : Unread(at, k)' = Unread(at, k)
  BY <1>2 DEF Unread
<1>5. Missed'
  BY <1>4 DEF CountInv, Missed
<1>6. Untouched'
  BY <1>2 DEF CountInv, Untouched
<1> QED
  BY <1>3, <1>5, <1>6

\* A reading begins.
LEMMA BeginCounts ==
    ASSUME StatsInv, CountInv, NEW dt \in site.intervals, Begin(dt)
    PROVE  CountInv'
<1>1. /\ UNCHANGED <<site, traffic, prev>> /\ UNCHANGED <<site, ctr>>
      /\ at' = 1 /\ snap' = [Nil EXCEPT !.when = now + dt]
      /\ site.reader = "daemon" => reading' = reading
  BY DEF Begin, traffic
<1>2. site \in Sites
  BY ReaderFacts
<1>3. snap'.bad = {} /\ \A k \in Counter : snap'.val[k] = 0
  BY <1>1 DEF Nil, Zero
<1>4. ASSUME NEW k \in Counter
      PROVE  Ahead(k)' = Whole(k)' /\ (site.reader = "daemon" => Whole(k)' = Whole(k)) /\ Events'[k] = Events[k]
  <2>1. Unread(1, k) = site.cpus
    BY <1>2, UnreadAtFirst
  <2>2. Ahead(k)' = Whole(k)'
    BY <1>1, <2>1, SameCounts
  <2>3. site.reader = "daemon" => Whole(k)' = Whole(k)
    BY <1>1, SameCounts DEF Whole
  <2>4. Events'[k] = Events[k]
    BY <1>1, SameCounts
  <2> QED
    BY <2>2, <2>3, <2>4
<1>5. Orderly' /\ Bounded'
  BY <1>1, ReaderCounts
<1>6. ASSUME NEW k \in Counter PROVE Whole(k)' \in Nat
  <2>1. reading' \in MapSet
    <3>1. StatsInv'
      BY BeginInv
    <3>2. sets' = sets /\ reading' \in 1 .. sets' /\ sets \in MapSet /\ site.swaps \in Nat
      BY <1>1, <3>1, ReaderFacts DEF traffic, StatsInv, TypeOK
    <3> QED
      BY <3>2 DEF MapSet
  <2>2. site.cpus \subseteq Cpus
    BY <1>2, StatsConstants
  <2> DEFINE X == {reading'} \X site.cpus
  <2>3. X \in SUBSET (MapSet \X Cpus) /\ X \in SUBSET X
    BY <2>1, <2>2
  <2>4. SumFunctionOnSet(Copies(k), X) \in Nat
    <3> HIDE DEF X
    <3> QED
      BY <2>3, CopiesSum
  <2> QED
    BY <1>1, <2>4, SameCounts
<1>7. Within'
  BY <1>3, <1>4, <1>6 DEF Within
<1>8. Behind'
  BY <1>1, <1>4 DEF CountInv, Behind
<1>9. Rising'
  <2> SUFFICES ASSUME site.reader = "daemon", NEW k \in Counter
               PROVE  prev'.val[k] <= snap'.val[k] + Ahead(k)'
    BY <1>1 DEF Rising
  <2>1. prev.val[k] <= Whole(k)
    BY DEF CountInv, Behind
  <2> QED
    BY <1>1, <1>3, <1>4, <1>6, <2>1
<1>10. Missed' /\ Untouched'
  BY <1>3 DEF Missed, Untouched
<1> QED
  BY <1>5, <1>7, <1>8, <1>9, <1>10 DEF CountInv

\* The console forgets a reading of maps that are gone.
LEMMA UnavailableCounts ==
    ASSUME StatsInv, CountInv, NEW dt, Unavailable(dt)
    PROVE  CountInv'
<1>1. /\ UNCHANGED <<site, traffic>> /\ UNCHANGED <<site, ctr, snap, at, reading>>
      /\ at = 0 /\ prev' = Nil /\ site.reader = "console"
  BY DEF Unavailable, traffic
<1>2. Orderly' /\ Bounded'
  BY <1>1, ReaderCounts
<1>3. Within' /\ Rising' /\ Untouched'
  BY <1>1 DEF Within, Rising, Untouched
<1>4. ASSUME NEW k \in Counter PROVE Events'[k] = Events[k] /\ Events[k] \in Nat /\ prev'.val[k] = 0
  <2>1. Events' = Events
    BY <1>1, SameCounts
  <2> QED
    BY <1>1, <2>1, Totals DEF Nil, Zero
<1>5. Behind'
  BY <1>1, <1>4 DEF Behind
<1>6. \A k : Unread(at, k)' = Unread(at, k)
  BY <1>1 DEF Unread, Cells
<1>7. Missed'
  BY <1>1, <1>6 DEF CountInv, Missed
<1> QED
  BY <1>2, <1>3, <1>5, <1>7 DEF CountInv

\* Reading a cell moves its counters from what is ahead into the reading.
LEMMA CopyMoves ==
    ASSUME StatsInv, Copy, NEW k \in Counter
    PROVE  /\ snap'.val[k] \in Nat /\ Ahead(k)' \in Nat /\ Whole(k)' = Whole(k)
           /\ snap'.val[k] + Ahead(k)' = snap.val[k] + Ahead(k)
           /\ k \notin Cells[at].words => snap'.val[k] = snap.val[k]
           /\ k \in Cells[at].words =>
                snap'.val[k] = snap.val[k] + ctr[reading][Cells[at].cpu][k]
<1> DEFINE c == Cells[at].cpu
           X == {reading} \X Unread(at, k)
           x == <<reading, c>>
<1>1. /\ at \in DOMAIN Cells /\ at' = at + 1 /\ reading' = reading /\ UNCHANGED <<site, ctr>>
      /\ snap' = [snap EXCEPT !.val = [q \in Counter |->
            @[q] + IF q \in Cells[at].words THEN ctr[reading][Cells[at].cpu][q] ELSE 0]]
  BY DEF Copy, traffic
<1>2. site \in Sites /\ snap \in Snapshots /\ reading \in MapSet
  BY ReaderFacts
<1>3. snap.val[k] \in Nat
  BY <1>2 DEF Snapshots
<1>4. snap'.val[k] = snap.val[k] + IF k \in Cells[at].words THEN ctr[reading][c][k] ELSE 0
  BY <1>1, <1>2 DEF Snapshots
<1>5. Whole(k)' = Whole(k)
  BY <1>1, SameCounts DEF Whole
<1>6. X \in SUBSET (MapSet \X Cpus) /\ Ahead(k) \in Nat
  BY Totals
<1>7. IsFiniteSet(X) /\ (\A y \in X : Copies(k)[y] \in Nat) /\ Ahead(k) = SumFunctionOnSet(Copies(k), X)
  <2>1. X \in SUBSET X
    OBVIOUS
  <2> HIDE DEF X
  <2>2. IsFiniteSet(X) /\ (\A y \in X : Copies(k)[y] \in Nat)
    BY <1>6, <2>1, CopiesSum
  <2> QED
    BY <2>2 DEF Ahead, X
<1>8. CASE k \notin Cells[at].words
  <2>1. Unread(at', k) = Unread(at, k)
    BY <1>1, <1>2, <1>8, UnreadNext
  <2>2. Ahead(k)' = Ahead(k)
    BY <1>1, <2>1, SameCounts DEF Ahead
  <2> QED
    BY <1>3, <1>4, <1>5, <1>6, <1>8, <2>2
<1>9. CASE k \in Cells[at].words
  <2>1. c \in Unread(at, k) /\ Unread(at', k) = Unread(at, k) \ {c}
    BY <1>1, <1>2, <1>9, UnreadNext
  <2>2. {reading} \X Unread(at', k) = X \ {x} /\ x \in X
    BY <2>1
  <2>3. Ahead(k)' = SumFunctionOnSet(Copies(k), X \ {x})
    BY <1>1, <2>2, SameCounts
  <2>4. Copies(k)[x] = ctr[reading][c][k]
    <3>1. x \in MapSet \X Cpus
      BY <1>6, <2>2
    <3> QED
      BY <3>1 DEF Copies
  <2>5. x \in X /\ Copies(k)[x] \in Nat
    BY <1>7, <2>2
  <2> HIDE DEF X, x, c
  <2>6. /\ SumFunctionOnSet(Copies(k), X) = Copies(k)[x] + SumFunctionOnSet(Copies(k), X \ {x})
        /\ SumFunctionOnSet(Copies(k), X \ {x}) \in Nat
    BY <1>7, <2>5, SumSplits
  <2>7. /\ snap'.val[k] \in Nat /\ Ahead(k)' \in Nat
        /\ snap'.val[k] + Ahead(k)' = snap.val[k] + Ahead(k)
    BY <1>3, <1>4, <1>7, <1>9, <2>3, <2>4, <2>5, <2>6
  <2> QED
    BY <1>4, <1>5, <1>9, <2>7 DEF c
<1> QED
  BY <1>8, <1>9

\* A cell is read.
LEMMA CopyCounts ==
    ASSUME StatsInv, CountInv, Copy
    PROVE  CountInv'
<1>1. /\ at \in DOMAIN Cells /\ at' = at + 1 /\ UNCHANGED <<site, traffic, prev>> /\ UNCHANGED <<site, ctr>>
      /\ snap'.bad = snap.bad
  BY DEF Copy, traffic
<1>2. site \in Sites /\ snap \in Snapshots
  BY ReaderFacts
<1>3. at \in Nat /\ at # 0 /\ at' # 0 /\ \A j \in DOMAIN Cells : j \in Nat
  BY <1>1, <1>2, CellsTyped
<1>4. Orderly' /\ Bounded'
  BY <1>1, ReaderCounts
<1>5. Within'
  <2> SUFFICES ASSUME NEW k \in Counter PROVE snap'.val[k] + Ahead(k)' <= Whole(k)'
    BY DEF Within
  <2>1. snap.val[k] + Ahead(k) <= Whole(k)
    BY <1>3 DEF CountInv, Within
  <2> QED
    BY <2>1, CopyMoves
<1>6. Behind'
  <2> SUFFICES ASSUME NEW k \in Counter
               PROVE  prev'.val[k] <= Events'[k] /\ (site'.reader = "daemon" => prev'.val[k] <= Whole(k)')
    BY DEF Behind
  <2>1. Events' = Events /\ Whole(k)' = Whole(k)
    BY <1>1, SameCounts, CopyMoves
  <2> QED
    BY <1>1, <2>1 DEF CountInv, Behind
<1>7. Rising'
  <2> SUFFICES ASSUME site.reader = "daemon", NEW k \in Counter \ snap.bad
               PROVE  prev'.val[k] <= snap'.val[k] + Ahead(k)'
    BY <1>1 DEF Rising
  <2>1. prev.val[k] <= snap.val[k] + Ahead(k)
    BY <1>3 DEF CountInv, Rising
  <2> QED
    BY <1>1, <2>1, CopyMoves
<1>8. Missed'
  <2>1. ASSUME NEW k \in snap.bad PROVE snap'.val[k] = 0 /\ k[1] # "g" /\ Unread(at, k)' = {}
    <3>1. snap.val[k] = 0 /\ k[1] # "g" /\ Unread(at, k) = {} /\ k \in Counter
      BY <1>2 DEF CountInv, Missed, Snapshots
    <3>2. k \notin Cells[at].words /\ Unread(at + 1, k) = {}
      BY <1>1, <1>2, <3>1, UnreadNext
    <3> QED
      BY <1>1, <3>1, <3>2, CopyMoves, SameCounts
  <2> QED
    BY <1>1, <2>1 DEF CountInv, Missed
<1>9. Untouched'
  <2> SUFFICES ASSUME NEW k \in Counter, snap'.val[k] # 0
               PROVE  \E j \in DOMAIN Cells' : j < at' /\ k \in Cells'[j].words
    BY DEF Untouched
  <2>1. Cells' = Cells
    BY <1>1 DEF Cells
  <2>2. CASE k \in Cells[at].words
    BY <1>1, <1>3, <2>1, <2>2
  <2>3. CASE k \notin Cells[at].words
    <3>1. PICK j \in DOMAIN Cells : j < at /\ k \in Cells[j].words
      BY <1>3, <2>3, CopyMoves DEF CountInv, Untouched
    <3> QED
      BY <1>1, <1>3, <2>1, <3>1
  <2> QED
    BY <2>2, <2>3
<1> QED
  BY <1>4, <1>5, <1>6, <1>7, <1>8, <1>9 DEF CountInv

\* A reading is given up, or has been taken; what it found may become the last reading.
LEMMA ReadingOver ==
    ASSUME StatsInv, CountInv, UNCHANGED <<site, traffic, reading>>, at' = 0, snap' = Nil,
           prev' = prev \/ (at = Len(Cells) + 1 /\ prev' = snap)
    PROVE  CountInv'
<1>1. UNCHANGED <<site, ctr>>
  BY DEF traffic
<1>2. Orderly' /\ Bounded'
  BY ReaderCounts
<1>3. Within' /\ Rising' /\ Untouched'
  BY DEF Within, Rising, Untouched
<1>4. Missed'
  BY DEF Missed, Nil
<1>5. Behind'
  <2> SUFFICES ASSUME NEW k \in Counter
               PROVE  prev'.val[k] <= Events'[k] /\ (site'.reader = "daemon" => prev'.val[k] <= Whole(k)')
    BY DEF Behind
  <2>1. Events' = Events /\ Whole(k)' = Whole(k)
    BY <1>1, SameCounts DEF Whole
  <2>2. Ahead(k) \in Nat /\ Whole(k) \in Nat /\ Events[k] \in Nat /\ Whole(k) <= Events[k]
    BY Totals
  <2>3. CASE prev' = prev
    BY <2>1, <2>3 DEF CountInv, Behind
  <2>4. CASE at = Len(Cells) + 1 /\ prev' = snap
    <3>1. Len(Cells) \in Nat /\ snap \in Snapshots
      BY ReaderFacts
    <3>2. at # 0 /\ snap.val[k] \in Nat
      BY <2>4, <3>1 DEF Snapshots
    <3>3. snap.val[k] + Ahead(k) <= Whole(k)
      BY <3>2 DEF CountInv, Within
    <3> QED
      BY <2>1, <2>2, <2>4, <3>2, <3>3
  <2> QED
    BY <2>3, <2>4
<1> QED
  BY <1>2, <1>3, <1>4, <1>5 DEF CountInv

\* A lookup fails.
LEMMA LookupFailsCounts ==
    ASSUME StatsInv, CountInv, LookupFails
    PROVE  CountInv'
<1>1. UNCHANGED <<site, traffic, reading, prev>> /\ at \in DOMAIN Cells
  BY DEF LookupFails
<1>2. CASE G("rx") \in Cells[at].words
  <2>1. at' = 0 /\ snap' = Nil
    BY <1>2 DEF LookupFails
  <2> QED
    BY <1>1, <2>1, ReadingOver
<1>3. CASE G("rx") \notin Cells[at].words
  <2>1. /\ at' = 1 + Cardinality({i \in DOMAIN Cells : Cells[i].lookup <= Cells[at].lookup})
        /\ snap' = [snap EXCEPT !.bad = @ \cup Cells[at].words]
        /\ \A i \in 1 .. at - 1 : Cells[i].lookup # Cells[at].lookup
    BY <1>3 DEF LookupFails
  <2>2. site \in Sites /\ snap \in Snapshots
    BY ReaderFacts
  <2>3. snap'.val = snap.val /\ snap'.bad = snap.bad \cup Cells[at].words
    BY <2>1, <2>2 DEF Snapshots
  <2>4. UNCHANGED <<site, ctr>>
    BY <1>1 DEF traffic
  <2>5. /\ Len(Cells) \in Nat /\ DOMAIN Cells = 1 .. Len(Cells)
        /\ Cells[at].words \subseteq Counter
    BY <1>1, <2>2, CellsTyped
  <2>6. at \in Nat /\ at # 0 /\ at' \in Nat /\ at' > at
    <3>1. G("rx") \in Counter
      BY DEF G, Counter, GlobalWords
    <3> QED
      BY <1>1, <2>1, <2>2, <2>5, <3>1, UnreadSkip
  <2>7. ASSUME NEW k \in Counter
        PROVE  /\ k \in Cells[at].words => Unread(at', k) = {}
               /\ k \notin Cells[at].words => Unread(at', k) = Unread(at, k)
    BY <1>1, <2>1, <2>2, UnreadSkip
  <2>8. ASSUME NEW k \in Counter
        PROVE  /\ Whole(k)' = Whole(k) /\ Events'[k] = Events[k]
               /\ k \in Cells[at].words => Ahead(k)' = 0
               /\ k \notin Cells[at].words => Ahead(k)' = Ahead(k)
    <3>1. Whole(k)' = Whole(k) /\ Events'[k] = Events[k]
      BY <1>1, <2>4, SameCounts DEF Whole
    <3>2. ASSUME k \in Cells[at].words PROVE Ahead(k)' = 0
      <4>1. {reading} \X Unread(at', k) = {}
        BY <2>7, <3>2
      <4> QED
        BY <1>1, <2>4, <4>1, SameCounts, SumEmpty
    <3>3. ASSUME k \notin Cells[at].words PROVE Ahead(k)' = Ahead(k)
      BY <1>1, <2>4, <2>7, <3>3, SameCounts DEF Ahead
    <3> QED
      BY <3>1, <3>2, <3>3
  <2>9. Orderly' /\ Bounded'
    BY <1>1, ReaderCounts
  <2>10. Within'
    <3> SUFFICES ASSUME NEW k \in Counter PROVE snap'.val[k] + Ahead(k)' <= Whole(k)'
      BY DEF Within
    <3>1. snap.val[k] + Ahead(k) <= Whole(k)
      BY <2>6 DEF CountInv, Within
    <3>2. snap.val[k] \in Nat /\ Ahead(k) \in Nat /\ Whole(k) \in Nat
      BY <2>2, Totals DEF Snapshots
    <3> QED
      BY <2>3, <2>8, <3>1, <3>2
  <2>11. Behind'
    BY <1>1, <2>8 DEF CountInv, Behind
  <2>12. Rising'
    <3> SUFFICES ASSUME site.reader = "daemon", NEW k \in Counter, k \notin snap'.bad
                 PROVE  prev'.val[k] <= snap'.val[k] + Ahead(k)'
      BY <1>1 DEF Rising
    <3>1. k \notin snap.bad /\ k \notin Cells[at].words
      BY <2>3
    <3>2. prev.val[k] <= snap.val[k] + Ahead(k)
      BY <2>6, <3>1 DEF CountInv, Rising
    <3> QED
      BY <1>1, <2>3, <2>8, <3>1, <3>2
  <2>13. Missed'
    <3>1. \/ \E r \in Reasons : Cells[at].words = {<<"reason", r>>}
          \/ \E v \in Vlans : Cells[at].words = {<<"vpkts", v>>, <<"vdrops", v>>}
      <4>1. G("rx") \in {"g"} \X GlobalWords
        BY DEF G, GlobalWords
      <4> QED
        BY <1>1, <1>3, <2>2, <4>1, CellWords
    <3>2. \A k \in Counter : Unread(at, k)' = Unread(at', k)
      BY <2>4, SameCounts
    <3>3. ASSUME NEW k \in Cells[at].words
          PROVE  snap'.val[k] = 0 /\ k[1] # "g" /\ Unread(at, k)' = {}
      <4>1. k \in Counter /\ k[1] # "g"
        BY <2>5, <3>1
      <4>2. ASSUME snap.val[k] # 0 PROVE FALSE
        <5>1. PICK j \in DOMAIN Cells : j < at /\ k \in Cells[j].words
          BY <2>6, <4>1, <4>2 DEF CountInv, Untouched
        <5>2. Cells[j].lookup = Cells[at].lookup
          BY <1>1, <2>2, <4>1, <5>1, SameLookup
        <5>3. j \in 1 .. at - 1
          BY <2>5, <2>6, <5>1
        <5> QED
          BY <2>1, <5>2, <5>3
      <4> QED
        BY <2>3, <2>7, <3>2, <4>1, <4>2
    <3>4. ASSUME NEW k \in snap.bad
          PROVE  snap'.val[k] = 0 /\ k[1] # "g" /\ Unread(at, k)' = {}
      <4>1. k \in Counter /\ snap.val[k] = 0 /\ k[1] # "g" /\ Unread(at, k) = {}
        BY <2>2 DEF CountInv, Missed, Snapshots
      <4> QED
        BY <2>3, <2>7, <3>2, <4>1
    <3>5. ASSUME NEW v \in Vlans PROVE <<"vpkts", v>> \in snap'.bad <=> <<"vdrops", v>> \in snap'.bad
      <4>1. <<"vpkts", v>> \in snap.bad <=> <<"vdrops", v>> \in snap.bad
        BY DEF CountInv, Missed
      <4>2. <<"vpkts", v>> \in Cells[at].words <=> <<"vdrops", v>> \in Cells[at].words
        BY <3>1
      <4> QED
        BY <2>3, <4>1, <4>2
    <3> QED
      BY <2>3, <3>3, <3>4, <3>5 DEF Missed
  <2>14. Untouched'
    <3> SUFFICES ASSUME NEW k \in Counter, snap'.val[k] # 0
                 PROVE  \E j \in DOMAIN Cells' : j < at' /\ k \in Cells'[j].words
      BY DEF Untouched
    <3>1. Cells' = Cells
      BY <2>4 DEF Cells
    <3>2. PICK j \in DOMAIN Cells : j < at /\ k \in Cells[j].words
      BY <2>3, <2>6 DEF CountInv, Untouched
    <3> QED
      BY <2>5, <2>6, <3>1, <3>2
  <2> QED
    BY <2>9, <2>10, <2>11, <2>12, <2>13, <2>14 DEF CountInv
<1> QED
  BY <1>2, <1>3

\* A frame arrives: it will bump each counter at most once.
LEMMA ReceiveCounts ==
    ASSUME StatsInv, CountInv, NEW c \in Cpus, Receive(c)
    PROVE  CountInv'
<1>1. PICK o \in site.outcomes, r \in site.reasons, v \in Vlans :
        todo' = [todo EXCEPT ![c] = [set |-> attached, left |-> Bumps(o, r, v)]]
  BY DEF Receive
<1>2. /\ c \in site.cpus /\ todo[c].left = <<>> /\ frames < site.frames /\ frames' = frames + 1
      /\ UNCHANGED <<site, ctr, snap, at, reading, prev>>
  BY DEF Receive
<1>3. site \in Sites /\ o \in Outcomes /\ r \in Reasons
  BY ReaderFacts, SiteFacts
<1>4. InOrder(Bumps(o, r, v))
  BY <1>3, BumpsInOrder
<1>5. \A d \in Cpus : todo'[d].left = IF d = c THEN Bumps(o, r, v) ELSE todo[d].left
  BY <1>1 DEF StatsInv, TypeOK
<1>6. Orderly'
  <2> SUFFICES ASSUME NEW d \in Cpus
               PROVE  (todo'[d].left # <<>> => d \in site'.cpus) /\ InOrder(todo'[d].left)
    BY DEF Orderly, InOrder
  <2>1. CASE d = c
    BY <1>2, <1>4, <1>5, <2>1
  <2>2. CASE d # c
    BY <1>2, <1>5, <2>2 DEF CountInv, Orderly
  <2> QED
    BY <2>1, <2>2
<1>7. Bounded'
  <2>1. frames \in Nat /\ site.frames \in Nat
    BY <1>3, StatsConstants DEF CountInv, Bounded
  <2>2. ASSUME NEW k \in Counter PROVE Events'[k] + Cardinality(Pending(k)') <= frames + 1
    <3>1. Events[k] + Cardinality(Pending(k)) <= frames /\ Events' = Events
      BY <1>2, SameCounts DEF CountInv, Bounded
    <3>2. Events[k] \in Nat
      BY Totals
    <3>3. Pending(k)' \in SUBSET (Pending(k) \cup {c})
      BY <1>5 DEF Pending
    <3>4. IsFiniteSet(Pending(k))
      <4>1. IsFiniteSet(Cpus) /\ Pending(k) \in SUBSET Cpus
        BY StatsConstants DEF Pending
      <4> QED
        BY <4>1, FS_Subset
    <3>5. /\ IsFiniteSet(Pending(k) \cup {c}) /\ Cardinality(Pending(k)) \in Nat
          /\ Cardinality(Pending(k) \cup {c}) <= Cardinality(Pending(k)) + 1
      <4>1. Cardinality(Pending(k)) \in Nat
        BY <3>4, FS_CardinalityType
      <4>2. /\ IsFiniteSet(Pending(k) \cup {c})
            /\ Cardinality(Pending(k) \cup {c})
                 = IF c \in Pending(k) THEN Cardinality(Pending(k)) ELSE Cardinality(Pending(k)) + 1
        BY <3>4, FS_AddElement
      <4> QED
        BY <4>1, <4>2
    <3>6. /\ IsFiniteSet(Pending(k)')
          /\ Cardinality(Pending(k)') <= Cardinality(Pending(k) \cup {c})
      BY <3>3, <3>5, FS_Subset
    <3>7. Cardinality(Pending(k)') \in Nat /\ Cardinality(Pending(k) \cup {c}) \in Nat
      BY <3>5, <3>6, FS_CardinalityType
    <3> QED
      BY <2>1, <3>1, <3>2, <3>5, <3>6, <3>7
  <2> QED
    BY <1>2, <2>1, <2>2 DEF Bounded
<1> QED
  BY <1>2, <1>6, <1>7, SteadyCounts DEF CountInv

\* A CPU bumps a counter.
LEMMA BumpCounts ==
    ASSUME StatsInv, CountInv, NEW c \in Cpus, Bump(c)
    PROVE  CountInv'
<1> DEFINE l == todo[c].left
           h == Head(todo[c].left)
           s == todo[c].set
<1>1. /\ l # <<>> /\ todo' = [todo EXCEPT ![c].left = Tail(@)]
      /\ UNCHANGED <<site, frames, snap, at, reading, prev>>
  BY DEF Bump
<1>2. l \in Seq(Counter) /\ site \in Sites /\ snap \in Snapshots /\ prev \in Snapshots
  BY ReaderFacts DEF StatsInv, TypeOK
<1>3. InOrder(l) /\ c \in site.cpus
  BY <1>1 DEF CountInv, Orderly
<1>4. /\ InOrder(Tail(l)) /\ h \in Range(l) /\ Range(Tail(l)) = Range(l) \ {h}
  BY <1>1, <1>2, <1>3, TailInOrder
<1>5. \A d \in Cpus : todo'[d].left = IF d = c THEN Tail(l) ELSE todo[d].left
  BY <1>1 DEF StatsInv, TypeOK
<1>6. h \in Counter
  <2>1. \A S : \A t \in Seq(S) : t # <<>> => Head(t) \in S
    OBVIOUS
  <2> QED
    BY <1>1, <1>2, <2>1, Zenon
<1> HIDE DEF l, h, s
<1>7. Orderly'
  <2> SUFFICES ASSUME NEW d \in Cpus
               PROVE  (todo'[d].left # <<>> => d \in site'.cpus) /\ InOrder(todo'[d].left)
    BY DEF Orderly, InOrder
  <2>1. CASE d = c
    BY <1>1, <1>3, <1>4, <1>5, <2>1
  <2>2. CASE d # c
    BY <1>1, <1>5, <2>2 DEF CountInv, Orderly
  <2> QED
    BY <2>1, <2>2
<1>8. MapSet' = MapSet /\ Cells' = Cells
  BY <1>1 DEF MapSet, Cells
<1>9. \A k : Unread(at, k)' = Unread(at, k)
  BY <1>1, <1>8 DEF Unread
<1>10. ASSUME NEW k \in Counter
       PROVE  \E d, e, f \in {0, 1} :
                /\ Ahead(k)' = Ahead(k) + d /\ Whole(k)' = Whole(k) + e /\ Events'[k] = Events[k] + f
                /\ d <= e /\ f = IF k = h THEN 1 ELSE 0
  <2> DEFINE X == {reading} \X Unread(at, k)
             Y == {reading} \X site.cpus
             Z == MapSet \X Cpus
             B(W) == IF k = Head(todo[c].left) /\ <<todo[c].set, c>> \in W THEN 1 ELSE 0
  <2>1. X \in SUBSET Z /\ Y \in SUBSET Z /\ X \in SUBSET Y /\ Z \in SUBSET Z
    BY Totals
  <2>2. \A W \in SUBSET Z : SumFunctionOnSet(Copies(k)', W) = SumFunctionOnSet(Copies(k), W) + B(W)
    BY BumpSum
  <2>3. Ahead(k)' = SumFunctionOnSet(Copies(k)', X) /\ Ahead(k) = SumFunctionOnSet(Copies(k), X)
    BY <1>1, <1>9 DEF Ahead
  <2>4. Whole(k)' = SumFunctionOnSet(Copies(k)', Y) /\ Whole(k) = SumFunctionOnSet(Copies(k), Y)
    BY <1>1 DEF Whole
  <2>5. Events'[k] = SumFunctionOnSet(Copies(k)', Z) /\ Events[k] = SumFunctionOnSet(Copies(k), Z)
    BY <1>8 DEF Events
  <2>6. <<todo[c].set, c>> \in Z
    <3>1. todo[c].set \in 1 .. sets /\ sets \in MapSet /\ site.swaps \in Nat
      BY ReaderFacts DEF StatsInv, TypeOK
    <3> QED
      BY <3>1 DEF MapSet
  <2> HIDE DEF X, Y, Z
  <2>7. B(X) \in {0, 1} /\ B(Y) \in {0, 1} /\ B(Z) \in {0, 1} /\ B(X) <= B(Y)
    BY <2>1
  <2>8. B(Z) = IF k = h THEN 1 ELSE 0
    BY <2>6 DEF h
  <2>9. /\ Ahead(k)' = Ahead(k) + B(X) /\ Whole(k)' = Whole(k) + B(Y) /\ Events'[k] = Events[k] + B(Z)
    BY <2>1, <2>2, <2>3, <2>4, <2>5
  <2> QED
    BY <2>7, <2>8, <2>9
<1>11. Bounded'
  <2>1. frames \in Nat /\ frames <= site.frames
    BY DEF CountInv, Bounded
  <2>2. ASSUME NEW k \in Counter PROVE Events'[k] + Cardinality(Pending(k)') <= frames
    <3>1. Events[k] + Cardinality(Pending(k)) <= frames
      BY DEF CountInv, Bounded
    <3>2. Events[k] \in Nat /\ Events'[k] = Events[k] + IF k = h THEN 1 ELSE 0
      BY <1>10, Totals
    <3>3. IsFiniteSet(Pending(k))
      <4>1. IsFiniteSet(Cpus) /\ Pending(k) \in SUBSET Cpus
        BY StatsConstants DEF Pending
      <4> QED
        BY <4>1, FS_Subset
    <3>4. Cardinality(Pending(k)) \in Nat
      BY <3>3, FS_CardinalityType
    <3>5. CASE k = h
      <4>1. Pending(k)' = Pending(k) \ {c} /\ c \in Pending(k)
        BY <1>4, <1>5, <3>5 DEF Pending, l
      <4>2. Cardinality(Pending(k) \ {c}) = Cardinality(Pending(k)) - 1
        BY <3>3, <4>1, FS_RemoveElement
      <4> QED
        BY <2>1, <3>1, <3>2, <3>4, <3>5, <4>1, <4>2
    <3>6. CASE k # h
      <4>1. Pending(k)' = Pending(k)
        BY <1>4, <1>5, <3>6 DEF Pending, l
      <4> QED
        BY <3>1, <3>2, <3>6, <4>1
    <3> QED
      BY <3>5, <3>6
  <2> QED
    BY <1>1, <2>1, <2>2 DEF Bounded
<1>12. ASSUME NEW k \in Counter
       PROVE  /\ Ahead(k) \in Nat /\ Whole(k) \in Nat /\ Events[k] \in Nat
              /\ snap.val[k] \in Nat /\ prev.val[k] \in Nat
  BY <1>2, Totals DEF Snapshots
<1>13. Within'
  <2> SUFFICES ASSUME at # 0, NEW k \in Counter PROVE snap'.val[k] + Ahead(k)' <= Whole(k)'
    BY <1>1 DEF Within
  <2>1. snap.val[k] + Ahead(k) <= Whole(k)
    BY DEF CountInv, Within
  <2>2. PICK d, e \in {0, 1} : Ahead(k)' = Ahead(k) + d /\ Whole(k)' = Whole(k) + e /\ d <= e
    BY <1>10
  <2> QED
    BY <1>1, <1>12, <2>1, <2>2
<1>14. Behind'
  <2> SUFFICES ASSUME NEW k \in Counter
               PROVE  prev'.val[k] <= Events'[k] /\ (site'.reader = "daemon" => prev'.val[k] <= Whole(k)')
    BY DEF Behind
  <2>1. prev.val[k] <= Events[k] /\ (site.reader = "daemon" => prev.val[k] <= Whole(k))
    BY DEF CountInv, Behind
  <2>2. PICK e, f \in {0, 1} : Whole(k)' = Whole(k) + e /\ Events'[k] = Events[k] + f
    BY <1>10
  <2> QED
    BY <1>1, <1>12, <2>1, <2>2
<1>15. Rising'
  <2> SUFFICES ASSUME site.reader = "daemon", at # 0, NEW k \in Counter \ snap.bad
               PROVE  prev'.val[k] <= snap'.val[k] + Ahead(k)'
    BY <1>1 DEF Rising
  <2>1. prev.val[k] <= snap.val[k] + Ahead(k)
    BY DEF CountInv, Rising
  <2>2. PICK d \in {0, 1} : Ahead(k)' = Ahead(k) + d
    BY <1>10
  <2> QED
    BY <1>1, <1>12, <2>1, <2>2
<1>16. Missed'
  BY <1>1, <1>9 DEF CountInv, Missed
<1>17. Untouched'
  BY <1>1, <1>8 DEF CountInv, Untouched
<1> QED
  BY <1>7, <1>11, <1>13, <1>14, <1>15, <1>16, <1>17 DEF CountInv

\* At first nothing has been counted, and no reading exists.
LEMMA InitCounts == Init => CountInv
<1> SUFFICES ASSUME Init PROVE CountInv
  OBVIOUS
<1>1. StatsInv
  BY InitInv
<1>2. /\ at = 0 /\ snap = Nil /\ prev = Nil /\ frames = 0 /\ site \in Sites
      /\ todo = [c \in Cpus |-> [set |-> 1, left |-> <<>>]]
      /\ ctr = [s \in MapSet |-> [c \in Cpus |-> Zero]]
  BY DEF Init
<1>3. Orderly
  BY <1>2 DEF Orderly, InOrder
<1>4. ASSUME NEW k \in Counter PROVE Events[k] = 0 /\ Pending(k) = {} /\ prev.val[k] = 0
  <2> DEFINE Z == MapSet \X Cpus
  <2>1. IsFiniteSet(Z) /\ \A x \in Z : Copies(k)[x] = 0
    <3>1. ASSUME NEW x \in Z PROVE Copies(k)[x] = 0
      <4>1. x[1] \in MapSet /\ x[2] \in Cpus
        OBVIOUS
      <4>2. ctr[x[1]][x[2]][k] = 0
        BY <1>2, <4>1 DEF Zero
      <4> QED
        BY <4>2 DEF Copies
    <3> QED
      BY <1>1, <3>1, CopiesTyped
  <2>2. Events[k] = SumFunctionOnSet(Copies(k), Z)
    BY DEF Events
  <2>3. Events[k] = 0
    <3> HIDE DEF Z
    <3> QED
      BY <2>1, <2>2, SumZero
  <2>4. Pending(k) = {}
    <3>1. \A c \in Cpus : todo[c].left = <<>>
      BY <1>2
    <3>2. Range(<<>>) = {}
      BY DEF Range
    <3> QED
      BY <3>1, <3>2 DEF Pending
  <2> QED
    BY <1>2, <2>3, <2>4 DEF Nil, Zero
<1>5. Bounded
  <2>1. site.frames \in Nat
    BY <1>2, StatsConstants
  <2>2. Cardinality({}) = 0
    BY FS_EmptySet
  <2>3. ASSUME NEW k \in Counter PROVE Events[k] + Cardinality(Pending(k)) <= frames
    <3>1. Events[k] = 0 /\ Cardinality(Pending(k)) = 0
      BY <1>4, <2>2
    <3> QED
      BY <1>2, <3>1
  <2>4. frames \in Nat /\ frames <= site.frames
    BY <1>2, <2>1
  <2> QED
    BY <2>3, <2>4 DEF Bounded
<1>6. Within /\ Rising /\ Untouched
  BY <1>2 DEF Within, Rising, Untouched
<1>7. Behind
  <2>1. \A k \in Counter : Whole(k) \in Nat
    BY <1>1, Totals
  <2> QED
    BY <1>4, <2>1 DEF Behind
<1>8. Missed
  BY <1>2 DEF Missed, Nil
<1> QED
  BY <1>3, <1>5, <1>6, <1>7, <1>8 DEF CountInv

\* Every step keeps what is known about the counts.
LEMMA StepCounts == StatsInv /\ CountInv /\ [Next]_vars => CountInv'
<1> SUFFICES ASSUME StatsInv, CountInv, [Next]_vars PROVE CountInv'
  OBVIOUS
<1>1. ASSUME UNCHANGED <<site, traffic, snap, at, reading, prev>> PROVE CountInv'
  <2>1. UNCHANGED <<site, traffic>> /\ UNCHANGED <<site, ctr, snap, at, reading, prev>>
    BY <1>1 DEF traffic
  <2> QED
    BY <2>1, ReaderCounts, SteadyCounts DEF CountInv
<1>2. CASE UNCHANGED vars
  BY <1>1, <1>2 DEF vars
<1>3. ASSUME NEW c \in Cpus, Receive(c) \/ Bump(c) PROVE CountInv'
  BY <1>3, ReceiveCounts, BumpCounts
<1>4. ASSUME Detach \/ Attach PROVE CountInv'
  <2>1. UNCHANGED <<site, ctr, todo, frames, snap, at, reading, prev>>
    BY <1>4 DEF Detach, Attach
  <2>2. Orderly'
    BY <2>1 DEF CountInv, Orderly, InOrder
  <2>3. \A k \in Counter : Pending(k)' = Pending(k) /\ Events'[k] = Events[k]
    BY <2>1, SameCounts DEF Pending
  <2>4. Bounded'
    BY <2>1, <2>3 DEF CountInv, Bounded
  <2> QED
    BY <2>1, <2>2, <2>4, SteadyCounts DEF CountInv
<1>5. ASSUME NEW dt \in site.intervals, Begin(dt) \/ Unavailable(dt) PROVE CountInv'
  BY <1>5, BeginCounts, UnavailableCounts
<1>6. ASSUME Copy \/ LookupFails PROVE CountInv'
  BY <1>6, CopyCounts, LookupFailsCounts
<1>7. ASSUME Tick \/ Sample \/ PrintStatus PROVE CountInv'
  <2>1. /\ UNCHANGED <<site, traffic, reading>> /\ at' = 0 /\ snap' = Nil
        /\ prev' = prev \/ (at = Len(Cells) + 1 /\ prev' = snap)
    BY <1>7 DEF Tick, Sample, PrintStatus, Done
  <2> QED
    BY <2>1, ReadingOver
<1> QED
  BY <1>2, <1>3, <1>4, <1>5, <1>6, <1>7 DEF Next

\* Whatever interleaves with a reading, it stays between the last reading of the same
\* maps and what they hold, and no counter exceeds the frames received.
THEOREM CountsHold == Spec => []CountInv
BY InitCounts, StepCounts, StatsInvariant, PTL DEF Spec

\* A difference smaller than the width of the counter is not changed by the wrap.
LEMMA NoWrap ==
    ASSUME NEW M \in Nat \ {0}, NEW d \in 0 .. M - 1
    PROVE  (d + M) % M = d
<1>1. PICK x \in Nat : x = d + M
  OBVIOUS
<1>2. PICK q \in Nat : q = x \div M
  OBVIOUS
<1>3. PICK m \in 0 .. M - 1 : m = x % M
  OBVIOUS
<1>4. x = M * q + m
  BY <1>2, <1>3
<1>5. M * 1 + d = M * q + m /\ M * 1 + d <= M * q + m /\ 1 \in Nat /\ M \in Nat
  BY <1>1, <1>4
<1>6. d = m
  BY <1>5, DivisionOrder
<1> QED
  BY <1>1, <1>3, <1>6

\* What the daemon's tick and the console's sample show of a counter is nothing, or
\* exactly what the reading has more than the last one.
LEMMA Differences ==
    ASSUME StatsInv, CountInv, at = Len(Cells) + 1, NEW k \in Counter
    PROVE  /\ site.reader = "daemon" /\ k # G("rst") =>
                Increase(k) = 0 \/ (prev.val[k] <= snap.val[k] /\ Increase(k) = snap.val[k] - prev.val[k])
           /\ Gain(k) = 0 \/ (prev.val[k] <= snap.val[k] /\ Gain(k) = snap.val[k] - prev.val[k])
           /\ Ahead(k) = 0
<1>1. site \in Sites /\ snap \in Snapshots /\ prev \in Snapshots /\ Len(Cells) \in Nat
  BY ReaderFacts
<1>2. snap.val[k] \in Nat /\ prev.val[k] \in Nat /\ at # 0
  BY <1>1 DEF Snapshots
<1>3. Ahead(k) \in Nat /\ Whole(k) \in Nat /\ Events[k] \in Nat /\ Whole(k) <= Events[k]
  BY Totals
<1>4. Ahead(k) = 0
  <2>1. {reading} \X Unread(at, k) = {}
    BY <1>1, UnreadAtLast
  <2> QED
    BY <2>1, SumEmpty DEF Ahead
<1>5. snap.val[k] <= Events[k]
  <2>1. snap.val[k] + Ahead(k) <= Whole(k)
    BY <1>2 DEF CountInv, Within
  <2> QED
    BY <1>2, <1>3, <2>1
<1>6. Gain(k) = 0 \/ (prev.val[k] <= snap.val[k] /\ Gain(k) = snap.val[k] - prev.val[k])
  BY <1>2 DEF Gain
<1>7. ASSUME site.reader = "daemon", k # G("rst"), Increase(k) # 0
      PROVE  prev.val[k] <= snap.val[k] /\ Increase(k) = snap.val[k] - prev.val[k]
  <2>1. /\ Row(k) /\ ~(k[1] = "reason" /\ snap.val[k] = 0)
        /\ Increase(k) = (snap.val[k] + Modulus - prev.val[k]) % Modulus
    BY <1>7 DEF Increase, Previous
  <2>2. k \notin snap.bad
    <3> SUFFICES ASSUME k \in snap.bad PROVE FALSE
      OBVIOUS
    <3>1. snap.val[k] = 0 /\ k[1] # "g"
      BY DEF CountInv, Missed
    <3>2. PICK v \in Vlans : k \in {<<"vpkts", v>>, <<"vdrops", v>>}
      BY <2>1, <3>1 DEF Counter
    <3>3. <<"vpkts", v>> \in snap.bad /\ <<"vdrops", v>> \in snap.bad
      BY <3>2 DEF CountInv, Missed
    <3>4. snap.val[<<"vpkts", v>>] = 0 /\ snap.val[<<"vdrops", v>>] = 0
      BY <3>3 DEF CountInv, Missed
    <3>5. k[1] \in {"vpkts", "vdrops"} /\ k[2] = v
      BY <3>2
    <3> QED
      BY <2>1, <3>4, <3>5 DEF Row
  <2>3. prev.val[k] <= snap.val[k]
    <3>1. prev.val[k] <= snap.val[k] + Ahead(k)
      BY <1>2, <1>7, <2>2 DEF CountInv, Rising
    <3> QED
      BY <1>2, <1>4, <3>1
  <2>4. Events[k] <= frames /\ frames \in Nat /\ frames <= site.frames
    <3>1. Events[k] + Cardinality(Pending(k)) <= frames /\ frames \in Nat /\ frames <= site.frames
      BY DEF CountInv, Bounded
    <3>2. Cardinality(Pending(k)) \in Nat
      <4>1. IsFiniteSet(Cpus) /\ Pending(k) \in SUBSET Cpus
        BY StatsConstants DEF Pending
      <4>2. IsFiniteSet(Pending(k))
        BY <4>1, FS_Subset
      <4> QED
        BY <4>2, FS_CardinalityType
    <3> QED
      BY <1>3, <3>1, <3>2
  <2>5. Modulus \in Nat \ {0} /\ site.frames \in 0 .. Modulus - 1
    BY <1>1, StatsConstants
  <2>6. snap.val[k] - prev.val[k] \in 0 .. Modulus - 1
    BY <1>2, <1>3, <1>5, <2>3, <2>4, <2>5
  <2>7. snap.val[k] + Modulus - prev.val[k] = (snap.val[k] - prev.val[k]) + Modulus
    BY <1>2, <2>5
  <2>8. Increase(k) = snap.val[k] - prev.val[k]
    BY <2>1, <2>5, <2>6, <2>7, NoWrap
  <2> QED
    BY <2>3, <2>8
<1> QED
  BY <1>4, <1>6, <1>7

----------------------------------------------------------------------------
(* What was shown so far *)

\* What map set m counted, and what the map sets before it did.
Held(k, m)  == SumFunctionOnSet(Copies(k), {m} \X site.cpus)
Below(k, m) == SumFunctionOnSet(Copies(k), (1 .. m - 1) \X site.cpus)

\* The counters that are never shown twice.
Watched == {k \in Counter \ lapsed : k = G("rst") => site.reader # "daemon"}

\* The last reading was taken from map set m, which only later ones replace: all that
\* was shown of a counter was counted by earlier map sets or is part of that reading,
\* and a new reading of the same maps will not fall below it.
Entry(k, m) ==
    /\ m <= sets + 1 /\ (attached # 0 => m <= sets) /\ (m <= sets \/ prev.val[k] = 0)
    /\ at # 0 \/ site.reader = "daemon" => m <= reading
    /\ prev.val[k] <= Held(k, m)
    /\ at # 0 /\ m = reading => prev.val[k] <= snap.val[k] + Ahead(k)
    /\ reported[k] <= Below(k, m) + prev.val[k]

LedgerInv ==
    /\ reported \in [Counter -> Nat]
    /\ \A k \in Watched : \E m \in MapSet : Entry(k, m)

\* The copies of earlier map sets and of this one are parts of all.
LEMMA SetsAdd ==
    ASSUME StatsInv, NEW k \in Counter, NEW m \in MapSet
    PROVE  /\ m \in Nat /\ Held(k, m) \in Nat /\ Below(k, m) \in Nat /\ Events[k] \in Nat
           /\ Below(k, m) + Held(k, m) <= Events[k]
           /\ \A n \in MapSet : m < n => Below(k, m) + Held(k, m) <= Below(k, n)
           /\ {m} \X site.cpus \in SUBSET (MapSet \X Cpus)
           /\ (1 .. m - 1) \X site.cpus \in SUBSET (MapSet \X Cpus)
<1> DEFINE X == (1 .. m - 1) \X site.cpus
           Y == {m} \X site.cpus
           Z == MapSet \X Cpus
<1>1. site.swaps \in Nat /\ site.cpus \subseteq Cpus
  BY ReaderFacts, StatsConstants
<1>2. m \in Nat /\ 1 .. m - 1 \subseteq MapSet /\ m \notin 1 .. m - 1
  BY <1>1 DEF MapSet
<1>3. X \in SUBSET Z /\ Y \in SUBSET Z /\ X \cup Y \in SUBSET Z /\ Z \in SUBSET Z
  BY <1>1, <1>2
<1>4. X \cap Y = {}
  <2> SUFFICES ASSUME NEW q \in X \cap Y PROVE FALSE
    OBVIOUS
  <2>1. q[1] \in 1 .. m - 1 /\ q[1] = m
    OBVIOUS
  <2> QED
    BY <1>2, <2>1
<1>5. ASSUME NEW n \in MapSet, m < n
      PROVE  (1 .. n - 1) \X site.cpus \in SUBSET Z /\ X \cup Y \in SUBSET ((1 .. n - 1) \X site.cpus)
  <2>1. n \in Nat /\ 1 .. n - 1 \subseteq MapSet /\ 1 .. m - 1 \subseteq 1 .. n - 1 /\ m \in 1 .. n - 1
    BY <1>1, <1>2, <1>5 DEF MapSet
  <2> QED
    BY <1>1, <2>1
<1>6. Events[k] = SumFunctionOnSet(Copies(k), Z)
  BY Zenon DEF Events
<1> HIDE DEF X, Y, Z
<1>7. /\ SumFunctionOnSet(Copies(k), X) \in Nat /\ SumFunctionOnSet(Copies(k), Y) \in Nat
      /\ SumFunctionOnSet(Copies(k), Z) \in Nat
      /\ SumFunctionOnSet(Copies(k), X \cup Y) <= SumFunctionOnSet(Copies(k), Z)
  BY <1>3, CopiesSum DEF Z
<1>8. SumFunctionOnSet(Copies(k), X \cup Y)
        = SumFunctionOnSet(Copies(k), X) + SumFunctionOnSet(Copies(k), Y)
  <2>1. /\ IsFiniteSet(X) /\ IsFiniteSet(Y) /\ X \in SUBSET (X \cup Y) /\ Y \in SUBSET (X \cup Y)
        /\ \A x \in X \cup Y : Copies(k)[x] \in Nat
    BY <1>3, CopiesTyped, FS_Subset DEF Z
  <2> QED
    BY <1>4, <2>1, SumUnion
<1>9. ASSUME NEW n \in MapSet, m < n
      PROVE  SumFunctionOnSet(Copies(k), X \cup Y) <= Below(k, n)
  BY <1>5, <1>9, CopiesSum DEF Below, Z
<1>10. Held(k, m) = SumFunctionOnSet(Copies(k), Y) /\ Below(k, m) = SumFunctionOnSet(Copies(k), X)
  BY DEF Held, Below, X, Y
<1>11. Below(k, m) + Held(k, m) <= Events[k]
  BY <1>6, <1>7, <1>8, <1>10
<1>12. \A n \in MapSet : m < n => Below(k, m) + Held(k, m) <= Below(k, n)
  BY <1>8, <1>9, <1>10
<1> QED
  BY <1>2, <1>3, <1>6, <1>7, <1>10, <1>11, <1>12 DEF X, Y, Z

\* These sums change with the counters alone.
LEMMA SameSets ==
    ASSUME UNCHANGED <<site, ctr>>, NEW k \in Counter, NEW m
    PROVE  Held(k, m)' = Held(k, m') /\ Below(k, m)' = Below(k, m')
<1>1. Copies(k)' = Copies(k)
  BY SameCounts
<1> QED
  BY <1>1 DEF Held, Below

\* A step keeps the ledger if it keeps the entry of every counter still watched.
LEMMA EntriesKept ==
    ASSUME LedgerInv, site' = site, lapsed \subseteq lapsed', reported' \in [Counter -> Nat],
           \A k \in Watched : \A m \in MapSet :
              k \notin lapsed' /\ Entry(k, m) => \E n \in MapSet : Entry(k, n)'
    PROVE  LedgerInv'
<1>1. MapSet' = MapSet
  BY DEF MapSet
<1>2. ASSUME NEW k \in Watched' PROVE \E n \in MapSet' : Entry(k, n)'
  <2>1. k \in Watched /\ k \notin lapsed'
    BY DEF Watched
  <2>2. PICK m \in MapSet : Entry(k, m)
    BY <2>1 DEF LedgerInv
  <2> QED
    BY <1>1, <2>1, <2>2
<1> QED
  BY <1>2 DEF LedgerInv

\* A step that leaves the counters, the readings and the ledger alone, and at most
\* replaces the data path.
LEMMA SteadyLedger ==
    ASSUME StatsInv, LedgerInv, UNCHANGED <<site, ctr, snap, at, reading, prev, ledger>>,
           sets' \in Nat, sets <= sets', attached' # 0 => (attached # 0 /\ sets' = sets) \/ sets' = sets + 1
    PROVE  LedgerInv'
<1>1. UNCHANGED <<reported, lapsed>>
  BY DEF ledger
<1>2. ASSUME NEW k \in Watched, NEW m \in MapSet, Entry(k, m) PROVE Entry(k, m)'
  <2>1. k \in Counter
    BY DEF Watched
  <2>2. Held(k, m)' = Held(k, m) /\ Below(k, m)' = Below(k, m)
    BY <2>1, SameSets
  <2>3. Ahead(k)' = Ahead(k)
    BY <2>1, SameCounts DEF Ahead
  <2>4. m \in Nat /\ sets \in Nat
    BY <2>1, SetsAdd, ReaderFacts
  <2>5. m <= sets' + 1 /\ (attached' # 0 => m <= sets') /\ (m <= sets' \/ prev'.val[k] = 0)
    BY <1>2, <2>4 DEF Entry
  <2> QED
    BY <1>1, <1>2, <2>2, <2>3, <2>5 DEF Entry
<1> QED
  BY <1>1, <1>2, EntriesKept DEF LedgerInv

\* A CPU bumps a counter: no sum gets smaller.
LEMMA BumpLedger ==
    ASSUME StatsInv, LedgerInv, NEW c \in Cpus, Bump(c)
    PROVE  LedgerInv'
<1>1. UNCHANGED <<site, attached, sets, snap, at, reading, prev, reported, lapsed>>
  BY DEF Bump, ledger
<1>2. ASSUME NEW k \in Counter, NEW X \in SUBSET (MapSet \X Cpus)
      PROVE  \E d \in {0, 1} : SumFunctionOnSet(Copies(k)', X) = SumFunctionOnSet(Copies(k), X) + d
  BY BumpSum
<1>3. ASSUME NEW k \in Watched, NEW m \in MapSet, Entry(k, m) PROVE Entry(k, m)'
  <2>1. k \in Counter
    BY DEF Watched
  <2>2. PICK d \in {0, 1} : Held(k, m)' = Held(k, m) + d
    BY <1>1, <1>2, <2>1, SetsAdd DEF Held
  <2>3. PICK e \in {0, 1} : Below(k, m)' = Below(k, m) + e
    BY <1>1, <1>2, <2>1, SetsAdd DEF Below
  <2>4. PICK f \in {0, 1} : Ahead(k)' = Ahead(k) + f
    <3>1. Unread(at, k)' = Unread(at, k)
      BY <1>1 DEF Unread, Cells
    <3> QED
      BY <1>1, <1>2, <2>1, <3>1, Totals DEF Ahead
  <2>5. /\ Held(k, m) \in Nat /\ Below(k, m) \in Nat /\ Ahead(k) \in Nat
        /\ snap.val[k] \in Nat /\ prev.val[k] \in Nat /\ reported[k] \in Nat
    BY <2>1, SetsAdd, Totals, ReaderFacts DEF Snapshots, LedgerInv
  <2>6. prev'.val[k] <= Held(k, m)' /\ reported'[k] <= Below(k, m)' + prev'.val[k]
    BY <1>1, <1>3, <2>2, <2>3, <2>5 DEF Entry
  <2>7. at' # 0 /\ m = reading' => prev'.val[k] <= snap'.val[k] + Ahead(k)'
    BY <1>1, <1>3, <2>4, <2>5 DEF Entry
  <2> QED
    BY <1>1, <1>3, <2>6, <2>7 DEF Entry
<1> QED
  BY <1>1, <1>3, EntriesKept DEF LedgerInv

\* A reading begins, of the maps of the last one or of later ones.
LEMMA BeginLedger ==
    ASSUME StatsInv, CountInv, LedgerInv, NEW dt \in site.intervals, Begin(dt)
    PROVE  LedgerInv'
<1>1. /\ UNCHANGED <<site, attached, sets, ctr, prev, reported, lapsed>> /\ at' = 1
      /\ snap' = [Nil EXCEPT !.when = now + dt]
      /\ \/ site.reader = "daemon" /\ reading' = reading
         \/ attached # 0 /\ reading' = attached
  BY DEF Begin, traffic, ledger
<1>2. attached \in {0, sets} /\ site \in Sites
  BY DEF StatsInv, TypeOK
<1>3. ASSUME NEW k \in Watched, NEW m \in MapSet, Entry(k, m) PROVE Entry(k, m)'
  <2>1. k \in Counter
    BY DEF Watched
  <2>2. Held(k, m)' = Held(k, m) /\ Below(k, m)' = Below(k, m)
    BY <1>1, <2>1, SameSets
  <2>3. m <= reading'
    BY <1>1, <1>2, <1>3 DEF Entry
  <2>4. ASSUME m = reading' PROVE prev'.val[k] <= snap'.val[k] + Ahead(k)'
    <3>1. Unread(at', k) = site.cpus
      BY <1>1, <1>2, <2>1, UnreadAtFirst
    <3>2. Ahead(k)' = Held(k, m)
      BY <1>1, <2>1, <2>4, <3>1, SameCounts DEF Held
    <3>3. snap'.val[k] = 0
      BY <1>1, <2>1 DEF Nil, Zero
    <3>4. Held(k, m) \in Nat
      BY <2>1, SetsAdd
    <3> QED
      BY <1>1, <1>3, <3>2, <3>3, <3>4 DEF Entry
  <2> QED
    BY <1>1, <1>3, <2>2, <2>3, <2>4 DEF Entry
<1> QED
  BY <1>1, <1>3, EntriesKept DEF LedgerInv

\* The console forgets a reading of maps that are gone: what it has shown was counted
\* by map sets older than the next.
LEMMA UnavailableLedger ==
    ASSUME StatsInv, LedgerInv, NEW dt, Unavailable(dt)
    PROVE  LedgerInv'
<1>1. /\ UNCHANGED <<site, attached, sets, ctr, snap, at, reading, reported, lapsed>>
      /\ at = 0 /\ attached = 0 /\ prev' = Nil /\ site.reader = "console"
  BY DEF Unavailable, traffic, ledger
<1>2. sets \in Nat /\ sets + 1 \in MapSet /\ prev \in Snapshots
  BY <1>1, ReaderFacts DEF StatsInv, Room, MapSet
<1>3. ASSUME NEW k \in Watched, NEW m \in MapSet, Entry(k, m) PROVE Entry(k, sets + 1)'
  <2>1. k \in Counter /\ prev'.val[k] = 0
    BY <1>1 DEF Watched, Nil, Zero
  <2>2. /\ Held(k, sets + 1)' = Held(k, sets + 1) /\ Below(k, sets + 1)' = Below(k, sets + 1)
        /\ Held(k, sets + 1) \in Nat /\ Below(k, sets + 1) \in Nat
    BY <1>1, <1>2, <2>1, SameSets, SetsAdd
  <2>3. m \in Nat /\ Held(k, m) \in Nat /\ Below(k, m) \in Nat /\ prev.val[k] \in Nat /\ reported[k] \in Nat
    BY <1>2, <2>1, SetsAdd DEF Snapshots, LedgerInv
  <2>4. /\ m <= sets + 1 /\ (m <= sets \/ prev.val[k] = 0)
        /\ prev.val[k] <= Held(k, m) /\ reported[k] <= Below(k, m) + prev.val[k]
    BY <1>3 DEF Entry
  <2>5. reported[k] <= Below(k, sets + 1)
    <3>1. CASE m <= sets
      <4>1. Below(k, m) + Held(k, m) <= Below(k, sets + 1)
        BY <1>2, <2>1, <2>3, <3>1, SetsAdd
      <4> QED
        BY <2>2, <2>3, <2>4, <4>1
    <3>2. CASE m = sets + 1 /\ prev.val[k] = 0
      BY <2>3, <2>4, <3>2
    <3> QED
      BY <1>2, <2>3, <2>4, <3>1, <3>2
  <2>6. reported'[k] <= Below(k, sets + 1)' + prev'.val[k]
    BY <1>1, <2>1, <2>2, <2>5
  <2> QED
    BY <1>1, <1>2, <2>1, <2>2, <2>6 DEF Entry
<1> QED
  BY <1>1, <1>2, <1>3, EntriesKept DEF LedgerInv

\* A cell is read: it moves from what is ahead into the reading.
LEMMA CopyLedger ==
    ASSUME StatsInv, LedgerInv, Copy
    PROVE  LedgerInv'
<1>1. UNCHANGED <<site, attached, sets, ctr, reading, prev, reported, lapsed>> /\ at \in DOMAIN Cells
  BY DEF Copy, traffic, ledger
<1>2. at # 0
  BY <1>1, ReaderFacts, CellsTyped
<1>3. ASSUME NEW k \in Watched, NEW m \in MapSet, Entry(k, m) PROVE Entry(k, m)'
  <2>1. k \in Counter
    BY DEF Watched
  <2>2. Held(k, m)' = Held(k, m) /\ Below(k, m)' = Below(k, m)
    BY <1>1, <2>1, SameSets
  <2>3. snap'.val[k] + Ahead(k)' = snap.val[k] + Ahead(k)
    BY <2>1, CopyMoves
  <2> QED
    BY <1>1, <1>2, <1>3, <2>2, <2>3 DEF Entry
<1> QED
  BY <1>1, <1>3, EntriesKept DEF LedgerInv

\* A reading is given up, or printed by `status`: no reading is remembered.
LEMMA DroppedLedger ==
    ASSUME StatsInv, LedgerInv, UNCHANGED <<site, traffic, reading, prev, reported, lapsed>>, at' = 0
    PROVE  LedgerInv'
<1>1. UNCHANGED <<site, attached, sets, ctr>>
  BY DEF traffic
<1>2. ASSUME NEW k \in Watched, NEW m \in MapSet, Entry(k, m) PROVE Entry(k, m)'
  <2>1. k \in Counter
    BY DEF Watched
  <2>2. Held(k, m)' = Held(k, m) /\ Below(k, m)' = Below(k, m)
    BY <1>1, <2>1, SameSets
  <2> QED
    BY <1>1, <1>2, <2>2 DEF Entry
<1> QED
  BY <1>1, <1>2, EntriesKept DEF LedgerInv

\* A lookup fails: its counters are watched no longer, the others' cells are all ahead.
LEMMA LookupFailsLedger ==
    ASSUME StatsInv, LedgerInv, LookupFails
    PROVE  LedgerInv'
<1>1. /\ UNCHANGED <<site, attached, sets, ctr, reading, prev, reported>> /\ UNCHANGED <<site, traffic>>
      /\ at \in DOMAIN Cells
  BY DEF LookupFails, traffic
<1>2. CASE G("rx") \in Cells[at].words
  <2>1. at' = 0 /\ lapsed' = lapsed
    BY <1>2 DEF LookupFails
  <2> QED
    BY <1>1, <2>1, DroppedLedger
<1>3. CASE G("rx") \notin Cells[at].words
  <2>1. /\ at' = 1 + Cardinality({i \in DOMAIN Cells : Cells[i].lookup <= Cells[at].lookup})
        /\ snap' = [snap EXCEPT !.bad = @ \cup Cells[at].words]
        /\ lapsed' = lapsed \cup Cells[at].words
        /\ \A i \in 1 .. at - 1 : Cells[i].lookup # Cells[at].lookup
    BY <1>3 DEF LookupFails
  <2>2. site \in Sites /\ snap \in Snapshots
    BY ReaderFacts
  <2>3. snap'.val = snap.val
    BY <2>1, <2>2 DEF Snapshots
  <2>4. at # 0
    BY <1>1, <2>2, CellsTyped
  <2>5. ASSUME NEW k \in Watched, NEW m \in MapSet, k \notin lapsed', Entry(k, m) PROVE Entry(k, m)'
    <3>1. k \in Counter /\ k \notin Cells[at].words
      BY <2>1, <2>5 DEF Watched
    <3>2. Held(k, m)' = Held(k, m) /\ Below(k, m)' = Below(k, m)
      BY <1>1, <3>1, SameSets
    <3>3. Unread(at', k) = Unread(at, k)
      BY <1>1, <2>1, <2>2, <3>1, UnreadSkip
    <3>4. Ahead(k)' = Ahead(k)
      BY <1>1, <3>1, <3>3, SameCounts DEF Ahead
    <3> QED
      BY <1>1, <2>3, <2>4, <2>5, <3>2, <3>4 DEF Entry
  <2> QED
    BY <1>1, <2>1, <2>5, EntriesKept DEF LedgerInv
<1> QED
  BY <1>2, <1>3

\* A report: the reading that was taken becomes the last one, and what it has more than
\* the one before may be shown.
LEMMA ReportLedger ==
    ASSUME StatsInv, CountInv, LedgerInv, UNCHANGED <<site, traffic, reading, lapsed>>,
           at = Len(Cells) + 1, at' = 0, prev' = snap, reported' \in [Counter -> Nat],
           \A k \in Watched :
              \/ reported'[k] = reported[k]
              \/ prev.val[k] <= snap.val[k] /\ reported'[k] = reported[k] + (snap.val[k] - prev.val[k])
    PROVE  LedgerInv'
<1>1. UNCHANGED <<site, attached, sets, ctr>> /\ reading \in MapSet /\ reading \in 1 .. sets /\ sets \in Nat
  BY ReaderFacts DEF traffic
<1>2. at # 0
  BY ReaderFacts
<1>3. ASSUME NEW k \in Watched, NEW m \in MapSet, Entry(k, m) PROVE Entry(k, reading)'
  <2>1. k \in Counter
    BY DEF Watched
  <2>2. /\ m \in Nat /\ Held(k, m) \in Nat /\ Below(k, m) \in Nat
        /\ Held(k, reading) \in Nat /\ Below(k, reading) \in Nat
        /\ snap.val[k] \in Nat /\ prev.val[k] \in Nat /\ reported[k] \in Nat
    BY <1>1, <2>1, SetsAdd, ReaderFacts DEF Snapshots, LedgerInv
  <2>3. Held(k, reading)' = Held(k, reading) /\ Below(k, reading)' = Below(k, reading)
    BY <1>1, <2>1, SameSets
  <2>4. Ahead(k) = 0 /\ snap.val[k] + Ahead(k) <= Held(k, reading)
    <3>1. Ahead(k) = 0
      BY <2>1, Differences
    <3>2. snap.val[k] + Ahead(k) <= Whole(k)
      BY <1>2, <2>1 DEF CountInv, Within
    <3> QED
      BY <3>1, <3>2 DEF Whole, Held
  <2>5. m <= reading /\ prev.val[k] <= Held(k, m) /\ reported[k] <= Below(k, m) + prev.val[k]
    BY <1>2, <1>3 DEF Entry
  <2>6. reported'[k] <= Below(k, reading) + snap.val[k]
    <3>1. CASE m = reading
      <4>1. prev.val[k] <= snap.val[k] + Ahead(k)
        BY <1>2, <1>3, <3>1 DEF Entry
      <4> QED
        BY <2>2, <2>4, <2>5, <3>1, <4>1
    <3>2. CASE m < reading
      <4>1. Below(k, m) + Held(k, m) <= Below(k, reading)
        BY <1>1, <2>1, <3>2, SetsAdd
      <4>2. CASE reported'[k] = reported[k]
        <5>1. reported[k] <= Below(k, m) + Held(k, m)
          BY <2>2, <2>5
        <5>2. reported[k] <= Below(k, reading)
          BY <2>2, <4>1, <5>1
        <5> QED
          BY <2>2, <4>2, <5>2
      <4>3. CASE reported'[k] = reported[k] + (snap.val[k] - prev.val[k])
        <5>1. Below(k, m) <= Below(k, reading)
          BY <2>2, <4>1
        <5>2. reported'[k] <= Below(k, m) + snap.val[k]
          BY <2>2, <2>5, <4>3
        <5> QED
          BY <2>2, <4>3, <5>1, <5>2
      <4> QED
        BY <4>2, <4>3
    <3> QED
      BY <1>1, <2>2, <2>5, <3>1, <3>2
  <2> QED
    BY <1>1, <2>2, <2>3, <2>4, <2>6 DEF Entry
<1> QED
  BY <1>1, <1>3, EntriesKept

\* The daemon's tick and the console's sample are reports.
LEMMA ShowLedger ==
    ASSUME StatsInv, CountInv, LedgerInv, Tick \/ Sample
    PROVE  LedgerInv'
<1>1. /\ UNCHANGED <<site, traffic, reading, lapsed>>
      /\ at = Len(Cells) + 1 /\ at' = 0 /\ prev' = snap
  BY DEF Tick, Sample, Done
<1>2. ASSUME NEW k \in Counter PROVE Increase(k) \in Nat /\ Gain(k) \in Nat
  BY IncreaseTyped
<1>3. reported \in [Counter -> Nat]
  BY DEF LedgerInv
<1>4. CASE Tick /\ reported' = reported
  BY <1>1, <1>3, <1>4, ReportLedger
<1>5. CASE Tick /\ reported' = [k \in Counter |-> reported[k] + Increase(k)]
  <2>1. reported' \in [Counter -> Nat]
    BY <1>2, <1>3, <1>5
  <2>2. ASSUME NEW k \in Watched
        PROVE  \/ reported'[k] = reported[k]
               \/ prev.val[k] <= snap.val[k] /\ reported'[k] = reported[k] + (snap.val[k] - prev.val[k])
    <3>1. k \in Counter /\ site.reader = "daemon" /\ k # G("rst")
      BY <1>5 DEF Watched, Tick
    <3>2. Increase(k) = 0 \/ (prev.val[k] <= snap.val[k] /\ Increase(k) = snap.val[k] - prev.val[k])
      BY <1>1, <3>1, Differences
    <3>3. reported'[k] = reported[k] + Increase(k) /\ reported[k] \in Nat
      BY <1>3, <1>5, <3>1
    <3> QED
      BY <3>2, <3>3
  <2> QED
    BY <1>1, <2>1, <2>2, ReportLedger
<1>6. CASE Sample
  <2>1. reported' = [k \in Counter |-> reported[k] + Gain(k)]
    BY <1>6 DEF Sample, Show
  <2>2. reported' \in [Counter -> Nat]
    BY <1>2, <1>3, <2>1
  <2>3. ASSUME NEW k \in Watched
        PROVE  \/ reported'[k] = reported[k]
               \/ prev.val[k] <= snap.val[k] /\ reported'[k] = reported[k] + (snap.val[k] - prev.val[k])
    <3>1. k \in Counter
      BY DEF Watched
    <3>2. Gain(k) = 0 \/ (prev.val[k] <= snap.val[k] /\ Gain(k) = snap.val[k] - prev.val[k])
      BY <1>1, <3>1, Differences
    <3>3. reported'[k] = reported[k] + Gain(k) /\ reported[k] \in Nat
      BY <1>3, <2>1, <3>1
    <3> QED
      BY <3>2, <3>3
  <2> QED
    BY <1>1, <2>2, <2>3, ReportLedger
<1>7. Tick => reported' = reported \/ reported' = [k \in Counter |-> reported[k] + Increase(k)]
  BY DEF Tick, Show
<1> QED
  BY <1>4, <1>5, <1>6, <1>7

\* At first nothing was counted and nothing shown.
LEMMA InitLedger == Init => LedgerInv
<1> SUFFICES ASSUME Init PROVE LedgerInv
  OBVIOUS
<1>1. StatsInv
  BY InitInv
<1>2. /\ at = 0 /\ prev = Nil /\ attached = 1 /\ sets = 1 /\ reading = 1 /\ reported = Zero
  BY DEF Init
<1>3. 1 \in MapSet /\ reported \in [Counter -> Nat]
  BY <1>1, <1>2, ReaderFacts DEF Zero
<1>4. ASSUME NEW k \in Watched PROVE Entry(k, 1)
  <2>1. k \in Counter /\ prev.val[k] = 0 /\ reported[k] = 0
    BY <1>2 DEF Watched, Nil, Zero
  <2>2. Held(k, 1) \in Nat /\ Below(k, 1) \in Nat
    BY <1>1, <1>3, <2>1, SetsAdd
  <2> QED
    BY <1>2, <2>1, <2>2 DEF Entry
<1> QED
  BY <1>3, <1>4 DEF LedgerInv

\* Every step keeps the ledger.
LEMMA StepLedger == StatsInv /\ CountInv /\ LedgerInv /\ [Next]_vars => LedgerInv'
<1> SUFFICES ASSUME StatsInv, CountInv, LedgerInv, [Next]_vars PROVE LedgerInv'
  OBVIOUS
<1>1. sets \in Nat
  BY ReaderFacts
<1>2. CASE UNCHANGED vars
  <2>1. UNCHANGED <<site, attached, sets, ctr, snap, at, reading, prev, ledger>>
    BY <1>2 DEF vars, traffic
  <2> QED
    BY <1>1, <2>1, SteadyLedger
<1>3. ASSUME NEW c \in Cpus, Receive(c) \/ Bump(c) PROVE LedgerInv'
  <2>1. CASE Receive(c)
    <3>1. UNCHANGED <<site, attached, sets, ctr, snap, at, reading, prev, ledger>>
      BY <2>1 DEF Receive
    <3> QED
      BY <1>1, <3>1, SteadyLedger
  <2> QED
    BY <1>3, <2>1, BumpLedger
<1>4. ASSUME Detach \/ Attach PROVE LedgerInv'
  <2>1. /\ UNCHANGED <<site, ctr, snap, at, reading, prev, ledger>>
        /\ (attached' = 0 /\ sets' = sets) \/ sets' = sets + 1
    BY <1>4 DEF Detach, Attach
  <2> QED
    BY <1>1, <2>1, SteadyLedger
<1>5. ASSUME NEW dt \in site.intervals, Begin(dt) \/ Unavailable(dt) PROVE LedgerInv'
  BY <1>5, BeginLedger, UnavailableLedger
<1>6. ASSUME Copy \/ LookupFails PROVE LedgerInv'
  BY <1>6, CopyLedger, LookupFailsLedger
<1>7. ASSUME PrintStatus PROVE LedgerInv'
  BY <1>7, DroppedLedger DEF PrintStatus, Done, ledger
<1> QED
  BY <1>2, <1>3, <1>4, <1>5, <1>6, <1>7, ShowLedger DEF Next

\* Whatever Reporter.render and Rates() have shown of a counter over all their reports
\* adds up to no more than was counted, if none of its lookups failed: each packet is
\* in one interval at most, through readings that were given up, reports that could
\* not be written and data paths that were replaced.
THEOREM CountsShownOnce == Spec => []ShownOnce
<1>1. ASSUME StatsInv, LedgerInv PROVE ShownOnce
  <2> SUFFICES ASSUME NEW k \in Watched PROVE reported[k] <= Events[k]
    BY DEF ShownOnce, Watched
  <2>1. PICK m \in MapSet : Entry(k, m)
    BY <1>1 DEF LedgerInv
  <2>2. k \in Counter
    BY DEF Watched
  <2>3. /\ Held(k, m) \in Nat /\ Below(k, m) \in Nat /\ Events[k] \in Nat
        /\ Below(k, m) + Held(k, m) <= Events[k]
    BY <1>1, <2>2, SetsAdd
  <2>4. prev.val[k] \in Nat /\ reported[k] \in Nat
    BY <1>1, <2>2, ReaderFacts DEF Snapshots, LedgerInv
  <2>5. prev.val[k] <= Held(k, m) /\ reported[k] <= Below(k, m) + prev.val[k]
    BY <2>1 DEF Entry
  <2> QED
    BY <2>3, <2>4, <2>5
<1> QED
  BY <1>1, InitLedger, StepLedger, CountsHold, StatsInvariant, PTL DEF Spec

----------------------------------------------------------------------------
(* Every drop has its reason *)

\* A CPU that has bumped a reason and is about to bump the drop or the reset it is for.
Owed(s, c) ==
    IF todo[c].set = s /\ todo[c].left # <<>> /\ Head(todo[c].left) \in Answer THEN 1 ELSE 0

\* Per CPU, the drops and resets that a map set counts or is about to count; and per
\* CPU and reason, those it has a reason for.
Answered(s)  == [c \in Cpus |-> ctr[s][c][G("drop")] + ctr[s][c][G("rst")] + Owed(s, c)]
Explained(s) == [x \in Cpus \X Reasons |-> ctr[s][x[1]][<<"reason", x[2]>>]]

\* Every drop and reset of a map set has its reason in the same map set.
Balanced ==
    \A s \in MapSet :
        SumFunctionOnSet(Answered(s), site.cpus) <= SumFunctionOnSet(Explained(s), site.cpus \X Reasons)

\* So it is with a reading and what it will still find.
UnreadReasons == {x \in site.cpus \X Reasons : x[1] \in Unread(at, <<"reason", x[2]>>)}
ReadReasons   == [r \in Reasons |-> snap.val[<<"reason", r>>]]
Accounted ==
    at # 0 /\ snap.bad = {} =>
        snap.val[G("drop")] + snap.val[G("rst")] + SumFunctionOnSet(Answered(reading), Unread(at, G("drop")))
          <= SumFunctionOnSet(ReadReasons, Reasons) + SumFunctionOnSet(Explained(reading), UnreadReasons)

\* The counters named here are counters.
LEMMA AnswerTyped ==
    /\ G("drop") \in Counter /\ G("rst") \in Counter /\ G("rx") \in Counter
    /\ \A r \in Reasons : <<"reason", r>> \in Counter
BY DEF G, Counter, GlobalWords

\* Both tables hold natural numbers.
LEMMA TablesTyped ==
    ASSUME StatsInv, NEW s \in MapSet
    PROVE  /\ \A c \in Cpus : Answered(s)[c] \in Nat
           /\ \A x \in Cpus \X Reasons : Explained(s)[x] \in Nat
<1>1. ctr \in [MapSet -> [Cpus -> [Counter -> Nat]]]
  BY DEF StatsInv, TypeOK
<1>2. ASSUME NEW c \in Cpus PROVE Answered(s)[c] \in Nat
  <2>1. ctr[s][c][G("drop")] \in Nat /\ ctr[s][c][G("rst")] \in Nat
    BY <1>1, AnswerTyped
  <2>2. Owed(s, c) \in {0, 1}
    BY DEF Owed
  <2>3. Answered(s)[c] = ctr[s][c][G("drop")] + ctr[s][c][G("rst")] + Owed(s, c)
    BY DEF Answered
  <2> QED
    BY <2>1, <2>2, <2>3
<1>3. ASSUME NEW x \in Cpus \X Reasons PROVE Explained(s)[x] \in Nat
  <2>1. x[1] \in Cpus /\ x[2] \in Reasons
    OBVIOUS
  <2>2. ctr[s][x[1]][<<"reason", x[2]>>] \in Nat
    BY <1>1, <2>1, AnswerTyped
  <2> QED
    BY <2>2 DEF Explained
<1> QED
  BY <1>2, <1>3

\* So do their sums.
LEMMA TableSums ==
    ASSUME StatsInv, NEW s \in MapSet, NEW U \in SUBSET Cpus, NEW V \in SUBSET (Cpus \X Reasons)
    PROVE  /\ IsFiniteSet(U) /\ IsFiniteSet(V)
           /\ SumFunctionOnSet(Answered(s), U) \in Nat
           /\ SumFunctionOnSet(Explained(s), V) \in Nat
<1>1. IsFiniteSet(Cpus) /\ IsFiniteSet(Reasons)
  BY StatsConstants
<1>2. IsFiniteSet(Cpus \X Reasons)
  BY <1>1, FS_Product
<1>3. IsFiniteSet(U) /\ IsFiniteSet(V)
  BY <1>1, <1>2, FS_Subset
<1>4. /\ \A c \in U : Answered(s)[c] \in Nat
      /\ \A x \in V : Explained(s)[x] \in Nat
  BY TablesTyped
<1> QED
  BY <1>3, <1>4, SumTyped

\* A bump never leaves a drop or a reset without its reason: the reason is bumped first,
\* by the same CPU and in the same map set.
LEMMA BumpBalance ==
    ASSUME StatsInv, Orderly, NEW c \in Cpus, Bump(c), NEW s \in MapSet,
           NEW U \in SUBSET Cpus, NEW V \in SUBSET (Cpus \X Reasons),
           \A d \in U : \A r \in Reasons : <<d, r>> \in V
    PROVE  \E a, b \in {0, 1} :
             /\ SumFunctionOnSet(Answered(s)', U) = SumFunctionOnSet(Answered(s), U) + a
             /\ SumFunctionOnSet(Explained(s)', V) = SumFunctionOnSet(Explained(s), V) + b
             /\ a <= b
<1> DEFINE l == todo[c].left
           h == Head(todo[c].left)
           t == todo[c].set
           f == Answered(s)
           g == Answered(s)'
           p == Explained(s)
           q == Explained(s)'
<1>1. /\ l # <<>> /\ todo' = [todo EXCEPT ![c].left = Tail(@)]
      /\ ctr' = [ctr EXCEPT ![t][c][h] = @ + 1] /\ site' = site
  BY DEF Bump
<1>2. l \in Seq(Counter) /\ t \in 1 .. sets
  BY DEF StatsInv, TypeOK
<1>3. InOrder(l)
  BY DEF Orderly
<1>4. Tail(l) # <<>> /\ Head(Tail(l)) \in Answer => h[1] = "reason"
  BY <1>1, <1>2, <1>3, TailInOrder
<1>5. h \in Counter
  <2>1. \A S : \A z \in Seq(S) : z # <<>> => Head(z) \in S
    OBVIOUS
  <2> QED
    BY <1>1, <1>2, <2>1, Zenon
<1>6. t \in MapSet
  <2>1. site.swaps \in Nat /\ sets \in MapSet
    BY ReaderFacts
  <2> QED
    BY <1>2, <2>1 DEF MapSet
<1>7. ctr \in [MapSet -> [Cpus -> [Counter -> Nat]]]
  BY DEF StatsInv, TypeOK
<1>8. /\ \A d \in Cpus : todo'[d].set = todo[d].set
      /\ \A d \in Cpus : todo'[d].left = IF d = c THEN Tail(l) ELSE todo[d].left
  BY <1>1 DEF StatsInv, TypeOK
<1> HIDE DEF l, h, t
<1>9. ASSUME NEW d \in Cpus, NEW k \in Counter
      PROVE  ctr'[s][d][k] = IF s = t /\ d = c /\ k = h THEN ctr[s][d][k] + 1 ELSE ctr[s][d][k]
  BY <1>1, <1>5, <1>6, <1>7
<1>10. ASSUME NEW d \in Cpus
       PROVE  f[d] = ctr[s][d][G("drop")] + ctr[s][d][G("rst")] + Owed(s, d)
              /\ g[d] = ctr'[s][d][G("drop")] + ctr'[s][d][G("rst")] + Owed(s, d)'
  BY DEF Answered
<1>11. ASSUME NEW d \in Cpus
       PROVE  /\ ctr[s][d][G("drop")] \in Nat /\ ctr[s][d][G("rst")] \in Nat
              /\ Owed(s, d) \in {0, 1} /\ Owed(s, d)' \in {0, 1}
  BY <1>7, AnswerTyped DEF Owed
<1>12. ASSUME NEW d \in Cpus, d # c \/ s # t PROVE g[d] = f[d]
  <2>1. Owed(s, d)' = Owed(s, d)
    BY <1>8, <1>12 DEF Owed, t
  <2> QED
    BY <1>9, <1>10, <1>12, <2>1, AnswerTyped
<1>13. ASSUME h[1] = "reason", s = t PROVE \E a \in {0, 1} : g[c] = f[c] + a
  <2>1. h # G("drop") /\ h # G("rst")
    BY <1>13 DEF G
  <2>2. Owed(s, c) = 0
    BY <2>1 DEF Owed, Answer, h
  <2>3. ctr'[s][c][G("drop")] = ctr[s][c][G("drop")] /\ ctr'[s][c][G("rst")] = ctr[s][c][G("rst")]
    BY <1>9, <2>1, AnswerTyped
  <2> QED
    BY <1>10, <1>11, <2>2, <2>3
<1>14. ASSUME h[1] # "reason", s = t PROVE g[c] = f[c]
  <2>1. Owed(s, c)' = 0
    BY <1>4, <1>8, <1>14 DEF Owed
  <2>2. Owed(s, c) = IF h \in Answer THEN 1 ELSE 0
    BY <1>1, <1>14 DEF Owed, h, l, t
  <2>3. G("drop") # G("rst")
    BY DEF G
  <2>4. CASE h \in Answer
    <3>1. \/ /\ ctr'[s][c][G("drop")] = ctr[s][c][G("drop")] + 1
             /\ ctr'[s][c][G("rst")] = ctr[s][c][G("rst")]
          \/ /\ ctr'[s][c][G("drop")] = ctr[s][c][G("drop")]
             /\ ctr'[s][c][G("rst")] = ctr[s][c][G("rst")] + 1
      BY <1>9, <1>14, <2>3, <2>4, AnswerTyped DEF Answer
    <3> QED
      BY <1>10, <1>11, <2>1, <2>2, <2>4, <3>1
  <2>5. CASE h \notin Answer
    <3>1. ctr'[s][c][G("drop")] = ctr[s][c][G("drop")] /\ ctr'[s][c][G("rst")] = ctr[s][c][G("rst")]
      BY <1>9, <2>5, AnswerTyped DEF Answer
    <3> QED
      BY <1>10, <1>11, <2>1, <2>2, <2>5, <3>1
  <2> QED
    BY <2>4, <2>5
<1>15. /\ IsFiniteSet(U) /\ IsFiniteSet(V)
       /\ \A d \in U : f[d] \in Nat
       /\ \A x \in V : p[x] \in Nat
       /\ SumFunctionOnSet(f, U) \in Nat /\ SumFunctionOnSet(p, V) \in Nat
  BY TableSums, TablesTyped
<1>16. ASSUME NEW x \in Cpus \X Reasons
       PROVE  q[x] = IF s = t /\ x[1] = c /\ h = <<"reason", x[2]>> THEN p[x] + 1 ELSE p[x]
  <2>1. x[1] \in Cpus /\ x[2] \in Reasons /\ <<"reason", x[2]>> \in Counter
    BY AnswerTyped
  <2>2. p[x] = ctr[s][x[1]][<<"reason", x[2]>>] /\ q[x] = ctr'[s][x[1]][<<"reason", x[2]>>]
    BY DEF Explained
  <2> QED
    BY <1>9, <2>1, <2>2
<1> HIDE DEF f, g, p, q
<1>17. \E a \in {0, 1} : /\ SumFunctionOnSet(g, U) = SumFunctionOnSet(f, U) + a
                         /\ a = 1 => s = t /\ h[1] = "reason" /\ c \in U
  <2>1. CASE s = t /\ h[1] = "reason" /\ c \in U
    <3>1. PICK a \in {0, 1} : g[c] = f[c] + a
      BY <1>13, <2>1
    <3>2. \A d \in U \ {c} : g[d] = f[d]
      BY <1>12
    <3>3. a \in Nat
      OBVIOUS
    <3>4. SumFunctionOnSet(g, U) = SumFunctionOnSet(f, U) + a
      BY <1>15, <2>1, <3>1, <3>2, <3>3, SumGrows
    <3> QED
      BY <2>1, <3>4
  <2>2. CASE ~(s = t /\ h[1] = "reason" /\ c \in U)
    <3>1. \A d \in U : f[d] \in Nat /\ f[d] = g[d]
      BY <1>12, <1>14, <1>15, <2>2
    <3>2. SumFunctionOnSet(f, U) = SumFunctionOnSet(g, U)
      BY <1>15, <3>1, SumSame
    <3> QED
      BY <1>15, <3>2
  <2> QED
    BY <2>1, <2>2
<1>18. \E b \in {0, 1} : /\ SumFunctionOnSet(q, V) = SumFunctionOnSet(p, V) + b
                         /\ s = t /\ h[1] = "reason" /\ c \in U => b = 1
  <2>1. CASE s = t /\ \E r \in Reasons : h = <<"reason", r>> /\ <<c, r>> \in V
    <3>1. PICK r \in Reasons : h = <<"reason", r>> /\ <<c, r>> \in V
      BY <2>1
    <3> DEFINE x == <<c, r>>
    <3>2. x \in V /\ q[x] = p[x] + 1
      BY <1>16, <2>1, <3>1
    <3>3. \A y \in V \ {x} : q[y] = p[y]
      <4> SUFFICES ASSUME NEW y \in V, y # x PROVE q[y] = p[y]
        OBVIOUS
      <4>1. y \in Cpus \X Reasons
        OBVIOUS
      <4>2. ~(y[1] = c /\ y[2] = r)
        BY <4>1
      <4>3. <<"reason", y[2]>> = <<"reason", r>> => y[2] = r
        OBVIOUS
      <4> QED
        BY <1>16, <3>1, <4>1, <4>2, <4>3
    <3> HIDE DEF x
    <3>4. 1 \in Nat
      OBVIOUS
    <3>5. SumFunctionOnSet(q, V) = SumFunctionOnSet(p, V) + 1
      BY <1>15, <3>2, <3>3, <3>4, SumGrows
    <3> QED
      BY <3>5
  <2>2. CASE ~(s = t /\ \E r \in Reasons : h = <<"reason", r>> /\ <<c, r>> \in V)
    <3>1. \A y \in V : p[y] \in Nat /\ p[y] = q[y]
      <4> SUFFICES ASSUME NEW y \in V PROVE p[y] = q[y]
        BY <1>15
      <4>1. y \in Cpus \X Reasons
        OBVIOUS
      <4>2. y = <<y[1], y[2]>> /\ y[2] \in Reasons
        BY <4>1
      <4> QED
        BY <1>16, <2>2, <4>1, <4>2
    <3>2. SumFunctionOnSet(p, V) = SumFunctionOnSet(q, V)
      BY <1>15, <3>1, SumSame
    <3>3. ~(s = t /\ h[1] = "reason" /\ c \in U)
      <4> SUFFICES ASSUME s = t, h[1] = "reason", c \in U PROVE FALSE
        OBVIOUS
      <4>1. PICK r \in Reasons : h = <<"reason", r>>
        BY <1>5 DEF Counter
      <4> QED
        BY <2>2, <4>1
    <3> QED
      BY <1>15, <3>2, <3>3
  <2> QED
    BY <2>1, <2>2
<1>19. PICK a \in {0, 1} : /\ SumFunctionOnSet(g, U) = SumFunctionOnSet(f, U) + a
                           /\ a = 1 => s = t /\ h[1] = "reason" /\ c \in U
  BY <1>17
<1>20. PICK b \in {0, 1} : /\ SumFunctionOnSet(q, V) = SumFunctionOnSet(p, V) + b
                           /\ s = t /\ h[1] = "reason" /\ c \in U => b = 1
  BY <1>18
<1>21. a <= b
  BY <1>19, <1>20
<1> QED
  BY <1>19, <1>20, <1>21 DEF f, g, p, q

\* The invariant behind the promise that drops and reasons tally.
AccountInv == Balanced /\ Accounted

\* The reading's own sums are natural numbers over CPUs of the installation.
LEMMA AccountTyped ==
    ASSUME StatsInv
    PROVE  /\ reading \in MapSet /\ site \in Sites /\ site.cpus \in SUBSET Cpus /\ IsFiniteSet(Reasons)
           /\ Unread(at, G("drop")) \in SUBSET Cpus /\ UnreadReasons \in SUBSET (Cpus \X Reasons)
           /\ \A k \in Counter : snap.val[k] \in Nat
           /\ \A r \in Reasons : ReadReasons[r] = snap.val[<<"reason", r>>] /\ ReadReasons[r] \in Nat
           /\ SumFunctionOnSet(ReadReasons, Reasons) \in Nat
           /\ SumFunctionOnSet(Answered(reading), Unread(at, G("drop"))) \in Nat
           /\ SumFunctionOnSet(Explained(reading), UnreadReasons) \in Nat
<1>1. reading \in MapSet /\ site \in Sites /\ snap \in Snapshots
  BY ReaderFacts
<1>2. site.cpus \in SUBSET Cpus /\ IsFiniteSet(Reasons)
  BY <1>1, StatsConstants
<1>3. Unread(at, G("drop")) \in SUBSET Cpus /\ UnreadReasons \in SUBSET (Cpus \X Reasons)
  BY <1>2 DEF Unread, UnreadReasons
<1>4. \A k \in Counter : snap.val[k] \in Nat
  BY <1>1 DEF Snapshots
<1>5. \A r \in Reasons : ReadReasons[r] = snap.val[<<"reason", r>>] /\ ReadReasons[r] \in Nat
  BY <1>4, AnswerTyped DEF ReadReasons
<1>6. SumFunctionOnSet(ReadReasons, Reasons) \in Nat
  BY <1>2, <1>5, SumTyped
<1>7. /\ SumFunctionOnSet(Answered(reading), Unread(at, G("drop"))) \in Nat
      /\ SumFunctionOnSet(Explained(reading), UnreadReasons) \in Nat
  BY <1>1, <1>3, TableSums
<1> QED
  BY <1>1, <1>2, <1>3, <1>4, <1>5, <1>6, <1>7

\* The tables change only with the counters and the frames at hand.
LEMMA SameTables ==
    ASSUME UNCHANGED <<site, ctr, todo>>
    PROVE  /\ MapSet' = MapSet
           /\ \A s : Answered(s)' = Answered(s) /\ Explained(s)' = Explained(s)
           /\ Answered(reading)' = Answered(reading') /\ Explained(reading)' = Explained(reading')
<1>1. MapSet' = MapSet
  BY DEF MapSet
<1>2. \A s : Answered(s)' = Answered(s) /\ Explained(s)' = Explained(s)
  BY DEF Answered, Explained, Owed
<1>3. Answered(reading)' = Answered(reading') /\ Explained(reading)' = Explained(reading')
  BY DEF Answered, Explained, Owed
<1> QED
  BY <1>1, <1>2, <1>3

\* A step of the reader leaves the map sets balanced.
LEMMA SameBalance ==
    ASSUME AccountInv, UNCHANGED <<site, ctr, todo>>
    PROVE  Balanced'
BY SameTables DEF AccountInv, Balanced

\* A reading begins with a balanced map set, all of it still to be read.
LEMMA BeginAccount ==
    ASSUME StatsInv, AccountInv, NEW dt \in site.intervals, Begin(dt)
    PROVE  AccountInv'
<1>1. /\ UNCHANGED <<site, ctr, todo>> /\ UNCHANGED <<site, traffic>>
      /\ at' = 1 /\ snap' = [Nil EXCEPT !.when = now + dt]
  BY DEF Begin, traffic
<1>2. site \in Sites /\ site.cpus \in SUBSET Cpus /\ IsFiniteSet(Reasons)
  BY AccountTyped
<1>3. \A k \in Counter : snap'.val[k] = 0
  BY <1>1 DEF Nil, Zero
<1>4. PICK s \in MapSet : s = reading'
  <2>1. StatsInv'
    BY BeginInv
  <2>2. sets' = sets /\ reading' \in 1 .. sets' /\ sets \in MapSet /\ site.swaps \in Nat
    BY <1>1, <2>1, ReaderFacts DEF traffic, StatsInv, TypeOK
  <2> QED
    BY <2>2 DEF MapSet
<1>5. Unread(at, G("drop"))' = site.cpus
  BY <1>1, <1>2, AnswerTyped, SameCounts, UnreadAtFirst
<1>6. UnreadReasons' = site.cpus \X Reasons
  <2>1. \A r \in Reasons : Unread(at, <<"reason", r>>)' = site.cpus
    BY <1>1, <1>2, AnswerTyped, SameCounts, UnreadAtFirst
  <2>2. UnreadReasons' = {x \in site.cpus \X Reasons : x[1] \in Unread(at, <<"reason", x[2]>>)'}
    BY <1>1 DEF UnreadReasons
  <2> QED
    BY <2>1, <2>2
<1>7. SumFunctionOnSet(ReadReasons', Reasons) \in Nat
  <2>1. \A r \in Reasons : ReadReasons'[r] = snap'.val[<<"reason", r>>]
    BY DEF ReadReasons
  <2>2. \A r \in Reasons : snap'.val[<<"reason", r>>] = 0
    BY <1>3, AnswerTyped
  <2>3. ASSUME NEW r \in Reasons PROVE ReadReasons'[r] \in Nat
    <3>1. ReadReasons'[r] = 0
      BY <2>1, <2>2
    <3> QED
      BY <3>1
  <2> QED
    BY <1>2, <2>3, SumTyped
<1>8. site.cpus \X Reasons \in SUBSET (Cpus \X Reasons)
  BY <1>2
<1>9. /\ SumFunctionOnSet(Answered(s), site.cpus) \in Nat
      /\ SumFunctionOnSet(Explained(s), site.cpus \X Reasons) \in Nat
  BY <1>2, <1>8, TableSums
<1>10. SumFunctionOnSet(Answered(s), site.cpus) <= SumFunctionOnSet(Explained(s), site.cpus \X Reasons)
  BY DEF AccountInv, Balanced
<1>11. Answered(reading)' = Answered(s) /\ Explained(reading)' = Explained(s)
  BY <1>1, <1>4, SameTables
<1>12. Accounted'
  <2>1. snap'.val[G("drop")] = 0 /\ snap'.val[G("rst")] = 0
    BY <1>3, AnswerTyped
  <2>2. snap'.val[G("drop")] + snap'.val[G("rst")] + SumFunctionOnSet(Answered(s), site.cpus)
          <= SumFunctionOnSet(ReadReasons', Reasons) + SumFunctionOnSet(Explained(s), site.cpus \X Reasons)
    BY <1>7, <1>9, <1>10, <2>1
  <2> QED
    BY <1>5, <1>6, <1>11, <2>2 DEF Accounted
<1> QED
  BY <1>1, <1>12, SameBalance DEF AccountInv

\* Reading a cell takes as much from what is ahead as it adds to the reading.
LEMMA CopyAccount ==
    ASSUME StatsInv, AccountInv, Copy
    PROVE  AccountInv'
<1> DEFINE c == Cells[at].cpu
           W == Cells[at].words
           U == Unread(at, G("drop"))
           V == UnreadReasons
           A == Answered(reading)
           E == Explained(reading)
           R == ReadReasons
<1>1. /\ at \in DOMAIN Cells /\ at' = at + 1 /\ reading' = reading /\ UNCHANGED <<site, ctr, todo>>
      /\ snap'.bad = snap.bad
  BY DEF Copy, traffic
<1>2. /\ reading \in MapSet /\ site \in Sites /\ IsFiniteSet(Reasons) /\ site.cpus \in SUBSET Cpus
      /\ U \in SUBSET Cpus /\ V \in SUBSET (Cpus \X Reasons)
      /\ (\A k \in Counter : snap.val[k] \in Nat)
      /\ (\A r \in Reasons : R[r] = snap.val[<<"reason", r>>] /\ R[r] \in Nat)
      /\ SumFunctionOnSet(R, Reasons) \in Nat
      /\ SumFunctionOnSet(A, U) \in Nat /\ SumFunctionOnSet(E, V) \in Nat
  BY AccountTyped
<1>3. Answered(reading)' = A /\ Explained(reading)' = E
  BY <1>1, SameTables
<1>4. c \in site.cpus
  BY <1>1, <1>2, CellsInOrder
<1>5. ctr \in [MapSet -> [Cpus -> [Counter -> Nat]]]
  BY DEF StatsInv, TypeOK
<1>6. \A k \in Counter : Unread(at, k)' = Unread(at + 1, k)
  BY <1>1, SameCounts
<1>7. UnreadReasons' = {x \in site.cpus \X Reasons : x[1] \in Unread(at + 1, <<"reason", x[2]>>)}
  <2>1. UnreadReasons' = {x \in site.cpus \X Reasons : x[1] \in Unread(at, <<"reason", x[2]>>)'}
    BY <1>1 DEF UnreadReasons
  <2> QED
    BY <1>6, <2>1, AnswerTyped
<1>8. \A r \in Reasons : ReadReasons'[r] = snap'.val[<<"reason", r>>]
  BY DEF ReadReasons
<1>9. IsFiniteSet(U) /\ IsFiniteSet(V) /\ (\A d \in U : A[d] \in Nat) /\ (\A x \in V : E[x] \in Nat)
  BY <1>2, TableSums, TablesTyped
<1>10. ASSUME \A r \in Reasons : <<"reason", r>> \notin W
       PROVE  UnreadReasons' = V /\ SumFunctionOnSet(ReadReasons', Reasons) = SumFunctionOnSet(R, Reasons)
  <2>1. \A r \in Reasons : Unread(at + 1, <<"reason", r>>) = Unread(at, <<"reason", r>>)
    BY <1>1, <1>2, <1>10, AnswerTyped, UnreadNext
  <2>2. UnreadReasons' = V
    BY <1>7, <2>1 DEF UnreadReasons
  <2>3. \A r \in Reasons : R[r] \in Nat /\ R[r] = ReadReasons'[r]
    BY <1>2, <1>8, <1>10, AnswerTyped, CopyMoves
  <2> HIDE DEF R
  <2>4. SumFunctionOnSet(R, Reasons) = SumFunctionOnSet(ReadReasons', Reasons)
    BY <1>2, <2>3, SumSame
  <2> QED
    BY <2>2, <2>4
<1>11. ASSUME G("drop") \notin W, G("rst") \notin W
       PROVE  /\ Unread(at, G("drop"))' = U
              /\ snap'.val[G("drop")] = snap.val[G("drop")] /\ snap'.val[G("rst")] = snap.val[G("rst")]
  BY <1>1, <1>2, <1>6, <1>11, AnswerTyped, UnreadNext, CopyMoves
<1> DEFINE Ok == snap'.val[G("drop")] + snap'.val[G("rst")]
                   + SumFunctionOnSet(Answered(reading)', Unread(at, G("drop"))')
                 <= SumFunctionOnSet(ReadReasons', Reasons)
                      + SumFunctionOnSet(Explained(reading)', UnreadReasons')
<1>12. ASSUME snap.bad = {} PROVE Ok
  <2>1. snap.val[G("drop")] + snap.val[G("rst")] + SumFunctionOnSet(A, U)
          <= SumFunctionOnSet(R, Reasons) + SumFunctionOnSet(E, V)
    <3>1. at # 0
      BY <1>1, <1>2, CellsTyped
    <3> QED
      BY <1>12, <3>1 DEF AccountInv, Accounted
  <2>2. CASE W = {"g"} \X GlobalWords
    <3>1. G("drop") \in W /\ G("rst") \in W /\ \A r \in Reasons : <<"reason", r>> \notin W
      BY <2>2 DEF G, GlobalWords
    <3>2. c \in U /\ Unread(at, G("drop"))' = U \ {c}
      BY <1>1, <1>2, <1>6, <3>1, AnswerTyped, UnreadNext
    <3>3. /\ snap'.val[G("drop")] = snap.val[G("drop")] + ctr[reading][c][G("drop")]
          /\ snap'.val[G("rst")] = snap.val[G("rst")] + ctr[reading][c][G("rst")]
      BY <3>1, AnswerTyped, CopyMoves
    <3>4. A[c] = ctr[reading][c][G("drop")] + ctr[reading][c][G("rst")] + Owed(reading, c)
      BY <1>2, <1>4 DEF Answered
    <3>5. /\ ctr[reading][c][G("drop")] \in Nat /\ ctr[reading][c][G("rst")] \in Nat
          /\ Owed(reading, c) \in {0, 1}
      BY <1>2, <1>4, <1>5, AnswerTyped DEF Owed
    <3>6. UnreadReasons' = V /\ SumFunctionOnSet(ReadReasons', Reasons) = SumFunctionOnSet(R, Reasons)
      BY <1>10, <3>1
    <3>7. snap.val[G("drop")] \in Nat /\ snap.val[G("rst")] \in Nat
      BY <1>2, AnswerTyped
    <3> HIDE DEF A, U, c, E, R, V
    <3>8. /\ SumFunctionOnSet(A, U) = A[c] + SumFunctionOnSet(A, U \ {c})
          /\ SumFunctionOnSet(A, U \ {c}) \in Nat
      BY <1>9, <3>2, SumSplits
    <3>9. snap'.val[G("drop")] + snap'.val[G("rst")] + SumFunctionOnSet(A, U \ {c})
            <= SumFunctionOnSet(R, Reasons) + SumFunctionOnSet(E, V)
      BY <1>2, <2>1, <3>3, <3>4, <3>5, <3>7, <3>8
    <3> QED
      BY <1>3, <3>2, <3>6, <3>9
  <2>3. ASSUME NEW r \in Reasons, W = {<<"reason", r>>} PROVE Ok
    <3>1. /\ G("drop") \notin W /\ G("rst") \notin W /\ <<"reason", r>> \in W
          /\ \A e \in Reasons : e # r => <<"reason", e>> \notin W
      BY <2>3 DEF G
    <3> DEFINE x == <<c, r>>
    <3>2. c \in Unread(at, <<"reason", r>>)
          /\ Unread(at + 1, <<"reason", r>>) = Unread(at, <<"reason", r>>) \ {c}
      BY <1>1, <1>2, <3>1, AnswerTyped, UnreadNext
    <3>3. \A e \in Reasons : e # r => Unread(at + 1, <<"reason", e>>) = Unread(at, <<"reason", e>>)
      BY <1>1, <1>2, <3>1, AnswerTyped, UnreadNext
    <3>4. x \in V /\ UnreadReasons' = V \ {x}
      <4>1. x \in V
        BY <1>4, <3>2 DEF UnreadReasons
      <4>2. ASSUME NEW y \in UnreadReasons' PROVE y \in V /\ y # x
        <5>1. y \in site.cpus \X Reasons /\ y[1] \in Unread(at + 1, <<"reason", y[2]>>)
          BY <1>7
        <5>2. y[2] \in Reasons
          BY <5>1
        <5>3. CASE y[2] = r
          BY <3>2, <5>1, <5>3 DEF UnreadReasons
        <5>4. CASE y[2] # r
          BY <3>3, <5>1, <5>2, <5>4 DEF UnreadReasons
        <5> QED
          BY <5>3, <5>4
      <4>3. ASSUME NEW y \in V, y # x PROVE y \in UnreadReasons'
        <5>1. y \in site.cpus \X Reasons /\ y[1] \in Unread(at, <<"reason", y[2]>>)
          BY DEF UnreadReasons
        <5>2. y[2] \in Reasons /\ ~(y[1] = c /\ y[2] = r)
          BY <4>3, <5>1
        <5>3. y[1] \in Unread(at + 1, <<"reason", y[2]>>)
          BY <3>2, <3>3, <5>1, <5>2
        <5> QED
          BY <1>7, <5>1, <5>3
      <4> QED
        BY <4>1, <4>2, <4>3
    <3>5. E[x] = ctr[reading][c][<<"reason", r>>] /\ E[x] \in Nat
      <4>1. x \in Cpus \X Reasons
        BY <1>2, <1>4
      <4> QED
        BY <1>2, <4>1, TablesTyped DEF Explained
    <3>6. ReadReasons'[r] = R[r] + E[x] /\ \A e \in Reasons \ {r} : ReadReasons'[e] = R[e]
      <4>1. snap'.val[<<"reason", r>>] = snap.val[<<"reason", r>>] + ctr[reading][c][<<"reason", r>>]
        BY <3>1, AnswerTyped, CopyMoves
      <4>2. \A e \in Reasons \ {r} : snap'.val[<<"reason", e>>] = snap.val[<<"reason", e>>]
        BY <3>1, AnswerTyped, CopyMoves
      <4>3. R[r] = snap.val[<<"reason", r>>] /\ \A e \in Reasons \ {r} : R[e] = snap.val[<<"reason", e>>]
        BY <1>2
      <4>4. ReadReasons'[r] = R[r] + E[x]
        BY <1>8, <3>5, <4>1, <4>3
      <4> QED
        BY <1>8, <4>2, <4>3, <4>4
    <3>7. /\ Unread(at, G("drop"))' = U
          /\ snap'.val[G("drop")] = snap.val[G("drop")] /\ snap'.val[G("rst")] = snap.val[G("rst")]
      BY <1>11, <3>1
    <3>8. snap.val[G("drop")] \in Nat /\ snap.val[G("rst")] \in Nat
      BY <1>2, AnswerTyped
    <3> HIDE DEF A, U, c, E, R, V, x
    <3>9. SumFunctionOnSet(ReadReasons', Reasons) = SumFunctionOnSet(R, Reasons) + E[x]
      BY <1>2, <3>5, <3>6, SumGrows
    <3>10. /\ SumFunctionOnSet(E, V) = E[x] + SumFunctionOnSet(E, V \ {x})
           /\ SumFunctionOnSet(E, V \ {x}) \in Nat
      BY <1>9, <3>4, SumSplits
    <3>11. snap.val[G("drop")] + snap.val[G("rst")] + SumFunctionOnSet(A, U)
             <= SumFunctionOnSet(ReadReasons', Reasons) + SumFunctionOnSet(E, V \ {x})
      BY <1>2, <2>1, <3>5, <3>8, <3>9, <3>10
    <3> QED
      BY <1>3, <3>4, <3>7, <3>11
  <2>4. ASSUME NEW v \in Vlans, W = {<<"vpkts", v>>, <<"vdrops", v>>} PROVE Ok
    <3>1. G("drop") \notin W /\ G("rst") \notin W /\ \A r \in Reasons : <<"reason", r>> \notin W
      BY <2>4 DEF G
    <3> QED
      BY <1>3, <1>10, <1>11, <2>1, <3>1
  <2> QED
    BY <1>1, <1>2, <2>2, <2>3, <2>4, CellWords
<1>13. Accounted'
  BY <1>1, <1>12 DEF Accounted
<1> QED
  BY <1>1, <1>13, SameBalance DEF AccountInv

\* A reading that is over, or a lookup that failed, promises nothing.
LEMMA OtherAccount ==
    ASSUME AccountInv, UNCHANGED <<site, ctr, todo>>, at' = 0 \/ snap'.bad # {}
    PROVE  AccountInv'
BY SameBalance DEF AccountInv, Accounted

\* A step that leaves the counters and the reading alone.
LEMMA SteadyAccount ==
    ASSUME AccountInv, UNCHANGED <<site, ctr, todo, snap, at, reading>>
    PROVE  AccountInv'
<1>1. Answered(reading)' = Answered(reading) /\ Explained(reading)' = Explained(reading)
  BY SameTables
<1>2. \A k : Unread(at, k)' = Unread(at, k)
  BY DEF Unread, Cells
<1>3. UnreadReasons' = UnreadReasons /\ ReadReasons' = ReadReasons
  BY <1>2 DEF UnreadReasons, ReadReasons
<1> QED
  BY <1>1, <1>2, <1>3, SameBalance DEF AccountInv, Accounted

\* A frame that arrives owes nothing yet.
LEMMA ReceiveAccount ==
    ASSUME StatsInv, AccountInv, NEW c \in Cpus, Receive(c)
    PROVE  AccountInv'
<1>1. PICK o \in site.outcomes, r \in site.reasons, v \in Vlans :
        todo' = [todo EXCEPT ![c] = [set |-> attached, left |-> Bumps(o, r, v)]]
  BY DEF Receive
<1>2. todo[c].left = <<>> /\ UNCHANGED <<site, ctr, snap, at, reading>>
  BY DEF Receive
<1>3. site \in Sites /\ o \in Outcomes /\ r \in Reasons
  BY ReaderFacts, SiteFacts
<1>4. Head(Bumps(o, r, v)) \notin Answer
  BY <1>3, BumpsInOrder DEF Answer, G
<1>5. ASSUME NEW s, NEW d \in Cpus PROVE Owed(s, d)' = Owed(s, d)
  <2>1. CASE d = c
    <3>1. todo'[d].left = Bumps(o, r, v)
      BY <1>1, <2>1 DEF StatsInv, TypeOK
    <3>2. Owed(s, d)' = 0 /\ Owed(s, d) = 0
      BY <1>2, <1>4, <2>1, <3>1 DEF Owed
    <3> QED
      BY <3>2
  <2>2. CASE d # c
    <3>1. todo'[d] = todo[d]
      BY <1>1, <2>2 DEF StatsInv, TypeOK
    <3> QED
      BY <3>1 DEF Owed
  <2> QED
    BY <2>1, <2>2
<1>6. \A s : Answered(s)' = Answered(s) /\ Explained(s)' = Explained(s)
  BY <1>2, <1>5 DEF Answered, Explained
<1>7. Answered(reading)' = Answered(reading) /\ Explained(reading)' = Explained(reading)
  <2>1. PICK s \in MapSet : s = reading /\ s = reading'
    BY <1>2, AccountTyped
  <2>2. Answered(reading)' = Answered(s)' /\ Explained(reading)' = Explained(s)'
    BY <2>1 DEF Answered, Explained, Owed
  <2> QED
    BY <1>6, <2>1, <2>2
<1>8. \A k : Unread(at, k)' = Unread(at, k)
  BY <1>2 DEF Unread, Cells
<1>9. UnreadReasons' = UnreadReasons /\ ReadReasons' = ReadReasons /\ MapSet' = MapSet
  BY <1>2, <1>8 DEF UnreadReasons, ReadReasons, MapSet
<1>10. Balanced'
  BY <1>2, <1>6, <1>9 DEF AccountInv, Balanced
<1>11. Accounted'
  BY <1>2, <1>7, <1>8, <1>9 DEF AccountInv, Accounted
<1> QED
  BY <1>10, <1>11 DEF AccountInv

\* A bump keeps the map sets balanced, and the reading too: while a CPU's drops are
\* still to be read, so are its reasons.
LEMMA BumpAccount ==
    ASSUME StatsInv, CountInv, AccountInv, NEW c \in Cpus, Bump(c)
    PROVE  AccountInv'
<1>1. UNCHANGED <<site, snap, at, reading>>
  BY DEF Bump
<1>2. /\ reading \in MapSet /\ site \in Sites /\ site.cpus \in SUBSET Cpus
      /\ Unread(at, G("drop")) \in SUBSET Cpus /\ UnreadReasons \in SUBSET (Cpus \X Reasons)
      /\ (\A k \in Counter : snap.val[k] \in Nat)
      /\ SumFunctionOnSet(ReadReasons, Reasons) \in Nat
  BY AccountTyped
<1>3. Orderly
  BY DEF CountInv
<1>4. MapSet' = MapSet
  BY <1>1 DEF MapSet
<1>5. Balanced'
  <2> SUFFICES ASSUME NEW s \in MapSet
               PROVE  SumFunctionOnSet(Answered(s)', site.cpus)
                        <= SumFunctionOnSet(Explained(s)', site.cpus \X Reasons)
    BY <1>1, <1>4 DEF Balanced
  <2> DEFINE U == site.cpus
             V == site.cpus \X Reasons
  <2>1. U \in SUBSET Cpus /\ V \in SUBSET (Cpus \X Reasons) /\ \A d \in U : \A r \in Reasons : <<d, r>> \in V
    BY <1>2
  <2>2. SumFunctionOnSet(Answered(s), U) <= SumFunctionOnSet(Explained(s), V)
    BY DEF AccountInv, Balanced
  <2> HIDE DEF U, V
  <2>3. SumFunctionOnSet(Answered(s), U) \in Nat /\ SumFunctionOnSet(Explained(s), V) \in Nat
    BY <2>1, TableSums
  <2>4. PICK a, b \in {0, 1} :
          /\ SumFunctionOnSet(Answered(s)', U) = SumFunctionOnSet(Answered(s), U) + a
          /\ SumFunctionOnSet(Explained(s)', V) = SumFunctionOnSet(Explained(s), V) + b
          /\ a <= b
    BY <1>3, <2>1, BumpBalance
  <2>5. SumFunctionOnSet(Answered(s)', U) <= SumFunctionOnSet(Explained(s)', V)
    BY <2>2, <2>3, <2>4
  <2> QED
    BY <2>5 DEF U, V
<1>6. Accounted'
  <2> DEFINE U == Unread(at, G("drop"))
             V == UnreadReasons
  <2>1. PICK s \in MapSet : s = reading /\ s = reading'
    BY <1>1, <1>2
  <2>2. /\ Answered(reading)' = Answered(s)' /\ Explained(reading)' = Explained(s)'
        /\ Answered(reading) = Answered(s) /\ Explained(reading) = Explained(s)
    BY <2>1 DEF Answered, Explained, Owed
  <2>3. \A k : Unread(at, k)' = Unread(at, k)
    BY <1>1 DEF Unread, Cells
  <2>4. UnreadReasons' = V /\ ReadReasons' = ReadReasons /\ Unread(at, G("drop"))' = U
    BY <1>1, <2>3 DEF UnreadReasons, ReadReasons
  <2>5. ASSUME NEW d \in U, NEW r \in Reasons PROVE <<d, r>> \in V
    <3>1. at \in Nat /\ d \in site.cpus
      BY ReaderFacts DEF Unread
    <3>2. "drop" \in GlobalWords
      BY DEF GlobalWords
    <3>3. d \in Unread(at, <<"reason", r>>)
      BY <1>2, <3>1, <3>2, ReasonsRemain
    <3> QED
      BY <3>1, <3>3 DEF UnreadReasons
  <2>6. U \in SUBSET Cpus /\ V \in SUBSET (Cpus \X Reasons)
    BY <1>2
  <2>7. ASSUME at # 0, snap.bad = {}
        PROVE  snap.val[G("drop")] + snap.val[G("rst")] + SumFunctionOnSet(Answered(s), U)
                 <= SumFunctionOnSet(ReadReasons, Reasons) + SumFunctionOnSet(Explained(s), V)
    BY <2>2, <2>7 DEF AccountInv, Accounted
  <2>8. snap.val[G("drop")] \in Nat /\ snap.val[G("rst")] \in Nat
    BY <1>2, AnswerTyped
  <2> HIDE DEF U, V
  <2>9. SumFunctionOnSet(Answered(s), U) \in Nat /\ SumFunctionOnSet(Explained(s), V) \in Nat
    BY <2>6, TableSums
  <2>10. PICK a, b \in {0, 1} :
          /\ SumFunctionOnSet(Answered(s)', U) = SumFunctionOnSet(Answered(s), U) + a
          /\ SumFunctionOnSet(Explained(s)', V) = SumFunctionOnSet(Explained(s), V) + b
          /\ a <= b
    BY <1>3, <2>5, <2>6, BumpBalance
  <2>11. ASSUME at # 0, snap.bad = {}
         PROVE  snap.val[G("drop")] + snap.val[G("rst")] + SumFunctionOnSet(Answered(s)', U)
                  <= SumFunctionOnSet(ReadReasons, Reasons) + SumFunctionOnSet(Explained(s)', V)
    BY <1>2, <2>7, <2>8, <2>9, <2>10, <2>11
  <2> QED
    BY <1>1, <2>2, <2>4, <2>11 DEF Accounted
<1> QED
  BY <1>5, <1>6 DEF AccountInv

\* Nothing was dropped yet.
LEMMA InitAccount == Init => AccountInv
<1> SUFFICES ASSUME Init PROVE AccountInv
  OBVIOUS
<1>1. StatsInv
  BY InitInv
<1>2. /\ ctr = [s \in MapSet |-> [c \in Cpus |-> Zero]] /\ at = 0
      /\ todo = [c \in Cpus |-> [set |-> 1, left |-> <<>>]]
  BY DEF Init
<1>3. site.cpus \in SUBSET Cpus /\ IsFiniteSet(Cpus)
  BY <1>1, AccountTyped, StatsConstants
<1>4. ASSUME NEW s \in MapSet
      PROVE  SumFunctionOnSet(Answered(s), site.cpus)
               <= SumFunctionOnSet(Explained(s), site.cpus \X Reasons)
  <2>1. site.cpus \X Reasons \in SUBSET (Cpus \X Reasons)
    BY <1>3
  <2>2. /\ IsFiniteSet(site.cpus)
        /\ SumFunctionOnSet(Explained(s), site.cpus \X Reasons) \in Nat
    BY <1>1, <1>3, <2>1, TableSums
  <2>3. ASSUME NEW c \in site.cpus PROVE Answered(s)[c] = 0
    <3>1. c \in Cpus
      BY <1>3
    <3>2. ctr[s][c][G("drop")] = 0 /\ ctr[s][c][G("rst")] = 0
      BY <1>2, <3>1, AnswerTyped DEF Zero
    <3>3. Owed(s, c) = 0
      BY <1>2, <3>1 DEF Owed
    <3>4. Answered(s)[c] = ctr[s][c][G("drop")] + ctr[s][c][G("rst")] + Owed(s, c)
      BY <3>1 DEF Answered
    <3> QED
      BY <3>2, <3>3, <3>4
  <2> DEFINE f == Answered(s)
  <2> HIDE DEF f
  <2>4. SumFunctionOnSet(f, site.cpus) = 0
    BY <2>2, <2>3, SumZero DEF f
  <2> QED
    BY <2>2, <2>4 DEF f
<1>5. Balanced
  BY <1>4 DEF Balanced
<1> QED
  BY <1>2, <1>5 DEF AccountInv, Accounted

\* Every step keeps the map sets balanced and the reading accounted for.
LEMMA StepAccount == StatsInv /\ CountInv /\ AccountInv /\ [Next]_vars => AccountInv'
<1> SUFFICES ASSUME StatsInv, CountInv, AccountInv, [Next]_vars PROVE AccountInv'
  OBVIOUS
<1>1. ASSUME UNCHANGED vars \/ Detach \/ Attach PROVE AccountInv'
  <2>1. UNCHANGED <<site, ctr, todo, snap, at, reading>>
    BY <1>1 DEF vars, traffic, Detach, Attach
  <2> QED
    BY <2>1, SteadyAccount
<1>2. ASSUME NEW c \in Cpus, Receive(c) \/ Bump(c) PROVE AccountInv'
  BY <1>2, ReceiveAccount, BumpAccount
<1>3. ASSUME NEW dt \in site.intervals, Begin(dt) PROVE AccountInv'
  BY <1>3, BeginAccount
<1>4. ASSUME NEW dt \in site.intervals, Unavailable(dt) PROVE AccountInv'
  <2>1. UNCHANGED <<site, ctr, todo, snap, at, reading>>
    BY <1>4 DEF Unavailable, traffic
  <2> QED
    BY <2>1, SteadyAccount
<1>5. CASE Copy
  BY <1>5, CopyAccount
<1>6. CASE LookupFails
  <2>1. UNCHANGED <<site, ctr, todo>> /\ at \in DOMAIN Cells
    BY <1>6 DEF LookupFails, traffic
  <2>2. at' = 0 \/ snap'.bad = snap.bad \cup Cells[at].words
    BY <1>6, ReaderFacts DEF LookupFails, Snapshots
  <2>3. site \in Sites
    BY ReaderFacts
  <2>4. Cells[at].words # {}
    <3>1. G("rx") \in {"g"} \X GlobalWords
      BY DEF G, GlobalWords
    <3> QED
      BY <2>1, <2>3, <3>1, CellWords
  <2>5. at' = 0 \/ snap'.bad # {}
    BY <2>2, <2>4
  <2> QED
    BY <2>1, <2>5, OtherAccount
<1>7. CASE Tick \/ Sample \/ PrintStatus
  <2>1. UNCHANGED <<site, ctr, todo>> /\ at' = 0
    BY <1>7 DEF Tick, Sample, PrintStatus, Done, traffic
  <2> QED
    BY <2>1, OtherAccount
<1> QED
  BY <1>1, <1>2, <1>3, <1>4, <1>5, <1>6, <1>7 DEF Next

\* A reading that is complete holds a reason for every drop and reset in it.
LEMMA AccountedAtEnd == StatsInv /\ AccountInv => EveryDropHasReason
<1> SUFFICES ASSUME StatsInv, AccountInv, at = Len(Cells) + 1, snap.bad = {}
             PROVE  SumFunctionOnSet(ReadReasons, Reasons) >= snap.val[G("drop")] + snap.val[G("rst")]
  BY DEF EveryDropHasReason, ReadReasons
<1>1. site \in Sites /\ Len(Cells) \in Nat
  BY ReaderFacts
<1>2. /\ SumFunctionOnSet(ReadReasons, Reasons) \in Nat
      /\ snap.val[G("drop")] \in Nat /\ snap.val[G("rst")] \in Nat
  BY AccountTyped, AnswerTyped
<1>3. Unread(at, G("drop")) = {}
  BY <1>1, AnswerTyped, UnreadAtLast
<1>4. UnreadReasons = {}
  <2>1. \A r \in Reasons : Unread(at, <<"reason", r>>) = {}
    BY <1>1, AnswerTyped, UnreadAtLast
  <2>2. \A x \in site.cpus \X Reasons : x[2] \in Reasons
    OBVIOUS
  <2> QED
    BY <2>1, <2>2 DEF UnreadReasons
<1>5. /\ SumFunctionOnSet(Answered(reading), Unread(at, G("drop"))) = 0
      /\ SumFunctionOnSet(Explained(reading), UnreadReasons) = 0
  BY <1>3, <1>4, SumEmpty
<1>6. at # 0
  BY <1>1
<1>7. snap.val[G("drop")] + snap.val[G("rst")] + SumFunctionOnSet(Answered(reading), Unread(at, G("drop")))
        <= SumFunctionOnSet(ReadReasons, Reasons) + SumFunctionOnSet(Explained(reading), UnreadReasons)
  BY <1>6 DEF AccountInv, Accounted
<1> QED
  BY <1>2, <1>5, <1>7

\* Every drop and every reset that a complete Collect() found has its reason in the
\* same reading: the CPUs bump the reason first and the reader reads the reasons last.
THEOREM DropsAreExplained == Spec => []EveryDropHasReason
<1>1. Spec => []AccountInv
  BY InitAccount, StepAccount, CountsHold, StatsInvariant, PTL DEF Spec
<1> QED
  BY <1>1, StatsInvariant, AccountedAtEnd, PTL
==============================================================================
