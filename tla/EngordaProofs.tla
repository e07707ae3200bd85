---------------------------- MODULE EngordaProofs ---------------------------
(***************************************************************************)
(* Proofs about the jobs of datagen/engorda_tables.py: what an output       *)
(* holds, that it stays within its reservation, that no two outputs         *)
(* collide, and that the references of a clone lead to its own copy or to   *)
(* Oracle, for every schema, extract and number of jobs the assumptions of  *)
(* EngordaJob admit.                                                        *)
(*                                                                         *)
(* The recursive functions of CloneGraph are iterations: each is shown to   *)
(* exist by taking the least length for which it would not, and what it     *)
(* computes is shown by taking the least step at which it would fail.       *)
(***************************************************************************)
EXTENDS EngordaJob, LedgerLemmas, FiniteSetTheorems, FunctionTheorems

-----------------------------------------------------------------------------
(* Numbers and finite sets.                                                 *)

(* A nonempty set of natural numbers has a least one.                       *)
LEMMA LeastNumber ==
    ASSUME NEW S \in SUBSET Nat, S # {}
    PROVE  \E x \in S : \A y \in S : x <= y
  <1> DEFINE R == { p \in Nat \X Nat : p[1] < p[2] }
  <1>1. IsWellFoundedOn(R, Nat)
    BY NatLessThanWellFounded DEF OpToRel
  <1>2. \A x, y \in Nat : y < x => <<y, x>> \in R
    OBVIOUS
  <1> HIDE DEF R
  <1>3. PICK x \in S : \A y \in S : <<y, x>> \notin R
    BY <1>1, WFMin
  <1>4. ASSUME NEW y \in S
        PROVE  x <= y
    <2>1. x \in Nat /\ y \in Nat /\ <<y, x>> \notin R
      BY <1>3
    <2>2. ~(y < x)
      BY <1>2, <2>1
    <2>3. QED
      BY <2>1, <2>2
  <1>5. QED
    BY <1>4

(* A nonempty finite set of integers has a greatest element.                *)
LEMMA GreatestNumber ==
    ASSUME NEW S \in SUBSET Int, IsFiniteSet(S), S # {}
    PROVE  \E x \in S : \A y \in S : y <= x
  <1> DEFINE Above(x) == {y \in S : y > x}
             N == {Cardinality(Above(x)) : x \in S}
  <1>1. \A x \in S : IsFiniteSet(Above(x)) /\ Cardinality(Above(x)) \in Nat
    <2> TAKE x \in S
    <2>1. Above(x) \in SUBSET S
      OBVIOUS
    <2> HIDE DEF Above
    <2>2. QED
      BY <2>1, FS_Subset, FS_CardinalityType
  <1> HIDE DEF Above
  <1>2. N \in SUBSET Nat /\ N # {}
    BY <1>1
  <1>3. PICK n \in N : \A m \in N : n <= m
    BY <1>2, LeastNumber
  <1>4. PICK x \in S : n = Cardinality(Above(x))
    BY <1>3
  <1>5. ASSUME NEW y \in S, ~(y <= x)
        PROVE  FALSE
    <2>1. x \in Int /\ y \in Int /\ y > x
      BY <1>5
    <2>2. \A z \in S : z > y => z > x
      BY <2>1
    <2>3. y \in Above(x)
      BY <2>1 DEF Above
    <2>4. y \notin Above(y)
      BY <2>1 DEF Above
    <2>5. Above(y) \in SUBSET Above(x)
      BY <2>2 DEF Above
    <2>6. y \in Above(x) /\ y \notin Above(y) /\ Above(y) \in SUBSET Above(x)
      BY <2>3, <2>4, <2>5
    <2>7. Cardinality(Above(y)) <= Cardinality(Above(x)) /\ Cardinality(Above(y)) # Cardinality(Above(x))
      BY <2>6, <1>1, FS_Subset
    <2>8. n <= Cardinality(Above(y))
      BY <1>3
    <2>9. QED
      BY <2>7, <2>8, <1>1, <1>4
  <1>6. QED
    BY <1>5

(* A proper subset of a finite set has fewer elements.                      *)
LEMMA FewerElements ==
    ASSUME NEW S, IsFiniteSet(S), NEW T \in SUBSET S, T # S
    PROVE  /\ IsFiniteSet(T)
           /\ Cardinality(S) \in Nat /\ Cardinality(T) \in Nat
           /\ Cardinality(T) < Cardinality(S)
  <1>1. IsFiniteSet(T) /\ Cardinality(T) <= Cardinality(S) /\ Cardinality(T) # Cardinality(S)
    BY FS_Subset
  <1>2. Cardinality(S) \in Nat /\ Cardinality(T) \in Nat
    BY <1>1, FS_CardinalityType
  <1>3. QED
    BY <1>1, <1>2

(* Ranking the elements of a finite set by a strict total order, given as   *)
(* the set below each element, numbers them from 0 on without a gap.        *)
LEMMA RanksAreABijection ==
    ASSUME NEW S, IsFiniteSet(S), NEW below \in [S -> SUBSET S],
           \A a, b \in S : a # b => a \in below[b] \/ b \in below[a],
           \A a \in S : a \notin below[a],
           \A a, b \in S : a \in below[b] => below[a] \subseteq below[b]
    PROVE  /\ \A a \in S : Cardinality(below[a]) \in 0 .. Cardinality(S) - 1
           /\ \A a, b \in S : Cardinality(below[a]) = Cardinality(below[b]) => a = b
           /\ \A n \in 0 .. Cardinality(S) - 1 : \E a \in S : Cardinality(below[a]) = n
           /\ Cardinality(S) \in Nat
  <1> DEFINE rank == [a \in S |-> Cardinality(below[a])]
             Slots == 0 .. Cardinality(S) - 1
  <1>0. Cardinality(S) \in Nat
    BY FS_CardinalityType
  <1>1. ASSUME NEW a \in S
        PROVE  /\ IsFiniteSet(below[a])
               /\ Cardinality(below[a]) \in Slots
    <2>1. below[a] \in SUBSET S /\ below[a] # S
      OBVIOUS
    <2>2. QED
      BY <2>1, FewerElements
  <1>2. ASSUME NEW a \in S, NEW b \in S, a \in below[b]
        PROVE  Cardinality(below[a]) # Cardinality(below[b])
    <2>1. below[a] \in SUBSET below[b] /\ below[a] # below[b] /\ IsFiniteSet(below[b])
      BY <1>1, <1>2
    <2>2. Cardinality(below[a]) < Cardinality(below[b])
          /\ Cardinality(below[a]) \in Nat /\ Cardinality(below[b]) \in Nat
      BY <2>1, FewerElements
    <2>3. QED
      BY <2>2
  <1>3. rank \in [S -> Slots]
    BY <1>1
  <1>4. \A a, b \in S : rank[a] = rank[b] => a = b
    BY <1>2
  <1>5. rank \in Injection(S, Slots)
    BY <1>3, <1>4, Fun_IsInj
  <1>6. IsFiniteSet(Slots) /\ Cardinality(Slots) = Cardinality(S)
    <2>1. 0 \in Int /\ Cardinality(S) - 1 \in Int
      BY <1>0
    <2>2. /\ IsFiniteSet(Slots)
          /\ Cardinality(Slots) = IF 0 > Cardinality(S) - 1 THEN 0 ELSE Cardinality(S) - 1 - 0 + 1
      BY <2>1, FS_Interval
    <2>3. QED
      BY <2>2, <1>0
  <1> HIDE DEF rank, Slots
  <1>7. rank \in Surjection(S, Slots)
    BY <1>5, <1>6, FS_Injection
  <1>8. \A n \in Slots : \E a \in S : rank[a] = n
    BY <1>7, Fun_SurjectionProperties
  <1>9. QED
    BY <1>0, <1>1, <1>4, <1>8 DEF rank, Slots

(* The image of a finite set under a function is finite, and as large when  *)
(* the function separates its elements.                                     *)
LEMMA FiniteImage ==
    ASSUME NEW S, IsFiniteSet(S), NEW f, DOMAIN f = S
    PROVE  /\ IsFiniteSet({f[x] : x \in S})
           /\ Cardinality({f[x] : x \in S}) \in Nat
           /\ (\A x, y \in S : f[x] = f[y] => x = y)
                 => Cardinality({f[x] : x \in S}) = Cardinality(S)
  <1> DEFINE T == {f[x] : x \in S}
             g == [x \in S |-> f[x]]
  <1>1. g \in [S -> T] /\ \A t \in T : \E s \in S : g[s] = t
    OBVIOUS
  <1>2. \A x \in S : g[x] = f[x]
    OBVIOUS
  <1> HIDE DEF g, T
  <1>3. g \in Surjection(S, T)
    BY <1>1, Fun_IsSurj
  <1>4. IsFiniteSet(T) /\ (Cardinality(T) = Cardinality(S) <=> g \in Injection(S, T))
    BY <1>3, FS_Surjection
  <1>5. (\A x, y \in S : f[x] = f[y] => x = y) => g \in Injection(S, T)
    BY <1>1, <1>2, Fun_IsInj
  <1>6. QED
    BY <1>4, <1>5, FS_CardinalityType DEF T

-----------------------------------------------------------------------------
(* The order of the tables.                                                 *)

(* The layers of ordem_topologica can be taken one after another.           *)
LEMMA LayersExist ==
    ASSUME NEW parents, NEW n \in Nat
    PROVE  \E f : f = [m \in 0 .. n |-> IF m = 0 THEN << >> ELSE OneMoreLayer(parents, f[m - 1])]
  <1> DEFINE Layers(f, k) ==
               f = [m \in 0 .. k |-> IF m = 0 THEN << >> ELSE OneMoreLayer(parents, f[m - 1])]
             bad == {k \in Nat : ~ \E f : Layers(f, k)}
  <1>1. SUFFICES ASSUME bad # {}
                 PROVE  FALSE
    OBVIOUS
  <1>2. PICK k \in bad : \A m \in bad : k <= m
    BY <1>1, LeastNumber
  <1>3. CASE k = 0
    <2> DEFINE f == [m \in 0 .. 0 |-> << >>]
    <2>1. Layers(f, 0)
      OBVIOUS
    <2>2. QED
      BY <2>1, <1>3, <1>2
  <1>4. CASE k # 0
    <2>1. k - 1 \in Nat /\ k - 1 \notin bad /\ k \in Nat
      BY <1>2, <1>4
    <2>2. PICK f : Layers(f, k - 1)
      BY <2>1
    <2> DEFINE g == [m \in 0 .. k |-> IF m = k THEN OneMoreLayer(parents, f[k - 1]) ELSE f[m]]
    <2>3. ASSUME NEW m \in 0 .. k
          PROVE  g[m] = IF m = 0 THEN << >> ELSE OneMoreLayer(parents, g[m - 1])
      <3>1. CASE m = 0
        BY <3>1, <2>1, <2>2, <1>4
      <3>2. CASE m # 0 /\ m # k
        <4>1. m \in 0 .. k - 1 /\ m - 1 \in 0 .. k - 1 /\ m - 1 # k
          BY <3>2, <2>1
        <4>2. f[m] = OneMoreLayer(parents, f[m - 1])
          BY <4>1, <3>2, <2>2
        <4>3. g[m] = f[m] /\ g[m - 1] = f[m - 1]
          BY <4>1, <3>2, <2>1
        <4>4. QED
          BY <4>2, <4>3, <3>2
      <3>3. CASE m # 0 /\ m = k
        <4>1. m - 1 \in 0 .. k /\ m - 1 # k
          BY <3>3, <2>1
        <4>2. g[m] = OneMoreLayer(parents, f[k - 1]) /\ g[m - 1] = f[m - 1]
          BY <4>1, <3>3
        <4>3. QED
          BY <4>2, <3>3
      <3>4. QED
        BY <3>1, <3>2, <3>3
    <2>4. DOMAIN g = 0 .. k /\ g = [m \in 0 .. k |-> g[m]]
      OBVIOUS
    <2> HIDE DEF g
    <2>5. Layers(g, k)
      BY <2>3, <2>4
    <2>6. QED
      BY <2>5, <1>2
  <1>5. QED
    BY <1>3, <1>4

(* A layer has a table, and none that an earlier one had.                   *)
LEMMA LayerIsNew ==
    ASSUME NEW parents, IsFiniteSet(DOMAIN parents),
           \A t \in DOMAIN parents : parents[t] \subseteq DOMAIN parents,
           NEW done \in SUBSET DOMAIN parents, done # DOMAIN parents
    PROVE  /\ NextLayer(parents, done) \subseteq DOMAIN parents \ done
           /\ NextLayer(parents, done) # {}
           /\ IsFiniteSet(NextLayer(parents, done))
  <1> DEFINE left == DOMAIN parents \ done
             ready == {t \in left : parents[t] \subseteq done}
             pending(t) == Cardinality(parents[t] \ done)
  <1>1. \E t \in left : \A u \in left : pending(t) <= pending(u)
    <2> DEFINE N == {pending(t) : t \in left}
    <2>1. \A t \in left : pending(t) \in Nat
      <3> TAKE t \in left
      <3>1. parents[t] \ done \in SUBSET DOMAIN parents
        OBVIOUS
      <3>2. QED
        BY <3>1, FS_Subset, FS_CardinalityType
    <2> HIDE DEF pending
    <2>2. N \in SUBSET Nat /\ N # {}
      BY <2>1
    <2>3. PICK x \in N : \A y \in N : x <= y
      BY <2>2, LeastNumber
    <2>4. QED
      BY <2>3
  <1>2. NextLayer(parents, done)
           = IF ready # {} THEN ready
             ELSE {CHOOSE t \in left : \A u \in left : pending(t) <= pending(u)}
    BY DEF NextLayer
  <1> HIDE DEF pending
  <1>3. NextLayer(parents, done) \subseteq left /\ NextLayer(parents, done) # {}
    BY <1>1, <1>2
  <1>4. NextLayer(parents, done) \in SUBSET DOMAIN parents
    BY <1>3
  <1>5. QED
    BY <1>3, <1>4, FS_Subset

\* A sequence of the elements of a set, none twice.
Line(s, S) == s \in Seq(S) /\ \A i, j \in 1 .. Len(s) : s[i] = s[j] => i = j

(* A layer put in some order names each of its tables once.                 *)
LEMMA LayerInOrder ==
    ASSUME NEW L, IsFiniteSet(L)
    PROVE  Line(InSomeOrder(L), L) /\ Range(InSomeOrder(L)) = L
  <1> DEFINE s == InSomeOrder(L)
  <1>1. Cardinality(L) \in Nat /\ Bijection(1 .. Cardinality(L), L) # {}
    BY FS_CardinalityType DEF ExistsBijection
  <1>2. s \in Bijection(1 .. Cardinality(L), L)
    BY <1>1 DEF InSomeOrder
  <1> HIDE DEF s
  <1>3. /\ s \in [1 .. Cardinality(L) -> L]
        /\ \A a, b \in 1 .. Cardinality(L) : s[a] = s[b] => a = b
        /\ \A t \in L : \E a \in 1 .. Cardinality(L) : s[a] = t
    BY <1>2 DEF Bijection, Injection, Surjection, IsInjective
  <1>4. s \in Seq(L) /\ Len(s) = Cardinality(L)
    BY <1>1, <1>3
  <1>5. Range(s) = L
    BY <1>3 DEF Range
  <1>6. QED
    BY <1>3, <1>4, <1>5 DEF Line, s

(* One more layer continues the order with tables it did not have.          *)
LEMMA LayerContinues ==
    ASSUME NEW parents, IsFiniteSet(DOMAIN parents),
           \A t \in DOMAIN parents : parents[t] \subseteq DOMAIN parents,
           NEW order, Line(order, DOMAIN parents)
    PROVE  /\ Line(OneMoreLayer(parents, order), DOMAIN parents)
           /\ Range(order) \subseteq DOMAIN parents
           /\ Range(order) \subseteq Range(OneMoreLayer(parents, order))
           /\ Range(order) # DOMAIN parents => Range(order) # Range(OneMoreLayer(parents, order))
  <1> DEFINE D == DOMAIN parents
             L == NextLayer(parents, Range(order))
             s == InSomeOrder(L)
  <1>1. order \in Seq(D) /\ \A i, j \in 1 .. Len(order) : order[i] = order[j] => i = j
    BY DEF Line
  <1>2. Range(order) \in SUBSET D
    BY <1>1 DEF Range
  <1>3. CASE Range(order) = D
    BY <1>1, <1>2, <1>3 DEF OneMoreLayer
  <1>4. CASE Range(order) # D
    <2>1. L \subseteq D \ Range(order) /\ L # {} /\ IsFiniteSet(L)
      BY <1>2, <1>4, LayerIsNew
    <2>2. Line(s, L) /\ Range(s) = L
      BY <2>1, LayerInOrder
    <2>3. OneMoreLayer(parents, order) = order \o s
      BY <1>4 DEF OneMoreLayer
    <2> HIDE DEF s, L
    <2>4. s \in Seq(L) /\ s \in Seq(D) /\ \A i, j \in 1 .. Len(s) : s[i] = s[j] => i = j
      BY <2>1, <2>2 DEF Line
    <2> DEFINE both == order \o s
    <2>5. /\ both \in Seq(D) /\ Len(both) = Len(order) + Len(s)
          /\ \A i \in 1 .. Len(order) : both[i] = order[i]
          /\ \A i \in Len(order) + 1 .. Len(order) + Len(s) : both[i] = s[i - Len(order)]
      BY <1>1, <2>4
    <2>6. Len(order) \in Nat /\ Len(s) \in Nat
      BY <1>1, <2>4
    <2> HIDE DEF both
    <2>7. ASSUME NEW i \in 1 .. Len(both)
          PROVE  \/ i \in 1 .. Len(order) /\ both[i] = order[i] /\ both[i] \in Range(order)
                 \/ /\ i - Len(order) \in 1 .. Len(s) /\ both[i] = s[i - Len(order)]
                    /\ both[i] \in L
      <3>1. CASE i \in 1 .. Len(order)
        <4>1. i \in DOMAIN order
          BY <3>1, <1>1
        <4>2. QED
          BY <4>1, <3>1, <2>5 DEF Range
      <3>2. CASE i \notin 1 .. Len(order)
        <4>1. i \in Len(order) + 1 .. Len(order) + Len(s) /\ i - Len(order) \in 1 .. Len(s)
          BY <3>2, <2>5, <2>6
        <4>2. s[i - Len(order)] \in L
          BY <4>1, <2>4
        <4>3. QED
          BY <4>1, <4>2, <2>5
      <3>3. QED
        BY <3>1, <3>2
    <2>8. \A i, j \in 1 .. Len(both) : both[i] = both[j] => i = j
      <3> SUFFICES ASSUME NEW i \in 1 .. Len(both), NEW j \in 1 .. Len(both), both[i] = both[j]
                   PROVE  i = j
        OBVIOUS
      <3>1. L \cap Range(order) = {}
        BY <2>1
      <3>2. CASE i \in 1 .. Len(order) /\ both[i] = order[i] /\ both[i] \in Range(order)
        <4>1. j \in 1 .. Len(order) /\ both[j] = order[j]
          BY <3>1, <3>2, <2>7
        <4>2. QED
          BY <4>1, <3>2, <1>1
      <3>3. CASE /\ i - Len(order) \in 1 .. Len(s) /\ both[i] = s[i - Len(order)]
                 /\ both[i] \in L
        <4>1. j - Len(order) \in 1 .. Len(s) /\ both[j] = s[j - Len(order)]
          BY <3>1, <3>3, <2>7
        <4>2. i - Len(order) = j - Len(order)
          BY <4>1, <3>3, <2>4
        <4>3. QED
          BY <4>2, <2>5, <2>6
      <3>4. QED
        BY <3>2, <3>3, <2>7
    <2>9. Range(order) \subseteq Range(both)
      <3>1. \A i \in DOMAIN order : i \in DOMAIN both /\ both[i] = order[i]
        BY <1>1, <2>5, <2>6
      <3>2. QED
        BY <3>1 DEF Range
    <2>10. Range(order) # Range(both)
      <3>1. PICK t : t \in L
        BY <2>1
      <3>2. PICK i \in DOMAIN s : s[i] = t
        BY <3>1, <2>2 DEF Range
      <3>3. i \in 1 .. Len(s) /\ i + Len(order) \in DOMAIN both /\ both[i + Len(order)] = s[i]
        BY <3>2, <2>4, <2>5, <2>6
      <3>4. t \in Range(both)
        BY <3>2, <3>3 DEF Range
      <3>5. QED
        BY <3>1, <3>4, <2>1
    <2>11. QED
      BY <2>3, <2>5, <2>8, <2>9, <2>10, <1>2 DEF Line, both
  <1>5. QED
    BY <1>3, <1>4

(* ordem_topologica names every table once.                                 *)
LEMMA OrderNamesEachOnce ==
    ASSUME NEW parents, IsFiniteSet(DOMAIN parents),
           \A t \in DOMAIN parents : parents[t] \subseteq DOMAIN parents
    PROVE  /\ Line(OrderOf(parents), DOMAIN parents)
           /\ Range(OrderOf(parents)) = DOMAIN parents
  <1> DEFINE D == DOMAIN parents
             size == Cardinality(D)
             Layers(f) ==
               f = [m \in 0 .. size |-> IF m = 0 THEN << >> ELSE OneMoreLayer(parents, f[m - 1])]
             after == CHOOSE f : Layers(f)
  <1>1. size \in Nat
    BY FS_CardinalityType
  <1>2. Layers(after)
    <2>1. \E f : Layers(f)
      BY <1>1, LayersExist
    <2>2. QED
      BY <2>1
  <1>3. OrderOf(parents) = after[size]
    BY DEF OrderOf
  <1> HIDE DEF after
  <1>4. after[0] = << >> /\ \A m \in 1 .. size : after[m] = OneMoreLayer(parents, after[m - 1])
    <2>1. \A m \in 0 .. size :
             after[m] = IF m = 0 THEN << >> ELSE OneMoreLayer(parents, after[m - 1])
      BY <1>2
    <2>2. 0 \in 0 .. size /\ \A m \in 1 .. size : m \in 0 .. size /\ m # 0
      BY <1>1
    <2>3. QED
      BY <2>1, <2>2
  <1> HIDE DEF Layers
  <1> DEFINE Good(m) == /\ Line(after[m], D)
                        /\ Range(after[m]) # D => Cardinality(Range(after[m])) >= m
             bad == {m \in 0 .. size : ~Good(m)}
  <1>5. bad = {}
    <2> SUFFICES ASSUME bad # {}
                 PROVE  FALSE
      OBVIOUS
    <2>1. PICK m \in bad : \A n \in bad : m <= n
      <3>1. bad \in SUBSET Nat
        BY <1>1
      <3> HIDE DEF bad
      <3>2. QED
        BY <3>1, LeastNumber
    <2>2. CASE m = 0
      <3>1. Line(<< >>, D)
        BY DEF Line
      <3>2. Range(<< >>) = {} /\ Cardinality({}) = 0
        BY FS_EmptySet DEF Range
      <3>3. QED
        BY <3>1, <3>2, <2>1, <2>2, <1>4
    <2>3. CASE m # 0
      <3>1. m \in 1 .. size /\ m - 1 \in 0 .. size /\ m - 1 \notin bad /\ m \in Nat
        BY <2>1, <2>3, <1>1
      <3>2. Good(m - 1)
        BY <3>1
      <3>3. after[m] = OneMoreLayer(parents, after[m - 1])
        BY <3>1, <1>4
      <3>4. /\ Line(after[m], D)
            /\ Range(after[m - 1]) \subseteq D
            /\ Range(after[m - 1]) \subseteq Range(after[m])
            /\ Range(after[m - 1]) # D => Range(after[m - 1]) # Range(after[m])
        BY <3>2, <3>3, LayerContinues
      <3>5. Range(after[m]) \subseteq D
        BY <3>4, LayerContinues
      <3>6. Range(after[m]) # D => Cardinality(Range(after[m])) >= m
        <4> SUFFICES ASSUME Range(after[m]) # D
                     PROVE  Cardinality(Range(after[m])) >= m
          OBVIOUS
        <4>1. Range(after[m - 1]) # D
          BY <3>4, <3>5
        <4>2. IsFiniteSet(Range(after[m]))
          BY <3>5, FS_Subset
        <4>3. /\ Cardinality(Range(after[m - 1])) < Cardinality(Range(after[m]))
              /\ Cardinality(Range(after[m - 1])) \in Nat
              /\ Cardinality(Range(after[m])) \in Nat
          BY <3>4, <4>1, <4>2, FewerElements
        <4>4. Cardinality(Range(after[m - 1])) >= m - 1
          BY <3>2, <4>1
        <4>5. QED
          BY <4>3, <4>4, <3>1
      <3>7. QED
        BY <3>4, <3>6, <2>1
    <2>4. QED
      BY <2>2, <2>3
  <1>6. Good(size)
    BY <1>5, <1>1
  <1>7. Range(after[size]) \subseteq D
    BY <1>6, LayerContinues
  <1>8. Range(after[size]) = D
    <2>1. SUFFICES ASSUME Range(after[size]) # D
                   PROVE  FALSE
      OBVIOUS
    <2>2. Cardinality(Range(after[size])) < Cardinality(D)
          /\ Cardinality(Range(after[size])) \in Nat
      BY <2>1, <1>7, FewerElements
    <2>3. QED
      BY <2>1, <2>2, <1>6, <1>1
  <1>9. QED
    BY <1>3, <1>6, <1>8

(* The order of a product's tables has each of them, once.                  *)
LEMMA OrderOfProduct ==
    ASSUME NEW product \in DOMAIN Products
    PROVE  /\ Line(Order(product), Cloned(product))
           /\ Range(Order(product)) = Cloned(product)
  <1> DEFINE parents == Parents(Planos[product])
  <1>1. DOMAIN Planos[product] = Cloned(product)
    BY DEF Planos
  <1>2. DOMAIN parents = Cloned(product)
    BY <1>1 DEF Parents
  <1>3. ASSUME NEW t \in Cloned(product)
        PROVE  parents[t] \subseteq Cloned(product)
    <2>1. Planos[product][t].remaps = FksToCloned(product, t)
      BY DEF Planos
    <2>2. parents[t] = {fk.parent : fk \in FksToCloned(product, t)} \ {t}
      BY <1>1, <2>1 DEF Parents
    <2>3. QED
      BY <2>2 DEF FksToCloned
  <1>4. IsFiniteSet(Cloned(product))
    BY ProductsArePlannable
  <1>5. Order(product) = OrderOf(parents)
    BY DEF Order, Orders
  <1> HIDE DEF parents
  <1>6. QED
    BY <1>2, <1>3, <1>4, <1>5, OrderNamesEachOnce

-----------------------------------------------------------------------------
(* Keys.                                                                    *)

(* What the assumptions say of one table of a product.                      *)
LEMMA PlannableTable ==
    ASSUME NEW product \in DOMAIN Products, NEW t \in Cloned(product)
    PROVE  /\ TableIsPlannable(product, t)
           /\ Remaps(product, t) = FksToCloned(product, t)
           /\ PkRule(product, t) = RuleOf(t, FksToCloned(product, t))
           /\ Schema[t].pk \in Seq(STRING)
           /\ PkColumns(t) \cap Generated = {}
           /\ t \in OwnKeyed(product) => t \in Tables
  <1>1. TableIsPlannable(product, t) /\ OwnKeyed(product) \subseteq Tables
    BY ProductsArePlannable
  <1>2. QED
    BY <1>1 DEF TableIsPlannable, Remaps, PkRule, Planos, ColumnList

(* A table that gets keys of its own has one key column, outside its        *)
(* references.                                                              *)
LEMMA OwnKeyColumn ==
    ASSUME NEW product \in DOMAIN Products, NEW t \in OwnKeyed(product)
    PROVE  /\ t \in Cloned(product) /\ t \in Tables
           /\ PkRule(product, t) = "OFFSET_PROPRIO"
           /\ DOMAIN Schema[t].pk = {1}
           /\ PkColumns(t) = {Schema[t].pk[1]}
           /\ PkColumns(t) \cap ColumnsOf(Schema[t].fks) = {}
           /\ \A r : RowKey(t, r) = << r[Schema[t].pk[1]] >>
           /\ \A r, s : RowKey(t, r) = RowKey(t, s) <=> r[Schema[t].pk[1]] = s[Schema[t].pk[1]]
  <1>1. t \in Cloned(product) /\ PkRule(product, t) = "OFFSET_PROPRIO" /\ t \in Tables
    BY PlannableTable DEF OwnKeyed
  <1>2. RuleOf(t, FksToCloned(product, t)) = "OFFSET_PROPRIO" /\ Schema[t].pk \in Seq(STRING)
    BY <1>1, PlannableTable
  <1>3. PkColumns(t) \cap ColumnsOf(Schema[t].fks) = {} /\ Len(Schema[t].pk) = 1
    BY <1>2 DEF RuleOf
  <1>4. DOMAIN Schema[t].pk = {1}
    BY <1>2, <1>3
  <1>5. PkColumns(t) = {Schema[t].pk[1]}
    BY <1>4 DEF PkColumns, Range
  <1>6. \A r : RowKey(t, r) = << r[Schema[t].pk[1]] >>
    <2> TAKE r
    <2>1. RowKey(t, r) = [i \in {1} |-> r[Schema[t].pk[1]]]
      BY <1>4 DEF RowKey, Key
    <2>2. [i \in {1} |-> r[Schema[t].pk[1]]] = << r[Schema[t].pk[1]] >>
      OBVIOUS
    <2>3. QED
      BY <2>1, <2>2
  <1>7. \A r, s : RowKey(t, r) = RowKey(t, s) <=> r[Schema[t].pk[1]] = s[Schema[t].pk[1]]
    BY <1>6
  <1>8. QED
    BY <1>1, <1>3, <1>4, <1>5, <1>6, <1>7

(* The key of a row is read from its key columns only.                      *)
LEMMA SameKeyColumns ==
    ASSUME NEW t, NEW r, NEW s, \A c \in PkColumns(t) : r[c] = s[c]
    PROVE  RowKey(t, r) = RowKey(t, s)
  <1>1. \A i \in DOMAIN Schema[t].pk : Schema[t].pk[i] \in PkColumns(t)
    BY DEF PkColumns, Range
  <1>2. QED
    BY <1>1 DEF RowKey, Key

(* And two rows with the same key agree on each of them.                    *)
LEMMA SameKey ==
    ASSUME NEW t, NEW r, NEW s, RowKey(t, r) = RowKey(t, s)
    PROVE  \A c \in PkColumns(t) : r[c] = s[c]
  <1> TAKE c \in PkColumns(t)
  <1>1. PICK i \in DOMAIN Schema[t].pk : Schema[t].pk[i] = c
    BY DEF PkColumns, Range
  <1>2. RowKey(t, r)[i] = r[c] /\ RowKey(t, s)[i] = s[c]
    BY <1>1 DEF RowKey, Key
  <1>3. QED
    BY <1>2

(* What leaves no rest is a multiple.                                       *)
LEMMA NoRestIsMultiple ==
    ASSUME NEW a \in Nat, NEW b \in Nat \ {0}, a % b = 0
    PROVE  \E q \in Nat : a = q * b
  <1> DEFINE q == a \div b
  <1>1. a = (b * q) + (a % b)
    OBVIOUS
  <1>2. q \in Nat
    OBVIOUS
  <1> HIDE DEF q
  <1>3. a = q * b
    BY <1>1, <1>2
  <1>4. QED
    BY <1>2, <1>3

(* The slots of a range, counted.                                           *)
LEMMA SlotsAreCounted ==
    ASSUME NEW start \in Int, NEW step \in Nat \ {0}, NEW n \in Nat \ {0}, NEW range,
           range.start = start, range.end = start + (n - 1) * step, range.step = step
    PROVE  PkSlots(range) = {start + i * step : i \in 0 .. n - 1}
  <1>1. ASSUME NEW i \in 0 .. n - 1
        PROVE  start + i * step \in PkSlots(range)
    <2>1. i * step \in Nat /\ (n - 1 - i) * step \in Nat
      OBVIOUS
    <2>2. (n - 1) * step = i * step + (n - 1 - i) * step
      OBVIOUS
    <2>3. start + i * step \in start .. start + (n - 1) * step
      BY <2>1, <2>2
    <2>4. (start + i * step) - start = i * step
      BY <2>1
    <2>5. (i * step) % step = 0
      BY <2>1
    <2>6. QED
      BY <2>3, <2>4, <2>5 DEF PkSlots
  <1>2. ASSUME NEW slot \in PkSlots(range)
        PROVE  \E i \in 0 .. n - 1 : slot = start + i * step
    <2>1. /\ slot \in Int /\ start <= slot /\ slot <= start + (n - 1) * step
          /\ (slot - start) % step = 0
      BY DEF PkSlots
    <2>2. slot - start \in Nat
      BY <2>1
    <2>3. PICK i \in Nat : slot - start = i * step
      BY <2>1, <2>2, NoRestIsMultiple
    <2>4. slot = start + i * step
      BY <2>1, <2>3
    <2>5. i <= n - 1
      <3>1. SUFFICES ASSUME i >= n
                     PROVE  FALSE
        BY <2>3
      <3>2. PICK d \in Nat : i = (n - 1) + 1 + d
        <4>1. i - n \in Nat /\ i = (n - 1) + 1 + (i - n)
          BY <3>1, <2>3
        <4>2. QED
          BY <4>1
      <3>3. i * step = (n - 1) * step + step + d * step /\ d * step \in Nat
        BY <3>2
      <3>4. QED
        BY <3>3, <2>1, <2>4
    <2>6. i \in 0 .. n - 1
      BY <2>5
    <2>7. QED
      BY <2>4, <2>6
  <1>3. QED
    BY <1>1, <1>2

(* A table has K copies, by the keys of its rows or by the rows.            *)
CopiesCounted(t, rows, k) ==
    /\ IsFiniteSet(Copies(rows, t, k))
    /\ Cardinality(rows) \in Nat
    /\ Cardinality(Copies(rows, t, k)) = Cardinality(rows) * k
    /\ IsFiniteSet(rows \X (1 .. k))
    /\ Cardinality(rows \X (1 .. k)) = Cardinality(rows) * k

(* Rows have distinct keys, so that their copies can be counted.            *)
LEMMA CopiesAreCounted ==
    ASSUME NEW product \in DOMAIN Products, NEW t \in Cloned(product),
           NEW rows, TableIsKeyed(product, t, rows), NEW k \in Nat
    PROVE  CopiesCounted(t, rows, k)
  <1> DEFINE keys == {RowKey(t, r) : r \in rows}
             f == [r \in rows |-> RowKey(t, r)]
  <1>1. IsFiniteSet(rows) /\ \A r, s \in rows : RowKey(t, r) = RowKey(t, s) => r = s
    BY DEF TableIsKeyed
  <1>2. {f[r] : r \in rows} = keys /\ \A r, s \in rows : f[r] = f[s] => r = s
    BY <1>1
  <1>3. DOMAIN f = rows
    OBVIOUS
  <1> HIDE DEF f, keys
  <1>4. IsFiniteSet(keys) /\ Cardinality(keys) = Cardinality(rows)
    <2>1. /\ IsFiniteSet({f[r] : r \in rows})
          /\ Cardinality({f[r] : r \in rows}) = Cardinality(rows)
      BY <1>1, <1>2, <1>3, FiniteImage
    <2>2. QED
      BY <2>1, <1>2
  <1>5. IsFiniteSet(1 .. k) /\ Cardinality(1 .. k) = k
    <2>1. 1 \in Int /\ k \in Int
      OBVIOUS
    <2>2. IsFiniteSet(1 .. k) /\ Cardinality(1 .. k) = IF 1 > k THEN 0 ELSE k - 1 + 1
      BY <2>1, FS_Interval
    <2>3. QED
      BY <2>2
  <1>6. /\ IsFiniteSet(keys \X (1 .. k))
        /\ Cardinality(keys \X (1 .. k)) = Cardinality(keys) * Cardinality(1 .. k)
    BY <1>4, <1>5, FS_Product
  <1>7. /\ IsFiniteSet(rows \X (1 .. k))
        /\ Cardinality(rows \X (1 .. k)) = Cardinality(rows) * Cardinality(1 .. k)
    BY <1>1, <1>5, FS_Product
  <1>8. Cardinality(rows) \in Nat
    BY <1>1, FS_CardinalityType
  <1>9. QED
    BY <1>1, <1>4, <1>5, <1>6, <1>7, <1>8 DEF Copies, keys, CopiesCounted

(* clona_tabela gives the copies of an own-keyed table the keys of one      *)
(* range, each once.                                                        *)
LEMMA OffsetsFillTheRange ==
    ASSUME NEW product \in DOMAIN Products, NEW t \in OwnKeyed(product),
           NEW rows, TableIsKeyed(product, t, rows), NEW k \in Nat,
           NEW start \in Int, NEW step \in Nat \ {0}
    PROVE  LET own == OffsetMap(t, rows, k, start, step)
               copies == Copies(rows, t, k)
               n == Cardinality(rows) * k
           IN  /\ \A c \in copies : DOMAIN own[c] = {1}
               /\ \A c \in copies : own[c][1] \in {start + i * step : i \in 0 .. n - 1}
               /\ \A i \in 0 .. n - 1 : \E c \in copies : own[c][1] = start + i * step
  <1>1. IsFiniteSet(Copies(rows, t, k)) /\ Cardinality(Copies(rows, t, k)) = Cardinality(rows) * k
    <2>1. t \in Cloned(product)
      BY OwnKeyColumn
    <2>2. CopiesCounted(t, rows, k)
      BY <2>1, CopiesAreCounted
    <2>3. QED
      BY <2>2 DEF CopiesCounted
  <1> DEFINE copies == Copies(rows, t, k)
             n == Cardinality(rows) * k
             before(a, b) == a[1][1] < b[1][1] \/ (a[1][1] = b[1][1] /\ a[2] < b[2])
             below == [c \in copies |-> {d \in copies : before(d, c)}]
             own == OffsetMap(t, rows, k, start, step)
  <1>2. IsFiniteSet(copies) /\ Cardinality(copies) = n
    BY <1>1
  <1>3. ASSUME NEW c \in copies
        PROVE  c = << << c[1][1] >>, c[2] >> /\ c[1][1] \in Int /\ c[2] \in Nat
    <2>1. PICK r \in rows, i \in 1 .. k : c = << RowKey(t, r), i >>
      BY DEF Copies
    <2>2. RowKey(t, r) = << r[Schema[t].pk[1]] >>
      BY OwnKeyColumn
    <2>3. r[Schema[t].pk[1]] \in Int
      BY DEF TableIsKeyed
    <2>4. QED
      BY <2>1, <2>2, <2>3
  <1>4. \A c \in copies : own[c] = << start + Cardinality(below[c]) * step >>
    BY DEF OffsetMap
  <1> HIDE DEF copies, own
  <1>5. \A a, b \in copies : a # b => a \in below[b] \/ b \in below[a]
    <2> SUFFICES ASSUME NEW a \in copies, NEW b \in copies, a # b
                 PROVE  before(a, b) \/ before(b, a)
      OBVIOUS
    <2>1. a[1][1] # b[1][1] \/ a[2] # b[2]
      BY <1>3
    <2>2. a[1][1] \in Int /\ a[2] \in Int /\ b[1][1] \in Int /\ b[2] \in Int
      BY <1>3
    <2>3. QED
      BY <2>1, <2>2
  <1>6. \A a \in copies : a \notin below[a]
    <2> SUFFICES ASSUME NEW a \in copies
                 PROVE  ~before(a, a)
      OBVIOUS
    <2>1. a[1][1] \in Int /\ a[2] \in Int
      BY <1>3
    <2>2. QED
      BY <2>1
  <1>7. \A a, b \in copies : a \in below[b] => below[a] \subseteq below[b]
    <2> SUFFICES ASSUME NEW a \in copies, NEW b \in copies, before(a, b),
                        NEW d \in copies, before(d, a)
                 PROVE  before(d, b)
      OBVIOUS
    <2>1. /\ a[1][1] \in Int /\ a[2] \in Int /\ b[1][1] \in Int /\ b[2] \in Int
          /\ d[1][1] \in Int /\ d[2] \in Int
      BY <1>3
    <2>2. QED
      BY <2>1
  <1>8. below \in [copies -> SUBSET copies]
    OBVIOUS
  <1> HIDE DEF below
  <1>9. /\ \A a \in copies : Cardinality(below[a]) \in 0 .. Cardinality(copies) - 1
        /\ \A i \in 0 .. Cardinality(copies) - 1 :
              \E a \in copies : Cardinality(below[a]) = i
    BY <1>2, <1>5, <1>6, <1>7, <1>8, RanksAreABijection
  <1>10. \A c \in copies : /\ DOMAIN own[c] = {1}
                          /\ own[c][1] = start + Cardinality(below[c]) * step
    <2> TAKE c \in copies
    <2>1. own[c] = << start + Cardinality(below[c]) * step >>
      BY <1>4
    <2>2. \A x : DOMAIN << x >> = {1} /\ << x >>[1] = x
      OBVIOUS
    <2>3. QED
      BY <2>1, <2>2
  <1>11. QED
    BY <1>2, <1>9, <1>10 DEF copies, own


-----------------------------------------------------------------------------
(* The clones of one table.                                                 *)

(* A column under no reference to a cloned table keeps its value.           *)
LEMMA RemappedAlone ==
    ASSUME NEW fks, NEW row, NEW i, NEW column, column \notin ColumnsOf(fks), NEW maps
    PROVE  Remapped(fks, row, i, column, maps) = row[column]
  <1>1. {f \in fks : column \in Range(f.cols) /\ RemapTargets(f, row, i, maps) # {}} = {}
    BY DEF ColumnsOf
  <1>2. QED
    BY <1>1 DEF Remapped

(* What the n-th column of a reference becomes in a copy of a row.          *)
Followed(fk, row, i, n, maps) ==
    IF fk.parent \in DOMAIN maps /\ <<Key(row, fk.cols), i>> \in DOMAIN maps[fk.parent]
    THEN maps[fk.parent][<<Key(row, fk.cols), i>>][n]
    ELSE row[fk.cols[n]]

(* A column under one follows the map of the table it refers to, when that  *)
(* map has the key and the copy; no other reference holds the column.       *)
LEMMA RemappedByReference ==
    ASSUME NEW product \in DOMAIN Products, NEW t \in Cloned(product),
           NEW fk \in Remaps(product, t), NEW n \in DOMAIN fk.cols,
           NEW row, NEW i, NEW maps
    PROVE  Remapped(Remaps(product, t), row, i, fk.cols[n], maps) = Followed(fk, row, i, n, maps)
  <1> DEFINE column == fk.cols[n]
             fks == Remaps(product, t)
             hits == {f \in fks : column \in Range(f.cols) /\ RemapTargets(f, row, i, maps) # {}}
             found == fk.parent \in DOMAIN maps /\ <<Key(row, fk.cols), i>> \in DOMAIN maps[fk.parent]
             key == maps[fk.parent][<<Key(row, fk.cols), i>>]
  <1>1. fk \in Schema[t].fks /\ fks \subseteq Schema[t].fks
    BY PlannableTable DEF FksToCloned
  <1>2. /\ \A a, b \in DOMAIN fk.cols : fk.cols[a] = fk.cols[b] => a = b
        /\ \A f \in fks : f # fk => Range(f.cols) \cap Range(fk.cols) = {}
    BY <1>1, PlannableTable DEF TableIsPlannable, ColumnList
  <1>3. column \in Range(fk.cols)
    BY DEF Range
  <1>4. \A f \in hits : f = fk
    BY <1>2, <1>3
  <1>5. RemapTargets(fk, row, i, maps) = IF found THEN {key} ELSE {}
    BY DEF RemapTargets
  <1>6. hits = IF found THEN {fk} ELSE {}
    BY <1>3, <1>4, <1>5
  <1>7. (CHOOSE a \in DOMAIN fk.cols : fk.cols[a] = column) = n
    BY <1>2
  <1> DEFINE hit == CHOOSE f \in hits : TRUE
             new == CHOOSE x \in RemapTargets(hit, row, i, maps) : TRUE
  <1>8. Remapped(fks, row, i, column, maps) =
            IF hits = {} THEN row[column] ELSE new[CHOOSE a \in DOMAIN hit.cols : hit.cols[a] = column]
    BY DEF Remapped
  <1> HIDE DEF hits, key, found, fks, column
  <1>9. ASSUME found
        PROVE  hit = fk /\ new = key
    BY <1>5, <1>6, <1>9
  <1> HIDE DEF hit, new
  <1>10. Remapped(fks, row, i, column, maps) = IF found THEN key[n] ELSE row[column]
    BY <1>6, <1>7, <1>8, <1>9
  <1>11. QED
    BY <1>10 DEF Followed, fks, key, found, column

(* A clone of a table, by its source and its copy.                          *)
CloneOf(product, t, own, maps, missing, x) ==
    [ src |-> RowKey(t, x[1]), k |-> x[2],
      row |-> Nullified(product, t, ClonedRow(product, t, x[1], x[2], own, maps), missing) ]

(* A clone has its source, its copy and its row.                            *)
IsClone(c) == c = [src |-> c.src, k |-> c.k, row |-> c.row]

(* Whatever the maps: a table gets k clones of each row, with the key its   *)
(* own map gives to the source and the copy and the content of the source.  *)
ClonedFrom(product, t, rows, k, own, made) ==
    /\ \A c \in made : IsClone(c)
    /\ {<<c.src, c.k>> : c \in made} = Copies(rows, t, k)
    /\ \A a, b \in made : a.src = b.src /\ a.k = b.k => a = b
    /\ IsFiniteSet(made)
    /\ Cardinality(made) = Cardinality(rows) * k
    /\ \A c \in made :
          /\ \A n \in DOMAIN Schema[t].pk : c.row[Schema[t].pk[n]] = own[<<c.src, c.k>>][n]
          /\ \E r \in rows : /\ RowKey(t, r) = c.src
                             /\ DOMAIN c.row = DOMAIN r
                             /\ \A col \in Content(product, t, r) : c.row[col] = r[col]

(* The columns of a clone before and after the columns to null are nulled.  *)
LEMMA ClonedColumns ==
    ASSUME NEW product \in DOMAIN Products, NEW t \in Cloned(product),
           NEW row, Columns(t) \subseteq DOMAIN row, NEW i, NEW own, NEW maps, NEW missing
    PROVE  LET raw0 == ClonedRow(product, t, row, i, own, maps)
               new == Nullified(product, t, raw0, missing)
           IN  /\ DOMAIN new = DOMAIN row
               /\ \A n \in DOMAIN Schema[t].pk :
                     new[Schema[t].pk[n]] = own[<<RowKey(t, row), i>>][n]
               /\ \A col \in Content(product, t, row) : new[col] = row[col]
  <1> DEFINE raw0 == ClonedRow(product, t, row, i, own, maps)
             new == Nullified(product, t, raw0, missing)
             all == [u \in DOMAIN maps \cup {t} |-> IF u = t THEN own ELSE maps[u]]
             pk == Schema[t].pk
  <1>1. DOMAIN raw0 = DOMAIN row /\ DOMAIN new = DOMAIN row
    BY DEF ClonedRow, Nullified
  <1>2. /\ PkColumns(t) \subseteq DOMAIN row
        /\ PkColumns(t) \subseteq Schema[t].required
        /\ \A x \in Products[product].selective :
              x[1] = t => x[2] \in ColumnsOf(Schema[t].fks) \ Schema[t].required
        /\ \A a, b \in DOMAIN pk : pk[a] = pk[b] => a = b
    BY PlannableTable DEF Columns, TableIsPlannable, ColumnList
  <1>3. ASSUME NEW n \in DOMAIN pk
        PROVE  new[pk[n]] = own[<<RowKey(t, row), i>>][n]
    <2>1. pk[n] \in PkColumns(t) /\ pk[n] \in Range(pk) /\ pk[n] \in DOMAIN row
      BY <1>2 DEF PkColumns, Range
    <2>2. (CHOOSE a \in DOMAIN pk : pk[a] = pk[n]) = n
      BY <1>2
    <2>3. raw0[pk[n]] = own[<<RowKey(t, row), i>>][CHOOSE a \in DOMAIN pk : pk[a] = pk[n]]
      BY <2>1 DEF ClonedRow
    <2>4. <<t, pk[n]>> \notin Products[product].selective
      BY <1>2, <2>1
    <2>5. new[pk[n]] = raw0[pk[n]]
      BY <1>1, <1>2, <2>1, <2>4 DEF Nullified
    <2>6. QED
      BY <2>2, <2>3, <2>5
  <1>4. ASSUME NEW col \in Content(product, t, row)
        PROVE  new[col] = row[col]
    <2>1. /\ col \in DOMAIN row /\ col \notin PkColumns(t) /\ col \notin ColumnsOf(Schema[t].fks)
          /\ ~ \E y \in Products[product].nullify : y[1] = t /\ y[2] = col
      BY DEF Content
    <2>2. col \notin ColumnsOf(Remaps(product, t)) /\ col \notin Range(pk)
      <3>1. Remaps(product, t) \subseteq Schema[t].fks
        BY PlannableTable DEF FksToCloned
      <3>2. QED
        BY <2>1, <3>1 DEF ColumnsOf, PkColumns
    <2>3. raw0[col] = row[col]
      <3>1. raw0[col] = Remapped(Remaps(product, t), row, i, col, all)
        BY <2>1, <2>2 DEF ClonedRow
      <3>2. QED
        BY <3>1, <2>2, RemappedAlone
    <2>4. <<t, col>> \notin Products[product].nullify
      BY <2>1
    <2>5. <<t, col>> \notin Products[product].selective
      BY <1>2, <2>1
    <2>6. QED
      BY <1>1, <2>1, <2>3, <2>4, <2>5 DEF Nullified
  <1>5. QED
    BY <1>1, <1>3, <1>4

(* clona_tabela makes the clones of a table from its rows, whatever the key *)
(* maps it is given.                                                        *)
LEMMA TableIsCloned ==
    ASSUME NEW product \in DOMAIN Products, NEW t \in Cloned(product),
           NEW rows, TableIsKeyed(product, t, rows), NEW k \in Nat,
           NEW own, NEW maps, NEW missing
    PROVE  ClonedFrom(product, t, rows, k, own, CloneTable(product, t, rows, k, own, maps, missing))
  <1> DEFINE S == rows \X (1 .. k)
             f == [x \in S |-> CloneOf(product, t, own, maps, missing, x)]
             made == CloneTable(product, t, rows, k, own, maps, missing)
  <1>1. made = {f[x] : x \in S}
    BY DEF CloneTable, CloneOf
  <1>2. \A x \in S : f[x].src = RowKey(t, x[1]) /\ f[x].k = x[2] /\ IsClone(f[x])
    BY DEF CloneOf, IsClone
  <1>3. ASSUME NEW x \in S
        PROVE  /\ x[1] \in rows /\ RowKey(t, x[1]) = f[x].src
               /\ DOMAIN f[x].row = DOMAIN x[1]
               /\ \A n \in DOMAIN Schema[t].pk :
                     f[x].row[Schema[t].pk[n]] = own[<<f[x].src, f[x].k>>][n]
               /\ \A col \in Content(product, t, x[1]) : f[x].row[col] = x[1][col]
    <2>1. x[1] \in rows /\ Columns(t) \subseteq DOMAIN x[1]
      BY DEF TableIsKeyed
    <2>2. f[x].row = Nullified(product, t, ClonedRow(product, t, x[1], x[2], own, maps), missing)
      BY DEF CloneOf
    <2>3. /\ DOMAIN f[x].row = DOMAIN x[1]
          /\ \A n \in DOMAIN Schema[t].pk :
                f[x].row[Schema[t].pk[n]] = own[<<RowKey(t, x[1]), x[2]>>][n]
          /\ \A col \in Content(product, t, x[1]) : f[x].row[col] = x[1][col]
      BY <2>1, <2>2, ClonedColumns
    <2>4. QED
      BY <1>2, <2>1, <2>3
  <1>4. DOMAIN f = S
    OBVIOUS
  <1>5. \A x \in S : x = <<x[1], x[2]>> /\ x[1] \in rows /\ x[2] \in 1 .. k
    OBVIOUS
  <1>6. \A r \in rows, i \in 1 .. k : <<r, i>> \in S
    OBVIOUS
  <1>7. \A r, s \in rows : RowKey(t, r) = RowKey(t, s) => r = s
    BY DEF TableIsKeyed
  <1>8. IsFiniteSet(S) /\ Cardinality(S) = Cardinality(rows) * k
    <2>1. CopiesCounted(t, rows, k)
      BY CopiesAreCounted
    <2>2. QED
      BY <2>1 DEF CopiesCounted
  <1> HIDE DEF f, S, made
  <1>9. {<<c.src, c.k>> : c \in made} = Copies(rows, t, k)
    <2>1. ASSUME NEW c \in made
          PROVE  <<c.src, c.k>> \in Copies(rows, t, k)
      BY <1>1, <1>2, <1>5 DEF Copies
    <2>2. ASSUME NEW r \in rows, NEW i \in 1 .. k
          PROVE  \E c \in made : <<RowKey(t, r), i>> = <<c.src, c.k>>
      <3>1. <<r, i>> \in S /\ f[<<r, i>>] \in made
        BY <1>1, <1>6
      <3>2. f[<<r, i>>].src = RowKey(t, r) /\ f[<<r, i>>].k = i
        BY <1>2, <3>1
      <3>3. QED
        BY <3>1, <3>2
    <2>3. QED
      BY <2>1, <2>2 DEF Copies
  <1>10. \A x, y \in S : f[x].src = f[y].src /\ f[x].k = f[y].k => x = y
    BY <1>2, <1>5, <1>7
  <1>11. \A a, b \in made : a.src = b.src /\ a.k = b.k => a = b
    BY <1>1, <1>10
  <1>12. IsFiniteSet(made) /\ Cardinality(made) = Cardinality(rows) * k
    <2>1. \A x, y \in S : f[x] = f[y] => x = y
      BY <1>10
    <2>2. IsFiniteSet({f[x] : x \in S}) /\ Cardinality({f[x] : x \in S}) = Cardinality(S)
      BY <1>4, <1>8, <2>1, FiniteImage
    <2>3. QED
      BY <1>1, <1>8, <2>2
  <1>13. \A c \in made :
            /\ \A n \in DOMAIN Schema[t].pk : c.row[Schema[t].pk[n]] = own[<<c.src, c.k>>][n]
            /\ \E r \in rows : /\ RowKey(t, r) = c.src
                               /\ DOMAIN c.row = DOMAIN r
                               /\ \A col \in Content(product, t, r) : c.row[col] = r[col]
    BY <1>1, <1>3
  <1>14. \A c \in made : IsClone(c)
    BY <1>1, <1>2
  <1>15. QED
    BY <1>9, <1>11, <1>12, <1>13, <1>14 DEF ClonedFrom, made

OwnKeys(t, made) == {c.row[Schema[t].pk[1]] : c \in made}

Counted(start, step, n) == {start + i * step : i \in 0 .. n - 1}

(* The clones made of rows with keys counted from a start.                  *)
NumberedFrom(product, t, rows, k, start, step, made) ==
    /\ k \in Nat /\ start \in Int /\ step \in Nat \ {0}
    /\ \E maps, keys : /\ keys = KeyMap(product, t, rows, k, start, step, maps)
                       /\ ClonedFrom(product, t, rows, k, keys, made)

(* A table with keys of its own gets exactly the keys of its range.         *)
LEMMA OwnKeysFillTheRange ==
    ASSUME NEW product \in DOMAIN Products, NEW t \in OwnKeyed(product),
           NEW rows, TableIsKeyed(product, t, rows), NEW k, NEW start, NEW step, NEW made,
           NumberedFrom(product, t, rows, k, start, step, made)
    PROVE  OwnKeys(t, made) = Counted(start, step, Cardinality(rows) * k)
  <1>0. PICK maps, keys : /\ k \in Nat /\ start \in Int /\ step \in Nat \ {0}
                          /\ keys = KeyMap(product, t, rows, k, start, step, maps)
                          /\ ClonedFrom(product, t, rows, k, keys, made)
    BY DEF NumberedFrom
  <1> DEFINE own == OffsetMap(t, rows, k, start, step)
             n == Cardinality(rows) * k
             copies == Copies(rows, t, k)
             pk == Schema[t].pk[1]
  <1>1. keys = own /\ DOMAIN Schema[t].pk = {1}
    BY <1>0, OwnKeyColumn DEF KeyMap
  <1>2. /\ {<<c.src, c.k>> : c \in made} = copies
        /\ \A c \in made : c.row[pk] = own[<<c.src, c.k>>][1]
    BY <1>0, <1>1 DEF ClonedFrom
  <1>3. /\ \A c \in copies : own[c][1] \in {start + i * step : i \in 0 .. n - 1}
        /\ \A i \in 0 .. n - 1 : \E c \in copies : own[c][1] = start + i * step
    BY <1>0, OffsetsFillTheRange
  <1> HIDE DEF own, n, copies, pk
  <1>4. \A c \in made : c.row[pk] \in {start + i * step : i \in 0 .. n - 1}
    BY <1>2, <1>3
  <1>5. ASSUME NEW i \in 0 .. n - 1
        PROVE  \E c \in made : c.row[pk] = start + i * step
    <2>1. PICK x \in copies : own[x][1] = start + i * step
      BY <1>3
    <2>2. PICK c \in made : x = <<c.src, c.k>>
      BY <1>2
    <2>3. QED
      BY <1>2, <2>1, <2>2
  <1>6. QED
    BY <1>4, <1>5 DEF OwnKeys, Counted, n, pk

-----------------------------------------------------------------------------
(* The clones of all tables.                                                *)

(* A table as the clone loop leaves it: made with a map for each parent     *)
(* that comes before it, which later tables do not change.                  *)
MadeWith(product, lotes, k, starts, steps, missing, made, t, maps) ==
    /\ made.maps[t] = KeyMap(product, t, lotes[t], k, starts[t], steps[t], maps)
    /\ made.clones[t] = CloneTable(product, t, lotes[t], k, made.maps[t], maps, missing)
    /\ t \notin DOMAIN maps
    /\ \A fk \in Remaps(product, t) :
          fk.parent # t => /\ fk.parent \in DOMAIN maps
                           /\ fk.parent \in DOMAIN made.maps
                           /\ maps[fk.parent] = made.maps[fk.parent]

TableMade(product, lotes, k, starts, steps, missing, made, t) ==
    \E maps : MadeWith(product, lotes, k, starts, steps, missing, made, t, maps)

(* The first n tables of the order are made.                                *)
FirstMade(product, lotes, k, starts, steps, missing, made, n) ==
    /\ DOMAIN made.maps = {Order(product)[i] : i \in 1 .. n}
    /\ DOMAIN made.clones = {Order(product)[i] : i \in 1 .. n}
    /\ \A t \in DOMAIN made.maps : TableMade(product, lotes, k, starts, steps, missing, made, t)

(* One more table leaves those before it as they are.                       *)
LEMMA OneMoreTable ==
    ASSUME NEW product \in DOMAIN Products, NEW lotes, NEW k, NEW starts, NEW steps, NEW missing,
           NEW made, NEW n \in Nat, n + 1 \in DOMAIN Order(product),
           FirstMade(product, lotes, k, starts, steps, missing, made, n)
    PROVE  FirstMade(product, lotes, k, starts, steps, missing,
                     WithTable(product, Order(product)[n + 1], lotes, k, starts, steps, missing, made),
                     n + 1)
  <1> DEFINE order == Order(product)
             t == order[n + 1]
             next == WithTable(product, t, lotes, k, starts, steps, missing, made)
             own == KeyMap(product, t, lotes[t], k, starts[t], steps[t], made.maps)
  <1>1. /\ order \in Seq(Cloned(product))
        /\ \A i, j \in 1 .. Len(order) : order[i] = order[j] => i = j
        /\ Range(order) = Cloned(product)
    BY OrderOfProduct DEF Line
  <1>2. n + 1 \in 1 .. Len(order) /\ t \in Cloned(product)
    BY <1>1
  <1>3. t \notin {order[i] : i \in 1 .. n}
    BY <1>1, <1>2
  <1>4. {order[i] : i \in 1 .. n + 1} = {order[i] : i \in 1 .. n} \cup {t}
    <2>1. 1 .. n + 1 = (1 .. n) \cup {n + 1}
      OBVIOUS
    <2>2. QED
      BY <2>1
  <1>5. /\ DOMAIN made.maps = {order[i] : i \in 1 .. n}
        /\ DOMAIN made.clones = {order[i] : i \in 1 .. n}
        /\ \A u \in DOMAIN made.maps : TableMade(product, lotes, k, starts, steps, missing, made, u)
    BY DEF FirstMade
  <1>6. /\ DOMAIN next.maps = DOMAIN made.maps \cup {t}
        /\ DOMAIN next.clones = DOMAIN made.clones \cup {t}
        /\ next.maps[t] = own
        /\ next.clones[t] = CloneTable(product, t, lotes[t], k, own, made.maps, missing)
        /\ \A u \in DOMAIN made.maps : u # t => next.maps[u] = made.maps[u]
        /\ \A u \in DOMAIN made.clones : u # t => next.clones[u] = made.clones[u]
    BY DEF WithTable
  <1> HIDE DEF next, own, t, order
  <1>7. ASSUME NEW u \in DOMAIN made.maps
        PROVE  TableMade(product, lotes, k, starts, steps, missing, next, u)
    <2>1. u # t /\ next.maps[u] = made.maps[u] /\ next.clones[u] = made.clones[u]
      BY <1>3, <1>5, <1>6
    <2>2. PICK maps :
            /\ made.maps[u] = KeyMap(product, u, lotes[u], k, starts[u], steps[u], maps)
            /\ made.clones[u] = CloneTable(product, u, lotes[u], k, made.maps[u], maps, missing)
            /\ u \notin DOMAIN maps
            /\ \A fk \in Remaps(product, u) :
                  fk.parent # u => /\ fk.parent \in DOMAIN maps
                                   /\ fk.parent \in DOMAIN made.maps
                                   /\ maps[fk.parent] = made.maps[fk.parent]
      BY <1>5 DEF TableMade, MadeWith
    <2>3. ASSUME NEW fk \in Remaps(product, u), fk.parent # u
          PROVE  /\ fk.parent \in DOMAIN maps
                 /\ fk.parent \in DOMAIN next.maps
                 /\ maps[fk.parent] = next.maps[fk.parent]
      BY <1>3, <1>5, <1>6, <2>2, <2>3
    <2>4. QED
      BY <2>1, <2>2, <2>3 DEF TableMade, MadeWith
  <1>8. TableMade(product, lotes, k, starts, steps, missing, next, t)
    <2>1. ASSUME NEW fk \in Remaps(product, t), fk.parent # t
          PROVE  fk.parent \in DOMAIN made.maps
      <3>1. Before(order, fk.parent, t)
        BY <1>2, <2>1, PlannableTable DEF TableIsPlannable, order
      <3>2. PICK i, j \in DOMAIN order : order[i] = fk.parent /\ order[j] = t /\ i < j
        BY <3>1 DEF Before
      <3>3. DOMAIN order = 1 .. Len(order) /\ Len(order) \in Nat
        BY <1>1
      <3>4. j = n + 1
        BY <1>1, <1>2, <3>2, <3>3 DEF t
      <3>5. i \in 1 .. n
        BY <3>2, <3>3, <3>4
      <3>6. QED
        BY <1>5, <3>2, <3>5
    <2>2. t \notin DOMAIN made.maps
      BY <1>3, <1>5
    <2>3. \A fk \in Remaps(product, t) :
             fk.parent # t => /\ fk.parent \in DOMAIN made.maps
                              /\ fk.parent \in DOMAIN next.maps
                              /\ made.maps[fk.parent] = next.maps[fk.parent]
      BY <1>6, <2>1
    <2>4. /\ next.maps[t] = KeyMap(product, t, lotes[t], k, starts[t], steps[t], made.maps)
          /\ next.clones[t] = CloneTable(product, t, lotes[t], k, next.maps[t], made.maps, missing)
      BY <1>6 DEF own
    <2>5. QED
      BY <2>2, <2>3, <2>4 DEF TableMade, MadeWith
  <1>9. FirstMade(product, lotes, k, starts, steps, missing, next, n + 1)
    BY <1>4, <1>5, <1>6, <1>7, <1>8 DEF FirstMade, order
  <1>10. QED
    BY <1>9 DEF next, t, order

(* f[m] is what the clone loop has made of the first m tables.              *)
CloneRun(product, lotes, k, starts, steps, missing, n, f) ==
    f = [ m \in 0 .. n |->
            IF m = 0
            THEN NothingMade
            ELSE WithTable(product, Order(product)[m], lotes, k, starts, steps, missing, f[m - 1]) ]

(* The clone loop runs to its end.                                          *)
LEMMA TablesCanBeMade ==
    ASSUME NEW product, NEW lotes, NEW k0, NEW starts, NEW steps, NEW missing, NEW n \in Nat
    PROVE  \E f : CloneRun(product, lotes, k0, starts, steps, missing, n, f)
  <1> DEFINE After(made, m) ==
               WithTable(product, Order(product)[m], lotes, k0, starts, steps, missing, made)
             Repeats(f, k) ==
               f = [m \in 0 .. k |-> IF m = 0 THEN NothingMade ELSE After(f[m - 1], m)]
             bad == {k \in Nat : ~ \E f : Repeats(f, k)}
  <1> HIDE DEF After
  <1>0. (\E f : Repeats(f, n)) =>
           \E f : CloneRun(product, lotes, k0, starts, steps, missing, n, f)
    BY DEF CloneRun, After
  <1>1. SUFFICES ASSUME bad # {}
                 PROVE  FALSE
    BY <1>0
  <1>2. PICK k \in bad : \A m \in bad : k <= m
    BY <1>1, LeastNumber
  <1>3. CASE k = 0
    <2> DEFINE f == [m \in 0 .. 0 |-> NothingMade]
    <2>1. Repeats(f, 0)
      OBVIOUS
    <2>2. QED
      BY <2>1, <1>3, <1>2
  <1>4. CASE k # 0
    <2>1. k - 1 \in Nat /\ k - 1 \notin bad /\ k \in Nat
      BY <1>2, <1>4
    <2>2. PICK f : Repeats(f, k - 1)
      BY <2>1
    <2> DEFINE g == [m \in 0 .. k |-> IF m = k THEN After(f[k - 1], k) ELSE f[m]]
    <2>3. ASSUME NEW m \in 0 .. k
          PROVE  g[m] = IF m = 0 THEN NothingMade ELSE After(g[m - 1], m)
      <3>1. CASE m = 0
        BY <3>1, <2>1, <2>2, <1>4
      <3>2. CASE m # 0 /\ m # k
        <4>1. m \in 0 .. k - 1 /\ m - 1 \in 0 .. k - 1 /\ m - 1 # k
          BY <3>2, <2>1
        <4>2. f[m] = After(f[m - 1], m)
          BY <4>1, <3>2, <2>2
        <4>3. g[m] = f[m] /\ g[m - 1] = f[m - 1]
          BY <4>1, <3>2, <2>1
        <4>4. QED
          BY <4>2, <4>3, <3>2
      <3>3. CASE m # 0 /\ m = k
        <4>1. m - 1 \in 0 .. k /\ m - 1 # k
          BY <3>3, <2>1
        <4>2. g[m] = After(f[k - 1], k) /\ g[m - 1] = f[m - 1]
          BY <4>1, <3>3
        <4>3. QED
          BY <4>2, <3>3
      <3>4. QED
        BY <3>1, <3>2, <3>3
    <2>4. DOMAIN g = 0 .. k /\ g = [m \in 0 .. k |-> g[m]]
      OBVIOUS
    <2> HIDE DEF g
    <2>5. Repeats(g, k)
      BY <2>3, <2>4
    <2>6. QED
      BY <2>5, <1>2
  <1>5. QED
    BY <1>3, <1>4

(* CloneAll makes every table of the product.                               *)
LEMMA AllAreMade ==
    ASSUME NEW product \in DOMAIN Products, NEW lotes, NEW k, NEW starts, NEW steps, NEW missing
    PROVE  LET made == CloneAll(product, lotes, k, starts, steps, missing)
           IN  /\ DOMAIN made.maps = Cloned(product)
               /\ DOMAIN made.clones = Cloned(product)
               /\ \A t \in Cloned(product) :
                     TableMade(product, lotes, k, starts, steps, missing, made, t)
  <1> DEFINE order == Order(product)
             Runs(f) == CloneRun(product, lotes, k, starts, steps, missing, Len(order), f)
             made == CHOOSE f : Runs(f)
             Good(m) == FirstMade(product, lotes, k, starts, steps, missing, made[m], m)
  <1>1. /\ order \in Seq(Cloned(product))
        /\ Range(order) = Cloned(product)
    BY OrderOfProduct DEF Line
  <1>2. Len(order) \in Nat /\ DOMAIN order = 1 .. Len(order)
    BY <1>1
  <1>3. Runs(made)
    <2>1. \E f : Runs(f)
      BY <1>2, TablesCanBeMade
    <2>2. QED
      BY <2>1
  <1>4. CloneAll(product, lotes, k, starts, steps, missing) = made[Len(order)]
    BY DEF CloneAll, CloneRun
  <1> HIDE DEF made
  <1>5. \A m \in 0 .. Len(order) :
           made[m] = IF m = 0
                     THEN NothingMade
                     ELSE WithTable(product, order[m], lotes, k, starts, steps, missing, made[m - 1])
    BY <1>3 DEF CloneRun
  <1> HIDE DEF Runs
  <1> DEFINE bad == {m \in 0 .. Len(order) : ~Good(m)}
  <1>6. bad = {}
    <2> SUFFICES ASSUME bad # {}
                 PROVE  FALSE
      OBVIOUS
    <2>1. PICK m \in bad : \A n \in bad : m <= n
      <3>1. bad \in SUBSET Nat
        BY <1>2
      <3> HIDE DEF bad
      <3>2. QED
        BY <3>1, LeastNumber
    <2>2. m \in Nat /\ m \in 0 .. Len(order) /\ ~Good(m)
      BY <2>1, <1>2
    <2>3. CASE m = 0
      <3>1. made[m] = NothingMade
        BY <2>2, <2>3, <1>5
      <3>2. DOMAIN NothingMade.maps = {} /\ DOMAIN NothingMade.clones = {} /\ 1 .. 0 = {}
        BY DEF NothingMade
      <3>3. QED
        BY <2>2, <2>3, <3>1, <3>2 DEF FirstMade
    <2>4. CASE m # 0
      <3>1. m - 1 \in Nat /\ m - 1 \in 0 .. Len(order) /\ (m - 1) + 1 = m /\ m \in DOMAIN order
        BY <2>2, <2>4, <1>2
      <3>2. m - 1 \notin bad
        BY <2>1, <2>2, <3>1, <1>2
      <3>3. Good(m - 1)
        BY <3>1, <3>2
      <3>4. made[m] = WithTable(product, order[m], lotes, k, starts, steps, missing, made[m - 1])
        BY <2>2, <2>4, <1>5
      <3>5. Good(m)
        BY <3>1, <3>3, <3>4, OneMoreTable
      <3>6. QED
        BY <3>5, <2>2
    <2>5. QED
      BY <2>3, <2>4
  <1>7. Good(Len(order))
    BY <1>6, <1>2
  <1>8. {order[i] : i \in 1 .. Len(order)} = Cloned(product)
    BY <1>1, <1>2 DEF Range
  <1>9. QED
    BY <1>4, <1>7, <1>8 DEF FirstMade

-----------------------------------------------------------------------------
(* References.                                                              *)

(* The key map of a table has each row and copy, whatever its rule.         *)
LEMMA KeyMapOfCopies ==
    ASSUME NEW product, NEW t, NEW rows, NEW k, NEW start, NEW step, NEW maps
    PROVE  DOMAIN KeyMap(product, t, rows, k, start, step, maps) = Copies(rows, t, k)
  BY DEF KeyMap, OffsetMap, FollowMap

(* A row refers to a row of a cloned table exactly when it holds its key.   *)
LEMMA ReferringIsHoldingTheKey ==
    ASSUME NEW product \in DOMAIN Products, NEW t \in Cloned(product),
           NEW fk \in Remaps(product, t), NEW rows, TableIsKeyed(product, fk.parent, rows),
           NEW r, NEW p \in rows
    PROVE  /\ fk.parent \in Cloned(product)
           /\ DOMAIN fk.cols = DOMAIN Schema[fk.parent].pk
           /\ Refers(r, fk, p) <=> Key(r, fk.cols) = RowKey(fk.parent, p)
  <1> DEFINE pk == Schema[fk.parent].pk
  <1>1. fk \in Schema[t].fks /\ fk.parent \in Cloned(product) /\ fk.pcols = pk
    <2>1. fk \in FksToCloned(product, t)
      BY PlannableTable
    <2>2. QED
      BY <2>1 DEF FksToCloned
  <1>2. DOMAIN fk.cols = DOMAIN fk.pcols
    BY <1>1, PlannableTable DEF TableIsPlannable
  <1>3. \A i \in DOMAIN pk : p[pk[i]] # Null
    BY DEF TableIsKeyed, PkColumns, Range
  <1> HIDE DEF pk
  <1>4. Refers(r, fk, p) <=> \A i \in DOMAIN pk : r[fk.cols[i]] = p[pk[i]]
    BY <1>1, <1>2, <1>3 DEF Refers
  <1>5. Key(r, fk.cols) = [i \in DOMAIN pk |-> r[fk.cols[i]]]
    BY <1>1, <1>2 DEF Key
  <1>6. RowKey(fk.parent, p) = [i \in DOMAIN pk |-> p[pk[i]]]
    BY DEF RowKey, Key, pk
  <1>7. (Key(r, fk.cols) = RowKey(fk.parent, p)) <=> \A i \in DOMAIN pk : r[fk.cols[i]] = p[pk[i]]
    <2>1. ASSUME Key(r, fk.cols) = RowKey(fk.parent, p), NEW i \in DOMAIN pk
          PROVE  r[fk.cols[i]] = p[pk[i]]
      <3>1. Key(r, fk.cols)[i] = r[fk.cols[i]] /\ RowKey(fk.parent, p)[i] = p[pk[i]]
        BY <1>5, <1>6
      <3>2. QED
        BY <2>1, <3>1
    <2>2. ASSUME \A i \in DOMAIN pk : r[fk.cols[i]] = p[pk[i]]
          PROVE  Key(r, fk.cols) = RowKey(fk.parent, p)
      BY <1>5, <1>6, <2>2
    <2>3. QED
      BY <2>1, <2>2
  <1>8. QED
    BY <1>1, <1>2, <1>4, <1>7 DEF pk

(* The map of the table a reference leads to has a new key for it.          *)
Leads(product, t, fk, row, i, maps) ==
    fk \in Remaps(product, t) /\ <<Key(row, fk.cols), i>> \in DOMAIN maps[fk.parent]

(* A column of a reference follows it, and keeps its value when the         *)
(* reference leads to nothing that is cloned, for the columns a table is    *)
(* keyed by and for the others.                                             *)
LEMMA ReferencesFollow ==
    ASSUME NEW product \in DOMAIN Products, NEW t \in Cloned(product),
           NEW lotes, TableIsKeyed(product, t, lotes[t]), NEW k \in Nat,
           NEW starts, NEW steps, NEW missing, NEW made, NEW maps,
           MadeWith(product, lotes, k, starts, steps, missing, made, t, maps),
           NEW r \in lotes[t], NEW i \in 1 .. k,
           NEW fk \in Schema[t].fks, NEW n \in DOMAIN fk.cols
    PROVE  ClonedRow(product, t, r, i, made.maps[t], maps)[fk.cols[n]] =
              IF Leads(product, t, fk, r, i, made.maps)
              THEN made.maps[fk.parent][<<Key(r, fk.cols), i>>][n]
              ELSE r[fk.cols[n]]
  <1> DEFINE own == made.maps[t]
             col == fk.cols[n]
             pk == Schema[t].pk
             all == [u \in DOMAIN maps \cup {t} |-> IF u = t THEN own ELSE maps[u]]
             value == IF Leads(product, t, fk, r, i, made.maps)
                      THEN made.maps[fk.parent][<<Key(r, fk.cols), i>>][n]
                      ELSE r[col]
  <1>0. /\ made.maps[t] = KeyMap(product, t, lotes[t], k, starts[t], steps[t], maps)
        /\ t \notin DOMAIN maps
        /\ \A f \in Remaps(product, t) :
              f.parent # t => f.parent \in DOMAIN maps /\ maps[f.parent] = made.maps[f.parent]
    BY DEF MadeWith
  <1>1. /\ col \in Range(fk.cols) /\ col \in ColumnsOf(Schema[t].fks)
        /\ fk.parent = t => Range(fk.cols) \cap PkColumns(t) = {}
        /\ \A other \in Schema[t].fks : other # fk => Range(other.cols) \cap Range(fk.cols) = {}
        /\ \A a, b \in DOMAIN pk : pk[a] = pk[b] => a = b
    <2>1. col \in Range(fk.cols) /\ col \in ColumnsOf(Schema[t].fks)
      BY DEF ColumnsOf, Range
    <2>2. TableIsPlannable(product, t)
      BY PlannableTable
    <2>3. QED
      BY <2>1, <2>2 DEF TableIsPlannable, ColumnList
  <1>2. col \in DOMAIN r
    BY <1>1 DEF TableIsKeyed, Columns
  <1>3. Remaps(product, t) \subseteq Schema[t].fks
    BY PlannableTable DEF FksToCloned
  <1>4. ASSUME fk \notin Remaps(product, t)
        PROVE  col \notin ColumnsOf(Remaps(product, t)) /\ value = r[col]
    BY <1>1, <1>3, <1>4 DEF ColumnsOf, Leads
  <1>5. ASSUME NEW A, fk \in Remaps(product, t) => /\ fk.parent \in DOMAIN A
                                                  /\ A[fk.parent] = made.maps[fk.parent]
        PROVE  Remapped(Remaps(product, t), r, i, col, A) = value
    <2>1. CASE fk \notin Remaps(product, t)
      BY <2>1, <1>4, RemappedAlone
    <2>2. CASE fk \in Remaps(product, t)
      <3>1. Remapped(Remaps(product, t), r, i, col, A) = Followed(fk, r, i, n, A)
        BY <2>2, RemappedByReference
      <3>2. QED
        BY <2>2, <3>1, <1>5 DEF Leads, Followed
    <2>3. QED
      BY <2>1, <2>2
  <1>6. CASE col \notin Range(pk)
    <2>1. ClonedRow(product, t, r, i, own, maps)[col] = Remapped(Remaps(product, t), r, i, col, all)
      BY <1>2, <1>6 DEF ClonedRow
    <2>2. fk \in Remaps(product, t) => /\ fk.parent \in DOMAIN all
                                       /\ all[fk.parent] = made.maps[fk.parent]
      BY <1>0
    <2> HIDE DEF all, value
    <2>3. Remapped(Remaps(product, t), r, i, col, all) = value
      BY <2>2, <1>5
    <2>4. QED
      BY <2>1, <2>3 DEF value
  <1>7. CASE col \in Range(pk)
    <2>1. PICK m \in DOMAIN pk : pk[m] = col
      BY <1>7 DEF Range
    <2>2. (CHOOSE a \in DOMAIN pk : pk[a] = col) = m
      BY <2>1, <1>1
    <2>3. ClonedRow(product, t, r, i, own, maps)[col] = own[<<RowKey(t, r), i>>][m]
      BY <1>2, <1>7, <2>2 DEF ClonedRow
    <2>4. t \notin OwnKeyed(product)
      BY <1>1, <1>7, OwnKeyColumn DEF PkColumns
    <2>5. own = FollowMap(product, t, lotes[t], k, maps)
      BY <1>0, <2>4 DEF KeyMap, OwnKeyed
    <2>6. <<RowKey(t, r), i>> \in Copies(lotes[t], t, k)
      BY DEF Copies
    <2>7. own[<<RowKey(t, r), i>>][m] = Remapped(Remaps(product, t), r, i, pk[m], maps)
      <3> DEFINE x == <<RowKey(t, r), i>>
                 row == CHOOSE q \in lotes[t] : RowKey(t, q) = x[1]
      <3>1. own[x] = [a \in DOMAIN pk |-> Remapped(Remaps(product, t), row, x[2], pk[a], maps)]
        BY <2>5, <2>6 DEF FollowMap
      <3>2. row = r
        BY DEF TableIsKeyed
      <3> HIDE DEF row
      <3>3. own[x][m] = Remapped(Remaps(product, t), row, x[2], pk[m], maps)
        BY <2>1, <3>1
      <3>4. QED
        BY <3>2, <3>3
    <2>8. fk.parent # t
      BY <1>1, <1>7 DEF PkColumns
    <2> HIDE DEF value
    <2>9. Remapped(Remaps(product, t), r, i, col, maps) = value
      BY <1>0, <2>8, <1>5
    <2>10. QED
      BY <2>1, <2>3, <2>7, <2>9 DEF value
  <1>8. QED
    BY <1>6, <1>7

(* What a reference of a clone leads to: the clone of the row its source    *)
(* refers to, made for the same copy; without such a row what the source    *)
(* refers to, and no column that is nulled because that is missing.         *)
FollowsSource(product, t, lotes, missing, made, c, r, fk) ==
    /\ fk \in Remaps(product, t) =>
          \A p \in lotes[fk.parent] :
              Refers(r, fk, p) => \E d \in made[fk.parent] : /\ d.src = RowKey(fk.parent, p)
                                                           /\ d.k = c.k
                                                           /\ Refers(c.row, fk, d.row)
    /\ ~ (fk \in Remaps(product, t) /\ \E p \in lotes[fk.parent] : Refers(r, fk, p))
          => \A n \in DOMAIN fk.cols :
                /\ c.row[fk.cols[n]] = r[fk.cols[n]]
                /\ <<t, fk.cols[n]>> \in Products[product].selective
                      => <<t, fk.cols[n], r[fk.cols[n]]>> \notin missing

NoNullIn(row, fk) == \A n \in DOMAIN fk.cols : row[fk.cols[n]] # Null

(* A column that is not null in a clone was not nulled.                     *)
LEMMA NotNulled ==
    ASSUME NEW product, NEW t, NEW row, NEW missing, NEW col \in DOMAIN row,
           Nullified(product, t, row, missing)[col] # Null
    PROVE  /\ Nullified(product, t, row, missing)[col] = row[col]
           /\ <<t, col>> \in Products[product].selective => <<t, col, row[col]>> \notin missing
  BY DEF Nullified

(* The clones of a product refer to each other as their sources do.         *)
LEMMA FamiliesAreCloned ==
    ASSUME NEW product \in DOMAIN Products, NEW lotes,
           \A t \in Cloned(product) : TableIsKeyed(product, t, lotes[t]),
           NEW k \in Nat, NEW starts, NEW steps, NEW missing, NEW made,
           \A t \in Cloned(product) :
               TableMade(product, lotes, k, starts, steps, missing, made, t),
           NEW t \in Cloned(product), NEW c \in made.clones[t], NEW r \in lotes[t],
           RowKey(t, r) = c.src, NEW fk \in Schema[t].fks, NoNullIn(c.row, fk)
    PROVE  FollowsSource(product, t, lotes, missing, made.clones, c, r, fk)
  <1>1. PICK maps : MadeWith(product, lotes, k, starts, steps, missing, made, t, maps)
    BY DEF TableMade
  <1> DEFINE own == made.maps[t]
             raw0 == ClonedRow(product, t, r, c.k, own, maps)
             leads == Leads(product, t, fk, r, c.k, made.maps)
  <1>2. c.k \in 1 .. k /\ c.row = Nullified(product, t, raw0, missing)
    <2>1. PICK x \in lotes[t] \X (1 .. k) :
             c = [ src |-> RowKey(t, x[1]), k |-> x[2],
                   row |-> Nullified(product, t, ClonedRow(product, t, x[1], x[2], own, maps), missing) ]
      BY <1>1 DEF MadeWith, CloneTable
    <2>2. x[1] \in lotes[t] /\ x[2] \in 1 .. k /\ c.src = RowKey(t, x[1]) /\ c.k = x[2]
      BY <2>1
    <2>3. x[1] = r
      BY <2>2 DEF TableIsKeyed
    <2>4. QED
      BY <2>1, <2>2, <2>3
  <1>3. ASSUME NEW n \in DOMAIN fk.cols
        PROVE  /\ c.row[fk.cols[n]] = IF leads
                                      THEN made.maps[fk.parent][<<Key(r, fk.cols), c.k>>][n]
                                      ELSE r[fk.cols[n]]
               /\ <<t, fk.cols[n]>> \in Products[product].selective
                     => <<t, fk.cols[n], c.row[fk.cols[n]]>> \notin missing
    <2>1. fk.cols[n] \in DOMAIN raw0
      <3>1. fk.cols[n] \in ColumnsOf(Schema[t].fks)
        BY DEF ColumnsOf, Range
      <3>2. DOMAIN raw0 = DOMAIN r /\ Columns(t) \subseteq DOMAIN r
        BY DEF ClonedRow, TableIsKeyed
      <3>3. QED
        BY <3>1, <3>2 DEF Columns
    <2> DEFINE col == fk.cols[n]
    <2>2. Nullified(product, t, raw0, missing)[col] # Null
      BY <1>2 DEF NoNullIn
    <2> HIDE DEF raw0, col
    <2>3. /\ Nullified(product, t, raw0, missing)[col] = raw0[col]
          /\ <<t, col>> \in Products[product].selective => <<t, col, raw0[col]>> \notin missing
      BY <2>1, <2>2, NotNulled DEF col
    <2>4. raw0[col] = IF leads
                      THEN made.maps[fk.parent][<<Key(r, fk.cols), c.k>>][n]
                      ELSE r[col]
      BY <1>1, <1>2, ReferencesFollow DEF raw0, col
    <2>5. QED
      BY <1>2, <2>3, <2>4 DEF col
  <1> HIDE DEF raw0
  <1>4. ASSUME fk \in Remaps(product, t)
        PROVE  /\ fk.parent \in Cloned(product)
               /\ TableIsKeyed(product, fk.parent, lotes[fk.parent])
               /\ fk.pcols = Schema[fk.parent].pk
               /\ DOMAIN made.maps[fk.parent] = Copies(lotes[fk.parent], fk.parent, k)
               /\ ClonedFrom(product, fk.parent, lotes[fk.parent], k, made.maps[fk.parent],
                             made.clones[fk.parent])
    <2>1. fk \in FksToCloned(product, t)
      BY <1>4, PlannableTable
    <2>2. fk.parent \in Cloned(product) /\ fk.pcols = Schema[fk.parent].pk
      BY <2>1 DEF FksToCloned
    <2>3. PICK m : MadeWith(product, lotes, k, starts, steps, missing, made, fk.parent, m)
      BY <2>2 DEF TableMade
    <2>4. TableIsKeyed(product, fk.parent, lotes[fk.parent])
      BY <2>2
    <2>5. QED
      BY <2>2, <2>3, <2>4, KeyMapOfCopies, TableIsCloned DEF MadeWith
  <1>5. ASSUME NEW p \in lotes[fk.parent], fk \in Remaps(product, t), Refers(r, fk, p)
        PROVE  \E d \in made.clones[fk.parent] : /\ d.src = RowKey(fk.parent, p)
                                                 /\ d.k = c.k
                                                 /\ Refers(c.row, fk, d.row)
    <2>1. Key(r, fk.cols) = RowKey(fk.parent, p) /\ DOMAIN fk.cols = DOMAIN Schema[fk.parent].pk
      BY <1>4, <1>5, ReferringIsHoldingTheKey
    <2>2. <<RowKey(fk.parent, p), c.k>> \in Copies(lotes[fk.parent], fk.parent, k)
      BY <1>2 DEF Copies
    <2>3. leads
      BY <1>4, <1>5, <2>1, <2>2 DEF Leads
    <2>4. PICK d \in made.clones[fk.parent] : <<d.src, d.k>> = <<RowKey(fk.parent, p), c.k>>
      BY <1>4, <1>5, <2>2 DEF ClonedFrom
    <2>5. \A n \in DOMAIN fk.cols :
             d.row[Schema[fk.parent].pk[n]] = made.maps[fk.parent][<<Key(r, fk.cols), c.k>>][n]
      BY <1>4, <1>5, <2>1, <2>4 DEF ClonedFrom
    <2>6. \A n \in DOMAIN fk.cols : c.row[fk.cols[n]] = d.row[fk.pcols[n]]
      BY <1>3, <1>4, <1>5, <2>3, <2>5
    <2>7. Refers(c.row, fk, d.row)
      BY <2>6 DEF Refers, NoNullIn
    <2>8. QED
      BY <2>4, <2>7
  <1>6. ASSUME ~ (fk \in Remaps(product, t) /\ \E p \in lotes[fk.parent] : Refers(r, fk, p))
        PROVE  ~leads
    <2>1. SUFFICES ASSUME leads
                   PROVE  FALSE
      OBVIOUS
    <2>2. fk \in Remaps(product, t)
      BY <2>1 DEF Leads
    <2>3. <<Key(r, fk.cols), c.k>> \in Copies(lotes[fk.parent], fk.parent, k)
      BY <1>4, <2>1, <2>2 DEF Leads
    <2>4. PICK p \in lotes[fk.parent] : Key(r, fk.cols) = RowKey(fk.parent, p)
      BY <2>3 DEF Copies
    <2>5. Refers(r, fk, p)
      BY <1>4, <2>2, <2>4, ReferringIsHoldingTheKey
    <2>6. QED
      BY <1>6, <2>2, <2>5
  <1>7. ASSUME ~ (fk \in Remaps(product, t) /\ \E p \in lotes[fk.parent] : Refers(r, fk, p)),
               NEW n \in DOMAIN fk.cols
        PROVE  /\ c.row[fk.cols[n]] = r[fk.cols[n]]
               /\ <<t, fk.cols[n]>> \in Products[product].selective
                     => <<t, fk.cols[n], r[fk.cols[n]]>> \notin missing
    <2>1. ~leads
      BY <1>6, <1>7
    <2>2. QED
      BY <1>3, <2>1
  <1>8. QED
    BY <1>5, <1>7 DEF FollowsSource

-----------------------------------------------------------------------------
(* Generated columns.                                                       *)

(* Rows that differ in generated columns only: what the recoding of credits *)
(* and the publication leave of a row.                                      *)
Twin(s, r) == DOMAIN r = DOMAIN s /\ \A col \in DOMAIN s \ Generated : r[col] = s[col]

Twins(old, new) ==
    /\ \A r \in new : \E s \in old : Twin(s, r)
    /\ \A s \in old : \E r \in new : Twin(s, r)

(* They have the same keys and refer to the same rows.                      *)
LEMMA TwinsAgree ==
    ASSUME NEW product \in DOMAIN Products, NEW t \in Cloned(product),
           NEW s, Columns(t) \subseteq DOMAIN s, NEW r, Twin(s, r)
    PROVE  /\ Columns(t) \subseteq DOMAIN r
           /\ \A c \in PkColumns(t) : r[c] = s[c]
           /\ RowKey(t, r) = RowKey(t, s)
           /\ \A fk \in Schema[t].fks : \A n \in DOMAIN fk.cols : r[fk.cols[n]] = s[fk.cols[n]]
  <1>1. /\ (PkColumns(t) \cup ColumnsOf(Schema[t].fks)) \cap Generated = {}
        /\ PkColumns(t) \cup ColumnsOf(Schema[t].fks) \subseteq DOMAIN s
    BY PlannableTable DEF TableIsPlannable, Columns
  <1>2. \A c \in PkColumns(t) \cup ColumnsOf(Schema[t].fks) : r[c] = s[c]
    BY <1>1 DEF Twin
  <1>3. \A fk \in Schema[t].fks : \A n \in DOMAIN fk.cols : fk.cols[n] \in ColumnsOf(Schema[t].fks)
    BY DEF ColumnsOf, Range
  <1>4. Columns(t) \subseteq DOMAIN r
    BY DEF Twin
  <1>5. \A c \in PkColumns(t) : r[c] = s[c]
    BY <1>2
  <1>6. RowKey(t, r) = RowKey(t, s)
    BY <1>5, SameKeyColumns
  <1>7. QED
    BY <1>2, <1>3, <1>4, <1>5, <1>6

(* What is generated in the rows of a table, row by row, leaves their       *)
(* number and their keys.                                                   *)
LEMMA RegeneratedTable ==
    ASSUME NEW product \in DOMAIN Products, NEW t \in Cloned(product),
           NEW rows, TableIsKeyed(product, t, rows),
           NEW f, DOMAIN f = rows, \A r \in rows : Twin(r, f[r])
    PROVE  /\ TableIsKeyed(product, t, {f[r] : r \in rows})
           /\ Cardinality({f[r] : r \in rows}) = Cardinality(rows)
           /\ Twins(rows, {f[r] : r \in rows})
  <1> DEFINE new == {f[r] : r \in rows}
  <1>1. /\ IsFiniteSet(rows)
        /\ \A r \in rows : Columns(t) \subseteq DOMAIN r
        /\ \A r \in rows : \A c \in PkColumns(t) : r[c] # Null
        /\ \A r, s \in rows : RowKey(t, r) = RowKey(t, s) => r = s
        /\ t \in OwnKeyed(product) => \A r \in rows : r[Schema[t].pk[1]] \in Int
    BY DEF TableIsKeyed
  <1>2. ASSUME NEW r \in rows
        PROVE  /\ Columns(t) \subseteq DOMAIN f[r]
               /\ \A c \in PkColumns(t) : f[r][c] = r[c]
               /\ RowKey(t, f[r]) = RowKey(t, r)
    BY <1>1, TwinsAgree
  <1>3. \A r, s \in rows : f[r] = f[s] => r = s
    BY <1>1, <1>2
  <1>4. IsFiniteSet(new) /\ Cardinality(new) = Cardinality(rows)
    BY <1>1, <1>3, FiniteImage
  <1>5. Twins(rows, new)
    BY DEF Twins
  <1>6. t \in OwnKeyed(product) => Schema[t].pk[1] \in PkColumns(t)
    BY OwnKeyColumn
  <1>7. \A x \in new : \E r \in rows : x = f[r]
    OBVIOUS
  <1> HIDE DEF new
  <1>8. /\ \A x \in new : Columns(t) \subseteq DOMAIN x
        /\ \A x \in new : \A c \in PkColumns(t) : x[c] # Null
        /\ \A x, y \in new : RowKey(t, x) = RowKey(t, y) => x = y
        /\ t \in OwnKeyed(product) => \A x \in new : x[Schema[t].pk[1]] \in Int
    BY <1>1, <1>2, <1>6, <1>7
  <1>9. TableIsKeyed(product, t, new)
    BY <1>4, <1>8 DEF TableIsKeyed
  <1>10. QED
    BY <1>4, <1>5, <1>9 DEF new

(* _aplica_cod_credito_sintetico changes nothing but codes.                 *)
LEMMA RecodedTables ==
    ASSUME NEW product \in DOMAIN Products, NEW lotes, DOMAIN lotes = Cloned(product),
           \A t \in Cloned(product) : TableIsKeyed(product, t, lotes[t]), NEW starts
    PROVE  LET new == WithCreditCodes(product, lotes, starts)
           IN  /\ DOMAIN new = Cloned(product)
               /\ \A t \in Cloned(product) :
                     /\ TableIsKeyed(product, t, new[t])
                     /\ Cardinality(new[t]) = Cardinality(lotes[t])
                     /\ Twins(lotes[t], new[t])
  <1> DEFINE new == WithCreditCodes(product, lotes, starts)
  <1>1. DOMAIN new = Cloned(product)
    BY DEF WithCreditCodes
  <1>2. ASSUME NEW t \in Cloned(product)
        PROVE  /\ TableIsKeyed(product, t, new[t])
               /\ Cardinality(new[t]) = Cardinality(lotes[t])
               /\ Twins(lotes[t], new[t])
    <2>1. CASE \E credit \in Products[product].seeds : t \in CarriersOf(product, credit)
      <3> DEFINE credit == CHOOSE c \in Products[product].seeds : t \in CarriersOf(product, c)
                 column == CodeColumn(credit)
                 codes == CreditCodes(lotes[credit], CodeColumn(credit))
                 f == [r \in lotes[t] |->
                         [r EXCEPT ![column] = NewCreditCode(codes, starts[credit], r[column])]]
      <3>1. new[t] = Recoded(lotes[t], column, codes, starts[credit])
        BY <1>1, <2>1 DEF WithCreditCodes
      <3>2. column \in Generated
        BY DEF CodeColumn, Generated
      <3> HIDE DEF credit, codes, column
      <3>3. new[t] = {f[r] : r \in lotes[t]}
        BY <3>1 DEF Recoded
      <3>4. \A r \in lotes[t] : Twin(r, f[r])
        BY <3>2 DEF Twin
      <3>5. DOMAIN f = lotes[t] /\ TableIsKeyed(product, t, lotes[t])
        OBVIOUS
      <3> HIDE DEF f, new
      <3>6. QED
        BY <3>3, <3>4, <3>5, RegeneratedTable
    <2>2. CASE ~ \E credit \in Products[product].seeds : t \in CarriersOf(product, credit)
      <3>1. new[t] = lotes[t]
        BY <1>1, <2>2 DEF WithCreditCodes
      <3>2. QED
        BY <3>1 DEF Twins, Twin
    <2>3. QED
      BY <2>1, <2>2
  <1>3. QED
    BY <1>1, <1>2

-----------------------------------------------------------------------------
(* What a job holds once it has planned, reserved and cloned.               *)

(* A plan p of a product: a snapshot of keyed rows, and a request for as    *)
(* many keys as its clones need.                                            *)
SnapshotOK(product, p) ==
    /\ p.k \in Nat \ {0}
    /\ DOMAIN p.lotes = Cloned(product)
    /\ \A t \in Cloned(product) : TableIsKeyed(product, t, p.lotes[t])
    /\ ValidPlan(p.request)
    /\ \A t \in OwnKeyed(product) :
          /\ p.request.pk[t].count = Cardinality(p.lotes[t]) * p.k
          /\ p.request.pk[t].step = Step
    /\ p.request.cdb # Absent <=> Products[product].cdb
    /\ p.request.cdb # Absent => p.request.cdb.prefix = CodePrefix
    /\ p.request.ordinals = 0 <=> ~ (Products[product].operations /\ Operations(p.lotes) # {})

(* Every reference of the snapshot leads to the snapshot, to Oracle, or to  *)
(* nothing, in a column that will be nulled.                                *)
RowResolves(product, p, database, t, r, fk) ==
    \/ fk \in Remaps(product, t) /\ \E q \in p.lotes[fk.parent] : Refers(r, fk, q)
    \/ \E q \in database[fk.parent] : Refers(r, fk, q)
    \/ \E n \in DOMAIN fk.cols : /\ <<t, fk.cols[n]>> \in Products[product].selective
                                 /\ <<t, fk.cols[n], r[fk.cols[n]]>> \in p.missing

SnapshotResolves(product, p, database) ==
    \A t \in Cloned(product) : \A r \in p.lotes[t] : \A fk \in Emitted(product, t, r) :
        RowResolves(product, p, database, t, r, fk)

(* A reservation a of the plan p: of its size, for its groups and its month.*)
ReservationOK(product, p, a) ==
    /\ a \in ArtifactShape
    /\ \A t \in OwnKeyed(product) :
          IF p.request.pk[t].count = 0
          THEN a.pk[t] = Absent
          ELSE /\ a.pk[t] # Absent
               /\ a.pk[t].end = a.pk[t].start + (p.request.pk[t].count - 1) * Step
               /\ a.pk[t].step = Step
    /\ a.meu # Absent <=> p.request.ordinals # 0
    /\ a.meu # Absent => /\ a.meu.date = p.request.date
                         /\ a.meu.groups = p.request.groups
                         /\ a.meu.schema = p.request.schema
    /\ a.cdb # Absent <=> p.request.cdb # Absent
    /\ a.cdb # Absent => a.cdb.prefix = p.request.cdb.prefix

(* The clones of a table: the copies of its snapshot, keyed apart.          *)
TableHeld(product, p, made, t) ==
    /\ \A c \in made[t] : IsClone(c)
    /\ {<<c.src, c.k>> : c \in made[t]} = Copies(p.lotes[t], t, p.k)
    /\ \A a, b \in made[t] : a.src = b.src /\ a.k = b.k => a = b
    /\ IsFiniteSet(made[t])
    /\ Cardinality(made[t]) = Cardinality(p.lotes[t]) * p.k
    /\ \A a, b \in made[t] : RowKey(t, a.row) = RowKey(t, b.row) => a = b
    /\ \A c \in made[t] : \E r \in p.lotes[t] :
          /\ RowKey(t, r) = c.src
          /\ DOMAIN c.row = DOMAIN r
          /\ \A col \in Content(product, t, r) : c.row[col] = r[col]

(* Their references follow those of the snapshot.                           *)
FamilyHeld(product, p, made, t) ==
    \A c \in made[t] : \A r \in p.lotes[t] : \A fk \in Schema[t].fks :
        RowKey(t, r) = c.src /\ NoNullIn(c.row, fk)
            => FollowsSource(product, t, p.lotes, p.missing, made, c, r, fk)

(* Their keys, where the table has its own, are the reserved ones, and none *)
(* was in Oracle when the job read it.                                      *)
KeysHeld(a, made, database, t) ==
    /\ {c.row[Schema[t].pk[1]] : c \in made[t]} = IF a.pk[t] = Absent THEN {} ELSE PkSlots(a.pk[t])
    /\ \A c \in made[t] : \A r \in database[t] : RowKey(t, c.row) # RowKey(t, r)

ClonesOK(product, p, a, made, database) ==
    /\ DOMAIN made = Cloned(product)
    /\ \A t \in Cloned(product) : TableHeld(product, p, made, t) /\ FamilyHeld(product, p, made, t)
    /\ \A t \in OwnKeyed(product) : KeysHeld(a, made, database, t)
    /\ Products[product].operations \/ Operations(p.lotes) = {}

-----------------------------------------------------------------------------
(* Cloning.                                                                 *)

(* The clones of recoded rows are clones of the rows.                       *)
LEMMA ClonedFromTwins ==
    ASSUME NEW product \in DOMAIN Products, NEW t \in Cloned(product),
           NEW old, TableIsKeyed(product, t, old), NEW new, Twins(old, new),
           Cardinality(new) = Cardinality(old), NEW k \in Nat, NEW own, NEW made,
           ClonedFrom(product, t, new, k, own, made)
    PROVE  /\ \A c \in made : IsClone(c)
           /\ {<<c.src, c.k>> : c \in made} = Copies(old, t, k)
           /\ \A a, b \in made : a.src = b.src /\ a.k = b.k => a = b
           /\ IsFiniteSet(made)
           /\ Cardinality(made) = Cardinality(old) * k
           /\ \A c \in made : \E r \in old :
                 /\ RowKey(t, r) = c.src
                 /\ DOMAIN c.row = DOMAIN r
                 /\ \A col \in Content(product, t, r) : c.row[col] = r[col]
  <1>1. \A s \in old : \A r : Twin(s, r) => RowKey(t, r) = RowKey(t, s)
    BY TwinsAgree DEF TableIsKeyed
  <1>2. {RowKey(t, r) : r \in new} = {RowKey(t, r) : r \in old}
    BY <1>1 DEF Twins
  <1>3. Copies(new, t, k) = Copies(old, t, k)
    BY <1>2 DEF Copies
  <1>4. ASSUME NEW c \in made
        PROVE  \E r \in old : /\ RowKey(t, r) = c.src
                              /\ DOMAIN c.row = DOMAIN r
                              /\ \A col \in Content(product, t, r) : c.row[col] = r[col]
    <2>1. PICK x \in new : /\ RowKey(t, x) = c.src
                           /\ DOMAIN c.row = DOMAIN x
                           /\ \A col \in Content(product, t, x) : c.row[col] = x[col]
      BY DEF ClonedFrom
    <2>2. PICK r \in old : Twin(r, x)
      BY DEF Twins
    <2>3. RowKey(t, r) = c.src /\ DOMAIN c.row = DOMAIN r
      BY <1>1, <2>1, <2>2 DEF Twin
    <2>4. ASSUME NEW col \in Content(product, t, r)
          PROVE  c.row[col] = r[col]
      <3>1. col \in Content(product, t, x) /\ col \in DOMAIN r \ Generated
        BY <2>2 DEF Content, Twin
      <3>2. QED
        BY <2>1, <2>2, <3>1 DEF Twin
    <2>5. QED
      BY <2>3, <2>4
  <1>5. QED
    BY <1>3, <1>4 DEF ClonedFrom

(* And what their references follow is the same.                            *)
LEMMA FollowsTwins ==
    ASSUME NEW product \in DOMAIN Products, NEW t \in Cloned(product),
           NEW old, NEW new,
           \A u \in Cloned(product) : TableIsKeyed(product, u, old[u]) /\ Twins(old[u], new[u]),
           NEW missing, NEW made, NEW c, NEW r \in old[t], NEW x, Twin(r, x),
           NEW fk \in Schema[t].fks,
           FollowsSource(product, t, new, missing, made, c, x, fk)
    PROVE  FollowsSource(product, t, old, missing, made, c, r, fk)
  <1>1. Columns(t) \subseteq DOMAIN r
    BY DEF TableIsKeyed
  <1>2. \A n \in DOMAIN fk.cols : x[fk.cols[n]] = r[fk.cols[n]]
    BY <1>1, TwinsAgree
  <1>3. ASSUME fk \in Remaps(product, t)
        PROVE  /\ fk.parent \in Cloned(product)
               /\ \A i \in DOMAIN fk.cols : fk.pcols[i] \in PkColumns(fk.parent)
    <2>1. fk \in FksToCloned(product, t)
      BY <1>3, PlannableTable
    <2>2. fk.parent \in Cloned(product) /\ fk.pcols = Schema[fk.parent].pk
      BY <2>1 DEF FksToCloned
    <2>3. DOMAIN fk.cols = DOMAIN fk.pcols
      BY PlannableTable DEF TableIsPlannable
    <2>4. QED
      BY <2>2, <2>3 DEF PkColumns, Range
  <1>4. ASSUME fk \in Remaps(product, t), NEW p \in old[fk.parent], NEW q, Twin(p, q)
        PROVE  /\ RowKey(fk.parent, q) = RowKey(fk.parent, p)
               /\ Refers(x, fk, q) <=> Refers(r, fk, p)
    <2>1. Columns(fk.parent) \subseteq DOMAIN p
      BY <1>3, <1>4 DEF TableIsKeyed
    <2>2. /\ RowKey(fk.parent, q) = RowKey(fk.parent, p)
          /\ \A col \in PkColumns(fk.parent) : q[col] = p[col]
      BY <1>3, <1>4, <2>1, TwinsAgree
    <2>3. \A i \in DOMAIN fk.cols : q[fk.pcols[i]] = p[fk.pcols[i]]
      BY <1>3, <1>4, <2>2
    <2>4. QED
      BY <1>2, <2>2, <2>3 DEF Refers
  <1>5. ASSUME fk \in Remaps(product, t), NEW p \in old[fk.parent], Refers(r, fk, p)
        PROVE  \E d \in made[fk.parent] : /\ d.src = RowKey(fk.parent, p)
                                          /\ d.k = c.k
                                          /\ Refers(c.row, fk, d.row)
    <2>1. PICK q \in new[fk.parent] : Twin(p, q)
      BY <1>3, <1>5 DEF Twins
    <2>2. RowKey(fk.parent, q) = RowKey(fk.parent, p) /\ Refers(x, fk, q)
      BY <1>4, <1>5, <2>1
    <2>3. \E d \in made[fk.parent] : /\ d.src = RowKey(fk.parent, q)
                                     /\ d.k = c.k
                                     /\ Refers(c.row, fk, d.row)
      BY <1>5, <2>2 DEF FollowsSource
    <2>4. QED
      BY <2>2, <2>3
  <1>6. ASSUME ~ (fk \in Remaps(product, t) /\ \E p \in old[fk.parent] : Refers(r, fk, p))
        PROVE  ~ (fk \in Remaps(product, t) /\ \E q \in new[fk.parent] : Refers(x, fk, q))
    <2>1. SUFFICES ASSUME fk \in Remaps(product, t), NEW q \in new[fk.parent], Refers(x, fk, q)
                   PROVE  FALSE
      OBVIOUS
    <2>2. PICK p \in old[fk.parent] : Twin(p, q)
      BY <1>3, <2>1 DEF Twins
    <2>3. Refers(r, fk, p)
      BY <1>4, <2>1, <2>2
    <2>4. QED
      BY <1>6, <2>1, <2>3
  <1>7. QED
    BY <1>2, <1>5, <1>6 DEF FollowsSource

(* Oracle as a product meets it: numbered keys in finite tables, and no     *)
(* package code above those handed out.                                     *)
OracleOK(product, database, codes) ==
    /\ \A t \in Cloned(product) :
          /\ t \in DOMAIN database
          /\ IsFiniteSet(database[t])
          /\ \A fk \in Schema[t].fks : fk.parent \in DOMAIN database
    /\ \A t \in OwnKeyed(product) : \A r \in database[t] : r[Schema[t].pk[1]] \in Int
    /\ \A r \in database[TABELA_RAIZ] :
          /\ r["COD_IF"][1] = PackagePrefix => r["COD_IF"][2] \in Int /\ r["COD_IF"][2] <= codes
          /\ r["COD_IF"][1] = CodePrefix => r["COD_IF"][2] \in Int

(* _read_pk_max: no key is above the greatest one.                          *)
LEMMA MaxKeyIsGreatest ==
    ASSUME NEW rows, IsFiniteSet(rows), NEW column, \A r \in rows : r[column] \in Int
    PROVE  MaxKey(rows, column) \in Int /\ \A r \in rows : r[column] <= MaxKey(rows, column)
  <1> DEFINE f == [r \in rows |-> r[column]]
             keys == {r[column] : r \in rows} \cup {0}
  <1>1. {f[r] : r \in rows} = {r[column] : r \in rows} /\ DOMAIN f = rows
    OBVIOUS
  <1> HIDE DEF f
  <1>2. IsFiniteSet({f[r] : r \in rows})
    BY <1>1, FiniteImage
  <1>3. IsFiniteSet(keys)
    BY <1>1, <1>2, FS_AddElement
  <1>4. keys \in SUBSET Int /\ keys # {}
    OBVIOUS
  <1>5. MaxKey(rows, column) = CHOOSE k \in keys : \A other \in keys : other <= k
    BY DEF MaxKey
  <1>6. \A r \in rows : r[column] \in keys
    OBVIOUS
  <1> HIDE DEF keys
  <1>7. \E k \in keys : \A other \in keys : other <= k
    BY <1>3, <1>4, GreatestNumber
  <1>8. QED
    BY <1>4, <1>5, <1>6, <1>7

(* _apply_oracle_pk_floors: a start above the floor and above what is live. *)
LEMMA LiveStartIsAbove ==
    ASSUME NEW product \in DOMAIN Products, NEW t \in OwnKeyed(product), NEW database, NEW codes,
           OracleOK(product, database, codes), NEW start \in Int
    PROVE  /\ LiveStart(database, t, start) \in Int
           /\ \A r \in database[t] : r[Schema[t].pk[1]] \in Int
                                     /\ r[Schema[t].pk[1]] < LiveStart(database, t, start)
  <1> DEFINE pk == Schema[t].pk[1]
             top == MaxKey(database[t], pk)
  <1>1. t \in Cloned(product)
    BY OwnKeyColumn
  <1>2. IsFiniteSet(database[t]) /\ \A r \in database[t] : r[pk] \in Int
    BY <1>1 DEF OracleOK
  <1>3. LiveStart(database, t, start) = IF database[t] # {} /\ top + 1 > start THEN top + 1 ELSE start
    BY DEF LiveStart
  <1> HIDE DEF pk, top
  <1>4. top \in Int /\ \A r \in database[t] : r[pk] <= top
    BY <1>2, MaxKeyIsGreatest DEF top
  <1>5. ASSUME NEW r \in database[t]
        PROVE  r[pk] < LiveStart(database, t, start)
    BY <1>2, <1>3, <1>4
  <1>6. QED
    BY <1>2, <1>3, <1>4, <1>5 DEF pk

(* What a request and a reservation say of a table with keys of its own.    *)
LEMMA OwnRange ==
    ASSUME NEW product \in DOMAIN Products, NEW t \in OwnKeyed(product),
           NEW p, SnapshotOK(product, p), NEW a, ReservationOK(product, p, a)
    PROVE  /\ p.k \in Nat \ {0} /\ Step \in Nat \ {0}
           /\ p.request.pk[t].count = Cardinality(p.lotes[t]) * p.k
           /\ p.request.pk[t].count \in Nat /\ p.request.pk[t].minimum \in Int
           /\ p.request.pk[t].count = 0 => a.pk[t] = Absent
           /\ p.request.pk[t].count # 0 =>
                 /\ a.pk[t] # Absent
                 /\ a.pk[t].start \in Int
                 /\ a.pk[t].end = a.pk[t].start + (p.request.pk[t].count - 1) * Step
                 /\ a.pk[t].step = Step
  <1>1. t \in Tables
    BY OwnKeyColumn
  <1>2. p.request \in PlanShape /\ p.request.pk[t].step = Step /\ p.k \in Nat \ {0}
        /\ p.request.pk[t].count = Cardinality(p.lotes[t]) * p.k
    BY DEF SnapshotOK, ValidPlan
  <1>3. p.request.pk[t] \in PkRequest
    BY <1>1, <1>2 DEF PlanShape
  <1>4. /\ p.request.pk[t].count \in Nat /\ p.request.pk[t].minimum \in Int
        /\ p.request.pk[t].step \in Nat \ {0}
    BY <1>3 DEF PkRequest
  <1>5. a.pk[t] \in [start : Int, end : Int, step : Nat \ {0}] \cup {Absent}
    BY <1>1 DEF ReservationOK, ArtifactShape
  <1>6. a.pk[t] # Absent => a.pk[t].start \in Int
    BY <1>5
  <1>7. QED
    BY <1>2, <1>4, <1>6 DEF ReservationOK

(* What clona_tabela makes of a frozen plan within its reservation, when    *)
(* _validate_reservation_live_pk_floors and valida_tabela pass.             *)
LEMMA CloneHolds ==
    ASSUME NEW j \in Jobs, Product(j) \in DOMAIN Products,
           SnapshotOK(Product(j), plan[j]),
           ReservationOK(Product(j), plan[j], reservation[j]),
           OracleOK(Product(j), oracle, allocated),
           AboveLiveFloors(j), Writable(j, Made(j), ReservedStarts(j))
    PROVE  ClonesOK(Product(j), plan[j], reservation[j], Made(j), oracle)
  <1> DEFINE product == Product(j)
             p == plan[j]
             a == reservation[j]
             lotes == FrozenLotes(j)
             starts == ReservedStarts(j)
             steps == [t \in Cloned(product) |-> Step]
             made == CloneAll(product, lotes, p.k, starts, steps, p.missing)
             clone == made.clones
  <1>1. /\ p.k \in Nat \ {0}
        /\ DOMAIN p.lotes = Cloned(product)
        /\ \A t \in Cloned(product) : TableIsKeyed(product, t, p.lotes[t])
    BY DEF SnapshotOK
  <1>2. lotes = WithCreditCodes(product, p.lotes, LiveStarts(j))
    BY DEF FrozenLotes
  <1>3. Made(j) = clone
    BY DEF Made
  <1> HIDE DEF lotes, starts, steps, made
  <1>4. \A t \in Cloned(product) : /\ TableIsKeyed(product, t, lotes[t])
                                   /\ Cardinality(lotes[t]) = Cardinality(p.lotes[t])
                                   /\ Twins(p.lotes[t], lotes[t])
    BY <1>1, <1>2, RecodedTables
  <1>5. /\ DOMAIN clone = Cloned(product)
        /\ \A t \in Cloned(product) :
              TableMade(product, lotes, p.k, starts, steps, p.missing, made, t)
    BY AllAreMade DEF made
  <1>6. ASSUME NEW t \in Cloned(product)
        PROVE  /\ \A x, y \in clone[t] : RowKey(t, x.row) = RowKey(t, y.row) => x = y
               /\ Products[product].operations \/ Operations(p.lotes) = {}
    BY <1>3, <1>5 DEF Writable, TableErrors
  <1>7. ASSUME NEW t \in Cloned(product)
        PROVE  \E maps :
                  /\ made.maps[t] = KeyMap(product, t, lotes[t], p.k, starts[t], steps[t], maps)
                  /\ ClonedFrom(product, t, lotes[t], p.k, made.maps[t], clone[t])
    <2>1. PICK maps : MadeWith(product, lotes, p.k, starts, steps, p.missing, made, t, maps)
      BY <1>5 DEF TableMade
    <2>2. /\ made.maps[t] = KeyMap(product, t, lotes[t], p.k, starts[t], steps[t], maps)
          /\ clone[t] = CloneTable(product, t, lotes[t], p.k, made.maps[t], maps, p.missing)
      BY <2>1 DEF MadeWith
    <2>3. p.k \in Nat /\ TableIsKeyed(product, t, lotes[t])
      BY <1>1, <1>4
    <2>4. ClonedFrom(product, t, lotes[t], p.k, made.maps[t], clone[t])
      BY <2>2, <2>3, TableIsCloned
    <2>5. QED
      BY <2>2, <2>4
  <1>8. ASSUME NEW t \in Cloned(product)
        PROVE  TableHeld(product, p, clone, t)
    <2>1. PICK maps : ClonedFrom(product, t, lotes[t], p.k, made.maps[t], clone[t])
      BY <1>7
    <2>2. /\ TableIsKeyed(product, t, p.lotes[t]) /\ Twins(p.lotes[t], lotes[t])
          /\ Cardinality(lotes[t]) = Cardinality(p.lotes[t]) /\ p.k \in Nat
      BY <1>1, <1>4
    <2>3. /\ \A c \in clone[t] : IsClone(c)
          /\ {<<c.src, c.k>> : c \in clone[t]} = Copies(p.lotes[t], t, p.k)
          /\ \A x, y \in clone[t] : x.src = y.src /\ x.k = y.k => x = y
          /\ IsFiniteSet(clone[t])
          /\ Cardinality(clone[t]) = Cardinality(p.lotes[t]) * p.k
          /\ \A c \in clone[t] : \E r \in p.lotes[t] :
                /\ RowKey(t, r) = c.src
                /\ DOMAIN c.row = DOMAIN r
                /\ \A col \in Content(product, t, r) : c.row[col] = r[col]
      BY <2>1, <2>2, ClonedFromTwins
    <2>4. QED
      BY <1>6, <2>3 DEF TableHeld
  <1>9. ASSUME NEW t \in Cloned(product)
        PROVE  FamilyHeld(product, p, clone, t)
    <2>1. SUFFICES ASSUME NEW c \in clone[t], NEW r \in p.lotes[t], NEW fk \in Schema[t].fks,
                          RowKey(t, r) = c.src, NoNullIn(c.row, fk)
                   PROVE  FollowsSource(product, t, p.lotes, p.missing, clone, c, r, fk)
      BY DEF FamilyHeld
    <2>2. PICK x \in lotes[t] : Twin(r, x)
      BY <1>4 DEF Twins
    <2>3. Columns(t) \subseteq DOMAIN r
      BY <1>1 DEF TableIsKeyed
    <2>4. RowKey(t, x) = c.src
      BY <2>1, <2>2, <2>3, TwinsAgree
    <2>5. p.k \in Nat
      BY <1>1
    <2>6. FollowsSource(product, t, lotes, p.missing, clone, c, x, fk)
      BY <1>4, <1>5, <2>1, <2>4, <2>5, FamiliesAreCloned
    <2>7. QED
      BY <1>1, <1>4, <2>2, <2>6, FollowsTwins
  <1>10. ASSUME NEW t \in OwnKeyed(product)
         PROVE  KeysHeld(a, clone, oracle, t)
    <2> DEFINE n == Cardinality(p.lotes[t]) * p.k
               pk == Schema[t].pk[1]
               keys == {c.row[pk] : c \in clone[t]}
    <2>1. /\ p.k \in Nat /\ Step \in Nat \ {0}
          /\ p.request.pk[t].count = n /\ n \in Nat /\ p.request.pk[t].minimum \in Int
          /\ n = 0 => a.pk[t] = Absent
          /\ n # 0 => /\ a.pk[t] # Absent
                      /\ a.pk[t].start \in Int
                      /\ a.pk[t].end = a.pk[t].start + (n - 1) * Step
                      /\ a.pk[t].step = Step
      BY OwnRange
    <2>2. t \in Cloned(product)
      BY OwnKeyColumn
    <2>3. /\ LiveStarts(j)[t] \in Int
          /\ \A r \in oracle[t] : r[pk] \in Int /\ r[pk] < LiveStarts(j)[t]
      BY <2>1, LiveStartIsAbove DEF LiveStarts
    <2>4. starts[t] = IF n = 0 THEN LiveStarts(j)[t] ELSE a.pk[t].start
      BY <2>1, <2>2 DEF starts, ReservedStarts, Reserved
    <2>5. starts[t] \in Int /\ steps[t] = Step
      BY <2>1, <2>2, <2>3, <2>4 DEF steps
    <2> HIDE DEF n, pk, keys
    <2>6. keys = {starts[t] + i * Step : i \in 0 .. n - 1}
      <3>1. PICK maps : /\ made.maps[t] = KeyMap(product, t, lotes[t], p.k, starts[t], steps[t], maps)
                        /\ ClonedFrom(product, t, lotes[t], p.k, made.maps[t], clone[t])
        BY <1>7, <2>2
      <3>2. TableIsKeyed(product, t, lotes[t]) /\ Cardinality(lotes[t]) = Cardinality(p.lotes[t])
        BY <1>4, <2>2
      <3>3. NumberedFrom(product, t, lotes[t], p.k, starts[t], Step, clone[t])
        BY <2>1, <2>5, <3>1 DEF NumberedFrom
      <3>4. OwnKeys(t, clone[t]) = Counted(starts[t], Step, Cardinality(lotes[t]) * p.k)
        BY <3>2, <3>3, OwnKeysFillTheRange
      <3>5. QED
        BY <3>2, <3>4 DEF OwnKeys, Counted, keys, n, pk
    <2>7. keys = IF a.pk[t] = Absent THEN {} ELSE PkSlots(a.pk[t])
      <3>1. CASE n = 0
        BY <3>1, <2>1, <2>6
      <3>2. CASE n # 0
        <4>1. PkSlots(a.pk[t]) = {a.pk[t].start + i * Step : i \in 0 .. n - 1}
          BY <3>2, <2>1, SlotsAreCounted
        <4>2. QED
          BY <3>2, <4>1, <2>1, <2>4, <2>6
      <3>3. QED
        BY <3>1, <3>2
    <2>8. ASSUME NEW c \in clone[t], NEW r \in oracle[t]
          PROVE  RowKey(t, c.row) # RowKey(t, r)
      <3>1. c.row[pk] \in keys /\ n # 0
        <4>1. c.row[pk] \in keys
          BY DEF keys
        <4>2. PICK i \in 0 .. n - 1 : c.row[pk] = starts[t] + i * Step
          BY <4>1, <2>6
        <4>3. QED
          BY <4>1, <4>2
      <3>2. PICK i \in 0 .. n - 1 : c.row[pk] = a.pk[t].start + i * Step
        BY <2>4, <2>6, <3>1
      <3>3. i * Step \in Nat
        BY <2>1, <3>2
      <3>4. a.pk[t].start >= LiveStarts(j)[t]
        BY <2>1, <3>1 DEF AboveLiveFloors, Reserved
      <3>5. r[pk] < c.row[pk] /\ r[pk] \in Int
        BY <2>1, <2>3, <3>1, <3>2, <3>3, <3>4
      <3>6. r[pk] # c.row[pk]
        BY <2>1, <3>2, <3>3, <3>5, <3>1
      <3>7. QED
        BY <3>6, OwnKeyColumn DEF pk
    <2>9. QED
      BY <2>7, <2>8 DEF KeysHeld, keys, pk
  <1>11. Products[product].operations \/ Operations(p.lotes) = {}
    BY DEF Writable
  <1>12. QED
    BY <1>3, <1>5, <1>8, <1>9, <1>10, <1>11 DEF ClonesOK

-----------------------------------------------------------------------------
(* The closure leads to rows of the extract.                                *)

(* Every member of a share is a row of the extract.                         *)
FromExtract(extract, shares) ==
    \A t \in DOMAIN shares : \A m \in shares[t] : m.row \in extract[t]

(* A visit adds rows of the extract.                                        *)
LEMMA VisitStaysInExtract ==
    ASSUME NEW product, NEW extract, NEW t, NEW shares, FromExtract(extract, shares)
    PROVE  FromExtract(extract, Visit(product, extract, t, shares))
  <1>1. ActiveRows(extract, t) \subseteq extract[t]
    BY DEF ActiveRows
  <1>2. \A m \in Reached(product, extract, t, shares) : m.row \in extract[t]
    BY <1>1 DEF Reached
  <1>3. QED
    BY <1>2 DEF Visit, FromExtract

(* f[m] is what the first m visits of a pass make of some shares.           *)
VisitRun(product, extract, shares, n, f) ==
    f = [ m \in 0 .. n |->
            IF m = 0 THEN shares ELSE Visit(product, extract, Order(product)[m], f[m - 1]) ]

(* f[m] is what m passes make of some shares.                               *)
PassRun(product, extract, shares, n, f) ==
    f = [ m \in 0 .. n |->
            IF m = 0 THEN shares ELSE Pass(product, extract, f[m - 1]) ]

(* A pass runs to its end.                                                  *)
LEMMA TablesCanBeVisited ==
    ASSUME NEW product, NEW extract, NEW shares, NEW n \in Nat
    PROVE  \E f : VisitRun(product, extract, shares, n, f)
  <1> DEFINE After(before, m) ==
               Visit(product, extract, Order(product)[m], before)
             Repeats(f, k) ==
               f = [m \in 0 .. k |-> IF m = 0 THEN shares ELSE After(f[m - 1], m)]
             bad == {k \in Nat : ~ \E f : Repeats(f, k)}
  <1> HIDE DEF After
  <1>0. (\E f : Repeats(f, n)) => \E f : VisitRun(product, extract, shares, n, f)
    BY DEF VisitRun, After
  <1>1. SUFFICES ASSUME bad # {}
                 PROVE  FALSE
    BY <1>0
  <1>2. PICK k \in bad : \A m \in bad : k <= m
    BY <1>1, LeastNumber
  <1>3. CASE k = 0
    <2> DEFINE f == [m \in 0 .. 0 |-> shares]
    <2>1. Repeats(f, 0)
      OBVIOUS
    <2>2. QED
      BY <2>1, <1>3, <1>2
  <1>4. CASE k # 0
    <2>1. k - 1 \in Nat /\ k - 1 \notin bad /\ k \in Nat
      BY <1>2, <1>4
    <2>2. PICK f : Repeats(f, k - 1)
      BY <2>1
    <2> DEFINE g == [m \in 0 .. k |-> IF m = k THEN After(f[k - 1], k) ELSE f[m]]
    <2>3. ASSUME NEW m \in 0 .. k
          PROVE  g[m] = IF m = 0 THEN shares ELSE After(g[m - 1], m)
      <3>1. CASE m = 0
        BY <3>1, <2>1, <2>2, <1>4
      <3>2. CASE m # 0 /\ m # k
        <4>1. m \in 0 .. k - 1 /\ m - 1 \in 0 .. k - 1 /\ m - 1 # k
          BY <3>2, <2>1
        <4>2. f[m] = After(f[m - 1], m)
          BY <4>1, <3>2, <2>2
        <4>3. g[m] = f[m] /\ g[m - 1] = f[m - 1]
          BY <4>1, <3>2, <2>1
        <4>4. QED
          BY <4>2, <4>3, <3>2
      <3>3. CASE m # 0 /\ m = k
        <4>1. m - 1 \in 0 .. k /\ m - 1 # k
          BY <3>3, <2>1
        <4>2. g[m] = After(f[k - 1], k) /\ g[m - 1] = f[m - 1]
          BY <4>1, <3>3
        <4>3. QED
          BY <4>2, <3>3
      <3>4. QED
        BY <3>1, <3>2, <3>3
    <2>4. DOMAIN g = 0 .. k /\ g = [m \in 0 .. k |-> g[m]]
      OBVIOUS
    <2> HIDE DEF g
    <2>5. Repeats(g, k)
      BY <2>3, <2>4
    <2>6. QED
      BY <2>5, <1>2
  <1>5. QED
    BY <1>3, <1>4

(* And adds rows of the extract.                                            *)
LEMMA PassStaysInExtract ==
    ASSUME NEW product \in DOMAIN Products, NEW extract, NEW shares, FromExtract(extract, shares)
    PROVE  FromExtract(extract, Pass(product, extract, shares))
  <1> DEFINE last == Len(Order(product))
             Runs(g) == VisitRun(product, extract, shares, last, g)
             f == CHOOSE g : Runs(g)
             Good(m) == FromExtract(extract, f[m])
             bad == {m \in 0 .. last : ~Good(m)}
  <1>1. last \in Nat
    BY OrderOfProduct DEF Line
  <1>2. Runs(f)
    <2>1. \E g : Runs(g)
      BY <1>1, TablesCanBeVisited
    <2>2. QED
      BY <2>1
  <1>3. Pass(product, extract, shares) = f[last]
    BY DEF Pass, VisitRun
  <1> HIDE DEF f
  <1>4. \A m \in 0 .. last :
           f[m] = IF m = 0 THEN shares ELSE Visit(product, extract, Order(product)[m], f[m - 1])
    BY <1>2 DEF VisitRun
  <1> HIDE DEF Runs
  <1>5. bad = {}
    <2> SUFFICES ASSUME bad # {}
                 PROVE  FALSE
      OBVIOUS
    <2>1. PICK m \in bad : \A i \in bad : m <= i
      <3>1. bad \in SUBSET Nat
        BY <1>1
      <3> HIDE DEF bad
      <3>2. QED
        BY <3>1, LeastNumber
    <2>2. m \in Nat /\ m \in 0 .. last /\ ~Good(m)
      BY <2>1, <1>1
    <2>3. m # 0
      BY <1>4, <2>2
    <2>4. m - 1 \in 0 .. last /\ m - 1 \notin bad
      BY <2>1, <2>2, <2>3, <1>1
    <2>5. Good(m - 1)
      BY <2>4
    <2>6. f[m] = Visit(product, extract, Order(product)[m], f[m - 1])
      BY <1>4, <2>2, <2>3
    <2>7. Good(m)
      BY <2>5, <2>6, VisitStaysInExtract
    <2>8. QED
      BY <2>7, <2>2
  <1>6. QED
    BY <1>1, <1>3, <1>5

(* The repetition of passes runs to its bound.                              *)
LEMMA PassesCanBeRepeated ==
    ASSUME NEW product, NEW extract, NEW shares, NEW n \in Nat
    PROVE  \E f : PassRun(product, extract, shares, n, f)
  <1> DEFINE After(before, m) ==
               Pass(product, extract, before)
             Repeats(f, k) ==
               f = [m \in 0 .. k |-> IF m = 0 THEN shares ELSE After(f[m - 1], m)]
             bad == {k \in Nat : ~ \E f : Repeats(f, k)}
  <1> HIDE DEF After
  <1>0. (\E f : Repeats(f, n)) => \E f : PassRun(product, extract, shares, n, f)
    BY DEF PassRun, After
  <1>1. SUFFICES ASSUME bad # {}
                 PROVE  FALSE
    BY <1>0
  <1>2. PICK k \in bad : \A m \in bad : k <= m
    BY <1>1, LeastNumber
  <1>3. CASE k = 0
    <2> DEFINE f == [m \in 0 .. 0 |-> shares]
    <2>1. Repeats(f, 0)
      OBVIOUS
    <2>2. QED
      BY <2>1, <1>3, <1>2
  <1>4. CASE k # 0
    <2>1. k - 1 \in Nat /\ k - 1 \notin bad /\ k \in Nat
      BY <1>2, <1>4
    <2>2. PICK f : Repeats(f, k - 1)
      BY <2>1
    <2> DEFINE g == [m \in 0 .. k |-> IF m = k THEN After(f[k - 1], k) ELSE f[m]]
    <2>3. ASSUME NEW m \in 0 .. k
          PROVE  g[m] = IF m = 0 THEN shares ELSE After(g[m - 1], m)
      <3>1. CASE m = 0
        BY <3>1, <2>1, <2>2, <1>4
      <3>2. CASE m # 0 /\ m # k
        <4>1. m \in 0 .. k - 1 /\ m - 1 \in 0 .. k - 1 /\ m - 1 # k
          BY <3>2, <2>1
        <4>2. f[m] = After(f[m - 1], m)
          BY <4>1, <3>2, <2>2
        <4>3. g[m] = f[m] /\ g[m - 1] = f[m - 1]
          BY <4>1, <3>2, <2>1
        <4>4. QED
          BY <4>2, <4>3, <3>2
      <3>3. CASE m # 0 /\ m = k
        <4>1. m - 1 \in 0 .. k /\ m - 1 # k
          BY <3>3, <2>1
        <4>2. g[m] = After(f[k - 1], k) /\ g[m - 1] = f[m - 1]
          BY <4>1, <3>3
        <4>3. QED
          BY <4>2, <3>3
      <3>4. QED
        BY <3>1, <3>2, <3>3
    <2>4. DOMAIN g = 0 .. k /\ g = [m \in 0 .. k |-> g[m]]
      OBVIOUS
    <2> HIDE DEF g
    <2>5. Repeats(g, k)
      BY <2>3, <2>4
    <2>6. QED
      BY <2>5, <1>2
  <1>5. QED
    BY <1>3, <1>4

(* And adds rows of the extract.                                            *)
LEMMA RepetitionStaysInExtract ==
    ASSUME NEW product \in DOMAIN Products, NEW extract, NEW shares, NEW times \in Nat, FromExtract(extract, shares)
    PROVE  FromExtract(extract, PassAgain(product, extract, shares, times))
  <1> DEFINE last == times
             Runs(g) == PassRun(product, extract, shares, last, g)
             f == CHOOSE g : Runs(g)
             Good(m) == FromExtract(extract, f[m])
             bad == {m \in 0 .. last : ~Good(m)}
  <1>1. last \in Nat
    OBVIOUS
  <1>2. Runs(f)
    <2>1. \E g : Runs(g)
      BY <1>1, PassesCanBeRepeated
    <2>2. QED
      BY <2>1
  <1>3. PassAgain(product, extract, shares, times) = f[last]
    BY DEF PassAgain, PassRun
  <1> HIDE DEF f
  <1>4. \A m \in 0 .. last :
           f[m] = IF m = 0 THEN shares ELSE Pass(product, extract, f[m - 1])
    BY <1>2 DEF PassRun
  <1> HIDE DEF Runs
  <1>5. bad = {}
    <2> SUFFICES ASSUME bad # {}
                 PROVE  FALSE
      OBVIOUS
    <2>1. PICK m \in bad : \A i \in bad : m <= i
      <3>1. bad \in SUBSET Nat
        BY <1>1
      <3> HIDE DEF bad
      <3>2. QED
        BY <3>1, LeastNumber
    <2>2. m \in Nat /\ m \in 0 .. last /\ ~Good(m)
      BY <2>1, <1>1
    <2>3. m # 0
      BY <1>4, <2>2
    <2>4. m - 1 \in 0 .. last /\ m - 1 \notin bad
      BY <2>1, <2>2, <2>3, <1>1
    <2>5. Good(m - 1)
      BY <2>4
    <2>6. f[m] = Pass(product, extract, f[m - 1])
      BY <1>4, <2>2, <2>3
    <2>7. Good(m)
      BY <2>5, <2>6, PassStaysInExtract
    <2>8. QED
      BY <2>7, <2>2
  <1>6. QED
    BY <1>1, <1>3, <1>5

(* The credits of a lot, and their histories, are rows of the extract.      *)
LEMMA SeedsStayInExtract ==
    ASSUME NEW product, NEW extract, NEW roots
    PROVE  FromExtract(extract, SeedShares(product, extract, roots))
  <1>1. ASSUME NEW credit, NEW m \in SeedMembers(product, extract, credit, roots)
        PROVE  m.row \in extract[credit]
    <2>1. \A lot : CappedSeed(product, extract, credit, lot) \subseteq extract[credit]
      BY DEF CappedSeed, LotRows, SeedCandidates
    <2>2. QED
      BY <1>1, <2>1 DEF SeedMembers
  <1>2. ASSUME NEW history, NEW credit, NEW seeded,
               NEW m \in HistoryMembers(extract, history, credit, seeded, roots)
        PROVE  m.row \in extract[history]
    BY <1>2 DEF HistoryMembers
  <1>3. ASSUME NEW t \in SeededByLot(product),
               NEW m \in SeedShares(product, extract, roots)[t]
        PROVE  m.row \in extract[t]
    BY <1>1, <1>2, <1>3 DEF SeedShares
  <1>4. QED
    BY <1>3 DEF FromExtract, SeedShares

(* So is the whole closure, with the domain ClosureOK asks for.             *)
LEMMA ClosureStaysInExtract ==
    ASSUME NEW product \in DOMAIN Products, NEW extract, NEW roots, ClosureOK(product, extract, roots)
    PROVE  /\ DOMAIN Closure(product, extract, roots) = Cloned(product)
           /\ FromExtract(extract, Closure(product, extract, roots))
  <1> DEFINE members == RootMembers(extract, roots)
             start == [ t \in {TABELA_RAIZ} \cup SeededByLot(product) |->
                          IF t = TABELA_RAIZ THEN members
                                             ELSE SeedShares(product, extract, members)[t] ]
             shares == Unpruned(product, extract, roots)
  <1>1. \A m \in members : m.row \in extract[TABELA_RAIZ]
    BY DEF RootMembers
  <1>2. \A t \in SeededByLot(product) : \A m \in SeedShares(product, extract, members)[t] :
           m.row \in extract[t]
    <2>1. FromExtract(extract, SeedShares(product, extract, members))
      BY SeedsStayInExtract
    <2>2. DOMAIN SeedShares(product, extract, members) = SeededByLot(product)
      BY DEF SeedShares
    <2>3. QED
      BY <2>1, <2>2 DEF FromExtract
  <1>3. FromExtract(extract, start)
    BY <1>1, <1>2 DEF FromExtract
  <1>4. shares = PassAgain(product, extract, start, MaxPassadas)
    BY DEF Unpruned
  <1> HIDE DEF start, members
  <1>5. FromExtract(extract, shares)
    BY <1>3, <1>4, RepetitionStaysInExtract, PassesAreBounded
  <1>6. DOMAIN shares = Cloned(product)
    BY DEF ClosureOK
  <1> HIDE DEF shares
  <1>7. OneCurve(shares) \subseteq shares["HISTORICO_PU_CURVA"]
        /\ TabledSchedules(shares) \subseteq shares["CONDICAO_RESGATE"]
    BY DEF OneCurve, TabledSchedules
  <1>8. /\ DOMAIN Pruned(product, shares) = DOMAIN shares
        /\ \A t \in DOMAIN shares : Pruned(product, shares)[t] \subseteq shares[t]
    BY <1>7 DEF Pruned
  <1>9. Closure(product, extract, roots) = Pruned(product, shares)
    BY DEF Closure, shares
  <1>10. QED
    BY <1>5, <1>6, <1>8, <1>9 DEF FromExtract

-----------------------------------------------------------------------------
(* Planning.                                                                *)

(* RAW as every extraction leaves it.                                       *)
RawOK(extract) ==
    \A product \in DOMAIN Products : \A t \in Cloned(product) : TableIsKeyed(product, t, extract[t])

(* The greatest of some numbers is one of them, and none is above it.       *)
LEMMA MaxIsGreatest ==
    ASSUME NEW S \in SUBSET Int, IsFiniteSet(S), S # {}
    PROVE  Max(S) \in S /\ \A y \in S : y <= Max(S)
  <1>1. PICK x \in S : \A y \in S : y <= x
    BY GreatestNumber
  <1>2. \A y \in S : x >= y
    BY <1>1
  <1>3. Max(S) \in S /\ \A y \in S : Max(S) >= y
    BY <1>2 DEF Max
  <1>4. QED
    BY <1>3

(* Some rows of a table are keyed as the table is.                          *)
LEMMA PartOfATable ==
    ASSUME NEW product, NEW t, NEW rows, TableIsKeyed(product, t, rows), NEW part \in SUBSET rows
    PROVE  TableIsKeyed(product, t, part)
  BY FS_Subset DEF TableIsKeyed

(* The sides of finitely many operations, and of each of their groups.      *)
LEMMA SidesAreFinite ==
    ASSUME NEW operations, IsFiniteSet(operations)
    PROVE  /\ IsFiniteSet(Sides(operations))
           /\ \A g : /\ IsFiniteSet(SidesOf(operations, g))
                     /\ Cardinality(SidesOf(operations, g)) \in Nat
           /\ IsFiniteSet(MeuGroups(operations))
  <1>1. IsFiniteSet({1, 2})
    <2>1. 1 .. 2 = {1, 2}
      OBVIOUS
    <2>2. IsFiniteSet(1 .. 2)
      BY FS_Interval, 1 \in Int, 2 \in Int
    <2>3. QED
      BY <2>1, <2>2
  <1>2. IsFiniteSet(Sides(operations))
    BY <1>1, FS_Product DEF Sides
  <1>3. \A g : SidesOf(operations, g) \in SUBSET Sides(operations)
    BY DEF SidesOf
  <1>4. IsFiniteSet(MeuGroups(operations))
    <2> DEFINE f == [s \in Sides(operations) |-> MeuGroup(s)]
    <2>1. DOMAIN f = Sides(operations) /\ {f[s] : s \in Sides(operations)} = MeuGroups(operations)
      BY DEF MeuGroups
    <2> HIDE DEF f
    <2>2. QED
      BY <1>2, <2>1, FiniteImage
  <1>5. QED
    BY <1>2, <1>3, <1>4, FS_Subset, FS_CardinalityType

(* _grouped_meu_numero_descriptor asks for what the largest group needs.    *)
LEMMA GroupsFitDemand ==
    ASSUME NEW operations, IsFiniteSet(operations), NEW k \in Nat
    PROVE  /\ GroupedDemand(operations, k) \in Nat
           /\ \A g \in MeuGroups(operations) :
                 Cardinality(SidesOf(operations, g)) * k <= GroupedDemand(operations, k)
           /\ operations = {} => GroupedDemand(operations, k) = 0
  <1> DEFINE demands == {Cardinality(SidesOf(operations, g)) * k : g \in MeuGroups(operations)}
             f == [g \in MeuGroups(operations) |-> Cardinality(SidesOf(operations, g)) * k]
  <1>1. demands \in SUBSET Nat
    BY SidesAreFinite
  <1>2. {f[g] : g \in MeuGroups(operations)} = demands /\ DOMAIN f = MeuGroups(operations)
    OBVIOUS
  <1>3. \A g \in MeuGroups(operations) : Cardinality(SidesOf(operations, g)) * k \in demands
    OBVIOUS
  <1>4. operations = {} => MeuGroups(operations) = {}
    BY DEF MeuGroups, Sides
  <1>5. operations = {} => demands = {}
    BY <1>4
  <1>6. GroupedDemand(operations, k) = Max({0} \cup demands)
    BY DEF GroupedDemand
  <1> HIDE DEF demands, f
  <1>7. IsFiniteSet(demands)
    BY <1>2, SidesAreFinite, FiniteImage
  <1>8. IsFiniteSet({0} \cup demands)
    <2>1. IsFiniteSet(demands \cup {0}) /\ {0} \cup demands = demands \cup {0}
      BY <1>7, FS_AddElement
    <2>2. QED
      BY <2>1
  <1>9. /\ GroupedDemand(operations, k) \in {0} \cup demands
        /\ \A y \in {0} \cup demands : y <= GroupedDemand(operations, k)
    BY <1>1, <1>6, <1>8, MaxIsGreatest
  <1>10. GroupedDemand(operations, k) \in Nat
    <2>1. {0} \cup demands \in SUBSET Nat
      BY <1>1
    <2>2. QED
      BY <1>9, <2>1
  <1>11. \A g \in MeuGroups(operations) :
            Cardinality(SidesOf(operations, g)) * k <= GroupedDemand(operations, k)
    BY <1>3, <1>9
  <1>12. operations = {} => GroupedDemand(operations, k) = 0
    BY <1>5, <1>9
  <1>13. QED
    BY <1>10, <1>11, <1>12

(* A plan asks for control numbers when there are operations to number.     *)
LEMMA DemandIsForOperations ==
    ASSUME NEW operations, IsFiniteSet(operations), NEW k \in Nat \ {0}
    PROVE  /\ GroupedDemand(operations, k) = 0 <=> operations = {}
           /\ LegacyDemand(operations, k) = 0 <=> operations = {}
  <1>1. ASSUME operations # {}
        PROVE  GroupedDemand(operations, k) # 0
    <2>1. PICK o \in operations : TRUE
      BY <1>1
    <2> DEFINE g == MeuGroup(<<o, 1>>)
    <2>2. <<o, 1>> \in Sides(operations)
      BY DEF Sides
    <2>3. g \in MeuGroups(operations) /\ <<o, 1>> \in SidesOf(operations, g)
      BY <2>2 DEF MeuGroups, SidesOf
    <2> HIDE DEF g
    <2>4. Cardinality(SidesOf(operations, g)) \in Nat \ {0}
      BY <2>3, SidesAreFinite, FS_EmptySet
    <2>5. Cardinality(SidesOf(operations, g)) * k # 0
      BY <2>4
    <2>6. /\ Cardinality(SidesOf(operations, g)) * k <= GroupedDemand(operations, k)
          /\ GroupedDemand(operations, k) \in Nat
      BY <2>3, GroupsFitDemand
    <2>7. Cardinality(SidesOf(operations, g)) * k \in Nat
      BY <2>4
    <2>8. QED
      BY <2>5, <2>6, <2>7
  <1> DEFINE same == {o \in operations : SameAccount(o)}
  <1>2. /\ Cardinality(operations) \in Nat /\ Cardinality(same) \in Nat
        /\ Cardinality(operations) = 0 <=> operations = {}
        /\ operations = {} => Cardinality(same) = 0
    <2>1. same \in SUBSET operations
      OBVIOUS
    <2> HIDE DEF same
    <2>2. IsFiniteSet(same)
      BY <2>1, FS_Subset
    <2>3. QED
      BY <2>1, <2>2, FS_CardinalityType, FS_EmptySet
  <1>3. LegacyDemand(operations, k) = (Cardinality(operations) + Cardinality(same)) * k
    BY DEF LegacyDemand
  <1> HIDE DEF same
  <1>4. LegacyDemand(operations, k) = 0 <=> operations = {}
    BY <1>2, <1>3
  <1>5. QED
    BY <1>1, <1>4, GroupsFitDemand

(* _ajusta_fator_k_por_dominio: a smaller domain is made up for.            *)
LEMMA AdjustedKIsPositive ==
    ASSUME NEW k \in Nat \ {0}, NEW n \in Nat, NEW m \in Nat, m >= n \/ m # 0
    PROVE  AdjustedK(k, n, m) \in Nat \ {0}
  <1>1. CASE m >= n
    BY <1>1 DEF AdjustedK
  <1>2. CASE m < n
    <2>1. AdjustedK(k, n, m) = (n * k + m - 1) \div m
      BY <1>2 DEF AdjustedK
    <2>2. n * k \in Nat \ {0} /\ m \in Nat \ {0}
      BY <1>2
    <2>3. PICK x \in Nat \ {0} : x = n * k
      BY <2>2
    <2> DEFINE y == x + m - 1
    <2>4. y \in Int /\ y >= m /\ m > 0
      BY <2>2, <2>3
    <2> HIDE DEF y
    <2>5. y \div m \in Int /\ y = m * (y \div m) + (y % m) /\ (y % m) \in 0 .. m - 1
      BY <2>2, <2>4
    <2>6. PICK q \in Int, r \in 0 .. m - 1 : q = y \div m /\ y = m * q + r
      BY <2>5
    <2>7. q >= 1
      <3>1. SUFFICES ASSUME q <= 0
                     PROVE  FALSE
        BY <2>6
      <3>2. m * q <= 0
        BY <3>1, <2>2, <2>6
      <3>3. m * q \in Int
        BY <2>2, <2>6
      <3>4. QED
        BY <2>2, <2>4, <2>6, <3>2, <3>3
    <2>8. QED
      BY <2>1, <2>3, <2>6, <2>7 DEF y
  <1>3. QED
    BY <1>1, <1>2

(* What Freeze writes: the plan and its snapshot.                           *)
ChosenRows(shares, chosen) ==
    [t \in DOMAIN Restricted(shares, chosen) |-> RowsOf(Restricted(shares, chosen)[t])]

FrozenPlan(j, shares, chosen) ==
    [ request |-> Request(j, ChosenRows(shares, chosen), FactorFor(j, chosen)),
      k       |-> FactorFor(j, chosen),
      lotes   |-> WithCreditCodes(Product(j), ChosenRows(shares, chosen), Starts(j)),
      missing |-> MissingKeys(Product(j), shares, oracle, chosen) ]

(* The instruments a job plans with, and how often it clones them.          *)
LEMMA SelectionIsAdmitted ==
    ASSUME NEW j \in Jobs, RawOK(raw), NEW shares, NEW chosen,
           Page(j) \subseteq Domain(j), chosen \in Selections(j, Admitted(j, shares))
    PROVE  /\ chosen \subseteq Admitted(j, shares)
           /\ FactorFor(j, chosen) \in Nat \ {0}
  <1> DEFINE admitted == Admitted(j, shares)
             rows == {x \in raw[TABELA_RAIZ] : x["NUM_TIPO_IF"] = Products[Product(j)].type}
             f == [r \in rows |-> r["NUM_IF"]]
             job == JobOf[j]
  <1>1. Product(j) \in DOMAIN Products /\ job.k \in Nat \ {0} /\ job.n \in Nat
    BY JobsArePossible
  <1>2. admitted \subseteq Domain(j)
    BY DEF Admitted
  <1>3. TABELA_RAIZ \in Cloned(Product(j))
    BY <1>1, ProductsArePlannable DEF OwnKeyed
  <1>4. IsFiniteSet(rows)
    <2>1. IsFiniteSet(raw[TABELA_RAIZ])
      BY <1>1, <1>3 DEF RawOK, TableIsKeyed
    <2>2. QED
      BY <2>1, FS_Subset
  <1>5. Domain(j) = {f[r] : r \in rows} /\ DOMAIN f = rows
    BY DEF Domain
  <1> HIDE DEF f, rows
  <1>6. IsFiniteSet(admitted)
    <2>1. IsFiniteSet(Domain(j))
      BY <1>4, <1>5, FiniteImage
    <2>2. QED
      BY <1>2, <2>1, FS_Subset
  <1>7. Cardinality(admitted) \in Nat /\ (Cardinality(admitted) = 0 <=> admitted = {})
    BY <1>6, FS_CardinalityType, FS_EmptySet
  <1> HIDE DEF admitted
  <1>8. chosen \in Selections(j, admitted)
    BY DEF admitted
  <1>9. CASE job.roots # Absent
    <2>1. chosen = admitted
      BY <1>8, <1>9 DEF Selections
    <2>2. FactorFor(j, chosen) = job.k
      BY <1>9 DEF FactorFor
    <2>3. QED
      BY <1>1, <2>1, <2>2 DEF admitted
  <1>10. CASE job.roots = Absent /\ Cardinality(admitted) >= job.n
    <2>1. chosen \in kSubset(job.n, admitted)
      BY <1>8, <1>10 DEF Selections
    <2>2. chosen \subseteq admitted /\ Cardinality(chosen) = job.n
      BY <2>1 DEF kSubset
    <2>3. FactorFor(j, chosen) \in Nat \ {0}
      <3>1. AdjustedK(job.k, job.n, Cardinality(chosen)) = job.k
        BY <1>1, <2>2 DEF AdjustedK
      <3>2. QED
        BY <1>1, <3>1 DEF FactorFor
    <2>4. QED
      BY <2>2, <2>3 DEF admitted
  <1>11. CASE job.roots = Absent /\ ~ (Cardinality(admitted) >= job.n)
    <2>1. chosen = admitted /\ admitted # {}
      BY <1>8, <1>11 DEF Selections
    <2>2. AdjustedK(job.k, job.n, Cardinality(chosen)) \in Nat \ {0}
      BY <1>1, <1>7, <2>1, AdjustedKIsPositive
    <2>3. FactorFor(j, chosen) \in Nat \ {0}
      BY <1>1, <2>2 DEF FactorFor
    <2>4. QED
      BY <2>1, <2>3 DEF admitted
  <1>12. QED
    BY <1>9, <1>10, <1>11

(* A CDB request is one, and never None.                                    *)
LEMMA CdbDemandIsARequest ==
    ASSUME NEW product \in DOMAIN Products, OracleOK(product, oracle, allocated),
           NEW lotes, IsFiniteSet(lotes[TABELA_RAIZ]), NEW k \in Nat
    PROVE  CdbDemand(lotes, k) # Absent /\ CdbDemand(lotes, k).prefix = CodePrefix
  <1> DEFINE rows == {x \in oracle[TABELA_RAIZ] : x["COD_IF"][1] = CodePrefix}
             f == [r \in rows |-> r["COD_IF"][2] + 1]
             floors == {CdbMin} \cup {s + 1 : s \in LiveSuffixes(oracle)}
  <1>1. TABELA_RAIZ \in Cloned(product)
    BY ProductsArePlannable DEF OwnKeyed
  <1>2. IsFiniteSet(rows) /\ \A r \in rows : r["COD_IF"][2] \in Int
    BY <1>1, FS_Subset DEF OracleOK
  <1>3. {f[r] : r \in rows} = {s + 1 : s \in LiveSuffixes(oracle)} /\ DOMAIN f = rows
    BY DEF LiveSuffixes
  <1>4. \A r \in rows : f[r] \in Int
    BY <1>2
  <1> HIDE DEF rows, f
  <1>5. IsFiniteSet({f[r] : r \in rows}) /\ {f[r] : r \in rows} \in SUBSET Int
    BY <1>2, <1>3, <1>4, FiniteImage
  <1>6. IsFiniteSet(floors) /\ floors \in SUBSET Int /\ floors # {}
    <2>1. IsFiniteSet({f[r] : r \in rows} \cup {CdbMin})
      BY <1>5, FS_AddElement
    <2>2. floors = {f[r] : r \in rows} \cup {CdbMin}
      BY <1>3
    <2>3. {f[r] : r \in rows} \cup {CdbMin} \in SUBSET Int
      BY <1>5, CdbBounds
    <2>4. QED
      BY <2>1, <2>2, <2>3
  <1>7. CdbDemand(lotes, k) = [ prefix |-> CodePrefix, count |-> Cardinality(lotes[TABELA_RAIZ]) * k,
                                minimum |-> Max(floors) ]
    BY DEF CdbDemand
  <1> HIDE DEF floors
  <1>8. Max(floors) \in Int
    BY <1>6, MaxIsGreatest
  <1>9. Cardinality(lotes[TABELA_RAIZ]) * k \in Nat
    BY FS_CardinalityType
  <1>10. CdbDemand(lotes, k) \in [prefix : CdbPrefixes \cup {CodePrefix}, count : Nat, minimum : Int]
    BY <1>7, <1>8, <1>9
  <1>11. QED
    BY <1>7, <1>10, AbsentIsNoRange

(* The snapshot of a plan: rows of RAW, keyed, and as many keys asked for   *)
(* as their clones will need.                                               *)
LEMMA SnapshotIsFrozen ==
    ASSUME NEW j \in Jobs, RawOK(raw), OracleOK(Product(j), oracle, allocated), NEW chosen,
           Page(j) \subseteq Domain(j), ClosureOK(Product(j), raw, Page(j)),
           NEW shares, shares = Closure(Product(j), raw, Page(j)),
           chosen \in Selections(j, Admitted(j, shares)),
           NEW p, p = FrozenPlan(j, shares, chosen), ValidPlan(p.request)
    PROVE  /\ SnapshotOK(Product(j), p)
           /\ \A t \in Cloned(Product(j)) :
                 /\ TableIsKeyed(Product(j), t, ChosenRows(shares, chosen)[t])
                 /\ Twins(ChosenRows(shares, chosen)[t], p.lotes[t])
  <1> DEFINE product == Product(j)
             lotes == ChosenRows(shares, chosen)
             operations == IF Products[product].operations THEN Operations(lotes) ELSE {}
  <1>1. product \in DOMAIN Products
    BY JobsArePossible
  <1>2. DOMAIN shares = Cloned(product) /\ FromExtract(raw, shares)
    BY <1>1, ClosureStaysInExtract
  <1>3. DOMAIN lotes = Cloned(product)
    BY <1>2 DEF ChosenRows, Restricted
  <1>4. ASSUME NEW t \in Cloned(product)
        PROVE  TableIsKeyed(product, t, lotes[t])
    <2>1. lotes[t] \in SUBSET raw[t]
      BY <1>2 DEF ChosenRows, Restricted, RowsOf, FromExtract
    <2>2. TableIsKeyed(product, t, raw[t])
      BY <1>1 DEF RawOK
    <2>3. QED
      BY <2>1, <2>2, PartOfATable
  <1>5. /\ p.k = FactorFor(j, chosen)
        /\ p.request = Request(j, lotes, p.k)
        /\ p.lotes = WithCreditCodes(product, lotes, Starts(j))
    BY DEF FrozenPlan
  <1>6. p.k \in Nat \ {0}
    BY <1>5, SelectionIsAdmitted
  <1> HIDE DEF lotes
  <1>7. /\ DOMAIN p.lotes = Cloned(product)
        /\ \A t \in Cloned(product) : /\ TableIsKeyed(product, t, p.lotes[t])
                                      /\ Cardinality(p.lotes[t]) = Cardinality(lotes[t])
                                      /\ Twins(lotes[t], p.lotes[t])
    BY <1>1, <1>3, <1>4, <1>5, RecodedTables
  <1>8. ASSUME NEW t \in OwnKeyed(product)
        PROVE  /\ p.request.pk[t].count = Cardinality(p.lotes[t]) * p.k
               /\ p.request.pk[t].step = Step
    <2>1. t \in Tables /\ t \in Cloned(product)
      BY <1>1, OwnKeyColumn
    <2>2. p.request.pk[t].count = Cardinality(lotes[t]) * p.k /\ p.request.pk[t].step = Step
      BY <1>5, <2>1 DEF Request, PkDemand
    <2>3. QED
      BY <1>7, <2>1, <2>2
  <1>9. /\ TABELA_RAIZ \in Cloned(product)
        /\ Products[product].operations => OPERACAO_TABELA \in Cloned(product)
    BY <1>1, ProductsArePlannable DEF OwnKeyed
  <1>10. /\ p.request.cdb # Absent <=> Products[product].cdb
         /\ p.request.cdb # Absent => p.request.cdb.prefix = CodePrefix
    <2>1. IsFiniteSet(lotes[TABELA_RAIZ])
      BY <1>4, <1>9 DEF TableIsKeyed
    <2>2. CdbDemand(lotes, p.k) # Absent /\ CdbDemand(lotes, p.k).prefix = CodePrefix
      BY <1>1, <1>6, <2>1, CdbDemandIsARequest
    <2>3. p.request.cdb = IF Products[product].cdb THEN CdbDemand(lotes, p.k) ELSE Absent
      BY <1>5 DEF Request
    <2>4. QED
      BY <2>2, <2>3
  <1>11. p.request.ordinals = 0 <=> operations = {}
    <2>1. IsFiniteSet(operations)
      BY <1>3, <1>4, <1>9, FS_EmptySet DEF TableIsKeyed, Operations
    <2>2. p.request.ordinals = IF JobOf[j].schema = 3 THEN GroupedDemand(operations, p.k)
                                                       ELSE LegacyDemand(operations, p.k)
      BY <1>5 DEF Request
    <2> HIDE DEF operations
    <2>3. QED
      BY <1>6, <2>1, <2>2, DemandIsForOperations
  <1>12. Products[product].operations => (Operations(lotes) = {} <=> Operations(p.lotes) = {})
    BY <1>3, <1>7, <1>9 DEF Operations, Twins
  <1>13. p.request.ordinals = 0 <=> ~ (Products[product].operations /\ Operations(p.lotes) # {})
    BY <1>11, <1>12
  <1>14. SnapshotOK(product, p)
    BY <1>6, <1>7, <1>8, <1>10, <1>13 DEF SnapshotOK
  <1>15. QED
    BY <1>4, <1>7, <1>14 DEF lotes

(* And what _target_fk_rejections admits: every reference of the snapshot   *)
(* leads to the snapshot, to Oracle, or will be nulled.                     *)
LEMMA SnapshotIsResolved ==
    ASSUME NEW product \in DOMAIN Products, NEW shares, DOMAIN shares = Cloned(product),
           NEW database, NEW chosen, chosen \cap Rejected(product, shares, database) = {},
           NEW p, p.missing = MissingKeys(product, shares, database, chosen),
           \A t \in Cloned(product) :
               /\ TableIsKeyed(product, t, ChosenRows(shares, chosen)[t])
               /\ Twins(ChosenRows(shares, chosen)[t], p.lotes[t])
    PROVE  SnapshotResolves(product, p, database)
  <1> DEFINE lotes == ChosenRows(shares, chosen)
  <1>1. ASSUME NEW t \in Cloned(product)
        PROVE  lotes[t] = {m.row : m \in {x \in shares[t] : x.root \in chosen}}
    BY DEF ChosenRows, Restricted, RowsOf
  <1> HIDE DEF lotes
  <1>2. SUFFICES ASSUME NEW t \in Cloned(product), NEW r \in p.lotes[t], NEW fk \in Emitted(product, t, r)
                 PROVE  RowResolves(product, p, database, t, r, fk)
    BY DEF SnapshotResolves
  <1>3. PICK s \in lotes[t] : Twin(s, r)
    BY DEF Twins, lotes
  <1>4. PICK m \in shares[t] : m.root \in chosen /\ m.row = s
    BY <1>1
  <1>5. fk \in Schema[t].fks
    BY DEF Emitted
  <1>6. \A n \in DOMAIN fk.cols : r[fk.cols[n]] = s[fk.cols[n]]
    <2>1. Columns(t) \subseteq DOMAIN s
      BY DEF TableIsKeyed, lotes
    <2>2. QED
      BY <1>3, <1>5, <2>1, TwinsAgree
  <1>7. fk \in Emitted(product, t, m.row)
    BY <1>4, <1>5, <1>6 DEF Emitted
  <1>8. m.root \notin Rejected(product, shares, database)
    BY <1>4
  <1>9. fk \in Dangling(product, shares, database, t, m) => Selective(product, t, fk)
    BY <1>8 DEF Rejected
  <1>10. CASE ResolvesInside(product, shares, Order(product), t, fk, m)
    <2>1. PICK q \in shares[fk.parent] : q.root = m.root /\ Refers(m.row, fk, q.row)
      BY <1>10 DEF ResolvesInside
    <2>2. fk \in Remaps(product, t)
      BY <1>10 DEF ResolvesInside
    <2>3. fk.parent \in Cloned(product) /\ fk.pcols = Schema[fk.parent].pk
      <3>1. fk \in FksToCloned(product, t)
        BY <2>2, PlannableTable
      <3>2. QED
        BY <3>1 DEF FksToCloned
    <2>4. q.row \in lotes[fk.parent]
      BY <1>1, <1>4, <2>1, <2>3
    <2>5. PICK x \in p.lotes[fk.parent] : Twin(q.row, x)
      BY <2>3, <2>4 DEF Twins, lotes
    <2>6. \A c \in PkColumns(fk.parent) : x[c] = q.row[c]
      <3>1. Columns(fk.parent) \subseteq DOMAIN q.row
        BY <2>3, <2>4 DEF TableIsKeyed, lotes
      <3>2. QED
        BY <2>3, <2>5, <3>1, TwinsAgree
    <2>7. \A n \in DOMAIN fk.cols : fk.pcols[n] \in PkColumns(fk.parent)
      <3>1. DOMAIN fk.cols = DOMAIN fk.pcols
        BY <1>5, PlannableTable DEF TableIsPlannable
      <3>2. QED
        BY <2>3, <3>1 DEF PkColumns, Range
    <2>8. Refers(r, fk, x)
      BY <1>4, <1>6, <2>1, <2>6, <2>7 DEF Refers
    <2>9. QED
      BY <2>2, <2>5, <2>8 DEF RowResolves
  <1>11. CASE ResolvesLive(database, fk, m.row)
    <2>1. PICK q \in database[fk.parent] : Refers(m.row, fk, q)
      BY <1>11 DEF ResolvesLive
    <2>2. Refers(r, fk, q)
      BY <1>4, <1>6, <2>1 DEF Refers
    <2>3. QED
      BY <2>2 DEF RowResolves
  <1>12. CASE /\ ~ ResolvesInside(product, shares, Order(product), t, fk, m)
              /\ ~ ResolvesLive(database, fk, m.row)
    <2>1. fk \in Dangling(product, shares, database, t, m) /\ Selective(product, t, fk)
      BY <1>7, <1>9, <1>12 DEF Dangling
    <2>2. Len(fk.cols) = 1 /\ ColumnList(fk.cols)
      BY <1>5, <2>1, PlannableTable DEF TableIsPlannable
    <2>3. DOMAIN fk.cols = {1}
      BY <2>2 DEF ColumnList
    <2>4. <<t, fk.cols[1]>> \in Products[product].selective
      BY <2>1, <2>3 DEF Selective, Range
    <2>5. <<t, fk.cols[1], m.row[fk.cols[1]]>> \in p.missing
      BY <1>4, <2>1 DEF MissingKeys
    <2>6. r[fk.cols[1]] = m.row[fk.cols[1]]
      BY <1>4, <1>6, <2>3
    <2>7. QED
      BY <2>3, <2>4, <2>5, <2>6 DEF RowResolves
  <1>13. QED
    BY <1>10, <1>11, <1>12

-----------------------------------------------------------------------------
(* Reserving.                                                               *)

(* What _allocate_artifact returns for a plan is a reservation of it.       *)
LEMMA ReservationIsForPlan ==
    ASSUME NEW product \in DOMAIN Products, NEW p, SnapshotOK(product, p),
           NEW l \in LedgerShape, NEW a \in Artifacts(l, p.request)
    PROVE  ReservationOK(product, p, a)
  <1> DEFINE q == p.request
  <1>1. ValidPlan(q) /\ q \in PlanShape
    BY DEF SnapshotOK, ValidPlan
  <1>2. /\ a \in ArtifactShape
        /\ a.pk = PkRanges(l, q)
        /\ a.meu \in MeuIntervals(l, q)
        /\ a.cdb \in CdbIntervals(l, q)
    BY <1>1, ArtifactTyping
  <1>3. ASSUME NEW t \in OwnKeyed(product)
        PROVE  IF q.pk[t].count = 0
               THEN a.pk[t] = Absent
               ELSE /\ a.pk[t] # Absent
                    /\ a.pk[t].end = a.pk[t].start + (q.pk[t].count - 1) * Step
                    /\ a.pk[t].step = Step
    <2>1. t \in Tables
      BY OwnKeyColumn
    <2>2. q.pk[t] \in PkRequest /\ q.pk[t].step = Step
      BY <1>1, <2>1 DEF PlanShape, SnapshotOK
    <2>3. a.pk[t] = IF q.pk[t].count = 0 THEN Absent ELSE PkRange(l, t, q.pk[t])
      BY <1>2, <2>1 DEF PkRanges
    <2>4. CASE q.pk[t].count # 0
      <3>1. PkRange(l, t, q.pk[t]) \in [start : Int, end : Int, step : Nat \ {0}]
        BY <2>1, <2>2, <2>4, PkRangeBounds
      <3>2. PkRange(l, t, q.pk[t]) # Absent
        BY <3>1, AbsentIsNoRange
      <3>3. /\ PkRange(l, t, q.pk[t]).end
                  = PkRange(l, t, q.pk[t]).start + (q.pk[t].count - 1) * Step
            /\ PkRange(l, t, q.pk[t]).step = Step
        BY <2>2 DEF PkRange
      <3>4. QED
        BY <2>3, <2>4, <3>2, <3>3
    <2>5. QED
      BY <2>3, <2>4
  <1>4. a.meu # Absent <=> q.ordinals # 0
    <2>1. CASE q.ordinals = 0
      BY <1>2, <2>1 DEF MeuIntervals
    <2>2. CASE q.ordinals # 0
      <3>1. PICK prefix \in Prefixes, s \in 1 .. MaxOrdinal + 1 :
               a.meu = [ schema |-> q.schema, date |-> q.date, groups |-> q.groups,
                         prefix |-> prefix, start |-> s, end |-> s + q.ordinals - 1 ]
        BY <1>2, <2>2 DEF MeuIntervals
      <3>2. /\ q.schema \in {2, 3} /\ q.date \in Dates /\ q.groups \in SUBSET Groups
            /\ q.ordinals \in Nat
        BY <1>1 DEF PlanShape
      <3>3. s \in Int /\ s + q.ordinals - 1 \in Int
        BY <3>1, <3>2, MaxOrdinalIsNat
      <3>4. a.meu \in [ schema : {2, 3}, date : Dates, groups : SUBSET Groups,
                        prefix : Prefixes, start : Int, end : Int ]
        BY <3>1, <3>2, <3>3
      <3>5. QED
        BY <2>2, <3>4, AbsentIsNoRange
    <2>3. QED
      BY <2>1, <2>2
  <1>5. a.meu # Absent => /\ a.meu.date = q.date
                          /\ a.meu.groups = q.groups
                          /\ a.meu.schema = q.schema
    BY <1>1, MeuIntervalAboveMarks
  <1>6. /\ a.cdb # Absent <=> q.cdb # Absent
        /\ a.cdb # Absent => a.cdb.prefix = q.cdb.prefix
    <2>1. CASE q.cdb = Absent
      BY <1>2, <2>1 DEF CdbIntervals
    <2>2. CASE q.cdb # Absent
      <3>1. q.cdb \in CdbRequest
        BY <1>1, <2>2 DEF PlanShape
      <3>2. q.cdb.prefix \in CdbPrefixes /\ q.cdb.count \in Nat
        BY <3>1 DEF CdbRequest
      <3>3. PICK s \in CdbFloors(l, q.cdb) :
               a.cdb = [ prefix |-> q.cdb.prefix, count |-> q.cdb.count,
                         start |-> s, end |-> s + q.cdb.count - 1 ]
        BY <1>2, <2>2 DEF CdbIntervals
      <3>4. s \in Int
        BY <3>1, <3>3, CdbFloorsAreNumbers
      <3>5. a.cdb \in [prefix : CdbPrefixes, count : Nat, start : Int, end : Int]
        BY <3>2, <3>3, <3>4
      <3>6. QED
        BY <2>2, <3>3, <3>5, AbsentIsNoRange
    <2>3. QED
      BY <2>1, <2>2
  <1>7. QED
    BY <1>2, <1>3, <1>4, <1>5, <1>6 DEF ReservationOK

-----------------------------------------------------------------------------
(* Publishing: what is generated for a row is generated in its clone.       *)

(* Rows that something was generated in, one by one.                        *)
RowsRewritten(rows, new) ==
    \E f : /\ DOMAIN f = rows
           /\ new = {f[r] : r \in rows}
           /\ \A r \in rows : Twin(r, f[r])

(* What is generated in two steps is generated in one.                      *)
LEMMA RewrittenTwice ==
    ASSUME NEW rows, NEW mid, NEW new, RowsRewritten(rows, mid), RowsRewritten(mid, new)
    PROVE  RowsRewritten(rows, new)
  <1>1. PICK f : DOMAIN f = rows /\ mid = {f[r] : r \in rows} /\ \A r \in rows : Twin(r, f[r])
    BY DEF RowsRewritten
  <1>2. PICK g : DOMAIN g = mid /\ new = {g[r] : r \in mid} /\ \A r \in mid : Twin(r, g[r])
    BY DEF RowsRewritten
  <1> DEFINE h == [r \in rows |-> g[f[r]]]
  <1>3. DOMAIN h = rows /\ new = {h[r] : r \in rows}
    BY <1>1, <1>2
  <1>4. ASSUME NEW r \in rows
        PROVE  Twin(r, h[r])
    <2>1. Twin(r, f[r]) /\ Twin(f[r], g[f[r]]) /\ h[r] = g[f[r]]
      BY <1>1, <1>2
    <2>2. QED
      BY <2>1 DEF Twin
  <1> HIDE DEF h
  <1>5. QED
    BY <1>3, <1>4 DEF RowsRewritten

(* A column that is generated anew.                                         *)
LEMMA CodesAreRewritten ==
    ASSUME NEW rows, NEW pk, NEW column \in Generated, NEW prefix, NEW start
    PROVE  RowsRewritten(rows, Coded(rows, pk, column, prefix, start))
  <1> DEFINE f == [r \in rows |-> [r EXCEPT ![column] = <<prefix, start + Slot(rows, pk, r) - 1>>]]
  <1>1. DOMAIN f = rows /\ Coded(rows, pk, column, prefix, start) = {f[r] : r \in rows}
    BY DEF Coded
  <1>2. \A r \in rows : Twin(r, f[r])
    BY DEF Twin
  <1> HIDE DEF f
  <1>3. QED
    BY <1>1, <1>2 DEF RowsRewritten

(* _propagate_root_cod_if rewrites the code of the instrument only.         *)
LEMMA PropagationRewrites ==
    ASSUME NEW roots, NEW operations
    PROVE  RowsRewritten(operations, Propagated(roots, operations))
  <1> DEFINE f == [o \in operations |->
                     [o EXCEPT !["COD_IF"] = (CHOOSE i \in RootOf(roots, o) : TRUE)["COD_IF"]]]
  <1>1. DOMAIN f = operations /\ Propagated(roots, operations) = {f[o] : o \in operations}
    BY DEF Propagated
  <1>2. "COD_IF" \in Generated
    BY DEF Generated
  <1>3. \A o \in operations : Twin(o, f[o])
    BY <1>2 DEF Twin
  <1> HIDE DEF f
  <1>4. QED
    BY <1>1, <1>3 DEF RowsRewritten

(* An operation with its control numbers.                                   *)
WithNumbers(operations, meu, o) ==
    [ o EXCEPT !["DAT_OPERACAO"] = meu.date,
               !["NUM_CONTROLE_LANCAMENTO_P1"] =
                   <<meu.prefix, Ordinal(meu.schema, operations, meu.start, <<o, 1>>)>>,
               !["NUM_CONTROLE_LANCAMENTO_P2"] =
                   <<meu.prefix, Ordinal(meu.schema, operations, meu.start, <<o, 2>>)>> ]

(* Control numbers are generated columns.                                   *)
LEMMA NumbersAreTwins ==
    ASSUME NEW operations, NEW meu, NEW o
    PROVE  Twin(o, WithNumbers(operations, meu, o))
  BY DEF Twin, WithNumbers, Generated

(* Numbered operations are the operations with generated columns rewritten. *)
LEMMA NumbersAreRewritten ==
    ASSUME NEW operations, NEW meu
    PROVE  /\ Numbered(operations, meu) = {WithNumbers(operations, meu, o) : o \in operations}
           /\ RowsRewritten(operations, Numbered(operations, meu))
  <1> DEFINE f == [o \in operations |-> WithNumbers(operations, meu, o)]
  <1>1. Numbered(operations, meu) = {WithNumbers(operations, meu, o) : o \in operations}
    BY DEF Numbered, WithNumbers
  <1>2. DOMAIN f = operations /\ Numbered(operations, meu) = {f[o] : o \in operations}
    BY <1>1
  <1>3. \A o \in operations : Twin(o, f[o])
    BY NumbersAreTwins
  <1> HIDE DEF f
  <1>4. QED
    BY <1>1, <1>2, <1>3 DEF RowsRewritten

(* Clones whose rows were rewritten.                                        *)
TwinClones(old, new) ==
    \E g : /\ DOMAIN g = old
           /\ new = {g[c] : c \in old}
           /\ \A c \in old : /\ IsClone(g[c])
                             /\ g[c].src = c.src
                             /\ g[c].k = c.k
                             /\ Twin(c.row, g[c].row)

(* WithRows of some clones.                                                 *)
Rejoined(t, made, rows) ==
    {[c EXCEPT !.row = CHOOSE r \in rows : RowKey(t, r) = RowKey(t, c.row)] : c \in made}

(* The rewritten rows find their clones again by their keys.                *)
LEMMA ClonesAreRejoined ==
    ASSUME NEW product \in DOMAIN Products, NEW t \in Cloned(product), NEW made,
           \A c \in made : IsClone(c) /\ Columns(t) \subseteq DOMAIN c.row,
           \A c, d \in made : RowKey(t, c.row) = RowKey(t, d.row) => c = d,
           NEW rows, RowsRewritten({c.row : c \in made}, rows)
    PROVE  /\ TwinClones(made, Rejoined(t, made, rows))
           /\ {c.row : c \in Rejoined(t, made, rows)} = rows
  <1>1. PICK f : /\ DOMAIN f = {c.row : c \in made}
                 /\ rows = {f[r] : r \in {c.row : c \in made}}
                 /\ \A r \in {c.row : c \in made} : Twin(r, f[r])
    BY DEF RowsRewritten
  <1> DEFINE chosen(c) == CHOOSE r \in rows : RowKey(t, r) = RowKey(t, c.row)
             g == [c \in made |-> [c EXCEPT !.row = chosen(c)]]
  <1>2. ASSUME NEW c \in made
        PROVE  f[c.row] \in rows /\ Twin(c.row, f[c.row]) /\ RowKey(t, f[c.row]) = RowKey(t, c.row)
    <2>1. f[c.row] \in rows /\ Twin(c.row, f[c.row])
      BY <1>1
    <2>2. QED
      BY <2>1, TwinsAgree
  <1>3. ASSUME NEW c \in made
        PROVE  chosen(c) = f[c.row]
    <2>1. chosen(c) \in rows /\ RowKey(t, chosen(c)) = RowKey(t, c.row)
      BY <1>2
    <2> HIDE DEF chosen
    <2>2. PICK d \in made : chosen(c) = f[d.row]
      BY <1>1, <2>1
    <2>3. RowKey(t, d.row) = RowKey(t, c.row)
      BY <1>2, <2>1, <2>2
    <2>4. d = c
      BY <2>3
    <2>5. QED
      BY <2>2, <2>4
  <1>4. DOMAIN g = made /\ Rejoined(t, made, rows) = {g[c] : c \in made}
    BY DEF Rejoined
  <1>5. ASSUME NEW c \in made
        PROVE  IsClone(g[c]) /\ g[c].src = c.src /\ g[c].k = c.k /\ g[c].row = f[c.row]
    <2>1. c = [src |-> c.src, k |-> c.k, row |-> c.row]
      BY DEF IsClone
    <2>2. g[c] = [c EXCEPT !.row = f[c.row]]
      BY <1>3
    <2> HIDE DEF g, chosen
    <2>3. g[c] = [src |-> c.src, k |-> c.k, row |-> f[c.row]]
      BY <2>1, <2>2
    <2>4. QED
      BY <2>3 DEF IsClone
  <1> HIDE DEF g, chosen
  <1>6. ASSUME NEW c \in made
        PROVE  IsClone(g[c]) /\ g[c].src = c.src /\ g[c].k = c.k /\ Twin(c.row, g[c].row)
    BY <1>2, <1>5
  <1>7. {c.row : c \in Rejoined(t, made, rows)} = rows
    <2>1. {c.row : c \in Rejoined(t, made, rows)} = {f[c.row] : c \in made}
      <3>1. \A c \in made : g[c].row = f[c.row]
        BY <1>5
      <3>2. \A d \in Rejoined(t, made, rows) : \E c \in made : d = g[c]
        BY <1>4
      <3>3. \A c \in made : g[c] \in Rejoined(t, made, rows)
        BY <1>4
      <3> DEFINE new == Rejoined(t, made, rows)
      <3> HIDE DEF new
      <3>4. {c.row : c \in new} = {f[c.row] : c \in made}
        BY <3>1, <3>2, <3>3 DEF new
      <3>5. QED
        BY <3>4 DEF new
    <2>2. rows = {f[c.row] : c \in made}
      BY <1>1
    <2>3. QED
      BY <2>1, <2>2
  <1>8. QED
    BY <1>4, <1>6, <1>7 DEF TwinClones

(* What was said of the clones holds of the rewritten ones.                 *)
LEMMA TwinTableHolds ==
    ASSUME NEW product \in DOMAIN Products, NEW p, SnapshotOK(product, p), NEW t \in Cloned(product),
           NEW made, TableHeld(product, p, made, t), NEW new, TwinClones(made[t], new[t])
    PROVE  TableHeld(product, p, new, t)
  <1>1. PICK g : /\ DOMAIN g = made[t]
                 /\ new[t] = {g[c] : c \in made[t]}
                 /\ \A c \in made[t] : IsClone(g[c]) /\ g[c].src = c.src /\ g[c].k = c.k
                                       /\ Twin(c.row, g[c].row)
    BY DEF TwinClones
  <1>2. /\ {<<c.src, c.k>> : c \in made[t]} = Copies(p.lotes[t], t, p.k)
        /\ \A a, b \in made[t] : a.src = b.src /\ a.k = b.k => a = b
        /\ IsFiniteSet(made[t])
        /\ Cardinality(made[t]) = Cardinality(p.lotes[t]) * p.k
        /\ \A a, b \in made[t] : RowKey(t, a.row) = RowKey(t, b.row) => a = b
        /\ \A c \in made[t] : \E r \in p.lotes[t] :
              /\ RowKey(t, r) = c.src
              /\ DOMAIN c.row = DOMAIN r
              /\ \A col \in Content(product, t, r) : c.row[col] = r[col]
    BY DEF TableHeld
  <1>3. \A r \in p.lotes[t] : Columns(t) \subseteq DOMAIN r
    BY DEF SnapshotOK, TableIsKeyed
  <1>4. ASSUME NEW c \in made[t]
        PROVE  RowKey(t, g[c].row) = RowKey(t, c.row)
    <2>1. Columns(t) \subseteq DOMAIN c.row
      BY <1>2, <1>3
    <2>2. QED
      BY <1>1, <2>1, TwinsAgree
  <1>5. \A d \in new[t] : \E c \in made[t] : d = g[c]
    BY <1>1
  <1>6. {<<c.src, c.k>> : c \in new[t]} = {<<c.src, c.k>> : c \in made[t]}
    BY <1>1
  <1>7. \A a, b \in made[t] : g[a] = g[b] => a = b
    BY <1>1, <1>2
  <1>8. IsFiniteSet(new[t]) /\ Cardinality(new[t]) = Cardinality(made[t])
    <2> DEFINE S == made[t]
    <2>1. IsFiniteSet(S) /\ DOMAIN g = S /\ \A a, b \in S : g[a] = g[b] => a = b
      BY <1>1, <1>2, <1>7
    <2>2. new[t] = {g[c] : c \in S}
      BY <1>1
    <2> HIDE DEF S
    <2>3. IsFiniteSet({g[c] : c \in S}) /\ Cardinality({g[c] : c \in S}) = Cardinality(S)
      BY <2>1, FiniteImage
    <2>4. QED
      BY <2>2, <2>3 DEF S
  <1>9. ASSUME NEW c \in made[t]
        PROVE  \E r \in p.lotes[t] : /\ RowKey(t, r) = g[c].src
                                     /\ DOMAIN g[c].row = DOMAIN r
                                     /\ \A col \in Content(product, t, r) : g[c].row[col] = r[col]
    <2>1. PICK r \in p.lotes[t] : /\ RowKey(t, r) = c.src
                                  /\ DOMAIN c.row = DOMAIN r
                                  /\ \A col \in Content(product, t, r) : c.row[col] = r[col]
      BY <1>2
    <2>2. \A col \in Content(product, t, r) : col \in DOMAIN r \ Generated
      BY DEF Content
    <2>3. DOMAIN g[c].row = DOMAIN r /\ g[c].src = RowKey(t, r)
      BY <1>1, <2>1 DEF Twin
    <2>4. \A col \in DOMAIN r \ Generated : g[c].row[col] = c.row[col]
      BY <1>1, <2>1 DEF Twin
    <2>5. QED
      BY <2>1, <2>2, <2>3, <2>4
  <1>10. \A c \in new[t] : IsClone(c)
    BY <1>1, <1>5
  <1>11. \A a, b \in new[t] : a.src = b.src /\ a.k = b.k => a = b
    <2>1. \A a, b \in made[t] : g[a].src = g[b].src /\ g[a].k = g[b].k => a = b
      BY <1>1, <1>2
    <2>2. QED
      BY <1>5, <2>1
  <1>12. \A a, b \in new[t] : RowKey(t, a.row) = RowKey(t, b.row) => a = b
    <2>1. \A a, b \in made[t] : RowKey(t, g[a].row) = RowKey(t, g[b].row) => a = b
      BY <1>2, <1>4
    <2>2. QED
      BY <1>5, <2>1
  <1>13. \A c \in new[t] : \E r \in p.lotes[t] :
            /\ RowKey(t, r) = c.src
            /\ DOMAIN c.row = DOMAIN r
            /\ \A col \in Content(product, t, r) : c.row[col] = r[col]
    BY <1>5, <1>9
  <1>14. QED
    BY <1>2, <1>6, <1>8, <1>10, <1>11, <1>12, <1>13 DEF TableHeld

(* A clone has the columns of its table.                                    *)
LEMMA CloneHasColumns ==
    ASSUME NEW product \in DOMAIN Products, NEW p, SnapshotOK(product, p), NEW t \in Cloned(product),
           NEW made, TableHeld(product, p, made, t), NEW c \in made[t]
    PROVE  Columns(t) \subseteq DOMAIN c.row
  <1>1. \A r \in p.lotes[t] : Columns(t) \subseteq DOMAIN r
    BY DEF SnapshotOK, TableIsKeyed
  <1>2. \E r \in p.lotes[t] : DOMAIN c.row = DOMAIN r
    BY DEF TableHeld
  <1>3. QED
    BY <1>1, <1>2

(* A reference leads to the keys of a table of the product.                 *)
LEMMA ReferenceToAKey ==
    ASSUME NEW product \in DOMAIN Products, NEW t \in Cloned(product), NEW fk \in Remaps(product, t)
    PROVE  /\ fk \in Schema[t].fks
           /\ fk.parent \in Cloned(product)
           /\ \A i \in DOMAIN fk.cols : fk.pcols[i] \in PkColumns(fk.parent)
  <1>1. fk \in FksToCloned(product, t)
    BY PlannableTable
  <1>2. fk \in Schema[t].fks /\ fk.parent \in Cloned(product) /\ fk.pcols = Schema[fk.parent].pk
    BY <1>1 DEF FksToCloned
  <1>3. DOMAIN fk.cols = DOMAIN fk.pcols
    BY <1>2, PlannableTable DEF TableIsPlannable
  <1>4. QED
    BY <1>2, <1>3 DEF PkColumns, Range

(* Publication leaves the references of the clones as they were.            *)
LEMMA TwinFamilyHolds ==
    ASSUME NEW product \in DOMAIN Products, NEW p, SnapshotOK(product, p), NEW made,
           \A u \in Cloned(product) : TableHeld(product, p, made, u),
           NEW t \in Cloned(product), FamilyHeld(product, p, made, t),
           NEW new, \A u \in Cloned(product) : TwinClones(made[u], new[u])
    PROVE  FamilyHeld(product, p, new, t)
  <1>1. SUFFICES ASSUME NEW d \in new[t], NEW r \in p.lotes[t], NEW fk \in Schema[t].fks,
                        RowKey(t, r) = d.src, NoNullIn(d.row, fk)
                 PROVE  FollowsSource(product, t, p.lotes, p.missing, new, d, r, fk)
    BY DEF FamilyHeld
  <1>2. PICK c \in made[t] : d.src = c.src /\ d.k = c.k /\ Twin(c.row, d.row)
    BY DEF TwinClones
  <1>3. \A n \in DOMAIN fk.cols : d.row[fk.cols[n]] = c.row[fk.cols[n]]
    <2>1. Columns(t) \subseteq DOMAIN c.row
      BY CloneHasColumns
    <2>2. QED
      BY <1>2, <2>1, TwinsAgree
  <1>4. NoNullIn(c.row, fk)
    BY <1>1, <1>3 DEF NoNullIn
  <1>5. FollowsSource(product, t, p.lotes, p.missing, made, c, r, fk)
    BY <1>1, <1>2, <1>4 DEF FamilyHeld
  <1>6. ASSUME NEW q \in p.lotes[fk.parent], fk \in Remaps(product, t), Refers(r, fk, q)
        PROVE  \E e \in new[fk.parent] : /\ e.src = RowKey(fk.parent, q)
                                         /\ e.k = d.k
                                         /\ Refers(d.row, fk, e.row)
    <2>1. PICK x \in made[fk.parent] : /\ x.src = RowKey(fk.parent, q)
                                       /\ x.k = c.k
                                       /\ Refers(c.row, fk, x.row)
      BY <1>5, <1>6 DEF FollowsSource
    <2>2. /\ fk.parent \in Cloned(product)
          /\ \A i \in DOMAIN fk.cols : fk.pcols[i] \in PkColumns(fk.parent)
      BY <1>6, ReferenceToAKey
    <2>3. PICK e \in new[fk.parent] : e.src = x.src /\ e.k = x.k /\ Twin(x.row, e.row)
      BY <2>1, <2>2 DEF TwinClones
    <2>4. \A col \in PkColumns(fk.parent) : e.row[col] = x.row[col]
      <3>1. Columns(fk.parent) \subseteq DOMAIN x.row
        BY <2>2, CloneHasColumns
      <3>2. QED
        BY <2>2, <2>3, <3>1, TwinsAgree
    <2>5. Refers(d.row, fk, e.row)
      BY <1>3, <2>1, <2>2, <2>4 DEF Refers
    <2>6. QED
      BY <1>2, <2>1, <2>3, <2>5
  <1>7. ASSUME ~ (fk \in Remaps(product, t) /\ \E q \in p.lotes[fk.parent] : Refers(r, fk, q)),
               NEW n \in DOMAIN fk.cols
        PROVE  /\ d.row[fk.cols[n]] = r[fk.cols[n]]
               /\ <<t, fk.cols[n]>> \in Products[product].selective
                     => <<t, fk.cols[n], r[fk.cols[n]]>> \notin p.missing
    BY <1>3, <1>5, <1>7 DEF FollowsSource
  <1>8. QED
    BY <1>6, <1>7 DEF FollowsSource

(* It leaves the keys as they were.                                         *)
LEMMA TwinKeysHold ==
    ASSUME NEW product \in DOMAIN Products, NEW p, SnapshotOK(product, p), NEW made,
           NEW t \in OwnKeyed(product), TableHeld(product, p, made, t), NEW a, NEW database,
           KeysHeld(a, made, database, t), NEW new, TwinClones(made[t], new[t])
    PROVE  KeysHeld(a, new, database, t)
  <1>1. t \in Cloned(product) /\ PkColumns(t) = {Schema[t].pk[1]}
    BY OwnKeyColumn
  <1>2. PICK g : /\ DOMAIN g = made[t]
                 /\ new[t] = {g[c] : c \in made[t]}
                 /\ \A c \in made[t] : Twin(c.row, g[c].row)
    BY DEF TwinClones
  <1>3. ASSUME NEW c \in made[t]
        PROVE  g[c].row[Schema[t].pk[1]] = c.row[Schema[t].pk[1]] /\ RowKey(t, g[c].row) = RowKey(t, c.row)
    <2>1. Columns(t) \subseteq DOMAIN c.row
      BY <1>1, CloneHasColumns
    <2>2. QED
      BY <1>1, <1>2, <2>1, TwinsAgree
  <1> DEFINE pk == Schema[t].pk[1]
  <1> HIDE DEF pk
  <1>4. {c.row[pk] : c \in new[t]} = {c.row[pk] : c \in made[t]}
    BY <1>2, <1>3 DEF pk
  <1>5. \A c \in new[t] : \A r \in database[t] : RowKey(t, c.row) # RowKey(t, r)
    BY <1>2, <1>3 DEF KeysHeld
  <1>6. QED
    BY <1>4, <1>5 DEF KeysHeld, pk

(* So what is held of the clones under way is held of published ones.       *)
LEMMA TwinClonesHold ==
    ASSUME NEW product \in DOMAIN Products, NEW p, SnapshotOK(product, p), NEW a, NEW database,
           NEW made, ClonesOK(product, p, a, made, database), NEW new, DOMAIN new = DOMAIN made,
           \A t \in Cloned(product) : TwinClones(made[t], new[t])
    PROVE  ClonesOK(product, p, a, new, database)
  <1>1. /\ DOMAIN made = Cloned(product)
        /\ \A t \in Cloned(product) : TableHeld(product, p, made, t) /\ FamilyHeld(product, p, made, t)
        /\ \A t \in OwnKeyed(product) : KeysHeld(a, made, database, t)
        /\ Products[product].operations \/ Operations(p.lotes) = {}
    BY DEF ClonesOK
  <1>2. \A t \in Cloned(product) : TableHeld(product, p, new, t)
    BY <1>1, TwinTableHolds
  <1>3. \A t \in Cloned(product) : FamilyHeld(product, p, new, t)
    BY <1>1, TwinFamilyHolds
  <1>4. \A t \in OwnKeyed(product) : KeysHeld(a, new, database, t)
    BY <1>1, OwnKeyColumn, TwinKeysHold
  <1>5. QED
    BY <1>1, <1>2, <1>3, <1>4 DEF ClonesOK

-----------------------------------------------------------------------------
(* Instrument codes.                                                        *)

(* _code_slots numbers the rows of a table from 1 on without a gap.         *)
LEMMA SlotsFillTheRange ==
    ASSUME NEW rows, IsFiniteSet(rows), NEW pk, \A r \in rows : r[pk] \in Int,
           \A r, s \in rows : r[pk] = s[pk] => r = s
    PROVE  /\ Cardinality(rows) \in Nat
           /\ \A r \in rows : Slot(rows, pk, r) \in 1 .. Cardinality(rows)
           /\ \A n \in 1 .. Cardinality(rows) : \E r \in rows : Slot(rows, pk, r) = n
  <1> DEFINE below == [b \in rows |-> {r \in rows : r[pk] < b[pk]}]
             n == Cardinality(rows)
  <1>1. /\ below \in [rows -> SUBSET rows]
        /\ \A a, b \in rows : a # b => a \in below[b] \/ b \in below[a]
        /\ \A a \in rows : a \notin below[a]
        /\ \A a, b \in rows : a \in below[b] => below[a] \subseteq below[b]
    OBVIOUS
  <1>2. ASSUME NEW b \in rows
        PROVE  {r \in rows : r[pk] <= b[pk]} = below[b] \cup {b}
    OBVIOUS
  <1> HIDE DEF below
  <1>3. /\ \A a \in rows : Cardinality(below[a]) \in 0 .. n - 1
        /\ \A i \in 0 .. n - 1 : \E a \in rows : Cardinality(below[a]) = i
        /\ n \in Nat
    BY <1>1, RanksAreABijection
  <1>4. ASSUME NEW b \in rows
        PROVE  Slot(rows, pk, b) = Cardinality(below[b]) + 1
    <2>1. below[b] \in SUBSET rows /\ b \notin below[b]
      BY <1>1
    <2>2. IsFiniteSet(below[b])
      BY <2>1, FS_Subset
    <2>3. Cardinality(below[b] \cup {b}) = Cardinality(below[b]) + 1
      BY <2>1, <2>2, FS_AddElement
    <2>4. QED
      BY <1>2, <2>3 DEF Slot
  <1> HIDE DEF n
  <1>5. \A r \in rows : Slot(rows, pk, r) \in 1 .. n
    BY <1>3, <1>4
  <1>6. ASSUME NEW i \in 1 .. n
        PROVE  \E r \in rows : Slot(rows, pk, r) = i
    <2>1. i - 1 \in 0 .. n - 1 /\ (i - 1) + 1 = i
      BY <1>3
    <2>2. QED
      BY <1>3, <1>4, <2>1
  <1>7. QED
    BY <1>3, <1>5, <1>6 DEF n

CodesIn(rows) == {r["COD_IF"] : r \in rows}

CodeInterval(prefix, first, last) == {<<prefix, n>> : n \in first .. last}

(* The codes of an output are an interval, one code per instrument.         *)
LEMMA CodesFillTheRange ==
    ASSUME NEW rows, IsFiniteSet(rows), NEW pk, \A r \in rows : r[pk] \in Int,
           \A r, s \in rows : r[pk] = s[pk] => r = s, \A r \in rows : "COD_IF" \in DOMAIN r,
           NEW prefix, NEW start \in Int
    PROVE  CodesIn(Coded(rows, pk, "COD_IF", prefix, start))
              = CodeInterval(prefix, start, start + Cardinality(rows) - 1)
  <1> DEFINE n == Cardinality(rows)
             slot(r) == Slot(rows, pk, r)
             f(r) == [r EXCEPT !["COD_IF"] = <<prefix, start + slot(r) - 1>>]
  <1>1. /\ n \in Nat
        /\ \A r \in rows : slot(r) \in 1 .. n
        /\ \A i \in 1 .. n : \E r \in rows : slot(r) = i
    BY SlotsFillTheRange
  <1>2. Coded(rows, pk, "COD_IF", prefix, start) = {f(r) : r \in rows}
    BY DEF Coded
  <1> HIDE DEF n, slot
  <1>3. \A r \in rows : f(r)["COD_IF"] = <<prefix, start + slot(r) - 1>>
    OBVIOUS
  <1> HIDE DEF f
  <1>4. CodesIn(Coded(rows, pk, "COD_IF", prefix, start)) = {<<prefix, start + slot(r) - 1>> : r \in rows}
    BY <1>2, <1>3 DEF CodesIn
  <1>5. ASSUME NEW r \in rows
        PROVE  start + slot(r) - 1 \in start .. start + n - 1
    BY <1>1
  <1>6. ASSUME NEW i \in start .. start + n - 1
        PROVE  \E r \in rows : start + slot(r) - 1 = i
    <2>1. i - start + 1 \in 1 .. n
      BY <1>1
    <2>2. PICK r \in rows : slot(r) = i - start + 1
      BY <1>1, <2>1
    <2>3. start + slot(r) - 1 = i
      BY <2>2
    <2>4. QED
      BY <2>3
  <1>7. {<<prefix, start + slot(r) - 1>> : r \in rows} = {<<prefix, i>> : i \in start .. start + n - 1}
    BY <1>5, <1>6
  <1>8. QED
    BY <1>4, <1>7 DEF CodeInterval, n

-----------------------------------------------------------------------------
(* Control numbers.                                                         *)

(* A side of an operation before and after its operations are numbered.     *)
SideIsNumbered(operations, meu, new, o, i) ==
    LET n == WithNumbers(operations, meu, o)
    IN  /\ n \in new
        /\ MeuGroup(<<n, i>>) = MeuGroup(<<o, i>>)
        /\ MeuTuple(<<n, i>>)
              = << meu.date, Account(<<o, i>>),
                   <<meu.prefix, Ordinal(meu.schema, operations, meu.start, <<o, i>>)>>,
                   o["NUM_ID_TIPO_OPER_OBJETO_SERV"] >>
        /\ SameAccount(n) <=> SameAccount(o)

(* Numbering changes neither the groups of the sides nor their number.      *)
LEMMA NumberingKeepsSides ==
    ASSUME NEW operations, IsFiniteSet(operations),
           \A o \in operations : Columns(OPERACAO_TABELA) \subseteq DOMAIN o,
           NEW meu, NEW new, new = Numbered(operations, meu)
    PROVE  /\ IsFiniteSet(new)
           /\ \A o \in operations : \A i \in {1, 2} : SideIsNumbered(operations, meu, new, o, i)
           /\ \A s \in Sides(new) : \E o \in operations, i \in {1, 2} :
                 s = <<WithNumbers(operations, meu, o), i>>
  <1> DEFINE f == [o \in operations |-> WithNumbers(operations, meu, o)]
  <1>1. new = {f[o] : o \in operations} /\ DOMAIN f = operations
    BY NumbersAreRewritten
  <1>2. IsFiniteSet(new)
    <2> HIDE DEF f
    <2>1. QED
      BY <1>1, FiniteImage
  <1>3. ASSUME NEW o \in operations
        PROVE  LET n == WithNumbers(operations, meu, o)
               IN  /\ n["NUM_CONTA_PARTICIPANTE_P1"] = o["NUM_CONTA_PARTICIPANTE_P1"]
                   /\ n["NUM_CONTA_PARTICIPANTE_P2"] = o["NUM_CONTA_PARTICIPANTE_P2"]
                   /\ n["NUM_ID_TIPO_OPER_OBJETO_SERV"] = o["NUM_ID_TIPO_OPER_OBJETO_SERV"]
                   /\ n["DAT_OPERACAO"] = meu.date
                   /\ n["NUM_CONTROLE_LANCAMENTO_P1"]
                         = <<meu.prefix, Ordinal(meu.schema, operations, meu.start, <<o, 1>>)>>
                   /\ n["NUM_CONTROLE_LANCAMENTO_P2"]
                         = <<meu.prefix, Ordinal(meu.schema, operations, meu.start, <<o, 2>>)>>
    <2>1. { "DAT_OPERACAO", "NUM_CONTA_PARTICIPANTE_P1", "NUM_CONTA_PARTICIPANTE_P2",
            "NUM_ID_TIPO_OPER_OBJETO_SERV", "NUM_CONTROLE_LANCAMENTO_P1",
            "NUM_CONTROLE_LANCAMENTO_P2" } \subseteq DOMAIN o
      BY DEF Columns, OPERACAO_TABELA
    <2>2. QED
      BY <2>1 DEF WithNumbers
  <1>4. ASSUME NEW o \in operations, NEW i \in {1, 2}
        PROVE  SideIsNumbered(operations, meu, new, o, i)
    <2> DEFINE n == WithNumbers(operations, meu, o)
               number(x) == <<meu.prefix, Ordinal(meu.schema, operations, meu.start, <<o, x>>)>>
    <2>1. /\ n["NUM_CONTA_PARTICIPANTE_P1"] = o["NUM_CONTA_PARTICIPANTE_P1"]
          /\ n["NUM_CONTA_PARTICIPANTE_P2"] = o["NUM_CONTA_PARTICIPANTE_P2"]
          /\ n["NUM_ID_TIPO_OPER_OBJETO_SERV"] = o["NUM_ID_TIPO_OPER_OBJETO_SERV"]
          /\ n["DAT_OPERACAO"] = meu.date
          /\ n["NUM_CONTROLE_LANCAMENTO_P1"] = number(1)
          /\ n["NUM_CONTROLE_LANCAMENTO_P2"] = number(2)
      BY <1>3
    <2>2. n \in new
      BY <1>1
    <2> HIDE DEF n, number
    <2>3. /\ MeuGroup(<<n, i>>) = MeuGroup(<<o, i>>)
          /\ SameAccount(n) <=> SameAccount(o)
      BY <2>1 DEF MeuGroup, Account, SameAccount
    <2>4. MeuTuple(<<n, i>>) = << meu.date, Account(<<o, i>>), number(i),
                                  o["NUM_ID_TIPO_OPER_OBJETO_SERV"] >>
      BY <2>1 DEF MeuTuple, Account
    <2>5. QED
      BY <2>2, <2>3, <2>4 DEF n, number, SideIsNumbered
  <1>5. ASSUME NEW s \in Sides(new)
        PROVE  \E o \in operations, i \in {1, 2} : s = <<WithNumbers(operations, meu, o), i>>
    <2>1. PICK x \in new, i \in {1, 2} : s = <<x, i>>
      BY DEF Sides
    <2>2. PICK o \in operations : x = WithNumbers(operations, meu, o)
      BY <1>1
    <2>3. QED
      BY <2>1, <2>2
  <1>6. QED
    BY <1>2, <1>4, <1>5

(* Operations as they are numbered: with their columns, and keyed apart.    *)
OperationsAreKeyed(operations) ==
    /\ IsFiniteSet(operations)
    /\ \A o \in operations : /\ Columns(OPERACAO_TABELA) \subseteq DOMAIN o
                             /\ "NUM_ID_OPERACAO" \in DOMAIN o
                             /\ o["NUM_ID_OPERACAO"] \in Int
    /\ \A o, p \in operations : o["NUM_ID_OPERACAO"] = p["NUM_ID_OPERACAO"] => o = p

(* Numbering takes no two operations for one.                               *)
LEMMA NumberingSeparates ==
    ASSUME NEW operations, OperationsAreKeyed(operations), NEW meu,
           NEW o \in operations, NEW p \in operations,
           WithNumbers(operations, meu, o) = WithNumbers(operations, meu, p)
    PROVE  o = p
  <1>1. "NUM_ID_OPERACAO" \notin Generated
    BY DEF Generated
  <1>2. Twin(o, WithNumbers(operations, meu, o)) /\ Twin(p, WithNumbers(operations, meu, p))
    BY NumbersAreTwins
  <1>3. o["NUM_ID_OPERACAO"] = p["NUM_ID_OPERACAO"]
    <2>1. "NUM_ID_OPERACAO" \in DOMAIN o \ Generated /\ "NUM_ID_OPERACAO" \in DOMAIN p \ Generated
      BY <1>1 DEF OperationsAreKeyed
    <2>2. WithNumbers(operations, meu, o)["NUM_ID_OPERACAO"] = o["NUM_ID_OPERACAO"]
      BY <1>2, <2>1 DEF Twin
    <2>3. WithNumbers(operations, meu, p)["NUM_ID_OPERACAO"] = p["NUM_ID_OPERACAO"]
      BY <1>2, <2>1 DEF Twin
    <2>4. QED
      BY <2>2, <2>3
  <1>4. QED
    BY <1>3 DEF OperationsAreKeyed

(* Numbering, as the lemmas below use it.                                   *)
LEMMA NumberedOperation ==
    ASSUME NEW operations, OperationsAreKeyed(operations), NEW meu,
           NEW o \in operations, NEW i \in {1, 2}
    PROVE  /\ IsFiniteSet(Numbered(operations, meu))
           /\ WithNumbers(operations, meu, o) \in Numbered(operations, meu)
           /\ MeuGroup(<<WithNumbers(operations, meu, o), i>>) = MeuGroup(<<o, i>>)
           /\ SameAccount(WithNumbers(operations, meu, o)) <=> SameAccount(o)
  <1>1. /\ IsFiniteSet(operations)
        /\ \A x \in operations : Columns(OPERACAO_TABELA) \subseteq DOMAIN x
    BY DEF OperationsAreKeyed
  <1>2. /\ IsFiniteSet(Numbered(operations, meu))
        /\ SideIsNumbered(operations, meu, Numbered(operations, meu), o, i)
    BY <1>1, NumberingKeepsSides
  <1>3. QED
    BY <1>2 DEF SideIsNumbered

(* Every group has at least as many sides once its operations are numbered. *)
LEMMA GroupsStayAsLarge ==
    ASSUME NEW operations, OperationsAreKeyed(operations), NEW meu, NEW new,
           new = Numbered(operations, meu), NEW g
    PROVE  /\ Cardinality(SidesOf(operations, g)) \in Nat
           /\ Cardinality(SidesOf(new, g)) \in Nat
           /\ Cardinality(SidesOf(operations, g)) <= Cardinality(SidesOf(new, g))
  <1> DEFINE S == SidesOf(operations, g)
             f == [s \in S |-> <<WithNumbers(operations, meu, s[1]), s[2]>>]
  <1>1. /\ IsFiniteSet(operations)
        /\ \A o \in operations : Columns(OPERACAO_TABELA) \subseteq DOMAIN o
    BY DEF OperationsAreKeyed
  <1>2. \A o \in operations, i \in {1, 2} :
           /\ WithNumbers(operations, meu, o) \in new
           /\ MeuGroup(<<WithNumbers(operations, meu, o), i>>) = MeuGroup(<<o, i>>)
    BY NumberedOperation
  <1>3. IsFiniteSet(S) /\ IsFiniteSet(SidesOf(new, g))
    <2>1. IsFiniteSet(new)
      BY <1>1, NumberingKeepsSides
    <2>2. QED
      BY <1>1, <2>1, SidesAreFinite
  <1>4. ASSUME NEW s \in S
        PROVE  /\ s[1] \in operations /\ s[2] \in {1, 2} /\ s = <<s[1], s[2]>>
               /\ f[s] \in SidesOf(new, g)
    <2>1. s[1] \in operations /\ s[2] \in {1, 2} /\ s = <<s[1], s[2]>> /\ MeuGroup(s) = g
      BY DEF SidesOf, Sides
    <2>2. WithNumbers(operations, meu, s[1]) \in new
          /\ MeuGroup(<<WithNumbers(operations, meu, s[1]), s[2]>>) = g
      BY <1>2, <2>1
    <2>3. QED
      BY <2>1, <2>2 DEF SidesOf, Sides
  <1>5. ASSUME NEW s \in S, NEW u \in S, f[s] = f[u]
        PROVE  s = u
    <2>1. WithNumbers(operations, meu, s[1]) = WithNumbers(operations, meu, u[1]) /\ s[2] = u[2]
      BY <1>5
    <2>2. s[1] = u[1]
      BY <1>4, <2>1, NumberingSeparates
    <2>3. QED
      BY <1>4, <2>1, <2>2
  <1>6. DOMAIN f = S
    OBVIOUS
  <1> HIDE DEF f
  <1>7. Cardinality({f[s] : s \in S}) = Cardinality(S) /\ {f[s] : s \in S} \subseteq SidesOf(new, g)
    <2> HIDE DEF S
    <2>1. QED
      BY <1>3, <1>4, <1>5, <1>6, FiniteImage
  <1>8. QED
    BY <1>3, <1>7, FS_Subset, FS_CardinalityType

(* Numbers within a group stay within an interval as long as the largest.   *)
LEMMA GroupedOrdinalsFit ==
    ASSUME NEW operations, OperationsAreKeyed(operations), NEW meu,
           meu.start \in Int, meu.end \in Int,
           meu.end - meu.start + 1 = GroupedDemand(Numbered(operations, meu), 1),
           NEW o \in operations, NEW i \in {1, 2}
    PROVE  GroupedOrdinal(operations, meu.start, <<o, i>>) \in meu.start .. meu.end
  <1> DEFINE side == <<o, i>>
             g == MeuGroup(side)
             S == SidesOf(operations, g)
             B == {s \in S : SideBefore(s, side)}
             new == Numbered(operations, meu)
  <1>1. /\ IsFiniteSet(operations)
        /\ \A x \in operations : Columns(OPERACAO_TABELA) \subseteq DOMAIN x
        /\ o["NUM_ID_OPERACAO"] \in Int
    BY DEF OperationsAreKeyed
  <1>2. side \in S /\ side \notin B
    <2>1. side \in S
      BY DEF SidesOf, Sides
    <2>2. ~ SideBefore(side, side)
      BY <1>1 DEF SideBefore
    <2>3. QED
      BY <2>1, <2>2
  <1>3. Cardinality(B) \in Nat /\ Cardinality(S) \in Nat /\ Cardinality(B) < Cardinality(S)
    <2>1. IsFiniteSet(S) /\ B \in SUBSET S /\ B # S
      BY <1>1, <1>2, SidesAreFinite
    <2> HIDE DEF S, B
    <2>2. QED
      BY <2>1, FewerElements
  <1>4. Cardinality(SidesOf(new, g)) \in Nat /\ Cardinality(S) <= Cardinality(SidesOf(new, g))
    BY GroupsStayAsLarge
  <1>5. IsFiniteSet(new) /\ g \in MeuGroups(new)
    <2>1. /\ IsFiniteSet(new)
          /\ WithNumbers(operations, meu, o) \in new
          /\ MeuGroup(<<WithNumbers(operations, meu, o), i>>) = g
      BY NumberedOperation
    <2>2. QED
      BY <2>1 DEF MeuGroups, Sides
  <1>6. Cardinality(SidesOf(new, g)) <= GroupedDemand(new, 1) /\ GroupedDemand(new, 1) \in Nat
    <2>1. /\ GroupedDemand(new, 1) \in Nat
          /\ \A x \in MeuGroups(new) : Cardinality(SidesOf(new, x)) * 1 <= GroupedDemand(new, 1)
      BY <1>5, GroupsFitDemand
    <2>2. QED
      BY <1>4, <1>5, <2>1
  <1>7. GroupedOrdinal(operations, meu.start, side) = meu.start + Cardinality(B)
    BY DEF GroupedOrdinal
  <1> HIDE DEF B, S, new, g, side
  <1>8. meu.end - meu.start + 1 = GroupedDemand(new, 1)
    BY DEF new
  <1>9. GroupedOrdinal(operations, meu.start, side) \in meu.start .. meu.end
    BY <1>3, <1>4, <1>6, <1>7, <1>8
  <1>10. QED
    BY <1>9 DEF side

(* The sides that are numbered when all operations share an interval: the   *)
(* first ones, and the second ones of an account against itself.            *)
LegacySides(operations) == {s \in Sides(operations) : s[2] = 1 \/ SameAccount(s[1])}

(* There are as many of these sides as _meu_numero_ordinal_demand counts.   *)
LEMMA LegacySidesAreCounted ==
    ASSUME NEW operations, IsFiniteSet(operations)
    PROVE  /\ IsFiniteSet(LegacySides(operations))
           /\ Cardinality(operations) \in Nat
           /\ Cardinality({o \in operations : SameAccount(o)}) \in Nat
           /\ Cardinality(LegacySides(operations))
                 = Cardinality(operations) + Cardinality({o \in operations : SameAccount(o)})
  <1> DEFINE same == {o \in operations : SameAccount(o)}
             f == [o \in operations |-> <<o, 1>>]
             h == [o \in same |-> <<o, 2>>]
             A == {f[o] : o \in operations}
             B == {h[o] : o \in same}
  <1>1. IsFiniteSet(same) /\ Cardinality(operations) \in Nat /\ Cardinality(same) \in Nat
    BY FS_Subset, FS_CardinalityType
  <1>2. /\ DOMAIN f = operations /\ \A x, y \in operations : f[x] = f[y] => x = y
        /\ DOMAIN h = same /\ \A x, y \in same : h[x] = h[y] => x = y
    OBVIOUS
  <1>3. LegacySides(operations) = A \cup B
    <2>1. ASSUME NEW s \in LegacySides(operations)
          PROVE  s \in A \cup B
      <3>1. /\ s[1] \in operations /\ s[2] \in {1, 2} /\ s = <<s[1], s[2]>>
            /\ s[2] = 1 \/ SameAccount(s[1])
        BY DEF LegacySides, Sides
      <3>2. CASE s[2] = 1
        <4>1. s = f[s[1]]
          BY <3>1, <3>2
        <4>2. QED
          BY <3>1, <4>1
      <3>3. CASE s[2] # 1
        <4>1. s[1] \in same /\ s = h[s[1]]
          BY <3>1, <3>3
        <4>2. QED
          BY <4>1
      <3>4. QED
        BY <3>2, <3>3
    <2>2. ASSUME NEW o \in operations
          PROVE  f[o] \in LegacySides(operations)
      BY DEF LegacySides, Sides
    <2>3. ASSUME NEW o \in same
          PROVE  h[o] \in LegacySides(operations)
      BY DEF LegacySides, Sides
    <2>4. QED
      BY <2>1, <2>2, <2>3
  <1>4. A \cap B = {}
    <2>1. SUFFICES ASSUME NEW x \in operations, NEW y \in same, f[x] = h[y]
                   PROVE  FALSE
      OBVIOUS
    <2>2. QED
      BY <2>1
  <1> HIDE DEF f, h
  <1>5. IsFiniteSet(A) /\ Cardinality(A) = Cardinality(operations)
    BY <1>2, FiniteImage
  <1>6. IsFiniteSet(B) /\ Cardinality(B) = Cardinality(same)
    <2> HIDE DEF same
    <2>1. QED
      BY <1>1, <1>2, FiniteImage
  <1> HIDE DEF A, B
  <1>7. IsFiniteSet(A \cup B) /\ Cardinality(A \cup B) = Cardinality(A) + Cardinality(B)
    <2>1. /\ IsFiniteSet(A \cup B)
          /\ Cardinality(A \cup B) = Cardinality(A) + Cardinality(B) - Cardinality(A \cap B)
      BY <1>5, <1>6, FS_Union
    <2>2. Cardinality(A \cap B) = 0
      BY <1>4, FS_EmptySet
    <2>3. QED
      BY <1>1, <1>5, <1>6, <2>1, <2>2
  <1>8. QED
    BY <1>1, <1>3, <1>5, <1>6, <1>7

(* Numbered operations need no fewer numbers than they did before.          *)
LEMMA LegacyDemandStays ==
    ASSUME NEW operations, OperationsAreKeyed(operations), NEW meu
    PROVE  /\ LegacyDemand(Numbered(operations, meu), 1) \in Nat
           /\ Cardinality(LegacySides(operations)) <= LegacyDemand(Numbered(operations, meu), 1)
  <1> DEFINE new == Numbered(operations, meu)
             same == {o \in operations : SameAccount(o)}
             sameNew == {o \in new : SameAccount(o)}
             f == [o \in operations |-> WithNumbers(operations, meu, o)]
             h == [o \in same |-> WithNumbers(operations, meu, o)]
             A == {f[o] : o \in operations}
             B == {h[o] : o \in same}
  <1>1. IsFiniteSet(operations) /\ IsFiniteSet(same)
    BY FS_Subset DEF OperationsAreKeyed
  <1>2. new = A /\ B \subseteq sameNew
    <2>1. new = A
      BY NumbersAreRewritten
    <2>2. ASSUME NEW o \in same
          PROVE  h[o] \in sameNew
      <3>1. /\ WithNumbers(operations, meu, o) \in new
            /\ SameAccount(WithNumbers(operations, meu, o)) <=> SameAccount(o)
        BY NumberedOperation
      <3>2. QED
        BY <3>1
    <2>3. QED
      BY <2>1, <2>2
  <1>3. /\ DOMAIN f = operations /\ \A x, y \in operations : f[x] = f[y] => x = y
        /\ DOMAIN h = same /\ \A x, y \in same : h[x] = h[y] => x = y
    <2>1. \A x, y \in operations :
             WithNumbers(operations, meu, x) = WithNumbers(operations, meu, y) => x = y
      BY NumberingSeparates
    <2>2. QED
      BY <2>1
  <1>4. LegacyDemand(new, 1) = (Cardinality(new) + Cardinality(sameNew)) * 1
    BY DEF LegacyDemand
  <1>5. Cardinality(LegacySides(operations)) = Cardinality(operations) + Cardinality(same)
    BY <1>1, LegacySidesAreCounted
  <1> HIDE DEF f, h
  <1>6. IsFiniteSet(A) /\ Cardinality(A) = Cardinality(operations)
    BY <1>1, <1>3, FiniteImage
  <1>7. Cardinality(B) = Cardinality(same)
    <2> HIDE DEF same
    <2>1. QED
      BY <1>1, <1>3, FiniteImage
  <1>8. IsFiniteSet(sameNew)
    BY <1>2, <1>6, FS_Subset
  <1>9. Cardinality(B) <= Cardinality(sameNew)
    <2> HIDE DEF B, sameNew
    <2>1. QED
      BY <1>2, <1>8, FS_Subset
  <1>10. /\ Cardinality(operations) \in Nat /\ Cardinality(same) \in Nat
         /\ Cardinality(sameNew) \in Nat
    BY <1>1, <1>8, FS_CardinalityType
  <1>11. Cardinality(new) = Cardinality(operations)
    BY <1>2, <1>6
  <1> HIDE DEF new, same, sameNew, A, B
  <1>12. /\ LegacyDemand(new, 1) \in Nat
         /\ Cardinality(LegacySides(operations)) <= LegacyDemand(new, 1)
    BY <1>4, <1>5, <1>7, <1>9, <1>10, <1>11
  <1>13. QED
    BY <1>12 DEF new

(* Numbers over all operations stay within an interval of that length.      *)
LEMMA LegacyOrdinalsFit ==
    ASSUME NEW operations, OperationsAreKeyed(operations), NEW meu,
           meu.start \in Int, meu.end \in Int,
           meu.end - meu.start + 1 = LegacyDemand(Numbered(operations, meu), 1),
           NEW o \in operations, NEW i \in {1, 2}
    PROVE  LegacyOrdinal(operations, meu.start, <<o, i>>) \in meu.start .. meu.end
  <1> DEFINE N == LegacySides(operations)
             own == IF <<o, i>> \in N THEN <<o, i>> ELSE <<o, 1>>
             B == {s \in N : SideBefore(s, own)}
  <1>1. IsFiniteSet(operations) /\ o["NUM_ID_OPERACAO"] \in Int
    BY DEF OperationsAreKeyed
  <1>2. own \in N /\ own \notin B
    <2>1. <<o, 1>> \in N
      BY DEF LegacySides, Sides
    <2>2. own \in N /\ own[1] = o /\ own[2] \in {1, 2}
      BY <2>1
    <2>3. ~ SideBefore(own, own)
      BY <1>1, <2>2 DEF SideBefore
    <2>4. QED
      BY <2>2, <2>3
  <1>3. LegacyOrdinal(operations, meu.start, <<o, i>>) = meu.start + Cardinality(B)
    BY DEF LegacyOrdinal, LegacySides
  <1>4. IsFiniteSet(N)
    BY <1>1, LegacySidesAreCounted
  <1>5. Cardinality(B) \in Nat /\ Cardinality(N) \in Nat /\ Cardinality(B) < Cardinality(N)
    <2>1. B \in SUBSET N /\ B # N
      BY <1>2
    <2> HIDE DEF N, B
    <2>2. QED
      BY <1>4, <2>1, FewerElements
  <1>6. /\ LegacyDemand(Numbered(operations, meu), 1) \in Nat
        /\ Cardinality(N) <= LegacyDemand(Numbered(operations, meu), 1)
    BY LegacyDemandStays
  <1> HIDE DEF N, own, B
  <1>7. QED
    BY <1>3, <1>5, <1>6

(* So every control number that publication gives is one of its interval.   *)
LEMMA OrdinalsFit ==
    ASSUME NEW operations, OperationsAreKeyed(operations), NEW meu, NEW request,
           meu.start \in Int, meu.end \in Int,
           IntervalFits(Numbered(operations, meu), request, meu),
           NEW o \in operations, NEW i \in {1, 2}
    PROVE  Ordinal(meu.schema, operations, meu.start, <<o, i>>) \in meu.start .. meu.end
  <1>1. CASE meu.schema = 3
    <2>1. meu.end - meu.start + 1 = GroupedDemand(Numbered(operations, meu), 1)
      BY <1>1 DEF IntervalFits
    <2>2. QED
      BY <1>1, <2>1, GroupedOrdinalsFit DEF Ordinal
  <1>2. CASE meu.schema # 3
    <2>1. meu.end - meu.start + 1 = LegacyDemand(Numbered(operations, meu), 1)
      BY <1>2 DEF IntervalFits
    <2>2. QED
      BY <1>2, <2>1, LegacyOrdinalsFit DEF Ordinal
  <1>3. QED
    BY <1>1, <1>2

-----------------------------------------------------------------------------
(* What publication writes.                                                 *)

(* Clones that are left as they are.                                        *)
LEMMA SameClones ==
    ASSUME NEW made, \A c \in made : IsClone(c)
    PROVE  TwinClones(made, made)
  <1> DEFINE g == [c \in made |-> c]
  <1>1. DOMAIN g = made /\ made = {g[c] : c \in made}
    OBVIOUS
  <1>2. \A c \in made : /\ IsClone(g[c]) /\ g[c].src = c.src /\ g[c].k = c.k
                        /\ Twin(c.row, g[c].row)
    BY DEF Twin
  <1> HIDE DEF g
  <1>3. QED
    BY <1>1, <1>2 DEF TwinClones

(* A table with no row selected has no clone.                               *)
LEMMA NothingToClone ==
    ASSUME NEW product, NEW p, NEW made, NEW t, TableHeld(product, p, made, t), p.lotes[t] = {}
    PROVE  made[t] = {}
  <1>1. {<<c.src, c.k>> : c \in made[t]} = {}
    BY DEF TableHeld, Copies
  <1>2. QED
    BY <1>1

(* The operations that publication writes.                                  *)
OperationsWritten(j) ==
    IF Products[Product(j)].operations THEN CodedOperations(j, CodedRoots(j)) ELSE {}

ClonesWritten(j) ==
    [ t \in DOMAIN clones[j] |->
        CASE t = TABELA_RAIZ -> WithRows(j, t, CodedRoots(j))
          [] t = OPERACAO_TABELA -> WithRows(j, t, OperationsWritten(j))
          [] OTHER -> clones[j][t] ]

(* The rows of both tables are the clones', rewritten.                      *)
LEMMA RootsAreRewritten ==
    ASSUME NEW j \in Jobs
    PROVE  RowsRewritten(RowsMade(j, TABELA_RAIZ), CodedRoots(j))
  <1>1. "COD_IF" \in Generated
    BY DEF Generated
  <1>2. \A prefix, start : RowsRewritten(RowsMade(j, TABELA_RAIZ),
            Coded(RowsMade(j, TABELA_RAIZ), "NUM_IF", "COD_IF", prefix, start))
    BY <1>1, CodesAreRewritten
  <1>3. QED
    BY <1>2 DEF CodedRoots

(* Operations as they are before they get their control numbers.            *)
OwnOperations(j) ==
    Coded(Propagated(CodedRoots(j), RowsMade(j, OPERACAO_TABELA)), "NUM_ID_OPERACAO",
          "COD_OPERACAO", "OPER", allocated + CodesTaken(j) + 1)

(* The codes and control numbers of the operations are all that is written. *)
LEMMA OperationsAreRewritten ==
    ASSUME NEW j \in Jobs
    PROVE  /\ RowsRewritten(RowsMade(j, OPERACAO_TABELA), OwnOperations(j))
           /\ RowsRewritten(RowsMade(j, OPERACAO_TABELA), CodedOperations(j, CodedRoots(j)))
           /\ CodedOperations(j, CodedRoots(j))
                 = IF reservation[j].meu = Absent
                   THEN OwnOperations(j)
                   ELSE Numbered(OwnOperations(j), reservation[j].meu)
  <1> DEFINE old == RowsMade(j, OPERACAO_TABELA)
             mid == Propagated(CodedRoots(j), old)
             own == OwnOperations(j)
             new == CodedOperations(j, CodedRoots(j))
  <1>1. RowsRewritten(old, mid)
    BY PropagationRewrites
  <1>2. RowsRewritten(mid, own)
    <2>1. "COD_OPERACAO" \in Generated
      BY DEF Generated
    <2> HIDE DEF old, mid
    <2>2. own = Coded(mid, "NUM_ID_OPERACAO", "COD_OPERACAO", "OPER",
                      allocated + CodesTaken(j) + 1)
      BY DEF OwnOperations, mid, old
    <2>3. QED
      BY <2>1, <2>2, CodesAreRewritten
  <1>3. new = IF reservation[j].meu = Absent THEN own ELSE Numbered(own, reservation[j].meu)
    BY DEF CodedOperations, OwnOperations, RowsMade
  <1>4. RowsRewritten(own, Numbered(own, reservation[j].meu))
    BY NumbersAreRewritten
  <1> HIDE DEF old, mid, own, new
  <1>5. RowsRewritten(old, own)
    BY <1>1, <1>2, RewrittenTwice
  <1>6. RowsRewritten(old, new)
    BY <1>3, <1>4, <1>5, RewrittenTwice
  <1>7. QED
    BY <1>3, <1>5, <1>6 DEF old, own, new

(* What a job publishes are its clones, with generated columns rewritten.   *)
LEMMA ClonesAreWritten ==
    ASSUME NEW j \in Jobs, Product(j) \in DOMAIN Products,
           SnapshotOK(Product(j), plan[j]),
           ClonesOK(Product(j), plan[j], reservation[j], clones[j], seen[j])
    PROVE  /\ DOMAIN ClonesWritten(j) = Cloned(Product(j))
           /\ \A t \in Cloned(Product(j)) : TwinClones(clones[j][t], ClonesWritten(j)[t])
           /\ {c.row : c \in ClonesWritten(j)[TABELA_RAIZ]} = CodedRoots(j)
           /\ OPERACAO_TABELA \in Cloned(Product(j)) =>
                 {c.row : c \in ClonesWritten(j)[OPERACAO_TABELA]} = OperationsWritten(j)
  <1> DEFINE product == Product(j)
             new == ClonesWritten(j)
  <1>1. /\ DOMAIN clones[j] = Cloned(product)
        /\ \A t \in Cloned(product) : TableHeld(product, plan[j], clones[j], t)
        /\ Products[product].operations \/ Operations(plan[j].lotes) = {}
    BY DEF ClonesOK
  <1>2. ASSUME NEW t \in Cloned(product), NEW rows, RowsRewritten(RowsMade(j, t), rows)
        PROVE  TwinClones(clones[j][t], WithRows(j, t, rows))
               /\ {c.row : c \in WithRows(j, t, rows)} = rows
    <2> DEFINE made == clones[j][t]
    <2>1. /\ \A c \in made : IsClone(c)
          /\ \A c, d \in made : RowKey(t, c.row) = RowKey(t, d.row) => c = d
      BY <1>1 DEF TableHeld
    <2>2. \A c \in made : Columns(t) \subseteq DOMAIN c.row
      BY <1>1, CloneHasColumns
    <2>3. WithRows(j, t, rows) = Rejoined(t, made, rows)
      BY DEF WithRows, Rejoined
    <2>4. RowsRewritten({c.row : c \in made}, rows)
      BY <1>2 DEF RowsMade
    <2> HIDE DEF made
    <2>5. /\ TwinClones(made, Rejoined(t, made, rows))
          /\ {c.row : c \in Rejoined(t, made, rows)} = rows
      BY <2>1, <2>2, <2>4, ClonesAreRejoined
    <2>6. QED
      BY <2>3, <2>5 DEF made
  <1>3. TABELA_RAIZ \in Cloned(product) /\ TABELA_RAIZ # OPERACAO_TABELA
    BY ProductsArePlannable DEF OwnKeyed, TABELA_RAIZ, OPERACAO_TABELA
  <1>4. new[TABELA_RAIZ] = WithRows(j, TABELA_RAIZ, CodedRoots(j))
    BY <1>1, <1>3 DEF ClonesWritten
  <1>5. RowsRewritten(RowsMade(j, OPERACAO_TABELA), OperationsWritten(j))
        \/ OPERACAO_TABELA \notin Cloned(product)
    <2>1. CASE Products[product].operations
      BY <2>1, OperationsAreRewritten DEF OperationsWritten
    <2>2. CASE ~ Products[product].operations /\ OPERACAO_TABELA \in Cloned(product)
      <3>1. plan[j].lotes[OPERACAO_TABELA] = {}
        BY <1>1, <2>2 DEF Operations, SnapshotOK
      <3>2. clones[j][OPERACAO_TABELA] = {}
        BY <1>1, <2>2, <3>1, NothingToClone
      <3>3. RowsMade(j, OPERACAO_TABELA) = {} /\ OperationsWritten(j) = {}
        BY <2>2, <3>2 DEF RowsMade, OperationsWritten
      <3>4. RowsRewritten({}, {})
        <4> DEFINE f == [x \in {} |-> x]
        <4>1. DOMAIN f = {} /\ {} = {f[r] : r \in {}} /\ \A r \in {} : Twin(r, f[r])
          OBVIOUS
        <4> HIDE DEF f
        <4>2. QED
          BY <4>1 DEF RowsRewritten
      <3>5. QED
        BY <3>3, <3>4
    <2>3. QED
      BY <2>1, <2>2
  <1>6. ASSUME OPERACAO_TABELA \in Cloned(product)
        PROVE  new[OPERACAO_TABELA] = WithRows(j, OPERACAO_TABELA, OperationsWritten(j))
    BY <1>1, <1>3, <1>6 DEF ClonesWritten
  <1>7. ASSUME NEW t \in Cloned(product), t # TABELA_RAIZ, t # OPERACAO_TABELA
        PROVE  TwinClones(clones[j][t], new[t])
    <2>1. new[t] = clones[j][t]
      BY <1>1, <1>7 DEF ClonesWritten
    <2>2. \A c \in clones[j][t] : IsClone(c)
      BY <1>1 DEF TableHeld
    <2>3. QED
      BY <2>1, <2>2, SameClones
  <1>8. DOMAIN new = Cloned(product)
    BY <1>1 DEF ClonesWritten
  <1>9. RowsRewritten(RowsMade(j, TABELA_RAIZ), CodedRoots(j))
    BY RootsAreRewritten
  <1>10. QED
    BY <1>2, <1>3, <1>4, <1>5, <1>6, <1>7, <1>8, <1>9

(* The rows of the clones of a table with keys of its own: as many as there *)
(* are clones, numbered and keyed apart.                                    *)
LEMMA OwnKeyedRows ==
    ASSUME NEW product \in DOMAIN Products, NEW p, SnapshotOK(product, p),
           NEW a, ReservationOK(product, p, a), NEW made, NEW database,
           ClonesOK(product, p, a, made, database), NEW t \in OwnKeyed(product),
           NEW pk, Schema[t].pk = <<pk>>
    PROVE  LET rows == {c.row : c \in made[t]}
           IN  /\ IsFiniteSet(rows) /\ Cardinality(rows) = Cardinality(made[t])
               /\ Cardinality(rows) \in Nat
               /\ \A r \in rows : r[pk] \in Int /\ Columns(t) \subseteq DOMAIN r
               /\ \A r, s \in rows : r[pk] = s[pk] => r = s
  <1> DEFINE S == made[t]
             f == [c \in S |-> c.row]
             rows == {c.row : c \in S}
  <1>1. t \in Cloned(product) /\ Schema[t].pk[1] = pk
        /\ \A r, s : RowKey(t, r) = RowKey(t, s) <=> r[pk] = s[pk]
    BY OwnKeyColumn
  <1>2. /\ IsFiniteSet(S)
        /\ \A c, d \in S : RowKey(t, c.row) = RowKey(t, d.row) => c = d
    BY <1>1 DEF ClonesOK, TableHeld
  <1>3. \A c, d \in S : f[c] = f[d] => c = d
    BY <1>2
  <1>4. DOMAIN f = S /\ rows = {f[c] : c \in S}
    OBVIOUS
  <1>5. IsFiniteSet(rows) /\ Cardinality(rows) = Cardinality(S) /\ Cardinality(rows) \in Nat
    <2> HIDE DEF f, S, rows
    <2>1. QED
      BY <1>2, <1>3, <1>4, FiniteImage
  <1>6. \A c \in S : c.row[pk] \in Int
    <2>1. {c.row[Schema[t].pk[1]] : c \in S} = IF a.pk[t] = Absent THEN {} ELSE PkSlots(a.pk[t])
      BY DEF ClonesOK, KeysHeld
    <2>2. ASSUME a.pk[t] # Absent
          PROVE  PkSlots(a.pk[t]) \subseteq Int
      BY DEF PkSlots
    <2>3. QED
      BY <1>1, <2>1, <2>2
  <1>7. \A c \in S : Columns(t) \subseteq DOMAIN c.row
    <2>1. TableHeld(product, p, made, t)
      BY <1>1 DEF ClonesOK
    <2>2. QED
      BY <1>1, <2>1, CloneHasColumns
  <1>8. \A r, s \in rows : r[pk] = s[pk] => r = s
    BY <1>1, <1>2
  <1>9. QED
    BY <1>5, <1>6, <1>7, <1>8

(* The codes of a published output: those of its reservation, or the next   *)
(* ones of Oracle's package; in either case none that Oracle holds.         *)
LEMMA CodesAreReserved ==
    ASSUME NEW j \in Jobs, Product(j) \in DOMAIN Products,
           SnapshotOK(Product(j), plan[j]),
           ReservationOK(Product(j), plan[j], reservation[j]),
           ClonesOK(Product(j), plan[j], reservation[j], clones[j], seen[j]),
           OracleOK(Product(j), oracle, allocated), allocated \in Nat, CdbRangeFree(j)
    PROVE  /\ CodesTaken(j) \in Nat
           /\ CodesIn(CodedRoots(j)) =
                 IF Products[Product(j)].cdb
                 THEN CodeInterval(CodePrefix, reservation[j].cdb.start, reservation[j].cdb.end)
                 ELSE CodeInterval(PackagePrefix, allocated + 1, allocated + CodesTaken(j))
           /\ CodesIn(CodedRoots(j)) \cap CodesIn(oracle[TABELA_RAIZ]) = {}
  <1> DEFINE product == Product(j)
             rows == RowsMade(j, TABELA_RAIZ)
             n == Cardinality(clones[j][TABELA_RAIZ])
             first == reservation[j].cdb.start
             last == reservation[j].cdb.end
  <1>1. TABELA_RAIZ \in OwnKeyed(product) /\ Schema[TABELA_RAIZ].pk = <<"NUM_IF">>
    BY ProductsArePlannable
  <1>2. /\ IsFiniteSet(rows) /\ Cardinality(rows) = n /\ n \in Nat
        /\ \A r \in rows : r["NUM_IF"] \in Int /\ Columns(TABELA_RAIZ) \subseteq DOMAIN r
        /\ \A r, s \in rows : r["NUM_IF"] = s["NUM_IF"] => r = s
    BY <1>1, OwnKeyedRows DEF RowsMade
  <1>3. \A r \in rows : "COD_IF" \in DOMAIN r
    <2>1. "COD_IF" \in Columns(TABELA_RAIZ)
      BY DEF Columns, TABELA_RAIZ, OPERACAO_TABELA
    <2>2. QED
      BY <1>2, <2>1
  <1>4. CodesTaken(j) \in Nat
    BY <1>2 DEF CodesTaken
  <1>5. \A prefix : \A start \in Int :
           CodesIn(Coded(rows, "NUM_IF", "COD_IF", prefix, start))
              = CodeInterval(prefix, start, start + n - 1)
    <2> HIDE DEF rows, n
    <2>1. QED
      BY <1>2, <1>3, CodesFillTheRange
  <1>6. CASE Products[product].cdb
    <2>1. reservation[j].cdb # Absent
      BY <1>6 DEF SnapshotOK, ReservationOK
    <2>2. first \in Int /\ last \in Int
      BY <2>1 DEF ReservationOK, ArtifactShape
    <2>3. /\ Cardinality(first .. last) = n
          /\ LiveSuffixes(oracle) \cap (first .. last) = {}
      BY <1>6 DEF CdbRangeFree
    <2>4. Cardinality(first .. last) = IF first <= last THEN last - first + 1 ELSE 0
      <3> HIDE DEF first, last
      <3>1. CASE first > last
        <4>1. first .. last = {}
          BY <2>2, <3>1
        <4>2. QED
          BY <2>2, <3>1, <4>1, FS_EmptySet
      <3>2. CASE first <= last
        BY <2>2, <3>2, FS_Interval
      <3>3. QED
        BY <2>2, <3>1, <3>2
    <2>5. CodesIn(CodedRoots(j)) = CodeInterval(CodePrefix, first, first + n - 1)
      BY <1>5, <1>6, <2>2 DEF CodedRoots
    <2> HIDE DEF n, first, last
    <2>6. first .. first + n - 1 = first .. last
      BY <1>2, <2>2, <2>3, <2>4
    <2>7. CodesIn(CodedRoots(j)) = CodeInterval(CodePrefix, first, last)
      BY <2>5, <2>6 DEF CodeInterval
    <2>8. CodesIn(CodedRoots(j)) \cap CodesIn(oracle[TABELA_RAIZ]) = {}
      <3>1. SUFFICES ASSUME NEW r \in oracle[TABELA_RAIZ], r["COD_IF"] \in CodesIn(CodedRoots(j))
                     PROVE  FALSE
        BY DEF CodesIn
      <3>2. PICK m \in first .. last : r["COD_IF"] = <<CodePrefix, m>>
        BY <2>7, <3>1 DEF CodeInterval
      <3>3. m \in LiveSuffixes(oracle)
        <4>1. r["COD_IF"][1] = CodePrefix /\ r["COD_IF"][2] = m
          BY <3>2
        <4>2. QED
          BY <3>1, <4>1 DEF LiveSuffixes
      <3>4. QED
        BY <2>3, <3>2, <3>3
    <2>9. QED
      BY <1>4, <1>6, <2>7, <2>8 DEF first, last
  <1>7. CASE ~ Products[product].cdb
    <2>1. CodesTaken(j) = n
      BY <1>7 DEF CodesTaken
    <2>2. CodesIn(CodedRoots(j)) = CodeInterval(PackagePrefix, allocated + 1, (allocated + 1) + n - 1)
      BY <1>5, <1>7 DEF CodedRoots
    <2> HIDE DEF n
    <2>3. (allocated + 1) + n - 1 = allocated + CodesTaken(j)
      BY <1>2, <2>1
    <2>4. CodesIn(CodedRoots(j))
             = CodeInterval(PackagePrefix, allocated + 1, allocated + CodesTaken(j))
      BY <2>2, <2>3
    <2>5. CodesIn(CodedRoots(j)) \cap CodesIn(oracle[TABELA_RAIZ]) = {}
      <3>1. SUFFICES ASSUME NEW r \in oracle[TABELA_RAIZ], r["COD_IF"] \in CodesIn(CodedRoots(j))
                     PROVE  FALSE
        BY DEF CodesIn
      <3>2. PICK m \in allocated + 1 .. allocated + CodesTaken(j) : r["COD_IF"] = <<PackagePrefix, m>>
        BY <2>4, <3>1 DEF CodeInterval
      <3>3. r["COD_IF"][1] = PackagePrefix /\ r["COD_IF"][2] = m
        BY <3>2
      <3>4. r["COD_IF"][2] \in Int /\ r["COD_IF"][2] <= allocated
        BY <3>1, <3>3 DEF OracleOK
      <3>5. QED
        BY <3>2, <3>3, <3>4
    <2>6. QED
      BY <1>4, <1>7, <2>4, <2>5
  <1>8. QED
    BY <1>6, <1>7

(* Rewritten operations are keyed as they were.                             *)
LEMMA RewrittenOperations ==
    ASSUME NEW product \in DOMAIN Products, OPERACAO_TABELA \in Cloned(product),
           NEW rows, OperationsAreKeyed(rows), NEW new, RowsRewritten(rows, new)
    PROVE  OperationsAreKeyed(new)
  <1>1. PICK f : /\ DOMAIN f = rows
                 /\ new = {f[r] : r \in rows}
                 /\ \A r \in rows : Twin(r, f[r])
    BY DEF RowsRewritten
  <1>2. /\ IsFiniteSet(rows)
        /\ \A o \in rows : /\ Columns(OPERACAO_TABELA) \subseteq DOMAIN o
                           /\ "NUM_ID_OPERACAO" \in DOMAIN o
                           /\ o["NUM_ID_OPERACAO"] \in Int
        /\ \A o, p \in rows : o["NUM_ID_OPERACAO"] = p["NUM_ID_OPERACAO"] => o = p
    BY DEF OperationsAreKeyed
  <1>3. IsFiniteSet(new)
    BY <1>1, <1>2, FiniteImage
  <1>4. ASSUME NEW r \in rows
        PROVE  /\ Columns(OPERACAO_TABELA) \subseteq DOMAIN f[r]
               /\ "NUM_ID_OPERACAO" \in DOMAIN f[r]
               /\ f[r]["NUM_ID_OPERACAO"] = r["NUM_ID_OPERACAO"]
    <2>1. DOMAIN f[r] = DOMAIN r
      BY <1>1 DEF Twin
    <2>2. "NUM_ID_OPERACAO" \in DOMAIN r \ Generated
      BY <1>2 DEF Generated
    <2>3. f[r]["NUM_ID_OPERACAO"] = r["NUM_ID_OPERACAO"]
      BY <1>1, <2>2 DEF Twin
    <2>4. QED
      BY <1>2, <2>1, <2>2, <2>3
  <1>5. \A o, p \in new : o["NUM_ID_OPERACAO"] = p["NUM_ID_OPERACAO"] => o = p
    BY <1>1, <1>2, <1>4
  <1>6. \A o \in new : /\ Columns(OPERACAO_TABELA) \subseteq DOMAIN o
                       /\ "NUM_ID_OPERACAO" \in DOMAIN o
                       /\ o["NUM_ID_OPERACAO"] \in Int
    BY <1>1, <1>2, <1>4
  <1>7. QED
    BY <1>3, <1>5, <1>6 DEF OperationsAreKeyed

(* A side holds a control number of an interval, for one of its groups.     *)
NumberIsHeld(meu, s) ==
    /\ \E n \in meu.start .. meu.end :
          MeuTuple(s) = << meu.date, Account(s), <<meu.prefix, n>>,
                           s[1]["NUM_ID_TIPO_OPER_OBJETO_SERV"] >>
    /\ meu.schema = 3 => MeuGroup(s) \in meu.groups

NumbersHeld(a, operations) ==
    IF a.meu = Absent
    THEN operations = {}
    ELSE \A s \in Sides(operations) : NumberIsHeld(a.meu, s)

(* Numbered operations hold the numbers of their interval.                  *)
LEMMA NumbersAreHeld ==
    ASSUME NEW own, OperationsAreKeyed(own), NEW meu, NEW request,
           meu.start \in Int, meu.end \in Int, meu.groups = request.groups,
           IntervalFits(Numbered(own, meu), request, meu),
           NEW s \in Sides(Numbered(own, meu))
    PROVE  NumberIsHeld(meu, s)
  <1> DEFINE new == Numbered(own, meu)
  <1>1. /\ IsFiniteSet(own)
        /\ \A o \in own : Columns(OPERACAO_TABELA) \subseteq DOMAIN o
    BY DEF OperationsAreKeyed
  <1>2. /\ \A o \in own : \A i \in {1, 2} : SideIsNumbered(own, meu, new, o, i)
        /\ \A x \in Sides(new) : \E o \in own, i \in {1, 2} : x = <<WithNumbers(own, meu, o), i>>
    BY <1>1, NumberingKeepsSides
  <1>3. PICK o \in own, i \in {1, 2} : s = <<WithNumbers(own, meu, o), i>>
    BY <1>2
  <1>4. /\ MeuGroup(s) = MeuGroup(<<o, i>>)
        /\ MeuTuple(s) = << meu.date, Account(<<o, i>>),
                            <<meu.prefix, Ordinal(meu.schema, own, meu.start, <<o, i>>)>>,
                            o["NUM_ID_TIPO_OPER_OBJETO_SERV"] >>
    BY <1>2, <1>3 DEF SideIsNumbered
  <1>5. /\ Account(s) = Account(<<o, i>>)
        /\ s[1]["NUM_ID_TIPO_OPER_OBJETO_SERV"] = o["NUM_ID_TIPO_OPER_OBJETO_SERV"]
    BY <1>4 DEF MeuGroup
  <1>6. Ordinal(meu.schema, own, meu.start, <<o, i>>) \in meu.start .. meu.end
    BY OrdinalsFit
  <1>7. meu.schema = 3 => MeuGroup(s) \in meu.groups
    <2>1. meu.schema = 3 => MeuGroups(new) = meu.groups
      BY DEF IntervalFits
    <2>2. MeuGroup(s) \in MeuGroups(new)
      BY DEF MeuGroups
    <2>3. QED
      BY <2>1, <2>2
  <1>8. QED
    BY <1>4, <1>5, <1>6, <1>7 DEF NumberIsHeld

(* The operations of a product are keyed apart.                             *)
LEMMA OperationsOfClones ==
    ASSUME NEW product \in DOMAIN Products, Products[product].operations,
           NEW p, SnapshotOK(product, p), NEW a, ReservationOK(product, p, a),
           NEW made, NEW database, ClonesOK(product, p, a, made, database)
    PROVE  /\ OPERACAO_TABELA \in Cloned(product)
           /\ OperationsAreKeyed({c.row : c \in made[OPERACAO_TABELA]})
  <1>1. /\ OPERACAO_TABELA \in OwnKeyed(product)
        /\ Schema[OPERACAO_TABELA].pk = <<"NUM_ID_OPERACAO">>
    BY ProductsArePlannable
  <1> DEFINE rows == {c.row : c \in made[OPERACAO_TABELA]}
  <1>2. /\ IsFiniteSet(rows) /\ Cardinality(rows) = Cardinality(made[OPERACAO_TABELA])
        /\ Cardinality(rows) \in Nat
        /\ \A r \in rows : r["NUM_ID_OPERACAO"] \in Int /\ Columns(OPERACAO_TABELA) \subseteq DOMAIN r
        /\ \A r, s \in rows : r["NUM_ID_OPERACAO"] = s["NUM_ID_OPERACAO"] => r = s
    BY <1>1, OwnKeyedRows
  <1>3. "NUM_ID_OPERACAO" \in Columns(OPERACAO_TABELA)
    <2>1. PkColumns(OPERACAO_TABELA) = {"NUM_ID_OPERACAO"}
      BY <1>1, OwnKeyColumn
    <2>2. QED
      BY <2>1 DEF Columns
  <1>4. QED
    BY <1>1, <1>2, <1>3 DEF OperationsAreKeyed, OwnKeyed

(* The control numbers of a published output are those of its reservation.  *)
LEMMA NumbersAreReserved ==
    ASSUME NEW j \in Jobs, Product(j) \in DOMAIN Products,
           SnapshotOK(Product(j), plan[j]),
           ReservationOK(Product(j), plan[j], reservation[j]),
           ClonesOK(Product(j), plan[j], reservation[j], clones[j], seen[j]),
           reservation[j].meu # Absent
              => IntervalFits(OperationsWritten(j), plan[j].request, reservation[j].meu)
    PROVE  NumbersHeld(reservation[j], OperationsWritten(j))
  <1> DEFINE product == Product(j)
             a == reservation[j]
             rows == RowsMade(j, OPERACAO_TABELA)
             own == OwnOperations(j)
  <1>1. a.meu # Absent <=> plan[j].request.ordinals # 0
    BY DEF ReservationOK
  <1>2. plan[j].request.ordinals = 0
           <=> ~ (Products[product].operations /\ Operations(plan[j].lotes) # {})
    BY DEF SnapshotOK
  <1>3. CASE ~ Products[product].operations
    <2>1. OperationsWritten(j) = {} /\ a.meu = Absent
      BY <1>1, <1>2, <1>3 DEF OperationsWritten
    <2>2. QED
      BY <2>1 DEF NumbersHeld
  <1>4. CASE Products[product].operations
    <2>1. OPERACAO_TABELA \in Cloned(product) /\ OperationsAreKeyed(rows)
      BY <1>4, OperationsOfClones DEF RowsMade
    <2>2. /\ RowsRewritten(rows, own)
          /\ OperationsWritten(j) = IF a.meu = Absent THEN own ELSE Numbered(own, a.meu)
      BY <1>4, OperationsAreRewritten DEF OperationsWritten
    <2>3. CASE a.meu = Absent
      <3>1. plan[j].lotes[OPERACAO_TABELA] = {}
        BY <1>1, <1>2, <1>4, <2>1, <2>3 DEF Operations, SnapshotOK
      <3>2. clones[j][OPERACAO_TABELA] = {}
        <4>1. TableHeld(product, plan[j], clones[j], OPERACAO_TABELA)
          BY <2>1 DEF ClonesOK
        <4>2. QED
          BY <3>1, <4>1, NothingToClone
      <3>3. rows = {}
        BY <3>2 DEF RowsMade
      <3>4. own = {}
        BY <2>2, <3>3 DEF RowsRewritten
      <3>5. QED
        BY <2>2, <2>3, <3>4 DEF NumbersHeld
    <2>4. CASE a.meu # Absent
      <3>1. OperationsAreKeyed(own)
        BY <2>1, <2>2, RewrittenOperations
      <3>2. a.meu.start \in Int /\ a.meu.end \in Int /\ a.meu.groups = plan[j].request.groups
        BY <2>4 DEF ReservationOK, ArtifactShape
      <3>3. IntervalFits(Numbered(own, a.meu), plan[j].request, a.meu)
        BY <2>2, <2>4
      <3> HIDE DEF own, a
      <3>4. \A s \in Sides(Numbered(own, a.meu)) : NumberIsHeld(a.meu, s)
        BY <3>1, <3>2, <3>3, NumbersAreHeld
      <3>5. NumbersHeld(a, OperationsWritten(j))
        BY <2>2, <2>4, <3>4 DEF NumbersHeld
      <3>6. QED
        BY <3>5 DEF a
    <2>5. QED
      BY <2>3, <2>4
  <1>5. QED
    BY <1>3, <1>4

-----------------------------------------------------------------------------
(* The invariant.                                                           *)

(* Phases in which a job has its plan, its reservation, its clones, and has *)
(* published them.                                                          *)
PlannedPhases == {"planned", "reserved", "cloned", "published", "loaded"}
ReservedPhases == {"reserved", "cloned", "published", "loaded"}
ClonedPhases == {"cloned", "published", "loaded"}
OutputPhases == {"published", "loaded"}

(* Oracle only gains rows.                                                  *)
Grown(old, new) == DOMAIN new = DOMAIN old /\ \A t \in DOMAIN old : old[t] \subseteq new[t]

PlanHeld(product, p, database) == SnapshotOK(product, p) /\ SnapshotResolves(product, p, database)

ReservationHeld(product, p, a, history) ==
    ReservationOK(product, p, a) /\ \E n \in DOMAIN history : history[n] = a

ClonesHeld(product, p, a, made, read, database) ==
    ClonesOK(product, p, a, made, read) /\ Grown(read, database)

CodesHeld(product, a, rows, codes) ==
    IF Products[product].cdb
    THEN CodesIn(rows) = CodeInterval(CodePrefix, a.cdb.start, a.cdb.end)
    ELSE CodesIn(rows) \subseteq CodeInterval(PackagePrefix, 1, codes)

(* The codes and control numbers of an output are reserved, and none was in *)
(* Oracle when the job read it.                                             *)
OutputHeld(product, a, made, read, codes) ==
    LET roots == {c.row : c \in made[TABELA_RAIZ]}
        operations == {c.row : c \in made[OPERACAO_TABELA]}
    IN  /\ CodesHeld(product, a, roots, codes)
        /\ CodesIn(roots) \cap CodesIn(read[TABELA_RAIZ]) = {}
        /\ OPERACAO_TABELA \in Cloned(product) =>
              /\ NumbersHeld(a, operations)
              /\ MeuTuples(operations) \cap MeuTuples(read[OPERACAO_TABELA]) = {}

JobHeld(j) ==
    /\ phase[j] \in PlannedPhases => PlanHeld(Product(j), plan[j], oracle)
    /\ phase[j] \in ReservedPhases =>
          ReservationHeld(Product(j), plan[j], reservation[j], ledger.history)
    /\ phase[j] \in ClonedPhases =>
          ClonesHeld(Product(j), plan[j], reservation[j], clones[j], seen[j], oracle)
    /\ phase[j] \in OutputPhases =>
          OutputHeld(Product(j), reservation[j], clones[j], seen[j], allocated)

(* No two jobs hold a reservation in common, nor a code.                    *)
Apart(i, j) ==
    /\ phase[i] \in ReservedPhases /\ phase[j] \in ReservedPhases
          => ~Clash(reservation[i], reservation[j])
    /\ phase[i] \in OutputPhases /\ phase[j] \in OutputPhases
          => CodesIn({c.row : c \in clones[i][TABELA_RAIZ]})
                \cap CodesIn({c.row : c \in clones[j][TABELA_RAIZ]}) = {}

(* RAW, Oracle and the ledger, whatever the jobs have done.                 *)
WorldHeld ==
    /\ RawOK(raw)
    /\ \A product \in DOMAIN Products : OracleOK(product, oracle, allocated)
    /\ allocated \in Nat
    /\ ledger \in LedgerShape /\ MarksCover(ledger)
    /\ DOMAIN phase = Jobs /\ DOMAIN plan = Jobs /\ DOMAIN reservation = Jobs
    /\ DOMAIN clones = Jobs /\ DOMAIN seen = Jobs

JobsInv ==
    /\ WorldHeld
    /\ \A j \in Jobs : JobHeld(j)
    /\ \A i, j \in Jobs : i # j => Apart(i, j)

-----------------------------------------------------------------------------
(* What a job holds stays with it while others take steps.                  *)

(* References that lead to Oracle still do.                                 *)
LEMMA PlanStays ==
    ASSUME NEW product \in DOMAIN Products, NEW database, NEW codes,
           OracleOK(product, database, codes), NEW new, Grown(database, new),
           NEW p, PlanHeld(product, p, database)
    PROVE  PlanHeld(product, p, new)
  <1>1. SUFFICES ASSUME NEW t \in Cloned(product), NEW r \in p.lotes[t],
                        NEW fk \in Emitted(product, t, r)
                 PROVE  RowResolves(product, p, new, t, r, fk)
    BY DEF PlanHeld, SnapshotResolves
  <1>2. RowResolves(product, p, database, t, r, fk)
    BY DEF PlanHeld, SnapshotResolves
  <1>3. fk \in Schema[t].fks
    BY DEF Emitted
  <1>4. database[fk.parent] \subseteq new[fk.parent]
    BY <1>3 DEF OracleOK, Grown
  <1>5. QED
    BY <1>2, <1>4 DEF RowResolves

(* Growth after growth is growth.                                           *)
LEMMA GrowthGoesOn ==
    ASSUME NEW x, NEW y, NEW z, Grown(x, y), Grown(y, z)
    PROVE  Grown(x, z)
  BY DEF Grown

(* More codes handed out leave those that were.                             *)
LEMMA OutputStays ==
    ASSUME NEW product, NEW a, NEW made, NEW read, NEW codes \in Nat, NEW more \in Nat,
           codes <= more, OutputHeld(product, a, made, read, codes)
    PROVE  OutputHeld(product, a, made, read, more)
  <1>1. CodeInterval(PackagePrefix, 1, codes) \subseteq CodeInterval(PackagePrefix, 1, more)
    <2>1. 1 .. codes \subseteq 1 .. more
      OBVIOUS
    <2>2. QED
      BY <2>1 DEF CodeInterval
  <1>2. CodesHeld(product, a, {c.row : c \in made[TABELA_RAIZ]}, codes)
           => CodesHeld(product, a, {c.row : c \in made[TABELA_RAIZ]}, more)
    BY <1>1 DEF CodesHeld
  <1>3. QED
    BY <1>2 DEF OutputHeld

(* What happens around the jobs.                                            *)
WorldMoves ==
    /\ Grown(oracle, oracle')
    /\ allocated \in Nat /\ allocated' \in Nat /\ allocated <= allocated'
    /\ \A n \in DOMAIN ledger.history :
          \E m \in DOMAIN ledger'.history : ledger'.history[m] = ledger.history[n]

LeftAlone(j) ==
    /\ plan'[j] = plan[j]
    /\ reservation'[j] = reservation[j]
    /\ clones'[j] = clones[j]
    /\ seen'[j] = seen[j]

(* What a job holds it still holds after a step that leaves it alone.       *)
LEMMA StaysHeld ==
    ASSUME NEW j \in Jobs, Product(j) \in DOMAIN Products,
           OracleOK(Product(j), oracle, allocated), WorldMoves, LeftAlone(j)
    PROVE  /\ PlanHeld(Product(j), plan[j], oracle) => PlanHeld(Product(j), plan'[j], oracle')
           /\ ReservationHeld(Product(j), plan[j], reservation[j], ledger.history)
                 => ReservationHeld(Product(j), plan'[j], reservation'[j], ledger'.history)
           /\ ClonesHeld(Product(j), plan[j], reservation[j], clones[j], seen[j], oracle)
                 => ClonesHeld(Product(j), plan'[j], reservation'[j], clones'[j], seen'[j], oracle')
           /\ OutputHeld(Product(j), reservation[j], clones[j], seen[j], allocated)
                 => OutputHeld(Product(j), reservation'[j], clones'[j], seen'[j], allocated')
  <1>1. PlanHeld(Product(j), plan[j], oracle) => PlanHeld(Product(j), plan[j], oracle')
    BY PlanStays DEF WorldMoves
  <1>2. ReservationHeld(Product(j), plan[j], reservation[j], ledger.history)
           => ReservationHeld(Product(j), plan[j], reservation[j], ledger'.history)
    BY DEF WorldMoves, ReservationHeld
  <1>3. ClonesHeld(Product(j), plan[j], reservation[j], clones[j], seen[j], oracle)
           => ClonesHeld(Product(j), plan[j], reservation[j], clones[j], seen[j], oracle')
    BY GrowthGoesOn DEF WorldMoves, ClonesHeld
  <1>4. OutputHeld(Product(j), reservation[j], clones[j], seen[j], allocated)
           => OutputHeld(Product(j), reservation[j], clones[j], seen[j], allocated')
    BY OutputStays DEF WorldMoves
  <1>5. QED
    BY <1>1, <1>2, <1>3, <1>4 DEF LeftAlone

(* So a step of one job, or of none, has to be shown for that job only.     *)
LEMMA OneJobSteps ==
    ASSUME JobsInv, WorldMoves, WorldHeld', NEW j \in Jobs,
           \A i \in Jobs \ {j} : LeftAlone(i) /\ phase'[i] = phase[i],
           JobHeld(j)', \A i \in Jobs \ {j} : Apart(i, j)' /\ Apart(j, i)'
    PROVE  JobsInv'
  <1>1. ASSUME NEW i \in Jobs \ {j}
        PROVE  JobHeld(i)'
    <2>1. Product(i) \in DOMAIN Products
      BY JobsArePossible
    <2>2. OracleOK(Product(i), oracle, allocated)
      BY <2>1 DEF JobsInv, WorldHeld
    <2>3. JobHeld(i)
      BY DEF JobsInv
    <2>4. LeftAlone(i) /\ phase'[i] = phase[i]
      OBVIOUS
    <2>5. /\ PlanHeld(Product(i), plan[i], oracle) => PlanHeld(Product(i), plan'[i], oracle')
          /\ ReservationHeld(Product(i), plan[i], reservation[i], ledger.history)
                 => ReservationHeld(Product(i), plan'[i], reservation'[i], ledger'.history)
          /\ ClonesHeld(Product(i), plan[i], reservation[i], clones[i], seen[i], oracle)
                 => ClonesHeld(Product(i), plan'[i], reservation'[i], clones'[i], seen'[i], oracle')
          /\ OutputHeld(Product(i), reservation[i], clones[i], seen[i], allocated)
                 => OutputHeld(Product(i), reservation'[i], clones'[i], seen'[i], allocated')
      BY <2>1, <2>2, <2>4, StaysHeld
    <2>6. QED
      BY <2>3, <2>4, <2>5 DEF JobHeld
  <1>2. ASSUME NEW i \in Jobs \ {j}, NEW k \in Jobs \ {j}, i # k
        PROVE  Apart(i, k)'
    <2>1. Apart(i, k)
      BY <1>2 DEF JobsInv
    <2>2. QED
      BY <2>1 DEF Apart, LeftAlone
  <1>3. \A i, k \in Jobs : i # k => Apart(i, k)'
    BY <1>2
  <1>4. QED
    BY <1>1, <1>3 DEF JobsInv

-----------------------------------------------------------------------------
(* The invariant holds initially, and every step keeps it.                  *)

(* Before any job has planned there is nothing to say of the jobs.          *)
LEMMA JobsInvInitially ==
    ASSUME Init
    PROVE  JobsInv
  <1>1. PICK b \in Beginnings : /\ raw = b.raw /\ oracle = b.oracle
                                /\ phase = [j \in Jobs |-> IF j \in b.jobs THEN "new" ELSE "failed"]
    BY DEF Init
  <1>2. RawOK(raw)
    BY <1>1, RawIsKeyed DEF RawOK
  <1>3. ASSUME NEW product \in DOMAIN Products
        PROVE  OracleOK(product, oracle, allocated)
    <2>1. allocated = 0
      BY DEF Init
    <2>2. \A t \in Cloned(product) : /\ t \in DOMAIN oracle
                                     /\ IsFiniteSet(oracle[t])
                                     /\ \A r \in oracle[t] : RowIsForeign(product, t, r)
                                     /\ \A fk \in Schema[t].fks : fk.parent \in DOMAIN oracle
      BY <1>1, OracleIsKeyed
    <2>3. \A t \in OwnKeyed(product) : t \in Cloned(product)
      BY DEF OwnKeyed
    <2>4. TABELA_RAIZ \in Cloned(product)
      BY <2>3, ProductsArePlannable
    <2>5. \A t \in OwnKeyed(product) : \A r \in oracle[t] : r[Schema[t].pk[1]] \in Int
      BY <2>2, <2>3 DEF RowIsForeign
    <2>6. \A r \in oracle[TABELA_RAIZ] :
             /\ r["COD_IF"][1] = PackagePrefix
                   => r["COD_IF"][2] \in Int /\ r["COD_IF"][2] <= allocated
             /\ r["COD_IF"][1] = CodePrefix => r["COD_IF"][2] \in Int
      BY <2>1, <2>2, <2>4 DEF RowIsForeign
    <2>7. QED
      BY <2>2, <2>5, <2>6 DEF OracleOK
  <1>4. ledger \in LedgerShape /\ MarksCover(ledger)
    BY InitialLedgersAreCovered DEF Init
  <1>5. WorldHeld
    BY <1>1, <1>2, <1>3, <1>4 DEF WorldHeld, Init
  <1>6. \A j \in Jobs : phase[j] \in {"new", "failed"}
    BY <1>1
  <1>7. \A j \in Jobs : JobHeld(j)
    BY <1>6 DEF JobHeld, PlannedPhases, ReservedPhases, ClonedPhases, OutputPhases
  <1>8. \A i, j \in Jobs : Apart(i, j)
    BY <1>6 DEF Apart, ReservedPhases, OutputPhases
  <1>9. QED
    BY <1>5, <1>7, <1>8 DEF JobsInv

(* Where nothing moves around the jobs.                                     *)
LEMMA WorldStands ==
    ASSUME WorldHeld, oracle' = oracle, ledger' = ledger, allocated' = allocated
    PROVE  WorldMoves
  BY DEF WorldHeld, WorldMoves, Grown

(* A job that fails holds nothing.                                          *)
LEMMA FailHolds ==
    ASSUME JobsInv, NEW j \in Jobs, Fail(j)
    PROVE  JobsInv'
  <1>1. phase' = [phase EXCEPT ![j] = "failed"]
        /\ UNCHANGED <<raw, oracle, ledger, plan, reservation, clones, seen, allocated>>
    BY DEF Fail
  <1>2. WorldHeld /\ DOMAIN phase = Jobs
    BY DEF JobsInv, WorldHeld
  <1>3. WorldMoves
    BY <1>1, <1>2, WorldStands
  <1>4. WorldHeld'
    BY <1>1, <1>2 DEF WorldHeld
  <1>5. \A i \in Jobs \ {j} : LeftAlone(i) /\ phase'[i] = phase[i]
    BY <1>1, <1>2 DEF LeftAlone
  <1>6. phase'[j] = "failed"
    BY <1>1, <1>2
  <1>7. JobHeld(j)'
    BY <1>6 DEF JobHeld, PlannedPhases, ReservedPhases, ClonedPhases, OutputPhases
  <1>8. \A i \in Jobs \ {j} : Apart(i, j)' /\ Apart(j, i)'
    BY <1>6 DEF Apart, ReservedPhases, OutputPhases
  <1>9. QED
    BY <1>3, <1>4, <1>5, <1>7, <1>8, OneJobSteps

(* What Freeze freezes is a plan of the job.                                *)
LEMMA FrozenPlanHolds ==
    ASSUME JobsInv, NEW j \in Jobs,
           Page(j) \subseteq Domain(j), ClosureOK(Product(j), raw, Page(j)),
           NEW shares, shares = Closure(Product(j), raw, Page(j)),
           NEW chosen, chosen \in Selections(j, Admitted(j, shares)),
           ValidPlan(FrozenPlan(j, shares, chosen).request)
    PROVE  PlanHeld(Product(j), FrozenPlan(j, shares, chosen), oracle)
  <1> DEFINE product == Product(j)
             p == FrozenPlan(j, shares, chosen)
  <1>1. /\ product \in DOMAIN Products
        /\ RawOK(raw)
        /\ OracleOK(product, oracle, allocated)
    BY JobsArePossible DEF JobsInv, WorldHeld
  <1>2. DOMAIN shares = Cloned(product)
    BY <1>1, ClosureStaysInExtract
  <1>3. chosen \cap Rejected(product, shares, oracle) = {}
    <2>1. chosen \subseteq Admitted(j, shares)
      BY <1>1, SelectionIsAdmitted
    <2>2. QED
      BY <2>1 DEF Admitted
  <1>4. p.missing = MissingKeys(product, shares, oracle, chosen)
    BY DEF FrozenPlan
  <1>5. p = FrozenPlan(j, shares, chosen) /\ ValidPlan(p.request)
    OBVIOUS
  <1> HIDE DEF p
  <1>6. /\ SnapshotOK(product, p)
        /\ \A t \in Cloned(product) :
              /\ TableIsKeyed(product, t, ChosenRows(shares, chosen)[t])
              /\ Twins(ChosenRows(shares, chosen)[t], p.lotes[t])
    BY <1>1, <1>5, SnapshotIsFrozen
  <1>7. SnapshotResolves(product, p, oracle)
    BY <1>1, <1>2, <1>3, <1>4, <1>6, SnapshotIsResolved
  <1>8. QED
    BY <1>5, <1>6, <1>7 DEF PlanHeld

(* A job that plans.                                                        *)
LEMMA PlanHolds ==
    ASSUME JobsInv, NEW j \in Jobs, Plan(j)
    PROVE  JobsInv'
  <1>1. CASE Fail(j)
    BY <1>1, FailHolds
  <1>2. CASE ~ Fail(j)
    <2> DEFINE shares == Closure(Product(j), raw, Page(j))
    <2>1. /\ Page(j) \subseteq Domain(j)
          /\ ClosureOK(Product(j), raw, Page(j))
          /\ \E chosen \in Selections(j, Admitted(j, shares)) : Freeze(j, shares, chosen)
      BY <1>2 DEF Plan
    <2>2. PICK chosen \in Selections(j, Admitted(j, shares)) : Freeze(j, shares, chosen)
      BY <2>1
    <2> DEFINE p == FrozenPlan(j, shares, chosen)
    <2>3. /\ ValidPlan(p.request)
          /\ plan' = [plan EXCEPT ![j] = p]
          /\ phase' = [phase EXCEPT ![j] = "planned"]
          /\ UNCHANGED <<raw, oracle, ledger, reservation, clones, seen, allocated>>
      <3>1. p.request = Request(j, ChosenRows(shares, chosen), FactorFor(j, chosen))
        BY DEF FrozenPlan
      <3> HIDE DEF shares
      <3>2. QED
        BY <1>2, <2>2, <3>1 DEF Freeze, Plannable, ChosenRows, FrozenPlan
    <2>4. PlanHeld(Product(j), p, oracle)
      <3>1. shares = Closure(Product(j), raw, Page(j))
        OBVIOUS
      <3> HIDE DEF shares
      <3>2. QED
        BY <2>1, <2>2, <2>3, <3>1, FrozenPlanHolds
    <2> HIDE DEF p
    <2>5. WorldHeld /\ DOMAIN phase = Jobs /\ DOMAIN plan = Jobs
      BY DEF JobsInv, WorldHeld
    <2>6. WorldMoves
      BY <2>3, <2>5, WorldStands
    <2>7. WorldHeld'
      BY <2>3, <2>5 DEF WorldHeld
    <2>8. \A i \in Jobs \ {j} : LeftAlone(i) /\ phase'[i] = phase[i]
      BY <2>3, <2>5 DEF LeftAlone
    <2>9. phase'[j] = "planned" /\ plan'[j] = p
      BY <2>3, <2>5
    <2>10. JobHeld(j)'
      BY <2>3, <2>4, <2>9 DEF JobHeld, PlannedPhases, ReservedPhases, ClonedPhases, OutputPhases
    <2>11. \A i \in Jobs \ {j} : Apart(i, j)' /\ Apart(j, i)'
      BY <2>9 DEF Apart, ReservedPhases, OutputPhases
    <2>12. QED
      BY <2>6, <2>7, <2>8, <2>10, <2>11, OneJobSteps
  <1>3. QED
    BY <1>1, <1>2

(* A job that reserves gets what clashes with no other reservation.         *)
LEMMA ReserveHolds ==
    ASSUME JobsInv, NEW j \in Jobs, Reserve(j)
    PROVE  JobsInv'
  <1>1. CASE Fail(j)
    BY <1>1, FailHolds
  <1>2. CASE ~ Fail(j)
    <2>1. PICK a \in Artifacts(ledger, plan[j].request) :
             /\ ledger' = LedgerAfter(ledger, a)
             /\ reservation' = [reservation EXCEPT ![j] = a]
             /\ phase' = [phase EXCEPT ![j] = "reserved"]
             /\ UNCHANGED <<raw, oracle, plan, clones, seen, allocated>>
      BY <1>2 DEF Reserve
    <2>2. /\ WorldHeld /\ DOMAIN phase = Jobs /\ DOMAIN reservation = Jobs
          /\ ledger \in LedgerShape /\ MarksCover(ledger) /\ allocated \in Nat
      BY DEF JobsInv, WorldHeld
    <2>3. PlanHeld(Product(j), plan[j], oracle)
      <3>1. JobHeld(j) /\ phase[j] = "planned"
        BY DEF JobsInv, Reserve
      <3>2. QED
        BY <3>1 DEF JobHeld, PlannedPhases
    <2>4. SnapshotOK(Product(j), plan[j]) /\ ValidPlan(plan[j].request)
      BY <2>3 DEF PlanHeld, SnapshotOK
    <2>5. /\ a \in ArtifactShape
          /\ LedgerAfter(ledger, a) \in LedgerShape
          /\ MarksCover(LedgerAfter(ledger, a))
      BY <2>1, <2>2, <2>4, AllocationCovers
    <2>6. ledger'.history = Append(ledger.history, a) /\ ledger.history \in Seq(ArtifactShape)
      BY <2>1, <2>2 DEF LedgerAfter, LedgerShape
    <2>7. /\ Len(ledger.history) + 1 \in DOMAIN ledger'.history
          /\ ledger'.history[Len(ledger.history) + 1] = a
          /\ \A n \in DOMAIN ledger.history : /\ n \in DOMAIN ledger'.history
                                              /\ ledger'.history[n] = ledger.history[n]
      BY <2>5, <2>6
    <2>8. WorldMoves
      BY <2>1, <2>2, <2>7 DEF WorldMoves, Grown
    <2>9. WorldHeld'
      BY <2>1, <2>2, <2>5 DEF WorldHeld
    <2>10. \A i \in Jobs \ {j} : LeftAlone(i) /\ phase'[i] = phase[i]
      BY <2>1, <2>2 DEF LeftAlone
    <2>11. phase'[j] = "reserved" /\ reservation'[j] = a
      BY <2>1, <2>2
    <2>12. ReservationOK(Product(j), plan[j], a)
      BY <2>1, <2>2, <2>4, JobsArePossible, ReservationIsForPlan
    <2>13. JobHeld(j)'
      BY <2>1, <2>3, <2>7, <2>11, <2>12
         DEF JobHeld, ReservationHeld, PlannedPhases, ReservedPhases, ClonedPhases, OutputPhases
    <2>14. ASSUME NEW i \in Jobs \ {j}
           PROVE  Apart(i, j)' /\ Apart(j, i)'
      <3>1. ASSUME phase[i] \in ReservedPhases
            PROVE  ~Clash(reservation[i], a) /\ ~Clash(a, reservation[i])
        <4>1. JobHeld(i)
          BY DEF JobsInv
        <4>2. PICK n \in DOMAIN ledger.history : ledger.history[n] = reservation[i]
          BY <3>1, <4>1 DEF JobHeld, ReservationHeld
        <4>3. QED
          BY <2>1, <2>2, <2>4, <4>2, FreshArtifact
      <3>2. phase'[i] = phase[i] /\ reservation'[i] = reservation[i]
        BY <2>10 DEF LeftAlone
      <3>3. QED
        BY <2>11, <3>1, <3>2 DEF Apart, OutputPhases
    <2>15. QED
      BY <2>8, <2>9, <2>10, <2>13, <2>14, OneJobSteps
  <1>3. QED
    BY <1>1, <1>2

(* A job that clones within its reservation.                                *)
LEMMA CloneStepHolds ==
    ASSUME JobsInv, NEW j \in Jobs, Clone(j)
    PROVE  JobsInv'
  <1>1. CASE Fail(j)
    BY <1>1, FailHolds
  <1>2. CASE ~ Fail(j)
    <2> DEFINE made == Made(j)
    <2>1. /\ AboveLiveFloors(j) /\ Writable(j, made, ReservedStarts(j))
          /\ clones' = [clones EXCEPT ![j] = made]
          /\ seen' = [seen EXCEPT ![j] = oracle]
          /\ phase' = [phase EXCEPT ![j] = "cloned"]
          /\ UNCHANGED <<raw, oracle, ledger, plan, reservation, allocated>>
      BY <1>2 DEF Clone
    <2>2. /\ WorldHeld /\ DOMAIN phase = Jobs /\ DOMAIN clones = Jobs /\ DOMAIN seen = Jobs
          /\ Product(j) \in DOMAIN Products
          /\ OracleOK(Product(j), oracle, allocated)
      BY JobsArePossible DEF JobsInv, WorldHeld
    <2>3. /\ PlanHeld(Product(j), plan[j], oracle)
          /\ ReservationHeld(Product(j), plan[j], reservation[j], ledger.history)
          /\ phase[j] = "reserved"
      <3>1. JobHeld(j) /\ phase[j] = "reserved"
        BY DEF JobsInv, Clone
      <3>2. QED
        BY <3>1 DEF JobHeld, PlannedPhases, ReservedPhases
    <2>4. ClonesOK(Product(j), plan[j], reservation[j], made, oracle)
      BY <2>1, <2>2, <2>3, CloneHolds DEF PlanHeld, ReservationHeld
    <2> HIDE DEF made
    <2>5. ClonesHeld(Product(j), plan[j], reservation[j], made, oracle, oracle)
      BY <2>4 DEF ClonesHeld, Grown
    <2>6. WorldMoves
      BY <2>1, <2>2, WorldStands
    <2>7. WorldHeld'
      BY <2>1, <2>2 DEF WorldHeld
    <2>8. \A i \in Jobs \ {j} : LeftAlone(i) /\ phase'[i] = phase[i]
      BY <2>1, <2>2 DEF LeftAlone
    <2>9. phase'[j] = "cloned" /\ clones'[j] = made /\ seen'[j] = oracle
      BY <2>1, <2>2
    <2>10. JobHeld(j)'
      BY <2>1, <2>3, <2>5, <2>9
         DEF JobHeld, PlannedPhases, ReservedPhases, ClonedPhases, OutputPhases
    <2>11. \A i \in Jobs \ {j} : Apart(i, j)' /\ Apart(j, i)'
      BY <2>1, <2>3, <2>8, <2>9 DEF JobsInv, Apart, ReservedPhases, OutputPhases
    <2>12. QED
      BY <2>6, <2>7, <2>8, <2>10, <2>11, OneJobSteps
  <1>3. QED
    BY <1>1, <1>2

(* A job that dies has its plan and its reservation left.                   *)
LEMMA CrashHolds ==
    ASSUME JobsInv, NEW j \in Jobs, Crash(j)
    PROVE  JobsInv'
  <1>1. /\ phase[j] = "cloned"
        /\ phase' = [phase EXCEPT ![j] = "reserved"]
        /\ clones' = [clones EXCEPT ![j] = Absent]
        /\ UNCHANGED <<raw, oracle, ledger, plan, reservation, seen, allocated>>
    BY DEF Crash
  <1>2. WorldHeld /\ DOMAIN phase = Jobs /\ DOMAIN clones = Jobs
    BY DEF JobsInv, WorldHeld
  <1>3. WorldMoves
    BY <1>1, <1>2, WorldStands
  <1>4. WorldHeld'
    BY <1>1, <1>2 DEF WorldHeld
  <1>5. \A i \in Jobs \ {j} : LeftAlone(i) /\ phase'[i] = phase[i]
    BY <1>1, <1>2 DEF LeftAlone
  <1>6. phase'[j] = "reserved"
    BY <1>1, <1>2
  <1>7. JobHeld(j)'
    <2>1. JobHeld(j)
      BY DEF JobsInv
    <2>2. QED
      BY <1>1, <1>6, <2>1
         DEF JobHeld, PlannedPhases, ReservedPhases, ClonedPhases, OutputPhases
  <1>8. \A i \in Jobs \ {j} : Apart(i, j)' /\ Apart(j, i)'
    BY <1>1, <1>5, <1>6 DEF JobsInv, Apart, ReservedPhases, OutputPhases
  <1>9. QED
    BY <1>3, <1>4, <1>5, <1>7, <1>8, OneJobSteps

(* What happens around the jobs leaves all of them as they are.             *)
LEMMA QuietStepHolds ==
    ASSUME JobsInv, WorldMoves, WorldHeld', \A i \in Jobs : LeftAlone(i) /\ phase'[i] = phase[i]
    PROVE  JobsInv'
  <1>1. ASSUME NEW i \in Jobs
        PROVE  JobHeld(i)'
    <2>1. Product(i) \in DOMAIN Products
      BY JobsArePossible
    <2>2. OracleOK(Product(i), oracle, allocated)
      BY <2>1 DEF JobsInv, WorldHeld
    <2>3. JobHeld(i) /\ LeftAlone(i) /\ phase'[i] = phase[i]
      BY DEF JobsInv
    <2>4. /\ PlanHeld(Product(i), plan[i], oracle) => PlanHeld(Product(i), plan'[i], oracle')
          /\ ReservationHeld(Product(i), plan[i], reservation[i], ledger.history)
                 => ReservationHeld(Product(i), plan'[i], reservation'[i], ledger'.history)
          /\ ClonesHeld(Product(i), plan[i], reservation[i], clones[i], seen[i], oracle)
                 => ClonesHeld(Product(i), plan'[i], reservation'[i], clones'[i], seen'[i], oracle')
          /\ OutputHeld(Product(i), reservation[i], clones[i], seen[i], allocated)
                 => OutputHeld(Product(i), reservation'[i], clones'[i], seen'[i], allocated')
      BY <2>1, <2>2, <2>3, StaysHeld
    <2>5. QED
      BY <2>3, <2>4 DEF JobHeld
  <1>2. ASSUME NEW i \in Jobs, NEW k \in Jobs, i # k
        PROVE  Apart(i, k)'
    <2>1. Apart(i, k)
      BY <1>2 DEF JobsInv
    <2>2. QED
      BY <2>1 DEF Apart, LeftAlone
  <1>3. QED
    BY <1>1, <1>2 DEF JobsInv

(* RAW is extracted again; the snapshots of the plans are what jobs go by.  *)
LEMMA RereadHolds ==
    ASSUME JobsInv, Reread
    PROVE  JobsInv'
  <1>1. /\ raw' \in Rereads
        /\ UNCHANGED <<oracle, ledger, phase, plan, reservation, clones, seen, allocated>>
    BY DEF Reread
  <1>2. WorldHeld
    BY DEF JobsInv
  <1>3. RawOK(raw')
    BY <1>1, RawIsKeyed DEF RawOK
  <1>4. WorldHeld'
    BY <1>1, <1>2, <1>3 DEF WorldHeld
  <1>5. WorldMoves
    BY <1>1, <1>2, WorldStands
  <1>6. \A i \in Jobs : LeftAlone(i) /\ phase'[i] = phase[i]
    BY <1>1 DEF LeftAlone
  <1>7. QED
    BY <1>4, <1>5, <1>6, QuietStepHolds

(* A row that others insert.                                                *)
LEMMA InsertHolds ==
    ASSUME JobsInv, Insert
    PROVE  JobsInv'
  <1>1. PICK i \in Inserts : oracle' = [oracle EXCEPT ![i.table] = @ \cup {i.row}]
    BY DEF Insert
  <1>2. UNCHANGED <<raw, ledger, phase, plan, reservation, clones, seen, allocated>>
    BY DEF Insert
  <1>3. WorldHeld /\ allocated \in Nat
    BY DEF JobsInv, WorldHeld
  <1>4. /\ DOMAIN oracle' = DOMAIN oracle
        /\ \A t \in DOMAIN oracle :
              oracle'[t] = IF t = i.table THEN oracle[t] \cup {i.row} ELSE oracle[t]
    BY <1>1
  <1>5. ASSUME NEW product \in DOMAIN Products
        PROVE  OracleOK(product, oracle', allocated)
    <2>1. OracleOK(product, oracle, allocated)
      BY <1>3 DEF WorldHeld
    <2>2. \A t \in OwnKeyed(product) : t \in Cloned(product)
      BY DEF OwnKeyed
    <2>3. TABELA_RAIZ \in Cloned(product)
      BY <2>2, ProductsArePlannable
    <2>4. \A t \in Cloned(product) :
             /\ t \in DOMAIN oracle
             /\ i.table = t => RowIsForeign(product, t, i.row)
             /\ oracle'[t] = IF t = i.table THEN oracle[t] \cup {i.row} ELSE oracle[t]
      BY <1>4, <2>1, OracleIsKeyed DEF OracleOK
    <2>5. \A t \in Cloned(product) : /\ t \in DOMAIN oracle'
                                     /\ IsFiniteSet(oracle'[t])
                                     /\ \A fk \in Schema[t].fks : fk.parent \in DOMAIN oracle'
      <3>1. ASSUME NEW t \in Cloned(product)
            PROVE  IsFiniteSet(oracle'[t])
        <4>1. IsFiniteSet(oracle[t])
          BY <2>1 DEF OracleOK
        <4>2. IsFiniteSet(oracle[t] \cup {i.row})
          BY <4>1, FS_AddElement
        <4>3. QED
          BY <2>4, <4>1, <4>2
      <3>2. \A t \in Cloned(product) : /\ t \in DOMAIN oracle
                                       /\ \A fk \in Schema[t].fks : fk.parent \in DOMAIN oracle
        BY <2>1 DEF OracleOK
      <3>3. QED
        BY <1>4, <3>1, <3>2
    <2>6. \A t \in OwnKeyed(product) : \A r \in oracle'[t] : r[Schema[t].pk[1]] \in Int
      BY <2>1, <2>2, <2>4 DEF OracleOK, RowIsForeign
    <2>7. \A r \in oracle'[TABELA_RAIZ] :
             /\ r["COD_IF"][1] = PackagePrefix
                   => r["COD_IF"][2] \in Int /\ r["COD_IF"][2] <= allocated
             /\ r["COD_IF"][1] = CodePrefix => r["COD_IF"][2] \in Int
      <3>1. ASSUME NEW r, RowIsForeign(product, TABELA_RAIZ, r)
            PROVE  /\ r["COD_IF"][1] = PackagePrefix
                         => r["COD_IF"][2] \in Int /\ r["COD_IF"][2] <= allocated
                   /\ r["COD_IF"][1] = CodePrefix => r["COD_IF"][2] \in Int
        BY <1>3, <3>1 DEF RowIsForeign
      <3>2. ASSUME NEW r \in oracle'[TABELA_RAIZ]
            PROVE  r \in oracle[TABELA_RAIZ] \/ RowIsForeign(product, TABELA_RAIZ, r)
        BY <2>3, <2>4
      <3>3. QED
        BY <2>1, <3>1, <3>2 DEF OracleOK
    <2>8. QED
      BY <2>5, <2>6, <2>7 DEF OracleOK
  <1>6. WorldHeld'
    BY <1>2, <1>3, <1>5 DEF WorldHeld
  <1>7. Grown(oracle, oracle')
    BY <1>4 DEF Grown
  <1>8. WorldMoves
    BY <1>2, <1>3, <1>7 DEF WorldMoves
  <1>9. \A k \in Jobs : LeftAlone(k) /\ phase'[k] = phase[k]
    BY <1>2 DEF LeftAlone
  <1>10. QED
    BY <1>6, <1>8, <1>9, QuietStepHolds

(* Codes handed out later are none of those that were.                      *)
LEMMA OracleStaysOK ==
    ASSUME NEW product, NEW database, NEW codes \in Nat, NEW more \in Nat, codes <= more,
           OracleOK(product, database, codes)
    PROVE  OracleOK(product, database, more)
  BY DEF OracleOK

(* A CDB's reservation is one of codes of the month.                        *)
LEMMA CdbReservation ==
    ASSUME NEW product, NEW p, SnapshotOK(product, p), NEW a, ReservationOK(product, p, a),
           Products[product].cdb
    PROVE  /\ a.cdb # Absent /\ a.cdb.prefix = CodePrefix
           /\ a.cdb.start \in Int /\ a.cdb.end \in Int
  <1>1. a.cdb # Absent /\ a.cdb.prefix = CodePrefix /\ a \in ArtifactShape
    BY DEF SnapshotOK, ReservationOK
  <1>2. QED
    BY <1>1 DEF ArtifactShape

CdbHeld(product, a) ==
    Products[product].cdb => a.cdb # Absent /\ a.cdb.prefix = CodePrefix

(* The codes of an output: of its reservation, or the package's next ones.  *)
NewCodes(product, a, codes, more) ==
    IF Products[product].cdb
    THEN CodeInterval(CodePrefix, a.cdb.start, a.cdb.end)
    ELSE CodeInterval(PackagePrefix, codes + 1, codes + more)

(* New codes, of a reservation or of the package, are none of an output's.  *)
LEMMA CodesDoNotMeet ==
    ASSUME NEW p, NEW a, CdbHeld(p, a), NEW q, NEW b, CdbHeld(q, b), ~ Clash(a, b),
           NEW codes \in Nat, NEW more \in Nat, NEW rows, CodesHeld(p, a, rows, codes)
    PROVE  CodesIn(rows) \cap NewCodes(q, b, codes, more) = {}
  <1>1. CodePrefix # PackagePrefix
    BY JobsArePossible
  <1>2. SUFFICES ASSUME NEW c, c \in CodesIn(rows), c \in NewCodes(q, b, codes, more)
                 PROVE  FALSE
    OBVIOUS
  <1>3. IF Products[p].cdb
        THEN \E n \in a.cdb.start .. a.cdb.end : c = <<CodePrefix, n>>
        ELSE \E n \in 1 .. codes : c = <<PackagePrefix, n>>
    BY <1>2 DEF CodesHeld, CodeInterval
  <1>4. IF Products[q].cdb
        THEN \E n \in b.cdb.start .. b.cdb.end : c = <<CodePrefix, n>>
        ELSE \E n \in codes + 1 .. codes + more : c = <<PackagePrefix, n>>
    BY <1>2 DEF NewCodes, CodeInterval
  <1>5. CASE Products[p].cdb /\ Products[q].cdb
    <2>1. PICK n \in a.cdb.start .. a.cdb.end : c = <<CodePrefix, n>>
      BY <1>3, <1>5
    <2>2. PICK m \in b.cdb.start .. b.cdb.end : c = <<CodePrefix, m>>
      BY <1>4, <1>5
    <2>3. n = m
      BY <2>1, <2>2
    <2>4. QED
      BY <1>5, <2>3 DEF Clash, CdbClash, CdbHeld
  <1>6. CASE ~ Products[p].cdb /\ ~ Products[q].cdb
    <2>1. PICK n \in 1 .. codes : c = <<PackagePrefix, n>>
      BY <1>3, <1>6
    <2>2. PICK m \in codes + 1 .. codes + more : c = <<PackagePrefix, m>>
      BY <1>4, <1>6
    <2>3. n = m
      BY <2>1, <2>2
    <2>4. QED
      BY <2>3
  <1>7. CASE Products[p].cdb /\ ~ Products[q].cdb
    BY <1>1, <1>3, <1>4, <1>7
  <1>8. CASE ~ Products[p].cdb /\ Products[q].cdb
    BY <1>1, <1>3, <1>4, <1>8
  <1>9. QED
    BY <1>5, <1>6, <1>7, <1>8

(* Publication takes a number of codes for operations that there is.        *)
LEMMA OperationsAreCounted ==
    ASSUME NEW j \in Jobs, Product(j) \in DOMAIN Products,
           SnapshotOK(Product(j), plan[j]),
           ReservationOK(Product(j), plan[j], reservation[j]),
           ClonesOK(Product(j), plan[j], reservation[j], clones[j], seen[j])
    PROVE  Cardinality(OperationsWritten(j)) \in Nat
  <1>1. CASE Products[Product(j)].operations
    <2>1. /\ OPERACAO_TABELA \in Cloned(Product(j))
          /\ OperationsAreKeyed(RowsMade(j, OPERACAO_TABELA))
      BY <1>1, OperationsOfClones DEF RowsMade
    <2>2. RowsRewritten(RowsMade(j, OPERACAO_TABELA), CodedOperations(j, CodedRoots(j)))
      BY OperationsAreRewritten
    <2>3. OperationsAreKeyed(CodedOperations(j, CodedRoots(j)))
      BY <2>1, <2>2, RewrittenOperations
    <2>4. QED
      BY <1>1, <2>3, FS_CardinalityType DEF OperationsAreKeyed, OperationsWritten
  <1>2. CASE ~ Products[Product(j)].operations
    BY <1>2, FS_EmptySet DEF OperationsWritten
  <1>3. QED
    BY <1>1, <1>2

(* A step of publication that goes through.                                 *)
Published(j) ==
    /\ phase[j] = "cloned"
    /\ CdbRangeFree(j)
    /\ reservation[j].meu # Absent =>
          /\ IntervalFits(OperationsWritten(j), plan[j].request, reservation[j].meu)
          /\ NoMeuCollision(OperationsWritten(j))
    /\ clones' = [clones EXCEPT ![j] = ClonesWritten(j)]
    /\ allocated' = allocated + CodesTaken(j) + Cardinality(OperationsWritten(j))
    /\ phase' = [phase EXCEPT ![j] = "published"]
    /\ UNCHANGED <<raw, oracle, ledger, plan, reservation, seen>>

(* _prepare_outputs writes everything, or the job fails.                    *)
LEMMA PublishedOrFailed ==
    ASSUME NEW j \in Jobs, Publish(j), ~ Fail(j)
    PROVE  Published(j)
  BY DEF Publish, Published, OperationsWritten, ClonesWritten

(* What a job holds when it publishes.                                      *)
LEMMA HeldToPublish ==
    ASSUME JobsInv, NEW j \in Jobs, phase[j] = "cloned"
    PROVE  /\ Product(j) \in DOMAIN Products
           /\ OracleOK(Product(j), oracle, allocated)
           /\ PlanHeld(Product(j), plan[j], oracle)
           /\ SnapshotOK(Product(j), plan[j])
           /\ ReservationHeld(Product(j), plan[j], reservation[j], ledger.history)
           /\ ReservationOK(Product(j), plan[j], reservation[j])
           /\ ClonesOK(Product(j), plan[j], reservation[j], clones[j], seen[j])
           /\ Grown(seen[j], oracle)
           /\ allocated \in Nat
  <1>1. JobHeld(j) /\ Product(j) \in DOMAIN Products /\ WorldHeld
    BY JobsArePossible DEF JobsInv
  <1>2. /\ PlanHeld(Product(j), plan[j], oracle)
        /\ ReservationHeld(Product(j), plan[j], reservation[j], ledger.history)
        /\ ClonesHeld(Product(j), plan[j], reservation[j], clones[j], seen[j], oracle)
    BY <1>1 DEF JobHeld, PlannedPhases, ReservedPhases, ClonedPhases
  <1>3. QED
    BY <1>1, <1>2 DEF PlanHeld, ReservationHeld, ClonesHeld, WorldHeld

(* The codes and control numbers of a published output are its own.         *)
LEMMA OutputIsHeld ==
    ASSUME JobsInv, NEW j \in Jobs, Published(j)
    PROVE  /\ allocated' \in Nat /\ CodesTaken(j) \in Nat
           /\ allocated + CodesTaken(j) <= allocated'
           /\ OutputHeld(Product(j), reservation[j], ClonesWritten(j), seen[j], allocated')
  <1> DEFINE made == ClonesWritten(j)
             operations == OperationsWritten(j)
             a == reservation[j]
  <1>1. /\ phase[j] = "cloned" /\ CdbRangeFree(j)
        /\ a.meu # Absent => /\ IntervalFits(operations, plan[j].request, a.meu)
                             /\ NoMeuCollision(operations)
        /\ allocated' = allocated + CodesTaken(j) + Cardinality(operations)
    BY DEF Published
  <1>2. /\ Product(j) \in DOMAIN Products
        /\ OracleOK(Product(j), oracle, allocated)
        /\ SnapshotOK(Product(j), plan[j])
        /\ ReservationOK(Product(j), plan[j], a)
        /\ ClonesOK(Product(j), plan[j], a, clones[j], seen[j])
        /\ Grown(seen[j], oracle)
        /\ allocated \in Nat
    BY <1>1, HeldToPublish
  <1>3. /\ {c.row : c \in made[TABELA_RAIZ]} = CodedRoots(j)
        /\ OPERACAO_TABELA \in Cloned(Product(j)) =>
              {c.row : c \in made[OPERACAO_TABELA]} = operations
    BY <1>2, ClonesAreWritten
  <1>4. /\ CodesTaken(j) \in Nat
        /\ CodesIn(CodedRoots(j)) =
              IF Products[Product(j)].cdb
              THEN CodeInterval(CodePrefix, a.cdb.start, a.cdb.end)
              ELSE CodeInterval(PackagePrefix, allocated + 1, allocated + CodesTaken(j))
        /\ CodesIn(CodedRoots(j)) \cap CodesIn(oracle[TABELA_RAIZ]) = {}
    BY <1>1, <1>2, CodesAreReserved
  <1>5. Cardinality(operations) \in Nat
    BY <1>2, OperationsAreCounted
  <1>6. NumbersHeld(a, operations)
    BY <1>1, <1>2, NumbersAreReserved
  <1> HIDE DEF made, operations, a
  <1>7. allocated' \in Nat /\ allocated + CodesTaken(j) <= allocated'
    BY <1>1, <1>2, <1>4, <1>5
  <1>8. CodesHeld(Product(j), a, CodedRoots(j), allocated')
    <2>1. CASE Products[Product(j)].cdb
      BY <1>4, <2>1 DEF CodesHeld
    <2>2. CASE ~ Products[Product(j)].cdb
      <3>1. allocated + 1 .. allocated + CodesTaken(j) \subseteq 1 .. allocated'
        BY <1>2, <1>4, <1>7
      <3>2. QED
        BY <1>4, <2>2, <3>1 DEF CodesHeld, CodeInterval
    <2>3. QED
      BY <2>1, <2>2
  <1>9. TABELA_RAIZ \in Cloned(Product(j))
    BY <1>2, ProductsArePlannable DEF OwnKeyed
  <1>10. /\ TABELA_RAIZ \in DOMAIN oracle
         /\ OPERACAO_TABELA \in Cloned(Product(j)) => OPERACAO_TABELA \in DOMAIN oracle
    BY <1>2, <1>9 DEF OracleOK
  <1>11. CodesIn(CodedRoots(j)) \cap CodesIn(seen[j][TABELA_RAIZ]) = {}
    <2>1. seen[j][TABELA_RAIZ] \subseteq oracle[TABELA_RAIZ]
      BY <1>2, <1>10 DEF Grown
    <2>2. CodesIn(seen[j][TABELA_RAIZ]) \subseteq CodesIn(oracle[TABELA_RAIZ])
      BY <2>1 DEF CodesIn
    <2>3. QED
      BY <1>4, <2>2
  <1>12. OPERACAO_TABELA \in Cloned(Product(j)) =>
            MeuTuples(operations) \cap MeuTuples(seen[j][OPERACAO_TABELA]) = {}
    <2>1. SUFFICES ASSUME OPERACAO_TABELA \in Cloned(Product(j))
                   PROVE  MeuTuples(operations) \cap MeuTuples(seen[j][OPERACAO_TABELA]) = {}
      OBVIOUS
    <2>2. seen[j][OPERACAO_TABELA] \subseteq oracle[OPERACAO_TABELA]
      BY <1>2, <1>10, <2>1 DEF Grown
    <2>3. MeuTuples(seen[j][OPERACAO_TABELA]) \subseteq MeuTuples(oracle[OPERACAO_TABELA])
      BY <2>2 DEF MeuTuples, Sides
    <2>4. CASE a.meu = Absent
      BY <1>6, <2>4 DEF NumbersHeld, MeuTuples, Sides
    <2>5. CASE a.meu # Absent
      BY <1>1, <2>3, <2>5 DEF NoMeuCollision
    <2>6. QED
      BY <2>4, <2>5
  <1>13. OutputHeld(Product(j), a, made, seen[j], allocated')
    BY <1>3, <1>6, <1>8, <1>11, <1>12 DEF OutputHeld
  <1>14. QED
    BY <1>4, <1>7, <1>13 DEF made, a

(* A job that publishes shares nothing with the outputs of others.          *)
LEMMA PublishHolds ==
    ASSUME JobsInv, NEW j \in Jobs, Publish(j)
    PROVE  JobsInv'
  <1>1. CASE Fail(j)
    BY <1>1, FailHolds
  <1>2. CASE ~ Fail(j)
    <2>1. Published(j) /\ phase[j] = "cloned"
      BY <1>2, PublishedOrFailed DEF Publish
    <2>2. /\ clones' = [clones EXCEPT ![j] = ClonesWritten(j)]
          /\ phase' = [phase EXCEPT ![j] = "published"]
          /\ UNCHANGED <<raw, oracle, ledger, plan, reservation, seen>>
      BY <2>1 DEF Published
    <2>3. /\ Product(j) \in DOMAIN Products
          /\ OracleOK(Product(j), oracle, allocated)
          /\ PlanHeld(Product(j), plan[j], oracle)
          /\ SnapshotOK(Product(j), plan[j])
          /\ ReservationHeld(Product(j), plan[j], reservation[j], ledger.history)
          /\ ReservationOK(Product(j), plan[j], reservation[j])
          /\ ClonesOK(Product(j), plan[j], reservation[j], clones[j], seen[j])
          /\ Grown(seen[j], oracle)
          /\ allocated \in Nat
      BY <2>1, HeldToPublish
    <2>4. /\ allocated' \in Nat /\ CodesTaken(j) \in Nat
          /\ allocated + CodesTaken(j) <= allocated'
          /\ OutputHeld(Product(j), reservation[j], ClonesWritten(j), seen[j], allocated')
      BY <2>1, OutputIsHeld
    <2>5. /\ DOMAIN ClonesWritten(j) = Cloned(Product(j))
          /\ \A t \in Cloned(Product(j)) : TwinClones(clones[j][t], ClonesWritten(j)[t])
          /\ {c.row : c \in ClonesWritten(j)[TABELA_RAIZ]} = CodedRoots(j)
          /\ OPERACAO_TABELA \in Cloned(Product(j)) =>
                {c.row : c \in ClonesWritten(j)[OPERACAO_TABELA]} = OperationsWritten(j)
      BY <2>3, ClonesAreWritten
    <2>6. DOMAIN clones[j] = Cloned(Product(j))
      BY <2>3 DEF ClonesOK
    <2>7. ClonesOK(Product(j), plan[j], reservation[j], ClonesWritten(j), seen[j])
      BY <2>3, <2>5, <2>6, TwinClonesHold
    <2>8. ClonesHeld(Product(j), plan[j], reservation[j], ClonesWritten(j), seen[j], oracle)
      BY <2>3, <2>7 DEF ClonesHeld
    <2>9. WorldHeld
      BY DEF JobsInv
    <2>10. Grown(oracle, oracle') /\ allocated <= allocated'
      BY <2>2, <2>3, <2>4 DEF Grown
    <2>11. WorldMoves
      BY <2>2, <2>3, <2>4, <2>10 DEF WorldMoves
    <2>12. \A product \in DOMAIN Products : OracleOK(product, oracle, allocated')
      BY <2>3, <2>4, <2>9, <2>10, OracleStaysOK DEF WorldHeld
    <2>13. WorldHeld'
      BY <2>2, <2>4, <2>9, <2>12 DEF WorldHeld
    <2>14. \A i \in Jobs \ {j} : LeftAlone(i) /\ phase'[i] = phase[i]
      BY <2>2, <2>9 DEF LeftAlone, WorldHeld
    <2>15. /\ phase'[j] = "published" /\ clones'[j] = ClonesWritten(j)
           /\ plan'[j] = plan[j] /\ reservation'[j] = reservation[j] /\ seen'[j] = seen[j]
      BY <2>2, <2>9 DEF WorldHeld
    <2>16. JobHeld(j)'
      BY <2>2, <2>3, <2>4, <2>8, <2>15 DEF JobHeld
    <2>17. ASSUME NEW i \in Jobs \ {j}
           PROVE  Apart(i, j)' /\ Apart(j, i)'
      <3>1. Apart(i, j) /\ Apart(j, i) /\ JobHeld(i)
        BY DEF JobsInv
      <3>2. LeftAlone(i) /\ phase'[i] = phase[i]
        BY <2>14
      <3>3. ASSUME phase[i] \in ReservedPhases
            PROVE  ~ Clash(reservation[i], reservation[j]) /\ ~ Clash(reservation[j], reservation[i])
        BY <2>1, <3>1, <3>3 DEF Apart, ReservedPhases
      <3>4. ASSUME phase[i] \in OutputPhases
            PROVE  CodesIn({c.row : c \in clones[i][TABELA_RAIZ]}) \cap CodesIn(CodedRoots(j)) = {}
        <4>1. /\ PlanHeld(Product(i), plan[i], oracle)
              /\ ReservationHeld(Product(i), plan[i], reservation[i], ledger.history)
              /\ OutputHeld(Product(i), reservation[i], clones[i], seen[i], allocated)
          BY <3>1, <3>4 DEF JobHeld, OutputPhases, PlannedPhases, ReservedPhases
        <4>2. CdbHeld(Product(i), reservation[i]) /\ CdbHeld(Product(j), reservation[j])
          BY <2>3, <4>1, CdbReservation DEF PlanHeld, ReservationHeld, CdbHeld
        <4>3. ~ Clash(reservation[i], reservation[j])
          BY <3>3, <3>4 DEF OutputPhases, ReservedPhases
        <4>4. CodesIn(CodedRoots(j)) = NewCodes(Product(j), reservation[j], allocated, CodesTaken(j))
          BY <2>1, <2>3, CodesAreReserved DEF Published, NewCodes
        <4>5. CodesHeld(Product(i), reservation[i], {c.row : c \in clones[i][TABELA_RAIZ]}, allocated)
          BY <4>1 DEF OutputHeld
        <4>6. QED
          BY <2>3, <2>4, <4>2, <4>3, <4>4, <4>5, CodesDoNotMeet
      <3>5. reservation'[i] = reservation[i] /\ clones'[i] = clones[i]
        BY <3>2 DEF LeftAlone
      <3>6. CodesIn({c.row : c \in clones'[j][TABELA_RAIZ]}) = CodesIn(CodedRoots(j))
        BY <2>5, <2>15
      <3>7. QED
        BY <2>15, <3>2, <3>3, <3>4, <3>5, <3>6 DEF Apart
    <2>18. QED
      BY <2>11, <2>13, <2>14, <2>16, <2>17, OneJobSteps
  <1>3. QED
    BY <1>1, <1>2

(* A load that goes through.                                                *)
Loaded(j) ==
    /\ phase[j] = "published"
    /\ oracle' = [ t \in DOMAIN oracle |->
           IF t \in DOMAIN clones[j] THEN oracle[t] \cup RowsMade(j, t) ELSE oracle[t] ]
    /\ phase' = [phase EXCEPT ![j] = "loaded"]
    /\ UNCHANGED <<raw, ledger, plan, reservation, clones, seen, allocated>>

(* The tables of an output are loaded, or the job fails.                    *)
LEMMA LoadedOrFailed ==
    ASSUME NEW j \in Jobs, Load(j), ~ Fail(j)
    PROVE  Loaded(j)
  BY DEF Load, Loaded

(* A table with keys of its own has them in every product that clones it.   *)
LEMMA KeyRuleIsOfTheTable ==
    ASSUME NEW p \in DOMAIN Products, NEW q \in DOMAIN Products, NEW t \in OwnKeyed(q), t \in Cloned(p)
    PROVE  t \in OwnKeyed(p)
  <1>1. /\ t \in Cloned(q) /\ PkRule(q, t) = "OFFSET_PROPRIO"
        /\ \A product \in {p, q} : PkRule(product, t) = RuleOf(t, FksToCloned(product, t))
    BY DEF OwnKeyed, PkRule, Planos
  <1>2. RuleOf(t, FksToCloned(q, t)) = "OFFSET_PROPRIO"
    BY <1>1
  <1>3. PkColumns(t) \cap ColumnsOf(Schema[t].fks) = {} /\ Len(Schema[t].pk) = 1
    BY <1>2 DEF RuleOf
  <1>4. ColumnsOf(FksToCloned(p, t)) \subseteq ColumnsOf(Schema[t].fks)
    BY DEF ColumnsOf, FksToCloned
  <1>5. RuleOf(t, FksToCloned(p, t)) = "OFFSET_PROPRIO"
    <2>1. PkColumns(t) \cap ColumnsOf(FksToCloned(p, t)) = {}
      BY <1>3, <1>4
    <2>2. QED
      BY <1>3, <2>1 DEF RuleOf
  <1>6. QED
    BY <1>1, <1>5 DEF OwnKeyed

(* The rows an output adds to Oracle are finitely many, with numbers for    *)
(* their keys and with codes of their own.                                  *)
LEMMA OutputFitsOracle ==
    ASSUME NEW product \in DOMAIN Products, NEW p, NEW a, NEW made, NEW read,
           ClonesOK(product, p, a, made, read), NEW codes \in Nat,
           OutputHeld(product, a, made, read, codes)
    PROVE  /\ \A t \in Cloned(product) : IsFiniteSet({c.row : c \in made[t]})
           /\ \A t \in OwnKeyed(product) : \A c \in made[t] : c.row[Schema[t].pk[1]] \in Int
           /\ \A c \in made[TABELA_RAIZ] :
                 /\ c.row["COD_IF"][1] = PackagePrefix
                       => c.row["COD_IF"][2] \in Int /\ c.row["COD_IF"][2] <= codes
                 /\ c.row["COD_IF"][1] = CodePrefix => c.row["COD_IF"][2] \in Int
  <1>1. ASSUME NEW t \in Cloned(product)
        PROVE  IsFiniteSet({c.row : c \in made[t]})
    <2> DEFINE S == made[t]
               f == [c \in S |-> c.row]
    <2>1. IsFiniteSet(S)
      BY DEF ClonesOK, TableHeld
    <2>2. DOMAIN f = S /\ {c.row : c \in made[t]} = {f[c] : c \in S}
      OBVIOUS
    <2> HIDE DEF f, S
    <2>3. QED
      BY <2>1, <2>2, FiniteImage
  <1>2. ASSUME NEW t \in OwnKeyed(product), NEW c \in made[t]
        PROVE  c.row[Schema[t].pk[1]] \in Int
    <2>1. {d.row[Schema[t].pk[1]] : d \in made[t]} = IF a.pk[t] = Absent THEN {} ELSE PkSlots(a.pk[t])
      BY DEF ClonesOK, KeysHeld
    <2>2. PkSlots(a.pk[t]) \subseteq Int
      BY DEF PkSlots
    <2>3. QED
      BY <2>1, <2>2
  <1>3. ASSUME NEW c \in made[TABELA_RAIZ]
        PROVE  /\ c.row["COD_IF"][1] = PackagePrefix
                     => c.row["COD_IF"][2] \in Int /\ c.row["COD_IF"][2] <= codes
               /\ c.row["COD_IF"][1] = CodePrefix => c.row["COD_IF"][2] \in Int
    <2> DEFINE rows == {d.row : d \in made[TABELA_RAIZ]}
    <2>1. CodesHeld(product, a, rows, codes)
      BY DEF OutputHeld
    <2>2. c.row["COD_IF"] \in CodesIn(rows)
      BY DEF CodesIn
    <2> HIDE DEF rows
    <2>3. CASE c.row["COD_IF"] \in CodeInterval(CodePrefix, a.cdb.start, a.cdb.end)
      BY <2>3, JobsArePossible DEF CodeInterval
    <2>4. CASE c.row["COD_IF"] \in CodeInterval(PackagePrefix, 1, codes)
      BY <2>4, JobsArePossible DEF CodeInterval
    <2>5. QED
      BY <2>1, <2>2, <2>3, <2>4 DEF CodesHeld
  <1>4. QED
    BY <1>1, <1>2, <1>3

(* A database that has taken a load in is as products meet Oracle.          *)
LEMMA OracleTakesALoad ==
    ASSUME NEW product \in DOMAIN Products, NEW p, NEW a, NEW made, NEW read,
           ClonesOK(product, p, a, made, read), NEW codes \in Nat,
           OutputHeld(product, a, made, read, codes),
           NEW database, NEW new,
           new = [ t \in DOMAIN database |->
                     IF t \in DOMAIN made THEN database[t] \cup {c.row : c \in made[t]}
                                          ELSE database[t] ],
           NEW q \in DOMAIN Products, OracleOK(q, database, codes)
    PROVE  OracleOK(q, new, codes)
  <1>1. DOMAIN made = Cloned(product)
    BY DEF ClonesOK
  <1>2. /\ \A t \in Cloned(product) : IsFiniteSet({c.row : c \in made[t]})
        /\ \A t \in OwnKeyed(product) : \A c \in made[t] : c.row[Schema[t].pk[1]] \in Int
        /\ \A c \in made[TABELA_RAIZ] :
              /\ c.row["COD_IF"][1] = PackagePrefix
                    => c.row["COD_IF"][2] \in Int /\ c.row["COD_IF"][2] <= codes
              /\ c.row["COD_IF"][1] = CodePrefix => c.row["COD_IF"][2] \in Int
    BY OutputFitsOracle
  <1>3. \A t \in OwnKeyed(q) : t \in Cloned(q)
    BY DEF OwnKeyed
  <1>4. TABELA_RAIZ \in Cloned(q)
    BY <1>3, ProductsArePlannable
  <1>5. DOMAIN new = DOMAIN database
    OBVIOUS
  <1>6. ASSUME NEW t \in Cloned(q)
        PROVE  /\ t \in DOMAIN new
               /\ IsFiniteSet(new[t])
               /\ \A fk \in Schema[t].fks : fk.parent \in DOMAIN new
               /\ \A r \in new[t] : \/ r \in database[t]
                                    \/ t \in Cloned(product) /\ \E c \in made[t] : r = c.row
    <2>1. /\ t \in DOMAIN database
          /\ IsFiniteSet(database[t])
          /\ \A fk \in Schema[t].fks : fk.parent \in DOMAIN database
      BY DEF OracleOK
    <2>2. CASE t \in Cloned(product)
      <3>1. new[t] = database[t] \cup {c.row : c \in made[t]}
        BY <1>1, <2>1, <2>2
      <3>2. IsFiniteSet({c.row : c \in made[t]})
        BY <1>2, <2>2
      <3>3. IsFiniteSet(new[t])
        BY <2>1, <3>1, <3>2, FS_Union
      <3>4. QED
        BY <1>5, <2>1, <2>2, <3>1, <3>3
    <2>3. CASE t \notin Cloned(product)
      BY <1>1, <1>5, <2>1, <2>3
    <2>4. QED
      BY <2>2, <2>3
  <1>7. ASSUME NEW t \in OwnKeyed(q), NEW r \in new[t]
        PROVE  r[Schema[t].pk[1]] \in Int
    <2>1. CASE r \in database[t]
      BY <2>1 DEF OracleOK
    <2>2. CASE t \in Cloned(product) /\ \E c \in made[t] : r = c.row
      BY <1>2, <2>2, KeyRuleIsOfTheTable
    <2>3. QED
      BY <1>3, <1>6, <2>1, <2>2
  <1>8. ASSUME NEW r \in new[TABELA_RAIZ]
        PROVE  /\ r["COD_IF"][1] = PackagePrefix
                     => r["COD_IF"][2] \in Int /\ r["COD_IF"][2] <= codes
               /\ r["COD_IF"][1] = CodePrefix => r["COD_IF"][2] \in Int
    <2>1. CASE r \in database[TABELA_RAIZ]
      BY <2>1 DEF OracleOK
    <2>2. CASE \E c \in made[TABELA_RAIZ] : r = c.row
      BY <1>2, <2>2
    <2>3. QED
      BY <1>4, <1>6, <2>1, <2>2
  <1>9. QED
    BY <1>6, <1>7, <1>8 DEF OracleOK

(* A job that is loaded.                                                    *)
LEMMA LoadHolds ==
    ASSUME JobsInv, NEW j \in Jobs, Load(j)
    PROVE  JobsInv'
  <1>1. CASE Fail(j)
    BY <1>1, FailHolds
  <1>2. CASE ~ Fail(j)
    <2>1. Loaded(j)
      BY <1>2, LoadedOrFailed
    <2>2. /\ phase[j] = "published"
          /\ oracle' = [ t \in DOMAIN oracle |->
                 IF t \in DOMAIN clones[j] THEN oracle[t] \cup {c.row : c \in clones[j][t]}
                                           ELSE oracle[t] ]
          /\ phase' = [phase EXCEPT ![j] = "loaded"]
          /\ UNCHANGED <<raw, ledger, plan, reservation, clones, seen, allocated>>
      BY <2>1 DEF Loaded, RowsMade
    <2>3. WorldHeld /\ JobHeld(j) /\ Product(j) \in DOMAIN Products
      BY JobsArePossible DEF JobsInv
    <2>4. /\ PlanHeld(Product(j), plan[j], oracle)
          /\ ReservationHeld(Product(j), plan[j], reservation[j], ledger.history)
          /\ ClonesHeld(Product(j), plan[j], reservation[j], clones[j], seen[j], oracle)
          /\ OutputHeld(Product(j), reservation[j], clones[j], seen[j], allocated)
      BY <2>2, <2>3 DEF JobHeld, PlannedPhases, ReservedPhases, ClonedPhases, OutputPhases
    <2>5. \A product \in DOMAIN Products : OracleOK(product, oracle', allocated)
      <3>1. allocated \in Nat /\ \A product \in DOMAIN Products : OracleOK(product, oracle, allocated)
        BY <2>3 DEF WorldHeld
      <3>2. ClonesOK(Product(j), plan[j], reservation[j], clones[j], seen[j])
        BY <2>4 DEF ClonesHeld
      <3>3. QED
        BY <2>2, <2>3, <2>4, <3>1, <3>2, OracleTakesALoad
    <2>6. WorldHeld'
      BY <2>2, <2>3, <2>5 DEF WorldHeld
    <2>7. Grown(oracle, oracle')
      BY <2>2 DEF Grown
    <2>8. WorldMoves
      BY <2>2, <2>3, <2>7 DEF WorldMoves, WorldHeld
    <2>9. \A i \in Jobs : LeftAlone(i)
      BY <2>2 DEF LeftAlone
    <2>10. phase'[j] = "loaded" /\ \A i \in Jobs \ {j} : phase'[i] = phase[i]
      BY <2>2, <2>3 DEF WorldHeld
    <2>11. OracleOK(Product(j), oracle, allocated)
      BY <2>3 DEF WorldHeld
    <2>12. /\ PlanHeld(Product(j), plan'[j], oracle')
           /\ ReservationHeld(Product(j), plan'[j], reservation'[j], ledger'.history)
           /\ ClonesHeld(Product(j), plan'[j], reservation'[j], clones'[j], seen'[j], oracle')
           /\ OutputHeld(Product(j), reservation'[j], clones'[j], seen'[j], allocated')
      <3>1. /\ PlanHeld(Product(j), plan[j], oracle) => PlanHeld(Product(j), plan'[j], oracle')
            /\ ReservationHeld(Product(j), plan[j], reservation[j], ledger.history)
                  => ReservationHeld(Product(j), plan'[j], reservation'[j], ledger'.history)
            /\ ClonesHeld(Product(j), plan[j], reservation[j], clones[j], seen[j], oracle)
                  => ClonesHeld(Product(j), plan'[j], reservation'[j], clones'[j], seen'[j], oracle')
            /\ OutputHeld(Product(j), reservation[j], clones[j], seen[j], allocated)
                  => OutputHeld(Product(j), reservation'[j], clones'[j], seen'[j], allocated')
        BY <2>3, <2>8, <2>9, <2>11, StaysHeld
      <3>2. QED
        BY <2>4, <3>1
    <2>13. JobHeld(j)'
      BY <2>12 DEF JobHeld
    <2>14. ASSUME NEW i \in Jobs \ {j}
           PROVE  Apart(i, j)' /\ Apart(j, i)'
      <3>1. Apart(i, j) /\ Apart(j, i)
        BY DEF JobsInv
      <3>2. LeftAlone(i) /\ LeftAlone(j)
        BY <2>9
      <3>3. QED
        BY <2>2, <2>10, <3>1, <3>2 DEF Apart, LeftAlone, ReservedPhases, OutputPhases
    <2>15. QED
      BY <2>6, <2>8, <2>9, <2>10, <2>13, <2>14, OneJobSteps
  <1>3. QED
    BY <1>1, <1>2

-----------------------------------------------------------------------------
(* What jobs hold stays with them, whatever happens around them: every job  *)
(* its frozen snapshot, its own reservation, and the clones of its snapshot *)
(* within that reservation.                                                 *)
THEOREM JobsKeepWhatTheyHold == Spec => []JobsInv
  <1>1. Init => JobsInv
    BY JobsInvInitially
  <1>2. JobsInv /\ [Next]_vars => JobsInv'
    <2>1. SUFFICES ASSUME JobsInv, [Next]_vars
                   PROVE  JobsInv'
      OBVIOUS
    <2>2. ASSUME NEW j \in Jobs, Plan(j)
          PROVE  JobsInv'
      BY <2>1, <2>2, PlanHolds
    <2>3. ASSUME NEW j \in Jobs, Reserve(j)
          PROVE  JobsInv'
      BY <2>1, <2>3, ReserveHolds
    <2>4. ASSUME NEW j \in Jobs, Clone(j)
          PROVE  JobsInv'
      BY <2>1, <2>4, CloneStepHolds
    <2>5. ASSUME NEW j \in Jobs, Publish(j)
          PROVE  JobsInv'
      BY <2>1, <2>5, PublishHolds
    <2>6. ASSUME NEW j \in Jobs, Load(j)
          PROVE  JobsInv'
      BY <2>1, <2>6, LoadHolds
    <2>7. ASSUME NEW j \in Jobs, Crash(j)
          PROVE  JobsInv'
      BY <2>1, <2>7, CrashHolds
    <2>8. CASE Reread
      BY <2>1, <2>8, RereadHolds
    <2>9. CASE Insert
      BY <2>1, <2>9, InsertHolds
    <2>10. CASE UNCHANGED vars
      <3>1. UNCHANGED <<raw, oracle, ledger, phase, plan, reservation, clones, seen, allocated>>
        BY <2>10 DEF vars
      <3>2. WorldHeld
        BY <2>1 DEF JobsInv
      <3>3. WorldHeld'
        BY <3>1, <3>2 DEF WorldHeld
      <3>4. WorldMoves
        BY <3>1, <3>2, WorldStands
      <3>5. \A i \in Jobs : LeftAlone(i) /\ phase'[i] = phase[i]
        BY <3>1 DEF LeftAlone
      <3>6. QED
        BY <2>1, <3>3, <3>4, <3>5, QuietStepHolds
    <2>11. QED
      BY <2>1, <2>2, <2>3, <2>4, <2>5, <2>6, <2>7, <2>8, <2>9, <2>10 DEF Next, Finished
  <1>3. QED
    BY <1>1, <1>2, PTL DEF Spec

-----------------------------------------------------------------------------
(* What follows of the outputs.                                             *)

(* What is held of an output.                                               *)
LEMMA HeldByOutput ==
    ASSUME JobsInv, NEW j \in HasOutput
    PROVE  /\ j \in Jobs /\ Product(j) \in DOMAIN Products
           /\ SnapshotOK(Product(j), plan[j])
           /\ SnapshotResolves(Product(j), plan[j], oracle)
           /\ ReservationOK(Product(j), plan[j], reservation[j])
           /\ ClonesOK(Product(j), plan[j], reservation[j], clones[j], seen[j])
           /\ OutputHeld(Product(j), reservation[j], clones[j], seen[j], allocated)
           /\ DOMAIN clones[j] = Cloned(Product(j))
  <1>1. /\ j \in Jobs /\ phase[j] \in OutputPhases /\ Product(j) \in DOMAIN Products
        /\ JobHeld(j)
    BY JobsArePossible DEF JobsInv, HasOutput, OutputPhases
  <1>2. /\ PlanHeld(Product(j), plan[j], oracle)
        /\ ReservationHeld(Product(j), plan[j], reservation[j], ledger.history)
        /\ ClonesHeld(Product(j), plan[j], reservation[j], clones[j], seen[j], oracle)
        /\ OutputHeld(Product(j), reservation[j], clones[j], seen[j], allocated)
    BY <1>1 DEF JobHeld, PlannedPhases, ReservedPhases, ClonedPhases, OutputPhases
  <1>3. QED
    BY <1>1, <1>2 DEF PlanHeld, ReservationHeld, ClonesHeld, ClonesOK

(* Every output holds K clones of each row of its plan's snapshot, with the *)
(* content the row had then, whatever became of RAW.                        *)
THEOREM OutputsFollowPlans == Spec => []OutputFollowsPlan
  <1>1. JobsInv => OutputFollowsPlan
    <2>1. SUFFICES ASSUME JobsInv, NEW j \in HasOutput, NEW t \in DOMAIN clones[j]
                   PROVE  /\ {<<c.src, c.k>> : c \in clones[j][t]}
                                = Copies(plan[j].lotes[t], t, plan[j].k)
                          /\ Cardinality(clones[j][t]) = Cardinality(plan[j].lotes[t]) * plan[j].k
                          /\ \A c \in clones[j][t] : \E r \in plan[j].lotes[t] :
                                /\ RowKey(t, r) = c.src
                                /\ DOMAIN c.row = DOMAIN r
                                /\ \A col \in Content(Product(j), t, r) : c.row[col] = r[col]
      BY DEF OutputFollowsPlan
    <2>2. /\ ClonesOK(Product(j), plan[j], reservation[j], clones[j], seen[j])
          /\ t \in Cloned(Product(j))
      BY <2>1, HeldByOutput
    <2>3. TableHeld(Product(j), plan[j], clones[j], t)
      BY <2>2 DEF ClonesOK
    <2>4. QED
      BY <2>3 DEF TableHeld
  <1>2. QED
    BY <1>1, JobsKeepWhatTheyHold, PTL

(* The keys, codes and control numbers of an output.                        *)
LEMMA OutputIsWithin ==
    ASSUME JobsInv, NEW j \in HasOutput
    PROVE  /\ \A t \in Reserved(j) :
                 {r[Schema[t].pk[1]] : r \in RowsMade(j, t)} = PkSlots(reservation[j].pk[t])
           /\ reservation[j].cdb # Absent =>
                 {r["COD_IF"][2] : r \in RowsMade(j, TABELA_RAIZ)}
                     = reservation[j].cdb.start .. reservation[j].cdb.end
           /\ reservation[j].meu # Absent =>
                 \A s \in Sides(RowsMade(j, OPERACAO_TABELA)) :
                     MeuTuple(s)[3][2] \in reservation[j].meu.start .. reservation[j].meu.end
  <1>1. /\ Product(j) \in DOMAIN Products
        /\ SnapshotOK(Product(j), plan[j])
        /\ ReservationOK(Product(j), plan[j], reservation[j])
        /\ ClonesOK(Product(j), plan[j], reservation[j], clones[j], seen[j])
        /\ OutputHeld(Product(j), reservation[j], clones[j], seen[j], allocated)
    BY HeldByOutput
  <1>2. ASSUME NEW t \in Reserved(j)
        PROVE  {r[Schema[t].pk[1]] : r \in RowsMade(j, t)} = PkSlots(reservation[j].pk[t])
    <2>1. t \in OwnKeyed(Product(j)) /\ reservation[j].pk[t] # Absent
      BY DEF Reserved
    <2>2. {c.row[Schema[t].pk[1]] : c \in clones[j][t]} = PkSlots(reservation[j].pk[t])
      BY <1>1, <2>1 DEF ClonesOK, KeysHeld
    <2>3. {r[Schema[t].pk[1]] : r \in RowsMade(j, t)} = {c.row[Schema[t].pk[1]] : c \in clones[j][t]}
      BY DEF RowsMade
    <2>4. QED
      BY <2>2, <2>3
  <1>3. ASSUME reservation[j].cdb # Absent
        PROVE  {r["COD_IF"][2] : r \in RowsMade(j, TABELA_RAIZ)}
                   = reservation[j].cdb.start .. reservation[j].cdb.end
    <2>1. Products[Product(j)].cdb
      BY <1>1, <1>3 DEF SnapshotOK, ReservationOK
    <2>2. CodesIn(RowsMade(j, TABELA_RAIZ))
             = CodeInterval(CodePrefix, reservation[j].cdb.start, reservation[j].cdb.end)
      BY <1>1, <2>1 DEF OutputHeld, CodesHeld, RowsMade
    <2>3. {r["COD_IF"][2] : r \in RowsMade(j, TABELA_RAIZ)}
             = {code[2] : code \in CodesIn(RowsMade(j, TABELA_RAIZ))}
      BY DEF CodesIn
    <2>4. {code[2] : code \in CodeInterval(CodePrefix, reservation[j].cdb.start, reservation[j].cdb.end)}
             = reservation[j].cdb.start .. reservation[j].cdb.end
      <3> DEFINE S == reservation[j].cdb.start .. reservation[j].cdb.end
                 pair(n) == <<CodePrefix, n>>
      <3>1. \A n \in S : pair(n)[2] = n
        OBVIOUS
      <3> HIDE DEF S, pair
      <3>2. {code[2] : code \in {pair(n) : n \in S}} = S
        BY <3>1
      <3>3. QED
        BY <3>2 DEF CodeInterval, S, pair
    <2>5. QED
      BY <2>2, <2>3, <2>4
  <1>4. ASSUME reservation[j].meu # Absent, NEW s \in Sides(RowsMade(j, OPERACAO_TABELA))
        PROVE  MeuTuple(s)[3][2] \in reservation[j].meu.start .. reservation[j].meu.end
    <2>1. Products[Product(j)].operations
      BY <1>1, <1>4 DEF SnapshotOK, ReservationOK
    <2>2. OPERACAO_TABELA \in Cloned(Product(j))
      BY <1>1, <2>1, ProductsArePlannable DEF OwnKeyed
    <2>3. NumberIsHeld(reservation[j].meu, s)
      BY <1>1, <1>4, <2>2 DEF OutputHeld, NumbersHeld, RowsMade
    <2>4. QED
      BY <2>3 DEF NumberIsHeld
  <1>5. QED
    BY <1>2, <1>3, <1>4

(* An output uses the keys its reservation holds, all of them and no other, *)
(* and codes and control numbers within it.                                 *)
THEOREM OutputsStayWithinReservations == Spec => []OutputWithinReservation
  <1>1. JobsInv => OutputWithinReservation
    BY OutputIsWithin DEF OutputWithinReservation
  <1>2. QED
    BY <1>1, JobsKeepWhatTheyHold, PTL

(* Control numbers of two reservations that do not clash never meet.        *)
LEMMA NumbersDoNotMeet ==
    ASSUME NEW a \in ArtifactShape, NEW b \in ArtifactShape, ~ Clash(a, b),
           NEW x, NumbersHeld(a, x), NEW y, NumbersHeld(b, y)
    PROVE  MeuTuples(x) \cap MeuTuples(y) = {}
  <1>1. SUFFICES ASSUME NEW s \in Sides(x), NEW u \in Sides(y), MeuTuple(s) = MeuTuple(u)
                 PROVE  FALSE
    BY DEF MeuTuples
  <1>2. a.meu # Absent /\ b.meu # Absent
    BY DEF NumbersHeld, Sides
  <1>3. NumberIsHeld(a.meu, s) /\ NumberIsHeld(b.meu, u)
    BY <1>2 DEF NumbersHeld
  <1>4. PICK n \in a.meu.start .. a.meu.end :
           MeuTuple(s) = << a.meu.date, Account(s), <<a.meu.prefix, n>>,
                            s[1]["NUM_ID_TIPO_OPER_OBJETO_SERV"] >>
    BY <1>3 DEF NumberIsHeld
  <1>5. PICK m \in b.meu.start .. b.meu.end :
           MeuTuple(u) = << b.meu.date, Account(u), <<b.meu.prefix, m>>,
                            u[1]["NUM_ID_TIPO_OPER_OBJETO_SERV"] >>
    BY <1>3 DEF NumberIsHeld
  <1>6. /\ a.meu.date = b.meu.date /\ a.meu.prefix = b.meu.prefix /\ n = m
        /\ MeuGroup(s) = MeuGroup(u)
    <2>1. /\ MeuTuple(s)[1] = a.meu.date /\ MeuTuple(u)[1] = b.meu.date
          /\ MeuTuple(s)[2] = Account(s) /\ MeuTuple(u)[2] = Account(u)
          /\ MeuTuple(s)[3] = <<a.meu.prefix, n>> /\ MeuTuple(u)[3] = <<b.meu.prefix, m>>
          /\ MeuTuple(s)[4] = s[1]["NUM_ID_TIPO_OPER_OBJETO_SERV"]
          /\ MeuTuple(u)[4] = u[1]["NUM_ID_TIPO_OPER_OBJETO_SERV"]
      BY <1>4, <1>5
    <2>2. /\ a.meu.date = b.meu.date /\ Account(s) = Account(u)
          /\ <<a.meu.prefix, n>> = <<b.meu.prefix, m>>
          /\ s[1]["NUM_ID_TIPO_OPER_OBJETO_SERV"] = u[1]["NUM_ID_TIPO_OPER_OBJETO_SERV"]
      BY <1>1, <2>1
    <2>3. a.meu.prefix = b.meu.prefix /\ n = m
      BY <2>2
    <2>4. QED
      BY <2>2, <2>3 DEF MeuGroup
  <1>7. /\ a.meu.start \in Int /\ a.meu.end \in Int /\ a.meu.schema \in {2, 3}
        /\ b.meu.start \in Int /\ b.meu.end \in Int /\ b.meu.schema \in {2, 3}
    BY <1>2 DEF ArtifactShape
  <1>8. a.meu.start <= b.meu.end /\ b.meu.start <= a.meu.end
    BY <1>4, <1>5, <1>6, <1>7
  <1>9. MeuMeet(a.meu, b.meu)
    BY <1>3, <1>6, <1>7 DEF MeuMeet, NumberIsHeld
  <1>10. QED
    BY <1>2, <1>6, <1>8, <1>9 DEF Clash, MeuClash

(* Keys of two reservations that do not clash never meet.                   *)
LEMMA KeysDoNotMeet ==
    ASSUME NEW product \in DOMAIN Products, NEW t \in OwnKeyed(product),
           NEW a, NEW b, ~ Clash(a, b), NEW x, NEW y, NEW read, NEW before,
           KeysHeld(a, x, read, t), KeysHeld(b, y, before, t),
           NEW c \in x[t], NEW d \in y[t]
    PROVE  RowKey(t, c.row) # RowKey(t, d.row)
  <1>1. c.row[Schema[t].pk[1]] \in IF a.pk[t] = Absent THEN {} ELSE PkSlots(a.pk[t])
    BY DEF KeysHeld
  <1>2. d.row[Schema[t].pk[1]] \in IF b.pk[t] = Absent THEN {} ELSE PkSlots(b.pk[t])
    BY DEF KeysHeld
  <1>3. t \in Tables
    BY OwnKeyColumn
  <1>4. c.row[Schema[t].pk[1]] # d.row[Schema[t].pk[1]]
    BY <1>1, <1>2, <1>3 DEF Clash, PkClash
  <1>5. QED
    BY <1>4, OwnKeyColumn

(* No two outputs share a key, an instrument code or a control number, and  *)
(* none shares one with Oracle as its job read it.                          *)
THEOREM NothingEverCollides == Spec => []NothingCollides
  <1>1. ASSUME JobsInv, NEW t \in Tables, NEW i \in OutputOf(t), NEW j \in OutputOf(t),
               t \in OwnKeyed(Product(i)) \cap OwnKeyed(Product(j))
        PROVE  LET keys(job) == {RowKey(t, r) : r \in RowsMade(job, t)}
               IN  /\ i # j => keys(i) \cap keys(j) = {}
                   /\ keys(i) \cap KeysIn(seen[i], t) = {}
    <2>1. \A n \in {i, j} : /\ n \in HasOutput /\ n \in Jobs /\ Product(n) \in DOMAIN Products
                            /\ phase[n] \in ReservedPhases
                            /\ KeysHeld(reservation[n], clones[n], seen[n], t)
      BY <1>1, HeldByOutput DEF OutputOf, HasOutput, ReservedPhases, ClonesOK
    <2>2. ASSUME i # j, NEW c \in clones[i][t], NEW d \in clones[j][t]
          PROVE  RowKey(t, c.row) # RowKey(t, d.row)
      <3>1. ~ Clash(reservation[i], reservation[j])
        BY <1>1, <2>1, <2>2 DEF JobsInv, Apart
      <3>2. QED
        BY <1>1, <2>1, <3>1, KeysDoNotMeet
    <2>3. \A c \in clones[i][t] : \A r \in seen[i][t] : RowKey(t, c.row) # RowKey(t, r)
      BY <2>1 DEF KeysHeld
    <2>4. QED
      BY <2>2, <2>3 DEF RowsMade, KeysIn
  <1>2. ASSUME JobsInv, NEW i \in OutputOf(TABELA_RAIZ), NEW j \in OutputOf(TABELA_RAIZ)
        PROVE  LET codes(rows) == {r["COD_IF"] : r \in rows}
               IN  /\ i # j => codes(RowsMade(i, TABELA_RAIZ))
                                  \cap codes(RowsMade(j, TABELA_RAIZ)) = {}
                   /\ codes(RowsMade(i, TABELA_RAIZ)) \cap codes(seen[i][TABELA_RAIZ]) = {}
    <2>1. \A n \in {i, j} :
             /\ n \in Jobs /\ phase[n] \in OutputPhases
             /\ OutputHeld(Product(n), reservation[n], clones[n], seen[n], allocated)
      BY <1>2, HeldByOutput DEF OutputOf, HasOutput, OutputPhases
    <2>2. i # j => CodesIn(RowsMade(i, TABELA_RAIZ)) \cap CodesIn(RowsMade(j, TABELA_RAIZ)) = {}
      BY <1>2, <2>1 DEF JobsInv, Apart, RowsMade
    <2>3. CodesIn(RowsMade(i, TABELA_RAIZ)) \cap CodesIn(seen[i][TABELA_RAIZ]) = {}
      BY <2>1 DEF OutputHeld, RowsMade
    <2>4. QED
      BY <2>2, <2>3 DEF CodesIn
  <1>3. ASSUME JobsInv, NEW i \in OutputOf(OPERACAO_TABELA), NEW j \in OutputOf(OPERACAO_TABELA)
        PROVE  /\ i # j => MeuTuples(RowsMade(i, OPERACAO_TABELA))
                               \cap MeuTuples(RowsMade(j, OPERACAO_TABELA)) = {}
               /\ MeuTuples(RowsMade(i, OPERACAO_TABELA))
                     \cap MeuTuples(seen[i][OPERACAO_TABELA]) = {}
    <2>1. \A n \in {i, j} :
             /\ n \in Jobs /\ n \in HasOutput /\ phase[n] \in ReservedPhases
             /\ OPERACAO_TABELA \in DOMAIN clones[n]
      BY <1>3 DEF OutputOf, HasOutput, ReservedPhases
    <2>2. \A n \in {i, j} :
             /\ ReservationOK(Product(n), plan[n], reservation[n])
             /\ OutputHeld(Product(n), reservation[n], clones[n], seen[n], allocated)
             /\ DOMAIN clones[n] = Cloned(Product(n))
      BY <1>3, <2>1, HeldByOutput
    <2>3. \A n \in {i, j} :
             /\ reservation[n] \in ArtifactShape
             /\ NumbersHeld(reservation[n], RowsMade(n, OPERACAO_TABELA))
             /\ MeuTuples(RowsMade(n, OPERACAO_TABELA))
                   \cap MeuTuples(seen[n][OPERACAO_TABELA]) = {}
      BY <2>1, <2>2 DEF OutputHeld, ReservationOK, RowsMade
    <2>4. ASSUME i # j
          PROVE  MeuTuples(RowsMade(i, OPERACAO_TABELA))
                    \cap MeuTuples(RowsMade(j, OPERACAO_TABELA)) = {}
      <3>1. ~ Clash(reservation[i], reservation[j])
        BY <1>3, <2>1, <2>4 DEF JobsInv, Apart
      <3>2. QED
        BY <2>3, <3>1, NumbersDoNotMeet
    <2>5. QED
      BY <2>3, <2>4
  <1>4. JobsInv => NothingCollides
    BY <1>1, <1>2, <1>3 DEF NothingCollides
  <1>5. QED
    BY <1>4, JobsKeepWhatTheyHold, PTL

(* The source of a clone, and what a reference of the clone follows.        *)
LEMMA CloneFollowsSource ==
    ASSUME JobsInv, NEW j \in HasOutput, NEW t \in DOMAIN clones[j], NEW c \in clones[j][t],
           NEW fk \in Emitted(Product(j), t, c.row)
    PROVE  /\ t \in Cloned(Product(j)) /\ fk \in Schema[t].fks /\ NoNullIn(c.row, fk)
           /\ \E r \in plan[j].lotes[t] : RowKey(t, r) = c.src
           /\ \A r \in plan[j].lotes[t] :
                 RowKey(t, r) = c.src =>
                     FollowsSource(Product(j), t, plan[j].lotes, plan[j].missing, clones[j], c, r, fk)
  <1>1. /\ ClonesOK(Product(j), plan[j], reservation[j], clones[j], seen[j])
        /\ t \in Cloned(Product(j))
    BY HeldByOutput
  <1>2. /\ TableHeld(Product(j), plan[j], clones[j], t)
        /\ FamilyHeld(Product(j), plan[j], clones[j], t)
    BY <1>1 DEF ClonesOK
  <1>3. fk \in Schema[t].fks /\ NoNullIn(c.row, fk)
    BY DEF Emitted, NoNullIn
  <1>4. \E r \in plan[j].lotes[t] : RowKey(t, r) = c.src
    BY <1>2 DEF TableHeld
  <1>5. QED
    BY <1>1, <1>2, <1>3, <1>4 DEF FamilyHeld

(* The clone of a row for a copy is the one that RowMade names.             *)
LEMMA RowMadeIsTheRow ==
    ASSUME JobsInv, NEW j \in HasOutput, NEW t \in Cloned(Product(j)), NEW d \in clones[j][t]
    PROVE  RowMade(j, t, d.src, d.k) = d.row
  <1>1. ClonesOK(Product(j), plan[j], reservation[j], clones[j], seen[j])
    BY HeldByOutput
  <1>2. TableHeld(Product(j), plan[j], clones[j], t)
    BY <1>1 DEF ClonesOK
  <1>3. \A a, b \in clones[j][t] : a.src = b.src /\ a.k = b.k => a = b
    BY <1>2 DEF TableHeld
  <1> DEFINE e == CHOOSE c \in clones[j][t] : c.src = d.src /\ c.k = d.k
  <1>4. e \in clones[j][t] /\ e.src = d.src /\ e.k = d.k
    OBVIOUS
  <1>5. e = d
    BY <1>3, <1>4
  <1>6. QED
    BY <1>5 DEF RowMade

(* A clone refers to the clones of its own copy, wherever its source refers *)
(* to a row of the snapshot, and to what its source refers to elsewhere.    *)
THEOREM FamiliesAlwaysStayTogether == Spec => []FamiliesStayTogether
  <1>1. ASSUME JobsInv, NEW j \in HasOutput, NEW t \in DOMAIN clones[j], NEW c \in clones[j][t],
               NEW fk \in Emitted(Product(j), t, c.row)
        PROVE  LET source == CHOOSE r \in plan[j].lotes[t] : RowKey(t, r) = c.src
                   parents == IF fk \in Remaps(Product(j), t)
                              THEN {p \in plan[j].lotes[fk.parent] : Refers(source, fk, p)}
                              ELSE {}
               IN  IF parents = {}
                   THEN Key(c.row, fk.cols) = Key(source, fk.cols)
                   ELSE \A p \in parents :
                           Refers(c.row, fk, RowMade(j, fk.parent, RowKey(fk.parent, p), c.k))
    <2> DEFINE source == CHOOSE r \in plan[j].lotes[t] : RowKey(t, r) = c.src
               parents == IF fk \in Remaps(Product(j), t)
                          THEN {p \in plan[j].lotes[fk.parent] : Refers(source, fk, p)}
                          ELSE {}
    <2>1. /\ t \in Cloned(Product(j)) /\ fk \in Schema[t].fks
          /\ \E r \in plan[j].lotes[t] : RowKey(t, r) = c.src
          /\ \A r \in plan[j].lotes[t] :
                RowKey(t, r) = c.src =>
                    FollowsSource(Product(j), t, plan[j].lotes, plan[j].missing, clones[j], c, r, fk)
      BY <1>1, CloneFollowsSource
    <2>2. source \in plan[j].lotes[t] /\ RowKey(t, source) = c.src
      BY <2>1
    <2>3. FollowsSource(Product(j), t, plan[j].lotes, plan[j].missing, clones[j], c, source, fk)
      BY <2>1, <2>2
    <2> HIDE DEF source
    <2>4. ASSUME parents = {}
          PROVE  Key(c.row, fk.cols) = Key(source, fk.cols)
      <3>1. ~ (fk \in Remaps(Product(j), t) /\ \E p \in plan[j].lotes[fk.parent] : Refers(source, fk, p))
        BY <2>4
      <3>2. \A n \in DOMAIN fk.cols : c.row[fk.cols[n]] = source[fk.cols[n]]
        BY <2>3, <3>1 DEF FollowsSource
      <3>3. QED
        BY <3>2 DEF Key
    <2>5. ASSUME NEW p \in parents
          PROVE  Refers(c.row, fk, RowMade(j, fk.parent, RowKey(fk.parent, p), c.k))
      <3>1. fk \in Remaps(Product(j), t) /\ p \in plan[j].lotes[fk.parent] /\ Refers(source, fk, p)
        BY <2>5
      <3>2. PICK d \in clones[j][fk.parent] :
               d.src = RowKey(fk.parent, p) /\ d.k = c.k /\ Refers(c.row, fk, d.row)
        BY <2>3, <3>1 DEF FollowsSource
      <3>3. fk.parent \in Cloned(Product(j)) /\ Product(j) \in DOMAIN Products
        BY <1>1, <2>1, <3>1, HeldByOutput, ReferenceToAKey
      <3>4. RowMade(j, fk.parent, d.src, d.k) = d.row
        BY <1>1, <3>2, <3>3, RowMadeIsTheRow
      <3>5. QED
        BY <3>2, <3>4
    <2>6. QED
      BY <2>4, <2>5 DEF source
  <1>2. JobsInv => FamiliesStayTogether
    BY <1>1 DEF FamiliesStayTogether
  <1>3. QED
    BY <1>2, JobsKeepWhatTheyHold, PTL

(* Every reference of an output leads to a row of the output or of Oracle.  *)
THEOREM ReferencesAlwaysResolve == Spec => []ReferencesResolve
  <1>1. ASSUME JobsInv, NEW j \in HasOutput, NEW t \in DOMAIN clones[j], NEW c \in clones[j][t],
               NEW fk \in Emitted(Product(j), t, c.row)
        PROVE  \/ \E p \in oracle[fk.parent] : Refers(c.row, fk, p)
               \/ /\ fk.parent \in DOMAIN clones[j]
                  /\ \E d \in clones[j][fk.parent] : Refers(c.row, fk, d.row)
    <2>1. /\ Product(j) \in DOMAIN Products
          /\ SnapshotResolves(Product(j), plan[j], oracle)
          /\ DOMAIN clones[j] = Cloned(Product(j))
      BY <1>1, HeldByOutput
    <2>2. /\ t \in Cloned(Product(j)) /\ fk \in Schema[t].fks /\ NoNullIn(c.row, fk)
          /\ \E r \in plan[j].lotes[t] : RowKey(t, r) = c.src
          /\ \A r \in plan[j].lotes[t] :
                RowKey(t, r) = c.src =>
                    FollowsSource(Product(j), t, plan[j].lotes, plan[j].missing, clones[j], c, r, fk)
      BY <1>1, CloneFollowsSource
    <2>3. PICK s \in plan[j].lotes[t] :
             FollowsSource(Product(j), t, plan[j].lotes, plan[j].missing, clones[j], c, s, fk)
      BY <2>2
    <2>4. CASE fk \in Remaps(Product(j), t) /\ \E p \in plan[j].lotes[fk.parent] : Refers(s, fk, p)
      <3>1. \E d \in clones[j][fk.parent] : Refers(c.row, fk, d.row)
        BY <2>3, <2>4 DEF FollowsSource
      <3>2. fk.parent \in DOMAIN clones[j]
        BY <2>1, <2>2, <2>4, ReferenceToAKey
      <3>3. QED
        BY <3>1, <3>2
    <2>5. CASE ~ (fk \in Remaps(Product(j), t) /\ \E p \in plan[j].lotes[fk.parent] : Refers(s, fk, p))
      <3>1. \A n \in DOMAIN fk.cols :
               /\ c.row[fk.cols[n]] = s[fk.cols[n]]
               /\ <<t, fk.cols[n]>> \in Products[Product(j)].selective
                     => <<t, fk.cols[n], s[fk.cols[n]]>> \notin plan[j].missing
        BY <2>3, <2>5 DEF FollowsSource
      <3>2. fk \in Emitted(Product(j), t, s)
        BY <1>1, <3>1 DEF Emitted
      <3>3. RowResolves(Product(j), plan[j], oracle, t, s, fk)
        BY <2>1, <2>2, <3>2 DEF SnapshotResolves
      <3>4. PICK p \in oracle[fk.parent] : Refers(s, fk, p)
        BY <2>5, <3>1, <3>3 DEF RowResolves
      <3>5. Refers(c.row, fk, p)
        BY <3>1, <3>4 DEF Refers
      <3>6. QED
        BY <3>5
    <2>6. QED
      BY <2>4, <2>5
  <1>2. ASSUME JobsInv, NEW j \in HasOutput, NEW t \in DOMAIN clones[j],
               NEW r \in RowsMade(j, t), NEW fk \in Emitted(Product(j), t, r)
        PROVE  \/ \E p \in oracle[fk.parent] : Refers(r, fk, p)
               \/ /\ fk.parent \in DOMAIN clones[j]
                  /\ \E p \in RowsMade(j, fk.parent) : Refers(r, fk, p)
    <2>1. PICK c \in clones[j][t] : r = c.row
      BY DEF RowsMade
    <2>2. \/ \E p \in oracle[fk.parent] : Refers(c.row, fk, p)
          \/ /\ fk.parent \in DOMAIN clones[j]
             /\ \E d \in clones[j][fk.parent] : Refers(c.row, fk, d.row)
      BY <1>1, <1>2, <2>1
    <2>3. QED
      BY <2>1, <2>2 DEF RowsMade
  <1>3. JobsInv => ReferencesResolve
    BY <1>2 DEF ReferencesResolve
  <1>4. QED
    BY <1>3, JobsKeepWhatTheyHold, PTL
=============================================================================
