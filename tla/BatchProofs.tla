----------------------------- MODULE BatchProofs ----------------------------
(***************************************************************************)
(* Proofs about the programs of BatchJobs.                                  *)
(*                                                                         *)
(* Two of them replace a published table: engorda's publication of an       *)
(* output (StagingPromotion) and the repair of OPERACAO (OperationRepair).  *)
(* Both move the old table aside, the new one into its place, and the old   *)
(* one back when that fails, over a store whose renames copy object by      *)
(* object. The theorems hold for every set of parts, any number of          *)
(* attempts, and a failure or a death at every call.                        *)
(*                                                                         *)
(* The third is the session of a runner (SessionAuth), for any number of    *)
(* concurrent requests, lapses, intervals and faults.                       *)
(*                                                                         *)
(* The fourth is the Oracle loader with its rollback (TableLoad): for every *)
(* inventory, foreign key graph, key set, chunk size and number of jobs and *)
(* faults, an append finds its parents, a load that reports success is      *)
(* complete, a rollback that does is exact, and a rerun adds no duplicate.  *)
(*                                                                         *)
(* The fifth is the lineage of a pipeline's artifacts (PipelineLineage),    *)
(* for every registry, configuration, command and chain of adoptions; the   *)
(* last two are the ROWID migration (RowidMigration), for every table and   *)
(* growth of it, and the parallel extraction (ParallelExtract), for every   *)
(* catalog, number of buckets and of retries.                               *)
(***************************************************************************)
EXTENDS BatchJobs, ObjectTree, FiniteSetTheorems, FunctionTheorems, TLAPS

-----------------------------------------------------------------------------
(* The programs of BatchJobs.                                               *)

\* A behaviour is about one program, and each of its steps is one of that
\* program, or leaves its variables alone.
LEMMA StepsAreApart ==
    ASSUME [Next]_vars
    PROVE  /\ program' = program
           /\ program = "load" => [Load!Next]_(Load!vars)
           /\ program = "promotion" => [Promotion!Next]_(Promotion!vars)
           /\ program = "repair" => [Repair!Next]_(Repair!vars)
           /\ program = "session" => [Session!Next]_(Session!vars)
           /\ program = "lineage" => [Lineage!Next]_(Lineage!vars)
           /\ program = "migration" => [Migration!Next]_(Migration!vars)
           /\ program = "extract" => [Extract!Next]_(Extract!vars)
           /\ program = "rewrite" => [Rewrite!Next]_(Rewrite!vars)
           /\ program = "handoff" => [Handoff!Next]_(Handoff!vars)
           /\ program = "commands" => [Engorda!Next]_(Engorda!vars)
<1>1. CASE Next
  BY <1>1 DEF Next, Rest, LoadStep, PromotionStep, RepairStep, ExtractStep, MigrationStep,
      SessionStep, LineageStep, RewriteStep, HandoffStep, CommandsStep
<1>2. CASE UNCHANGED vars
  BY <1>2 DEF vars, ofLoad, ofFiles, ofPromotion, ofSession, ofLineage, ofMigration, ofExtract,
      ofRewrite, ofHandoff, ofCommands, Rewrite!vars, Handoff!vars, Engorda!vars,
      Load!vars, Load!schema, Load!place, Promotion!vars, Repair!vars, Session!vars,
      Session!options, Lineage!vars, Migration!vars, Migration!file, Extract!vars, Extract!plan
<1> QED
  BY <1>1, <1>2

-----------------------------------------------------------------------------
(* Numbers and finite sets. The library's induction theorems take the       *)
(* predicate as a parameter; the principles below speak of a set instead.   *)

(* A nonempty set of natural numbers has a least one.                       *)
LEMMA LeastNumber ==
    ASSUME NEW S \in SUBSET Nat, S # {}
    PROVE  \E x \in S : \A y \in S : x <= y
  <1> DEFINE R == { p \in Nat \X Nat : p[1] < p[2] }
  <1>1. IsWellFoundedOn(R, Nat)
    BY NatLessThanWellFounded DEF OpToRel
  <1>2. \A x, y \in Nat : y < x => <<y, x>> \in R
    OBVIOUS
  <1> HIDE DEF R
  <1>3. PICK x \in S : \A y \in S : <<y, x>> \notin R
    BY <1>1, WFMin
  <1>4. ASSUME NEW y \in S
        PROVE  x <= y
    <2>1. x \in Nat /\ y \in Nat /\ <<y, x>> \notin R
      BY <1>3
    <2>2. ~(y < x)
      BY <1>2, <2>1
    <2>3. QED
      BY <2>1, <2>2
  <1>5. QED
    BY <1>4

(* What holds of 0, and of every number up to N if of the one before it,    *)
(* holds of the numbers up to N.                                            *)
LEMMA CountingUp ==
    ASSUME NEW N \in Nat, NEW P, 0 \in P, \A n \in 1 .. N : n - 1 \in P => n \in P
    PROVE  0 .. N \subseteq P
  <1> DEFINE bad == (0 .. N) \ P
  <1>1. SUFFICES ASSUME bad # {}
                 PROVE  FALSE
    OBVIOUS
  <1>2. PICK n \in bad : \A m \in bad : n <= m
    <2>1. bad \in SUBSET Nat
      OBVIOUS
    <2> HIDE DEF bad
    <2>2. QED
      BY <1>1, <2>1, LeastNumber
  <1>3. n \in 1 .. N /\ n - 1 \in 0 .. N /\ n - 1 \notin bad
    BY <1>2
  <1>4. QED
    BY <1>2, <1>3

(* A function that takes no step down is greater where its argument is.     *)
LEMMA StepsUp ==
    ASSUME NEW N \in Nat, NEW g \in [0 .. N -> Int], \A n \in 1 .. N : g[n - 1] <= g[n],
           NEW a \in 0 .. N, NEW b \in 0 .. N, a <= b
    PROVE  g[a] <= g[b]
  <1> DEFINE P == {n \in 0 .. N : a <= n => g[a] <= g[n]}
  <1>1. 0 \in P
    OBVIOUS
  <1>2. ASSUME NEW n \in 1 .. N, n - 1 \in P
        PROVE  n \in P
    <2>1. g[n - 1] <= g[n] /\ g[n - 1] \in Int /\ g[n] \in Int /\ g[a] \in Int
      OBVIOUS
    <2>2. QED
      BY <1>2, <2>1
  <1> HIDE DEF P
  <1>3. b \in P
    BY <1>1, <1>2, CountingUp
  <1>4. QED
    BY <1>3 DEF P

(* A recursive function on the numbers up to N is there.                    *)
Iterates(f, N, V, first, step) ==
    f \in [0 .. N -> V] /\ f[0] = first /\ \A n \in 1 .. N : f[n] = step[n][f[n - 1]]

LEMMA IterationExists ==
    ASSUME NEW N \in Nat, NEW V, NEW first \in V, NEW step \in [1 .. N -> [V -> V]]
    PROVE  \E f : Iterates(f, N, V, first, step)
  <1> DEFINE Upto(f, m) == f[0] = first /\ \A n \in 1 .. m : f[n] = step[n][f[n - 1]]
             P == {m \in 0 .. N : \E f \in [0 .. N -> V] : Upto(f, m)}
  <1>1. 0 \in P
    <2> DEFINE f == [n \in 0 .. N |-> first]
    <2>1. f \in [0 .. N -> V] /\ f[0] = first /\ 0 \in 0 .. N /\ 1 .. 0 = {}
      OBVIOUS
    <2> HIDE DEF f
    <2>2. Upto(f, 0)
      BY <2>1
    <2>3. QED
      BY <2>1, <2>2
  <1>2. ASSUME NEW m \in 1 .. N, m - 1 \in P
        PROVE  m \in P
    <2>1. PICK f \in [0 .. N -> V] : Upto(f, m - 1)
      BY <1>2
    <2> DEFINE g == [n \in 0 .. N |-> IF n = m THEN step[m][f[m - 1]] ELSE f[n]]
    <2>2. step[m] \in [V -> V] /\ m - 1 \in 0 .. N /\ f[m - 1] \in V
      OBVIOUS
    <2>3. step[m][f[m - 1]] \in V
      BY <2>2
    <2>4. g \in [0 .. N -> V]
      BY <2>3
    <2>5. g[0] = first
      BY <2>1
    <2>6. ASSUME NEW n \in 1 .. m
          PROVE  g[n] = step[n][g[n - 1]]
      <3>1. n - 1 \in 0 .. N /\ n \in 0 .. N /\ n - 1 # m
        OBVIOUS
      <3>2. g[n - 1] = f[n - 1]
        BY <3>1
      <3>3. CASE n = m
        BY <3>1, <3>2, <3>3
      <3>4. CASE n # m
        <4>1. n \in 1 .. m - 1
          BY <3>4
        <4>2. g[n] = f[n] /\ f[n] = step[n][f[n - 1]]
          BY <2>1, <3>1, <3>4, <4>1
        <4>3. QED
          BY <3>2, <4>2
      <3>5. QED
        BY <3>3, <3>4
    <2> HIDE DEF g
    <2>7. Upto(g, m)
      BY <2>5, <2>6
    <2>8. QED
      BY <2>4, <2>7
  <1> HIDE DEF P
  <1>3. N \in P
    <2>1. \A m \in 1 .. N : m - 1 \in P => m \in P
      BY <1>2
    <2>2. 0 .. N \subseteq P
      BY <1>1, <2>1, CountingUp
    <2>3. QED
      BY <2>2
  <1>4. QED
    BY <1>3 DEF P, Iterates

(* A nonempty finite set of integers has a greatest element.                *)
LEMMA GreatestNumber ==
    ASSUME NEW S \in SUBSET Int, IsFiniteSet(S), S # {}
    PROVE  \E x \in S : \A y \in S : y <= x
  <1> DEFINE Above(x) == {y \in S : y > x}
             N == {Cardinality(Above(x)) : x \in S}
  <1>1. \A x \in S : IsFiniteSet(Above(x)) /\ Cardinality(Above(x)) \in Nat
    <2> TAKE x \in S
    <2>1. Above(x) \in SUBSET S
      OBVIOUS
    <2> HIDE DEF Above
    <2>2. QED
      BY <2>1, FS_Subset, FS_CardinalityType
  <1> HIDE DEF Above
  <1>2. N \in SUBSET Nat /\ N # {}
    BY <1>1
  <1>3. PICK n \in N : \A m \in N : n <= m
    BY <1>2, LeastNumber
  <1>4. PICK x \in S : n = Cardinality(Above(x))
    BY <1>3
  <1>5. ASSUME NEW y \in S, ~(y <= x)
        PROVE  FALSE
    <2>1. x \in Int /\ y \in Int /\ y > x
      BY <1>5
    <2>2. \A z \in S : z > y => z > x
      BY <2>1
    <2>3. y \in Above(x)
      BY <2>1 DEF Above
    <2>4. y \notin Above(y)
      BY <2>1 DEF Above
    <2>5. Above(y) \in SUBSET Above(x)
      BY <2>2 DEF Above
    <2>6. y \in Above(x) /\ y \notin Above(y) /\ Above(y) \in SUBSET Above(x)
      BY <2>3, <2>4, <2>5
    <2>7. Cardinality(Above(y)) <= Cardinality(Above(x)) /\ Cardinality(Above(y)) # Cardinality(Above(x))
      BY <2>6, <1>1, FS_Subset
    <2>8. n <= Cardinality(Above(y))
      BY <1>3
    <2>9. QED
      BY <2>7, <2>8, <1>1, <1>4
  <1>6. QED
    BY <1>5

(* A proper subset of a finite set has fewer elements.                      *)
LEMMA FewerElements ==
    ASSUME NEW S, IsFiniteSet(S), NEW T \in SUBSET S, T # S
    PROVE  /\ IsFiniteSet(T)
           /\ Cardinality(S) \in Nat /\ Cardinality(T) \in Nat
           /\ Cardinality(T) < Cardinality(S)
  <1>1. IsFiniteSet(T) /\ Cardinality(T) <= Cardinality(S) /\ Cardinality(T) # Cardinality(S)
    BY FS_Subset
  <1>2. Cardinality(S) \in Nat /\ Cardinality(T) \in Nat
    BY <1>1, FS_CardinalityType
  <1>3. QED
    BY <1>1, <1>2

(* Ranking the elements of a finite set by a strict total order, given as   *)
(* the set below each element, numbers them from 0 on without a gap.        *)
LEMMA RanksAreABijection ==
    ASSUME NEW S, IsFiniteSet(S), NEW below \in [S -> SUBSET S],
           \A a, b \in S : a # b => a \in below[b] \/ b \in below[a],
           \A a \in S : a \notin below[a],
           \A a, b \in S : a \in below[b] => below[a] \subseteq below[b]
    PROVE  /\ \A a \in S : Cardinality(below[a]) \in 0 .. Cardinality(S) - 1
           /\ \A a, b \in S : Cardinality(below[a]) = Cardinality(below[b]) => a = b
           /\ \A n \in 0 .. Cardinality(S) - 1 : \E a \in S : Cardinality(below[a]) = n
           /\ Cardinality(S) \in Nat
  <1> DEFINE rank == [a \in S |-> Cardinality(below[a])]
             Slots == 0 .. Cardinality(S) - 1
  <1>0. Cardinality(S) \in Nat
    BY FS_CardinalityType
  <1>1. ASSUME NEW a \in S
        PROVE  /\ IsFiniteSet(below[a])
               /\ Cardinality(below[a]) \in Slots
    <2>1. below[a] \in SUBSET S /\ below[a] # S
      OBVIOUS
    <2>2. QED
      BY <2>1, FewerElements
  <1>2. ASSUME NEW a \in S, NEW b \in S, a \in below[b]
        PROVE  Cardinality(below[a]) # Cardinality(below[b])
    <2>1. below[a] \in SUBSET below[b] /\ below[a] # below[b] /\ IsFiniteSet(below[b])
      BY <1>1, <1>2
    <2>2. Cardinality(below[a]) < Cardinality(below[b])
          /\ Cardinality(below[a]) \in Nat /\ Cardinality(below[b]) \in Nat
      BY <2>1, FewerElements
    <2>3. QED
      BY <2>2
  <1>3. rank \in [S -> Slots]
    BY <1>1
  <1>4. \A a, b \in S : rank[a] = rank[b] => a = b
    BY <1>2
  <1>5. rank \in Injection(S, Slots)
    BY <1>3, <1>4, Fun_IsInj
  <1>6. IsFiniteSet(Slots) /\ Cardinality(Slots) = Cardinality(S)
    <2>1. 0 \in Int /\ Cardinality(S) - 1 \in Int
      BY <1>0
    <2>2. /\ IsFiniteSet(Slots)
          /\ Cardinality(Slots) = IF 0 > Cardinality(S) - 1 THEN 0 ELSE Cardinality(S) - 1 - 0 + 1
      BY <2>1, FS_Interval
    <2>3. QED
      BY <2>2, <1>0
  <1> HIDE DEF rank, Slots
  <1>7. rank \in Surjection(S, Slots)
    BY <1>5, <1>6, FS_Injection
  <1>8. \A n \in Slots : \E a \in S : rank[a] = n
    BY <1>7, Fun_SurjectionProperties
  <1>9. QED
    BY <1>0, <1>1, <1>4, <1>8 DEF rank, Slots

(* The image of a finite set under a function is finite, and as large when  *)
(* the function separates its elements.                                     *)
LEMMA FiniteImage ==
    ASSUME NEW S, IsFiniteSet(S), NEW f, DOMAIN f = S
    PROVE  /\ IsFiniteSet({f[x] : x \in S})
           /\ Cardinality({f[x] : x \in S}) \in Nat
           /\ (\A x, y \in S : f[x] = f[y] => x = y)
                 => Cardinality({f[x] : x \in S}) = Cardinality(S)
  <1> DEFINE T == {f[x] : x \in S}
             g == [x \in S |-> f[x]]
  <1>1. g \in [S -> T] /\ \A t \in T : \E s \in S : g[s] = t
    OBVIOUS
  <1>2. \A x \in S : g[x] = f[x]
    OBVIOUS
  <1> HIDE DEF g, T
  <1>3. g \in Surjection(S, T)
    BY <1>1, Fun_IsSurj
  <1>4. IsFiniteSet(T) /\ (Cardinality(T) = Cardinality(S) <=> g \in Injection(S, T))
    BY <1>3, FS_Surjection
  <1>5. (\A x, y \in S : f[x] = f[y] => x = y) => g \in Injection(S, T)
    BY <1>1, <1>2, Fun_IsInj
  <1>6. QED
    BY <1>4, <1>5, FS_CardinalityType DEF T

-----------------------------------------------------------------------------
(* Files and directories.                                                   *)

\* What may be in a directory: parts, each as some run wrote it.
Files == Nat \X Parts

\* The directories of D hold every part among them.
Cover(t, D) == \A part \in Parts : \E p \in D : \E f \in t[p] : f[2] = part

-----------------------------------------------------------------------------
(* Renames and deletions (ObjectTree).                                      *)

\* A rename, whole or partial, fills the one directory from the other; no
\* other directory changes.
LEMMA Moving ==
    ASSUME NEW P, NEW t \in [P -> SUBSET Files], NEW from \in P, NEW to \in P, from # to,
           NEW u \in PartialMoves(t, from, to) \cup {Moved(t, from, to)}
    PROVE  /\ u \in [P -> SUBSET Files]
           /\ \A p \in P \ {from, to} : u[p] = t[p]
           /\ t[to] \subseteq u[to] /\ u[from] \subseteq t[from]
           /\ u[to] \subseteq t[to] \cup t[from]
           /\ t[from] \subseteq u[to] \cup u[from]
<1>1. CASE u = Moved(t, from, to)
  BY <1>1 DEF Moved
<1>2. CASE u \in PartialMoves(t, from, to)
  <2>1. PICK m \in (SUBSET t[from]) \X (SUBSET t[from]) :
            /\ m[2] \subseteq m[1]
            /\ u = [t EXCEPT ![to] = @ \cup m[1], ![from] = @ \ m[2]]
    BY <1>2 DEF PartialMoves
  <2>2. m[1] \subseteq t[from] /\ m[2] \subseteq t[from]
    BY <2>1
  <2>3. u[to] = t[to] \cup m[1] /\ u[from] = t[from] \ m[2]
    BY <2>1
  <2>4. \A p \in P \ {from, to} : u[p] = t[p]
    BY <2>1
  <2>5. u \in [P -> SUBSET Files]
    BY <2>1, <2>2
  <2> QED
    BY <2>1, <2>2, <2>3, <2>4, <2>5
<1> QED
  BY <1>1, <1>2

\* A rename that succeeds leaves nothing behind.
LEMMA MovedAll ==
    ASSUME NEW P, NEW t \in [P -> SUBSET Files], NEW from \in P, NEW to \in P, from # to
    PROVE  /\ Moved(t, from, to)[from] = {}
           /\ Moved(t, from, to)[to] = t[to] \cup t[from]
  BY DEF Moved

\* A rename within D keeps every part D holds.
LEMMA MovingKeeps ==
    ASSUME NEW P, NEW t \in [P -> SUBSET Files], NEW from \in P, NEW to \in P, from # to,
           NEW u \in PartialMoves(t, from, to) \cup {Moved(t, from, to)},
           NEW D \in SUBSET P, to \in D, Cover(t, D)
    PROVE  Cover(u, D)
<1> SUFFICES ASSUME NEW part \in Parts
             PROVE  \E p \in D : \E f \in u[p] : f[2] = part
  BY DEF Cover
<1>1. PICK p \in D : \E f \in t[p] : f[2] = part
  BY DEF Cover
<1>2. PICK f \in t[p] : f[2] = part
  BY <1>1
<1>3. p \in P
  OBVIOUS
<1>4. CASE p = from
  BY <1>2, <1>4, Moving
<1>5. CASE p # from
  BY <1>2, <1>3, <1>5, Moving
<1> QED
  BY <1>4, <1>5

\* A deletion, whole or partial, takes files of one directory.
LEMMA Deleting ==
    ASSUME NEW P, NEW t \in [P -> SUBSET Files], NEW path \in P,
           NEW u \in PartialDeletes(t, path) \cup {Deleted(t, path)}
    PROVE  /\ u \in [P -> SUBSET Files]
           /\ \A p \in P \ {path} : u[p] = t[p]
  BY DEF Deleted, PartialDeletes

-----------------------------------------------------------------------------
(* The publication of an output.                                            *)

pPaths == Promotion!Paths
pFinal == Promotion!Final
pStaging == Promotion!Staging(attempt)
pBackup == Promotion!Backup(attempt)
pBackups == {Promotion!Backup(n) : n \in 1 .. MaxRuns}

\* The directories of an attempt are three different ones.
LEMMA PromotionPaths ==
    ASSUME MaxRuns \in Nat, NEW n \in 1 .. MaxRuns
    PROVE  /\ pFinal \in pPaths
           /\ Promotion!Staging(n) \in pPaths \ ({pFinal} \cup pBackups)
           /\ Promotion!Backup(n) \in pBackups /\ Promotion!Backup(n) \in pPaths
           /\ Promotion!Backup(n) # pFinal /\ pFinal \notin pBackups
           /\ pBackups \subseteq pPaths
           /\ \A m \in 1 .. MaxRuns : m # n => Promotion!Staging(m) # Promotion!Staging(n)
           /\ \A m \in 1 .. MaxRuns : m # n => Promotion!Backup(m) # Promotion!Backup(n)
<1>1. "final" # "staging" /\ "final" # "backup" /\ "staging" # "backup"
  OBVIOUS
<1>2. \A m \in 1 .. MaxRuns : <<"staging", m>> \in pPaths /\ <<"backup", m>> \in pPaths
  BY DEF pPaths, Promotion!Paths
<1> QED
  BY <1>1, <1>2 DEF pPaths, pFinal, pBackups, Promotion!Paths, Promotion!Final, Promotion!Staging,
      Promotion!Backup

\* What an attempt has done by each of its calls.
PromotionTyped ==
    /\ tree \in [pPaths -> SUBSET Files]
    /\ attempt \in 0 .. MaxRuns
    /\ had \in BOOLEAN
    /\ pc \in {"idle", "staged", "preserve", "promote", "erase", "restore", "cleanup"}
    /\ pc # "idle" => attempt # 0

\* An attempt finds no backup of its own, for its id is fresh.
PromotionIsFresh ==
    \A n \in 1 .. MaxRuns : n > attempt => tree[Promotion!Backup(n)] = {}

PromotionPlaces ==
    /\ pc \in {"staged", "preserve"} =>
            tree[pFinal] = found /\ tree[pBackup] = {}
    /\ pc \in {"staged", "preserve", "promote"} => tree[pStaging] = Promotion!Written(attempt)
    /\ pc = "promote" => tree[pFinal] = {}
    /\ pc \in {"promote", "erase", "restore"} => tree[pBackup] = found
    /\ pc = "restore" => tree[pFinal] = {}
    /\ pc = "cleanup" => tree[pFinal] = Promotion!Written(attempt)

\* While the new output takes the place of the old one, the backups alone
\* hold every part.
PromotionKept ==
    had => /\ Cover(tree, {pFinal} \cup pBackups)
           /\ pc \in {"promote", "erase", "restore"} => Cover(tree, pBackups)

PromotionInv ==
    /\ PromotionTyped
    /\ PromotionIsFresh
    /\ PromotionPlaces
    /\ PromotionKept
    /\ Promotion!OutcomesAreTrue

\* The final path holds the whole output of the attempt.
LEMMA WholeOutput ==
    ASSUME NEW t, NEW n, t[pFinal] = Promotion!Written(n)
    PROVE  Cover(t, {pFinal} \cup pBackups)
<1> SUFFICES ASSUME NEW part \in Parts
             PROVE  \E f \in t[pFinal] : f[2] = part
  BY DEF Cover
<1>1. <<n, part>> \in t[pFinal]
  BY DEF Promotion!Written
<1> QED
  BY <1>1

\* Publication begins in a state of the invariant.
LEMMA PromotionInit ==
    ASSUME Promotion!AttemptsAreCounted, Promotion!Init
    PROVE  PromotionInv
<1>1. MaxRuns \in Nat
  BY DEF Promotion!AttemptsAreCounted
<1>2. tree \in [pPaths -> SUBSET Files]
  <2>1. Promotion!Written(0) \subseteq Files
    BY DEF Promotion!Written, Files
  <2> QED
    BY <2>1 DEF Promotion!Init, pPaths
<1>3. pFinal \in pPaths
  BY DEF pFinal, pPaths, Promotion!Paths
<1>4. PromotionTyped
  BY <1>1, <1>2 DEF PromotionTyped, Promotion!Init
<1>5. PromotionIsFresh
  BY <1>1, PromotionPaths DEF PromotionIsFresh, Promotion!Init, pPaths, pFinal
<1>6. had => tree[pFinal] = Promotion!Written(0)
  BY <1>3 DEF Promotion!Init, pPaths, pFinal
<1>7. had => Cover(tree, {pFinal} \cup pBackups)
  BY <1>6, WholeOutput
<1> QED
  BY <1>4, <1>5, <1>7 DEF PromotionInv, PromotionPlaces, PromotionKept,
      Promotion!OutcomesAreTrue, Promotion!Init

\* A call that changes at most the directories `from` and `to`, both of this
\* attempt or the final one, leaves the backups to come as they are.
LEMMA FreshStays ==
    ASSUME MaxRuns \in Nat, PromotionTyped, PromotionIsFresh, attempt' = attempt, attempt # 0,
           \A p \in pPaths \ {pFinal, pStaging, pBackup} : tree'[p] = tree[p]
    PROVE  PromotionIsFresh'
<1> SUFFICES ASSUME NEW n \in 1 .. MaxRuns, n > attempt
             PROVE  tree'[Promotion!Backup(n)] = {}
  BY DEF PromotionIsFresh
<1>1. attempt \in 1 .. MaxRuns
  BY DEF PromotionTyped
<1>2. Promotion!Backup(n) \in pPaths \ {pFinal, pStaging, pBackup}
  BY <1>1, PromotionPaths DEF pStaging, pBackup
<1> QED
  BY <1>2 DEF PromotionIsFresh

\* Every step of a publication keeps the invariant.
LEMMA PromotionKeeps ==
    ASSUME Promotion!AttemptsAreCounted, PromotionInv, Promotion!Next
    PROVE  PromotionInv'
<1> USE DEF PromotionInv, PromotionTyped, PromotionPlaces, PromotionKept,
        Promotion!OutcomesAreTrue, Promotion!Goto, Promotion!End
<1>0. /\ MaxRuns \in Nat
      /\ \A t, p, q : Promotion!Moved(t, p, q) = Moved(t, p, q)
      /\ \A t, p, q : Promotion!PartialMoves(t, p, q) = PartialMoves(t, p, q)
      /\ \A t, p : Promotion!Deleted(t, p) = Deleted(t, p)
      /\ \A t, p : Promotion!PartialDeletes(t, p) = PartialDeletes(t, p)
  BY DEF Promotion!AttemptsAreCounted, Promotion!Moved, Moved, Promotion!PartialMoves,
      PartialMoves, Promotion!Deleted, Deleted, Promotion!PartialDeletes, PartialDeletes
<1>a. ASSUME pc # "idle"
      PROVE  /\ attempt \in 1 .. MaxRuns
             /\ pFinal \in pPaths /\ pStaging \in pPaths /\ pBackup \in pPaths
             /\ pFinal # pStaging /\ pFinal # pBackup /\ pStaging # pBackup
             /\ pBackup \in pBackups /\ pFinal \notin pBackups /\ pStaging \notin pBackups
             /\ pBackups \subseteq pPaths
  BY <1>0, <1>a, PromotionPaths DEF pStaging, pBackup
<1>1. CASE Promotion!Stage
  <2>1. attempt' \in 1 .. MaxRuns /\ attempt' = attempt + 1
    BY <1>0, <1>1 DEF Promotion!Stage
  <2>2. /\ pFinal \in pPaths /\ pStaging' \in pPaths \ ({pFinal} \cup pBackups)
        /\ pBackup' \in pBackups /\ pBackups \subseteq pPaths
    BY <1>0, <2>1, PromotionPaths DEF pStaging, pBackup
  <2>3. PICK s \in SUBSET Promotion!Written(attempt') :
            /\ tree' = [tree EXCEPT ![pStaging'] = s]
            /\ \/ s = Promotion!Written(attempt') /\ pc' = "staged" /\ UNCHANGED <<outcome, had>>
               \/ pc' = "idle" /\ outcome' = "failed" /\ had' = had
    BY <1>1 DEF Promotion!Stage, pStaging
  <2>4. s \subseteq Files
    BY <2>1, <1>0 DEF Promotion!Written, Files
  <2>5. tree' \in [pPaths -> SUBSET Files]
    BY <2>2, <2>3, <2>4
  <2>6. \A p \in pPaths \ {pStaging'} : tree'[p] = tree[p]
    BY <2>2, <2>3
  <2>7. tree'[pStaging'] = s
    BY <2>2, <2>3
  <2>8. found' = tree[pFinal] /\ tree'[pFinal] = tree[pFinal] /\ tree'[pBackup'] = {}
    <3>1. tree[pBackup'] = {}
      BY <2>1, <1>0 DEF PromotionIsFresh, pBackup
    <3> QED
      BY <1>1, <2>2, <2>6, <3>1 DEF Promotion!Stage, pFinal
  <2>9. PromotionIsFresh'
    BY <1>0, <2>1, <2>2, <2>6, PromotionPaths DEF PromotionIsFresh
  <2>10. had' => Cover(tree', {pFinal} \cup pBackups)
    <3>1. \A p \in {pFinal} \cup pBackups : tree'[p] = tree[p]
      BY <2>2, <2>6
    <3>2. had' = had
      BY <2>3
    <3> QED
      BY <3>1, <3>2 DEF Cover
  <2>11. PromotionTyped' /\ PromotionKept'
    BY <2>1, <2>3, <2>5, <2>10 DEF pFinal, pBackups
  <2> QED
    BY <1>1, <2>1, <2>3, <2>7, <2>8, <2>9, <2>11 DEF Promotion!Stage, pFinal
<1>b. ASSUME pc # "idle", UNCHANGED <<attempt, found>>
      PROVE  /\ pStaging' = pStaging /\ pBackup' = pBackup /\ pFinal' = pFinal
             /\ pBackups' = pBackups /\ pPaths' = pPaths
  BY <1>b DEF pStaging, pBackup, pFinal, pBackups, pPaths
<1>c. ASSUME UNCHANGED <<attempt, tree>>
      PROVE  PromotionIsFresh' /\ (\A D : Cover(tree, D) => Cover(tree', D))
  BY <1>c DEF PromotionIsFresh
<1>2. CASE Promotion!Check
  <2>1. tree[pFinal] = found
    BY <1>2 DEF Promotion!Check
  <2>2. pc = "staged" /\ UNCHANGED <<tree, exact, attempt, found, faults>>
    BY <1>2 DEF Promotion!Check
  <2>3. CASE Promotion!End("refused")
    BY <1>b, <1>c, <2>1, <2>2, <2>3 DEF pFinal
  <2>4. CASE Promotion!Goto("preserve")
    BY <1>b, <1>c, <2>1, <2>2, <2>4
  <2>5. CASE Promotion!Goto("promote") /\ ~Promotion!Exists(tree, pFinal)
    <3>1. tree[pFinal] = {} /\ found = {} /\ tree[pBackup] = {}
      BY <2>1, <2>2, <2>5 DEF Promotion!Exists
    <3>2. had => Cover(tree, pBackups)
      BY <3>1 DEF Cover
    <3> QED
      BY <1>b, <1>c, <2>2, <2>5, <3>1, <3>2
  <2> QED
    BY <1>2, <2>3, <2>4, <2>5 DEF Promotion!Check, pFinal
<1>3. CASE Promotion!Preserve
  <2>1. pc = "preserve" /\ UNCHANGED <<exact, attempt, found>>
    BY <1>3 DEF Promotion!Preserve
  <2>2. tree' \in PartialMoves(tree, pFinal, pBackup) \cup {Moved(tree, pFinal, pBackup)}
    BY <1>0, <1>3 DEF Promotion!Preserve, pFinal, pBackup
  <2>3. /\ tree' \in [pPaths -> SUBSET Files]
        /\ \A p \in pPaths \ {pFinal, pBackup} : tree'[p] = tree[p]
    BY <1>a, <2>1, <2>2, Moving
  <2>4. PromotionIsFresh'
    BY <1>0, <2>1, <2>3, FreshStays
  <2>5. had => Cover(tree', {pFinal} \cup pBackups)
    BY <1>a, <2>1, <2>2, MovingKeeps
  <2>6. tree'[pStaging] = Promotion!Written(attempt)
    BY <1>a, <2>1, <2>3
  <2>7. CASE tree' = Moved(tree, pFinal, pBackup) /\ Promotion!Goto("promote")
    <3>1. tree'[pFinal] = {} /\ tree'[pBackup] = found
      <4>1. tree \in [pPaths -> SUBSET Files] /\ pc # "idle"
        BY <2>1
      <4>2. /\ Moved(tree, pFinal, pBackup)[pFinal] = {}
              /\ Moved(tree, pFinal, pBackup)[pBackup] = tree[pBackup] \cup tree[pFinal]
        BY <1>a, <4>1, MovedAll
      <4> QED
        BY <2>1, <2>7, <4>2
    <3>2. had => Cover(tree', pBackups)
      BY <2>5, <3>1 DEF Cover
    <3> QED
      BY <1>b, <2>1, <2>3, <2>4, <2>5, <2>6, <2>7, <3>1, <3>2 DEF pFinal
  <2>8. CASE Promotion!End("critical")
    BY <1>b, <2>1, <2>3, <2>4, <2>5, <2>8
  <2> QED
    BY <1>0, <1>3, <2>7, <2>8 DEF Promotion!Preserve, pFinal, pBackup
<1>4. CASE Promotion!Promote
  <2>1. pc = "promote" /\ UNCHANGED <<exact, attempt, found>>
    BY <1>4 DEF Promotion!Promote
  <2>2. tree' \in PartialMoves(tree, pStaging, pFinal) \cup {Moved(tree, pStaging, pFinal)}
    BY <1>0, <1>4 DEF Promotion!Promote, pFinal, pStaging
  <2>3. /\ tree' \in [pPaths -> SUBSET Files]
        /\ \A p \in pPaths \ {pFinal, pStaging} : tree'[p] = tree[p]
    BY <1>a, <2>1, <2>2, Moving
  <2>4. PromotionIsFresh'
    BY <1>0, <2>1, <2>3, FreshStays
  <2>5. \A p \in pBackups : tree'[p] = tree[p]
    BY <1>a, <2>1, <2>3
  <2>6. had => Cover(tree', pBackups) /\ Cover(tree', {pFinal} \cup pBackups)
    BY <2>1, <2>5 DEF Cover
  <2>7. tree'[pBackup] = found
    BY <1>a, <2>1, <2>5
  <2>8. CASE /\ tree' = Moved(tree, pStaging, pFinal)
             /\ IF found = {} THEN Promotion!End("published") ELSE Promotion!Goto("cleanup")
    <3>1. tree'[pFinal] = Promotion!Written(attempt)
      <4>1. tree \in [pPaths -> SUBSET Files] /\ pc # "idle"
        BY <2>1
      <4>2. /\ Moved(tree, pStaging, pFinal)[pStaging] = {}
              /\ Moved(tree, pStaging, pFinal)[pFinal] = tree[pFinal] \cup tree[pStaging]
        BY <1>a, <4>1, MovedAll
      <4> QED
        BY <2>1, <2>8, <4>2
    <3>2. Cover(tree', {pFinal} \cup pBackups)
      BY <3>1, WholeOutput
    <3> QED
      BY <1>b, <2>1, <2>3, <2>4, <2>8, <3>1, <3>2 DEF pFinal
  <2>9. CASE IF found = {} THEN Promotion!End("failed") ELSE Promotion!Goto("erase")
    BY <1>b, <2>1, <2>3, <2>4, <2>6, <2>7, <2>9
  <2> QED
    BY <1>0, <1>4, <2>8, <2>9 DEF Promotion!Promote, pFinal, pStaging
<1>5. CASE Promotion!Erase
  <2>1. pc = "erase" /\ UNCHANGED <<exact, attempt, found>>
    BY <1>5 DEF Promotion!Erase
  <2>2. tree' \in PartialDeletes(tree, pFinal) \cup {Deleted(tree, pFinal)}
    BY <1>0, <1>5 DEF Promotion!Erase, pFinal
  <2>3. /\ tree' \in [pPaths -> SUBSET Files]
        /\ \A p \in pPaths \ {pFinal} : tree'[p] = tree[p]
    BY <1>a, <2>1, <2>2, Deleting
  <2>4. PromotionIsFresh'
    BY <1>0, <2>1, <2>3, FreshStays
  <2>5. \A p \in pBackups : tree'[p] = tree[p]
    BY <1>a, <2>1, <2>3
  <2>6. had => Cover(tree', pBackups) /\ Cover(tree', {pFinal} \cup pBackups)
    BY <2>1, <2>5 DEF Cover
  <2>7. tree'[pBackup] = found
    BY <1>a, <2>1, <2>5
  <2>8. CASE tree' = Deleted(tree, pFinal) /\ Promotion!Goto("restore")
    <3>1. tree'[pFinal] = {}
      BY <1>a, <2>1, <2>8 DEF Deleted
    <3> QED
      BY <1>b, <2>1, <2>3, <2>4, <2>6, <2>7, <2>8, <3>1
  <2>9. CASE Promotion!End("critical")
    BY <1>b, <2>1, <2>3, <2>4, <2>6, <2>9
  <2> QED
    BY <1>0, <1>5, <2>8, <2>9 DEF Promotion!Erase, pFinal
<1>6. CASE Promotion!Restore
  <2>1. pc = "restore" /\ UNCHANGED <<exact, attempt, found>>
    BY <1>6 DEF Promotion!Restore
  <2>2. tree' \in PartialMoves(tree, pBackup, pFinal) \cup {Moved(tree, pBackup, pFinal)}
    BY <1>0, <1>6 DEF Promotion!Restore, pFinal, pBackup
  <2>3. /\ tree' \in [pPaths -> SUBSET Files]
        /\ \A p \in pPaths \ {pFinal, pBackup} : tree'[p] = tree[p]
    BY <1>a, <2>1, <2>2, Moving
  <2>4. PromotionIsFresh'
    BY <1>0, <2>1, <2>3, FreshStays
  <2>5. had => Cover(tree', {pFinal} \cup pBackups)
    BY <1>a, <2>1, <2>2, MovingKeeps
  <2>6. CASE tree' = Moved(tree, pBackup, pFinal) /\ Promotion!End("restored")
    <3>1. tree'[pFinal] = found
      <4>1. tree \in [pPaths -> SUBSET Files] /\ pc # "idle"
        BY <2>1
      <4>2. /\ Moved(tree, pBackup, pFinal)[pBackup] = {}
              /\ Moved(tree, pBackup, pFinal)[pFinal] = tree[pFinal] \cup tree[pBackup]
        BY <1>a, <4>1, MovedAll
      <4> QED
        BY <2>1, <2>6, <4>2
    <3> QED
      BY <1>b, <2>1, <2>3, <2>4, <2>5, <2>6, <3>1 DEF pFinal
  <2>7. CASE Promotion!End("critical")
    BY <1>b, <2>1, <2>3, <2>4, <2>5, <2>7
  <2> QED
    BY <1>0, <1>6, <2>6, <2>7 DEF Promotion!Restore, pFinal, pBackup
<1>7. CASE Promotion!Cleanup
  <2>1. pc = "cleanup" /\ UNCHANGED <<exact, attempt, found>> /\ Promotion!End("published")
    BY <1>7 DEF Promotion!Cleanup
  <2>2. tree' \in PartialDeletes(tree, pBackup) \cup {Deleted(tree, pBackup)}
    BY <1>0, <1>7 DEF Promotion!Cleanup, pBackup
  <2>3. /\ tree' \in [pPaths -> SUBSET Files]
        /\ \A p \in pPaths \ {pBackup} : tree'[p] = tree[p]
    BY <1>a, <2>1, <2>2, Deleting
  <2>4. PromotionIsFresh'
    BY <1>0, <2>1, <2>3, FreshStays
  <2>5. tree'[pFinal] = Promotion!Written(attempt)
    BY <1>a, <2>1, <2>3
  <2>6. Cover(tree', {pFinal} \cup pBackups)
    BY <2>5, WholeOutput
  <2> QED
    BY <1>b, <2>1, <2>3, <2>4, <2>5, <2>6 DEF pFinal
<1>8. CASE Promotion!Die
  BY <1>8, <1>b, <1>c DEF Promotion!Die
<1>9. CASE Promotion!Over
  BY <1>9, <1>c DEF Promotion!Over, Promotion!vars, pStaging, pBackup, Promotion!Final
<1> QED
  BY <1>1, <1>2, <1>3, <1>4, <1>5, <1>6, <1>7, <1>8, <1>9 DEF Promotion!Next

\* The directories cover the parts exactly when the code's properties say so.
LEMMA CoverMeans ==
    ASSUME NEW t, NEW D
    PROVE  Cover(t, D) <=> \A part \in Parts : \E f \in UNION {t[p] : p \in D} : f[2] = part
  BY DEF Cover

\* The invariant of a publication, of which the theorems below are parts.
THEOREM PromotionInvariant == Spec => [](program = "promotion" => PromotionInv)
<1> DEFINE Inv == program = "promotion" => PromotionInv
<1>1. Init => Inv
  BY PromotionInit, ConstantsArePossible DEF Init
<1>2. Inv /\ [Next]_vars => Inv'
  <2> SUFFICES ASSUME program = "promotion", PromotionInv, [Next]_vars
               PROVE  PromotionInv'
    BY StepsAreApart
  <2>1. CASE UNCHANGED Promotion!vars
    BY <2>1 DEF Promotion!vars, PromotionInv, PromotionTyped, PromotionIsFresh, PromotionPlaces,
        PromotionKept, Cover, Promotion!OutcomesAreTrue, pFinal, pPaths, pStaging, pBackup,
        pBackups, Promotion!Final
  <2> QED
    BY <2>1, StepsAreApart, PromotionKeeps, ConstantsArePossible
<1> QED
  BY <1>1, <1>2, PTL DEF Spec

\* The invariant covers the table by the final path and the backups.
LEMMA PromotionLosesNothing ==
    ASSUME PromotionInv
    PROVE  Promotion!NothingLost
<1> SUFFICES ASSUME had
             PROVE  \A part \in Parts :
                        \E f \in UNION {tree[p] : p \in {pFinal} \cup pBackups} : f[2] = part
  BY DEF Promotion!NothingLost, pFinal, pBackups
<1> QED
  BY CoverMeans DEF PromotionInv, PromotionKept

-----------------------------------------------------------------------------
(* The repair of OPERACAO.                                                  *)

rPaths == Repair!Paths
rFinal == Repair!Final
rStaging == Repair!Staging(runId)
rBackup == Repair!Backup(runId)
rBackups == Repair!Backups

\* The directories of a run are three different ones.
LEMMA RepairPaths ==
    ASSUME NEW id \in RunIds
    PROVE  /\ rFinal \in rPaths
           /\ Repair!Staging(id) \in rPaths \ ({rFinal} \cup rBackups)
           /\ Repair!Backup(id) \in rBackups /\ Repair!Backup(id) \in rPaths
           /\ Repair!Backup(id) # rFinal /\ rFinal \notin rBackups
           /\ rBackups \subseteq rPaths
<1>1. "final" # "staging" /\ "final" # "backup" /\ "staging" # "backup"
  OBVIOUS
<1>2. \A m \in RunIds : <<"staging", m>> \in rPaths /\ <<"backup", m>> \in rPaths
  BY DEF rPaths, Repair!Paths
<1> QED
  BY <1>1, <1>2 DEF rPaths, rFinal, rBackups, Repair!Backups, Repair!Paths, Repair!Final,
      Repair!Staging, Repair!Backup

RepairTyped ==
    /\ tree \in [rPaths -> SUBSET Files]
    /\ attempt \in Nat
    /\ runId \in RunIds
    /\ pc \in {"idle", "stage", "preserve", "promote", "validate", "erase", "restore", "cleanup"}

\* Where what was read, and its repaired form, are by each call of a run.
RepairPlaces ==
    /\ pc \in {"stage", "preserve"} => tree[rFinal] = found
    /\ pc = "preserve" => tree[rBackup] = {}
    /\ pc \in {"preserve", "promote"} => tree[rStaging] = Repair!Repaired(found, attempt)
    /\ pc \in {"promote", "restore"} => tree[rFinal] = {}
    /\ pc \in {"promote", "validate", "erase", "restore", "cleanup"} => tree[rBackup] = found
    /\ pc = "cleanup" => tree[rFinal] = Repair!Repaired(found, attempt)

\* From the rename of the old table to the end, the backups alone hold every
\* part, the run's own or those that runs before it left.
RepairKept ==
    /\ Cover(tree, {rFinal} \cup rBackups)
    /\ pc \in {"promote", "validate", "erase", "restore", "cleanup"} => Cover(tree, rBackups)

RepairInv ==
    /\ RepairTyped
    /\ RepairPlaces
    /\ RepairKept
    /\ Repair!OutcomesAreTrue

\* A repaired table has the parts of the table it was read from.
LEMMA RepairedIsTyped ==
    ASSUME NEW F \in SUBSET Files, NEW n \in Nat
    PROVE  /\ Repair!Repaired(F, n) \in SUBSET Files
           /\ \A f \in F : \E g \in Repair!Repaired(F, n) : g[2] = f[2]
<1>1. \A f \in F : f[2] \in Parts
  BY DEF Files
<1>2. Repair!Repaired(F, n) \in SUBSET Files
  BY <1>1 DEF Repair!Repaired, Files
<1>3. ASSUME NEW f \in F
      PROVE  \E g \in Repair!Repaired(F, n) : g[2] = f[2]
  <2>1. <<n, f[2]>> \in Repair!Repaired(F, n)
    BY DEF Repair!Repaired
  <2>2. <<n, f[2]>>[2] = f[2]
    OBVIOUS
  <2> QED
    BY <2>1, <2>2
<1> QED
  BY <1>2, <1>3

\* A repair begins with the whole table at the final path.
LEMMA RepairInit ==
    ASSUME Repair!Init
    PROVE  RepairInv
<1>1. rFinal \in rPaths
  BY DEF rFinal, rPaths, Repair!Paths
<1>2. {0} \X Parts \in SUBSET Files
  BY DEF Files
<1>3. tree \in [rPaths -> SUBSET Files] /\ tree[rFinal] = {0} \X Parts
  BY <1>1, <1>2 DEF Repair!Init, rPaths, rFinal
<1>4. \A part \in Parts : <<0, part>> \in tree[rFinal]
  BY <1>3
<1>5. \A part \in Parts : <<0, part>>[2] = part
  OBVIOUS
<1>6. Cover(tree, {rFinal} \cup rBackups)
  BY <1>4, <1>5 DEF Cover
<1> QED
  BY <1>3, <1>6 DEF RepairInv, RepairTyped, RepairPlaces, RepairKept, Repair!OutcomesAreTrue,
      Repair!Init

\* A rename and its check: its files move, and only what is verified is good.
LEMMA Renaming ==
    ASSUME NEW from, NEW to, NEW ACTION good, NEW ACTION bad,
           Repair!Rename(from, to, good, bad)
    PROVE  /\ tree' \in PartialMoves(tree, from, to) \cup {Moved(tree, from, to)}
           /\ \/ good /\ tree'[from] = {} /\ tree'[to] = tree[from]
              \/ bad
              \/ Repair!End("failed")
  BY DEF Repair!Rename, Repair!Verified, Repair!Moved, Moved, Repair!PartialMoves, PartialMoves

\* Every step of a repair keeps the invariant.
LEMMA RepairKeeps ==
    ASSUME RepairInv, Repair!Next
    PROVE  RepairInv'
<1> USE DEF RepairInv, RepairTyped, RepairPlaces, RepairKept, Repair!OutcomesAreTrue,
        Repair!Goto, Repair!End
<1>0. /\ rFinal \in rPaths /\ rStaging \in rPaths /\ rBackup \in rPaths
      /\ rFinal # rStaging /\ rFinal # rBackup /\ rStaging # rBackup
      /\ rBackup \in rBackups /\ rFinal \notin rBackups /\ rStaging \notin rBackups
      /\ rBackups \subseteq rPaths
  BY RepairPaths DEF rStaging, rBackup
<1>a. ASSUME UNCHANGED <<attempt, runId, found>>
      PROVE  rStaging' = rStaging /\ rBackup' = rBackup
  BY <1>a DEF rStaging, rBackup
<1>b. rFinal' = rFinal /\ rBackups' = rBackups /\ rPaths' = rPaths
  BY DEF rFinal, rBackups, rPaths
<1>1. CASE Repair!Read
  BY <1>1, <1>b DEF Repair!Read, Cover, rFinal
<1>2. CASE Repair!Stage
  <2>1. pc = "stage" /\ UNCHANGED <<attempt, runId, found>>
    BY <1>2 DEF Repair!Stage
  <2>2. /\ tree[rStaging] \in SUBSET Files
        /\ found \in SUBSET Files
        /\ Repair!Repaired(found, attempt) \in SUBSET Files
    BY <1>0, <2>1, RepairedIsTyped
  <2>3. CASE tree' = tree /\ Repair!End("failed")
    <3>1. Cover(tree', {rFinal} \cup rBackups)
      BY <2>3
    <3> QED
      BY <1>a, <1>b, <2>1, <2>3, <3>1
  <2>4. ASSUME NEW u \in SUBSET Files, tree' = [tree EXCEPT ![rStaging] = u]
        PROVE  /\ tree' \in [rPaths -> SUBSET Files]
               /\ tree'[rStaging] = u /\ tree'[rFinal] = found
               /\ tree'[rBackup] = tree[rBackup]
               /\ Cover(tree', {rFinal} \cup rBackups)
    <3>1. \A p \in {rFinal} \cup rBackups : tree'[p] = tree[p]
      BY <1>0, <2>4
    <3> QED
      BY <1>0, <2>1, <2>4, <3>1 DEF Cover
  <2>5. CASE /\ tree[rBackup] = {}
             /\ tree' = [tree EXCEPT ![rStaging] = Repair!Repaired(found, attempt)]
             /\ Repair!Goto("preserve")
    <3>1. Cover(tree', {rFinal} \cup rBackups)
      BY <2>2, <2>4, <2>5
    <3>2. /\ tree' \in [rPaths -> SUBSET Files]
          /\ tree'[rStaging] = Repair!Repaired(found, attempt) /\ tree'[rFinal] = found
          /\ tree'[rBackup] = {}
      BY <2>2, <2>4, <2>5
    <3> QED
      BY <1>a, <1>b, <2>1, <2>5, <3>1, <3>2
  <2>6. CASE /\ \E u \in SUBSET Files : tree' = [tree EXCEPT ![rStaging] = u]
             /\ Repair!End("failed")
    BY <1>a, <1>b, <2>1, <2>4, <2>6
  <2>7. \/ tree' = tree /\ Repair!End("failed")
        \/ /\ tree[rBackup] = {}
           /\ tree' = [tree EXCEPT ![rStaging] = Repair!Repaired(found, attempt)]
           /\ Repair!Goto("preserve")
        \/ /\ \E u \in SUBSET Files : tree' = [tree EXCEPT ![rStaging] = u]
           /\ Repair!End("failed")
    <3> HIDE DEF Repair!Goto, Repair!End
    <3>1. CASE tree' \in Repair!PartialDeletes(tree, rStaging) /\ Repair!End("failed")
      BY <2>2, <3>1 DEF Repair!PartialDeletes
    <3>2. CASE /\ tree' \in {[tree EXCEPT ![rStaging] = u] :
                            u \in SUBSET Repair!Repaired(found, attempt)}
               /\ Repair!End("failed")
      BY <2>2, <3>2
    <3> QED
      BY <1>2, <3>1, <3>2 DEF Repair!Stage, Repair!Exists, rStaging, rBackup
  <2> HIDE DEF RepairInv
  <2> QED
    BY <2>3, <2>5, <2>6, <2>7
<1>3. CASE Repair!Preserve
  <2>1. pc = "preserve" /\ UNCHANGED <<attempt, runId, found>>
    BY <1>3 DEF Repair!Preserve
  <2>2. /\ tree' \in PartialMoves(tree, rFinal, rBackup) \cup {Moved(tree, rFinal, rBackup)}
        /\ \/ Repair!Goto("promote") /\ tree'[rFinal] = {} /\ tree'[rBackup] = found
           \/ Repair!End("critical")
           \/ Repair!End("failed")
    <3>1. Repair!Rename(rFinal, rBackup, Repair!Goto("promote"), Repair!End("critical"))
      BY <1>3 DEF Repair!Preserve, rFinal, rBackup
    <3> HIDE DEF Repair!Goto, Repair!End
    <3> QED
      BY <2>1, <3>1, Renaming
  <2>3. /\ tree' \in [rPaths -> SUBSET Files]
        /\ \A p \in rPaths \ {rFinal, rBackup} : tree'[p] = tree[p]
    BY <1>0, <2>2, Moving
  <2>4. Cover(tree', {rFinal} \cup rBackups)
    BY <1>0, <2>2, MovingKeeps
  <2>5. CASE Repair!Goto("promote") /\ tree'[rFinal] = {} /\ tree'[rBackup] = found
    <3>1. Cover(tree', rBackups)
      BY <2>4, <2>5 DEF Cover
    <3>2. tree'[rStaging] = Repair!Repaired(found, attempt)
      BY <1>0, <2>1, <2>3
    <3> QED
      BY <1>a, <1>b, <2>1, <2>3, <2>4, <2>5, <3>1, <3>2
  <2>6. CASE Repair!End("critical") \/ Repair!End("failed")
    BY <1>a, <1>b, <2>1, <2>3, <2>4, <2>6
  <2> QED
    BY <2>2, <2>5, <2>6
<1>4. CASE Repair!Promote
  <2>1. pc = "promote" /\ UNCHANGED <<attempt, runId, found>>
    BY <1>4 DEF Repair!Promote
  <2>2. /\ tree' \in PartialMoves(tree, rStaging, rFinal) \cup {Moved(tree, rStaging, rFinal)}
        /\ \/ Repair!Goto("validate")
           \/ Repair!Goto("erase")
           \/ Repair!End("failed")
    <3>1. Repair!Rename(rStaging, rFinal, Repair!Goto("validate"), Repair!Goto("erase"))
      BY <1>4 DEF Repair!Promote, rFinal, rStaging
    <3> HIDE DEF Repair!Goto, Repair!End
    <3> QED
      BY <3>1, Renaming
  <2>3. /\ tree' \in [rPaths -> SUBSET Files]
        /\ \A p \in rPaths \ {rFinal, rStaging} : tree'[p] = tree[p]
    BY <1>0, <2>2, Moving
  <2>4. \A p \in rBackups : tree'[p] = tree[p]
    BY <1>0, <2>3
  <2>5. Cover(tree', rBackups) /\ Cover(tree', {rFinal} \cup rBackups)
    BY <2>1, <2>4 DEF Cover
  <2>6. tree'[rBackup] = found
    BY <1>0, <2>1, <2>4
  <2> QED
    BY <1>a, <1>b, <2>1, <2>2, <2>3, <2>5, <2>6
<1>5. CASE Repair!Validate
  <2>1. pc = "validate" /\ UNCHANGED <<tree, attempt, runId, found>>
    BY <1>5 DEF Repair!Validate
  <2>2. Cover(tree', {rFinal} \cup rBackups) /\ Cover(tree', rBackups)
    BY <2>1
  <2>3. CASE tree[rFinal] = Repair!Repaired(tree[rBackup], attempt) /\ Repair!Goto("cleanup")
    BY <1>a, <1>b, <2>1, <2>2, <2>3
  <2>4. CASE Repair!Goto("erase")
    BY <1>a, <1>b, <2>1, <2>2, <2>4
  <2> QED
    BY <1>5, <2>3, <2>4 DEF Repair!Validate, rFinal, rBackup
<1>6. CASE Repair!Erase
  <2>1. pc = "erase" /\ UNCHANGED <<attempt, runId, found>>
    BY <1>6 DEF Repair!Erase
  <2>2. /\ tree' \in PartialDeletes(tree, rFinal) \cup {Deleted(tree, rFinal)}
        /\ \/ tree' = Deleted(tree, rFinal) /\ Repair!Goto("restore")
           \/ Repair!End("critical")
    <3>1. tree[rBackup] = found
      BY <2>1
    <3> HIDE DEF Repair!Goto, Repair!End
    <3> QED
      BY <1>6, <3>1 DEF Repair!Erase, Repair!Deleted, Deleted, Repair!PartialDeletes,
          PartialDeletes, rFinal, rBackup
  <2>3. /\ tree' \in [rPaths -> SUBSET Files]
        /\ \A p \in rPaths \ {rFinal} : tree'[p] = tree[p]
    BY <1>0, <2>2, Deleting
  <2>4. \A p \in rBackups : tree'[p] = tree[p]
    BY <1>0, <2>3
  <2>5. Cover(tree', rBackups) /\ Cover(tree', {rFinal} \cup rBackups)
    BY <2>1, <2>4 DEF Cover
  <2>6. tree'[rBackup] = found
    BY <1>0, <2>1, <2>4
  <2>7. CASE tree' = Deleted(tree, rFinal) /\ Repair!Goto("restore")
    <3>1. tree'[rFinal] = {}
      BY <1>0, <2>7 DEF Deleted
    <3> QED
      BY <1>a, <1>b, <2>1, <2>3, <2>5, <2>6, <2>7, <3>1
  <2>8. CASE Repair!End("critical")
    BY <1>a, <1>b, <2>1, <2>3, <2>5, <2>8
  <2> QED
    BY <2>2, <2>7, <2>8
<1>7. CASE Repair!Restore
  <2>1. pc = "restore" /\ UNCHANGED <<attempt, runId, found>>
    BY <1>7 DEF Repair!Restore
  <2>2. /\ tree' \in PartialMoves(tree, rBackup, rFinal) \cup {Moved(tree, rBackup, rFinal)}
        /\ \/ Repair!End("restored") /\ tree'[rFinal] = found
           \/ Repair!End("critical")
           \/ Repair!End("failed")
    <3>1. Repair!Rename(rBackup, rFinal, Repair!End("restored"), Repair!End("critical"))
      BY <1>7 DEF Repair!Restore, rFinal, rBackup
    <3>2. tree[rBackup] = found
      BY <2>1
    <3> HIDE DEF Repair!Goto, Repair!End
    <3> QED
      BY <3>1, <3>2, Renaming
  <2>3. tree' \in [rPaths -> SUBSET Files]
    BY <1>0, <2>2, Moving
  <2>4. Cover(tree', {rFinal} \cup rBackups)
    BY <1>0, <2>2, MovingKeeps
  <2>5. CASE Repair!End("restored") /\ tree'[rFinal] = found
    BY <1>a, <1>b, <2>1, <2>3, <2>4, <2>5 DEF rFinal
  <2>6. CASE Repair!End("critical") \/ Repair!End("failed")
    BY <1>a, <1>b, <2>1, <2>3, <2>4, <2>6
  <2> QED
    BY <2>2, <2>5, <2>6
<1>8. CASE Repair!Cleanup
  <2>1. pc = "cleanup" /\ UNCHANGED <<attempt, runId, found>>
    BY <1>8 DEF Repair!Cleanup
  <2>2. /\ tree' \in PartialDeletes(tree, rBackup) \cup {Deleted(tree, rBackup)}
        /\ \/ tree' = Deleted(tree, rBackup) /\ Repair!End("published")
           \/ Repair!End("preserved")
    <3> HIDE DEF Repair!Goto, Repair!End
    <3> QED
      BY <1>8 DEF Repair!Cleanup, Repair!Deleted, Deleted, Repair!PartialDeletes,
          PartialDeletes, rBackup
  <2>3. /\ tree' \in [rPaths -> SUBSET Files]
        /\ \A p \in rPaths \ {rBackup} : tree'[p] = tree[p]
    BY <1>0, <2>2, Deleting
  <2>4. tree'[rFinal] = Repair!Repaired(found, attempt)
    BY <1>0, <2>1, <2>3
  <2>5. Cover(tree', {rFinal} \cup rBackups)
    <3> SUFFICES ASSUME NEW part \in Parts
                 PROVE  \E p \in {rFinal} \cup rBackups : \E f \in tree'[p] : f[2] = part
      BY DEF Cover
    <3>1. PICK p \in rBackups : \E f \in tree[p] : f[2] = part
      BY <2>1 DEF Cover
    <3>2. CASE p = rBackup
      <4>1. tree[rBackup] = found /\ found \in SUBSET Files
        BY <1>0, <2>1
      <4>2. \E g \in Repair!Repaired(found, attempt) : g[2] = part
        BY <3>1, <3>2, <4>1, RepairedIsTyped
      <4> QED
        BY <2>4, <4>2
    <3>3. CASE p # rBackup
      BY <1>0, <2>3, <3>1, <3>3
    <3> QED
      BY <3>2, <3>3
  <2>6. CASE tree' = Deleted(tree, rBackup) /\ Repair!End("published")
    <3>1. tree'[rBackup] = {}
      BY <1>0, <2>6 DEF Deleted
    <3> QED
      BY <1>a, <1>b, <2>1, <2>3, <2>4, <2>5, <2>6, <3>1 DEF Repair!Exists, rFinal, rBackup
  <2>7. CASE Repair!End("preserved")
    BY <1>a, <1>b, <2>1, <2>3, <2>4, <2>5, <2>7 DEF rFinal
  <2> QED
    BY <2>2, <2>6, <2>7
<1>9. CASE Repair!Die
  <2>1. UNCHANGED <<tree, attempt, runId, found>> /\ Repair!End("died")
    BY <1>9 DEF Repair!Die
  <2>2. Cover(tree', {rFinal} \cup rBackups)
    BY <2>1
  <2> QED
    BY <1>a, <1>b, <2>1, <2>2
<1>10. CASE Repair!Over
  BY <1>10 DEF Repair!Over, Repair!vars, rStaging, rBackup, rFinal, rPaths, rBackups, Cover
<1> HIDE DEF RepairInv
<1> QED
  BY <1>1, <1>2, <1>3, <1>4, <1>5, <1>6, <1>7, <1>8, <1>9, <1>10 DEF Repair!Next

\* The invariant of a repair, of which the theorems below are parts.
THEOREM RepairInvariant == Spec => [](program = "repair" => RepairInv)
<1> DEFINE Inv == program = "repair" => RepairInv
<1>1. Init => Inv
  BY RepairInit DEF Init
<1>2. Inv /\ [Next]_vars => Inv'
  <2> SUFFICES ASSUME program = "repair", RepairInv, [Next]_vars
               PROVE  RepairInv'
    BY StepsAreApart
  <2>1. CASE UNCHANGED Repair!vars
    BY <2>1 DEF Repair!vars, RepairInv, RepairTyped, RepairPlaces, RepairKept, Cover,
        Repair!OutcomesAreTrue, rFinal, rPaths, rStaging, rBackup, rBackups
  <2> QED
    BY <2>1, StepsAreApart, RepairKeeps
<1> QED
  BY <1>1, <1>2, PTL DEF Spec

\* The invariant covers OPERACAO by the final path and the backups.
LEMMA RepairLosesNothing ==
    ASSUME RepairInv
    PROVE  Repair!NothingLost
<1>1. \A part \in Parts :
          \E f \in UNION {tree[p] : p \in {rFinal} \cup rBackups} : f[2] = part
  BY CoverMeans DEF RepairInv, RepairKept
<1> QED
  BY <1>1 DEF Repair!NothingLost, rFinal, rBackups

-----------------------------------------------------------------------------
(* The theorem.                                                             *)

\* Neither publishing an output nor repairing one ever loses a part of the
\* table, whatever call fails, wherever an attempt or a run dies, and whichever
\* run id the operator gives again (_promote_staging_paths, run_repair).
THEOREM PublishingLosesNothing == Spec => []NothingLost
<1>1. (program = "promotion" => PromotionInv) /\ (program = "repair" => RepairInv)
          => NothingLost
  BY PromotionLosesNothing, RepairLosesNothing DEF NothingLost
<1> QED
  BY <1>1, PromotionInvariant, RepairInvariant, PTL

-----------------------------------------------------------------------------
(* The session of a runner (SessionAuth).                                   *)

\* Where a thread is while it renews the session.
Renewing == {"probe", "refresh", "revalidate", "browser", "authenticate", "last probe"}

\* What the threads share. The first login counts as a renewal, so that 0 tells
\* a request that has not looked; whoever finds the lock free and the session
\* ended or due has a reason to renew it.
SharedOK ==
    /\ owner \in Session!Threads \cup {Nobody} /\ refreshed \in Nat
    /\ valid \in BOOLEAN /\ due \in BOOLEAN
    /\ DOMAIN at = Session!Threads /\ observed \in [Session!Threads -> Nat]
    /\ at[Main] = "answered" => refreshed # 0
    /\ ~valid => justified
    /\ (owner = Nobody /\ due) => justified

\* One thread renews the session at a time, and has the lock for it.
HolderOK(t) ==
    /\ at[t] \in Renewing <=> owner = t
    /\ observed[t] <= refreshed

\* A worker starts after the first login, and looks before it sends. It goes to
\* renew the session as it was when it looked for a reason; a session that it
\* has not seen renewed is valid, or has ended since.
RequestOK(r) ==
    /\ at[r] # "idle" => at[Main] = "answered"
    /\ at[r] \in {"send", "expired", "resend"} => observed[r] # 0
    /\ at[r] = "probe" => justified
    /\ (owner = Nobody /\ at[r] = "expired" /\ observed[r] = refreshed) => justified
    /\ (observed[r] # 0 /\ observed[r] < refreshed) => (valid \/ r \in relapsed)
    /\ at[r] = "resend" => observed[r] < refreshed
    /\ at[r] = "refused" => r \in relapsed

SessionInv ==
    /\ SharedOK
    /\ \A t \in Session!Threads : HolderOK(t)
    /\ \A r \in Requests : RequestOK(r)

\* A thread is one of the requests or the main one, and Nobody is neither.
LEMMA SessionThreads ==
    ASSUME Session!ThreadsAreTold
    PROVE  /\ Requests \subseteq Session!Threads /\ Main \in Session!Threads
           /\ Nobody \notin Session!Threads /\ Main \notin Requests
           /\ \A t \in Session!Threads : t = Main \/ t \in Requests
  BY DEF Session!ThreadsAreTold, Session!Threads

\* The main thread logs in first.
LEMMA SessionInit ==
    ASSUME Session!ThreadsAreTold, Session!Init
    PROVE  SessionInv
<1>1. /\ at = [t \in Session!Threads |-> IF t = Main THEN "probe" ELSE "idle"]
      /\ observed = [t \in Session!Threads |-> 0]
      /\ refreshed = 0 /\ owner = Main /\ valid \in BOOLEAN /\ due = FALSE /\ justified = TRUE
  BY DEF Session!Init
<1>2. SharedOK
  BY <1>1, SessionThreads DEF SharedOK
<1>3. ASSUME NEW t \in Session!Threads
      PROVE  HolderOK(t)
  <2>1. at[t] = (IF t = Main THEN "probe" ELSE "idle") /\ observed[t] = 0
    BY <1>1
  <2>2. at[t] \in Renewing <=> owner = t
    BY <1>1, <2>1 DEF Renewing
  <2> QED
    BY <1>1, <2>1, <2>2 DEF HolderOK
<1>4. ASSUME NEW r \in Requests
      PROVE  RequestOK(r)
  <2>1. at[r] = "idle" /\ observed[r] = 0
    BY <1>1, SessionThreads
  <2> QED
    BY <1>1, <2>1 DEF RequestOK
<1> QED
  BY <1>2, <1>3, <1>4 DEF SessionInv

\* A step of one thread is a step of no other.
LEMMA SessionGoes ==
    ASSUME SharedOK, NEW t \in Session!Threads, NEW step, Session!Go(t, step)
    PROVE  /\ DOMAIN at' = Session!Threads /\ at'[t] = step
           /\ \A u \in Session!Threads : u # t => at'[u] = at[u]
  BY DEF SharedOK, Session!Go

\* A request that neither takes the lock nor looks: the rest depends on where
\* it goes.
LEMMA RequestGoes ==
    ASSUME Session!ThreadsAreTold, SessionInv, NEW r \in Requests, NEW step,
           at[r] \notin Renewing, step \notin Renewing, Session!Go(r, step),
           UNCHANGED << valid, due, refreshed, owner, observed, justified, relapsed >>,
           RequestOK(r)'
    PROVE  SessionInv'
<1>1. /\ DOMAIN at' = Session!Threads /\ at'[r] = step
      /\ \A u \in Session!Threads : u # r => at'[u] = at[u]
  BY SessionGoes, SessionThreads DEF SessionInv
<1>2. at'[Main] = at[Main]
  BY <1>1, SessionThreads
<1>3. SharedOK'
  BY <1>1, <1>2 DEF SessionInv, SharedOK
<1>4. ASSUME NEW t \in Session!Threads
      PROVE  HolderOK(t)'
  BY <1>1 DEF SessionInv, HolderOK
<1>5. ASSUME NEW u \in Requests, u # r
      PROVE  RequestOK(u)'
  <2>1. at'[u] = at[u]
    BY <1>1, <1>5, SessionThreads
  <2> QED
    BY <1>2, <2>1 DEF SessionInv, RequestOK
<1> QED
  BY <1>3, <1>4, <1>5 DEF SessionInv

\* A request that finds the lock free and a reason takes it.
LEMMA RequestTakes ==
    ASSUME Session!ThreadsAreTold, SessionInv, NEW r \in Requests,
           owner = Nobody, owner' = r, Session!Go(r, "probe"), justified, at[r] # "idle",
           UNCHANGED << valid, due, refreshed, observed, justified, relapsed >>
    PROVE  SessionInv'
<1>1. /\ DOMAIN at' = Session!Threads /\ at'[r] = "probe"
      /\ \A u \in Session!Threads : u # r => at'[u] = at[u]
  BY SessionGoes, SessionThreads DEF SessionInv
<1>2. at'[Main] = at[Main]
  BY <1>1, SessionThreads
<1>3. SharedOK'
  BY <1>1, <1>2, SessionThreads DEF SessionInv, SharedOK
<1>4. ASSUME NEW t \in Session!Threads
      PROVE  HolderOK(t)'
  <2>1. (at[t] \in Renewing <=> owner = t) /\ observed[t] <= refreshed
    BY DEF SessionInv, HolderOK
  <2>2. owner # t
    BY SessionThreads
  <2>3. at'[t] \in Renewing <=> owner' = t
    <3>1. CASE t = r
      BY <1>1, <3>1 DEF Renewing
    <3>2. CASE t # r
      BY <1>1, <2>1, <2>2, <3>2
    <3> QED
      BY <3>1, <3>2
  <2> QED
    BY <2>1, <2>3 DEF HolderOK
<1>5. ASSUME NEW u \in Requests
      PROVE  RequestOK(u)'
  <2>1. CASE u = r
    BY <1>1, <1>2, <2>1 DEF SessionInv, RequestOK
  <2>2. CASE u # r
    <3>1. at'[u] = at[u]
      BY <1>1, <2>2, SessionThreads
    <3> QED
      BY <1>2, <3>1 DEF SessionInv, RequestOK
  <2> QED
    BY <2>1, <2>2
<1> QED
  BY <1>3, <1>4, <1>5 DEF SessionInv

\* A request that looks knows of every renewal so far.
LEMMA RequestLooks ==
    ASSUME Session!ThreadsAreTold, SessionInv, NEW r \in Requests, Session!Look(r)
    PROVE  SessionInv'
<1>1. /\ at[r] = "look" /\ Session!Go(r, "send")
      /\ observed' = [observed EXCEPT ![r] = refreshed]
      /\ UNCHANGED << valid, due, refreshed, owner, justified, relapsed >>
  BY DEF Session!Look
<1>2. /\ DOMAIN at' = Session!Threads /\ at'[r] = "send"
      /\ \A u \in Session!Threads : u # r => at'[u] = at[u]
  BY <1>1, SessionGoes, SessionThreads DEF SessionInv
<1>3. at'[Main] = at[Main]
  BY <1>2, SessionThreads
<1>4. /\ observed' \in [Session!Threads -> Nat] /\ observed'[r] = refreshed
      /\ \A u \in Session!Threads : u # r => observed'[u] = observed[u]
  BY <1>1, SessionThreads DEF SessionInv, SharedOK
<1>5. SharedOK'
  BY <1>1, <1>2, <1>3, <1>4 DEF SessionInv, SharedOK
<1>6. ASSUME NEW t \in Session!Threads
      PROVE  HolderOK(t)'
  <2>1. (at[t] \in Renewing <=> owner = t) /\ observed[t] <= refreshed /\ refreshed \in Nat
    BY DEF SessionInv, HolderOK, SharedOK
  <2>2. at'[t] \in Renewing <=> at[t] \in Renewing
    BY <1>1, <1>2 DEF Renewing
  <2>3. observed'[t] = observed[t] \/ observed'[t] = refreshed
    BY <1>4
  <2> QED
    BY <1>1, <2>1, <2>2, <2>3 DEF HolderOK
<1>7. ASSUME NEW u \in Requests
      PROVE  RequestOK(u)'
  <2>1. CASE u = r
    <3>1. at[Main] = "answered" /\ refreshed # 0 /\ refreshed \in Nat
      BY <1>1 DEF SessionInv, RequestOK, SharedOK
    <3> QED
      BY <1>1, <1>2, <1>3, <1>4, <2>1, <3>1 DEF RequestOK
  <2>2. CASE u # r
    <3>1. at'[u] = at[u] /\ observed'[u] = observed[u]
      BY <1>2, <1>4, <2>2, SessionThreads
    <3> QED
      BY <1>1, <1>3, <3>1 DEF SessionInv, RequestOK
  <2> QED
    BY <2>1, <2>2
<1> QED
  BY <1>5, <1>6, <1>7 DEF SessionInv

\* A request takes the lock for a reason, and leaves alone what a renewal
\* changes.
LEMMA RequestKeeps ==
    ASSUME Session!ThreadsAreTold, SessionInv, NEW r \in Requests, Session!Request(r)
    PROVE  SessionInv'
<1> DEFINE Rests == UNCHANGED << valid, due, refreshed, owner, observed, justified, relapsed >>
<1>1. RequestOK(r) /\ r \in Session!Threads /\ r # Main
  BY SessionThreads DEF SessionInv
<1>2. /\ observed[r] \in Nat /\ refreshed \in Nat /\ observed[r] <= refreshed
      /\ valid \in BOOLEAN /\ due \in BOOLEAN
  BY <1>1 DEF SessionInv, SharedOK, HolderOK
<1>3. ASSUME NEW step, Session!Go(r, step)
      PROVE  at'[r] = step /\ at'[Main] = at[Main]
  BY <1>1, <1>3, SessionGoes, SessionThreads DEF SessionInv
<1>4. CASE Session!Begin(r)
  <2>1. PICK step \in {"refresh if due", "look"} : Session!Go(r, step)
    BY <1>4 DEF Session!Begin
  <2>2. at[r] = "idle" /\ at[Main] = "answered" /\ Rests
    BY <1>4 DEF Session!Begin
  <2>3. RequestOK(r)'
    BY <1>1, <1>3, <2>1, <2>2 DEF RequestOK
  <2> QED
    BY <2>1, <2>2, <2>3, RequestGoes DEF Renewing
<1>5. CASE Session!RefreshIfDue(r)
  <2>1. CASE ~due
    <3>1. at[r] = "refresh if due" /\ Session!Go(r, "look") /\ Rests
      BY <1>5, <2>1 DEF Session!RefreshIfDue
    <3>2. at'[r] = "look" /\ at'[Main] = at[Main]
      BY <1>3, <3>1
    <3>3. RequestOK(r)'
      BY <1>1, <3>1, <3>2 DEF RequestOK
    <3> QED
      BY <3>1, <3>3, RequestGoes DEF Renewing
  <2>2. CASE due
    <3>1. /\ at[r] = "refresh if due" /\ Session!Go(r, "probe") /\ owner = Nobody /\ owner' = r
          /\ UNCHANGED << valid, due, refreshed, observed, justified, relapsed >>
      BY <1>5, <2>2 DEF Session!RefreshIfDue
    <3>2. justified
      BY <2>2, <3>1 DEF SessionInv, SharedOK
    <3> QED
      BY <3>1, <3>2, RequestTakes
  <2> QED
    BY <2>1, <2>2
<1>6. CASE Session!Send(r)
  <2>1. PICK step \in {"answered", "expired", "failed"} :
            Session!Go(r, step) /\ (step = "expired" => ~valid)
    BY <1>6 DEF Session!Send
  <2>2. at[r] = "send" /\ Rests
    BY <1>6 DEF Session!Send
  <2>3. ~valid => justified
    BY DEF SessionInv, SharedOK
  <2>4. at'[r] = step /\ at'[Main] = at[Main]
    BY <1>3, <2>1
  <2>5. step = "expired" => justified
    BY <2>1, <2>3
  <2>6. RequestOK(r)'
    BY <1>1, <2>2, <2>4, <2>5 DEF RequestOK
  <2> QED
    BY <2>1, <2>2, <2>6, RequestGoes DEF Renewing
<1>7. CASE Session!Reauthenticate(r)
  <2>1. CASE refreshed > observed[r]
    <3>1. at[r] = "expired" /\ Session!Go(r, "resend") /\ Rests
      BY <1>7, <2>1 DEF Session!Reauthenticate
    <3>2. observed[r] < refreshed
      BY <1>2, <2>1
    <3>3. RequestOK(r)'
      BY <1>1, <1>3, <3>1, <3>2 DEF RequestOK
    <3> QED
      BY <3>1, <3>3, RequestGoes DEF Renewing
  <2>2. CASE ~(refreshed > observed[r])
    <3>1. /\ at[r] = "expired" /\ Session!Go(r, "probe") /\ owner = Nobody /\ owner' = r
          /\ UNCHANGED << valid, due, refreshed, observed, justified, relapsed >>
      BY <1>7, <2>2 DEF Session!Reauthenticate
    <3>2. observed[r] = refreshed
      BY <1>2, <2>2
    <3>3. justified
      BY <1>1, <3>1, <3>2 DEF RequestOK
    <3> QED
      BY <3>1, <3>3, RequestTakes
  <2> QED
    BY <2>1, <2>2
<1>8. CASE Session!Resend(r)
  <2>1. PICK step \in {"answered", "refused", "failed"} :
            Session!Go(r, step) /\ (step = "refused" => ~valid)
    BY <1>8 DEF Session!Resend
  <2>2. at[r] = "resend" /\ Rests
    BY <1>8 DEF Session!Resend
  <2>3. ~valid => r \in relapsed
    BY <1>1, <2>2 DEF RequestOK
  <2>4. RequestOK(r)'
    BY <1>1, <1>3, <2>1, <2>2, <2>3 DEF RequestOK
  <2> QED
    BY <2>1, <2>2, <2>4, RequestGoes DEF Renewing
<1> QED
  BY <1>4, <1>5, <1>6, <1>7, <1>8, RequestLooks DEF Session!Request

\* Whoever renewed the session has seen that OCI accepts it, and nobody has
\* looked since.
LEMMA RenewedKeeps ==
    ASSUME Session!ThreadsAreTold, SessionInv, NEW t \in Session!Threads, at[t] \in Renewing,
           valid, Session!Renewed(t), UNCHANGED << valid, observed, justified, relapsed >>
    PROVE  SessionInv'
<1> DEFINE next == IF t = Main THEN "answered" ELSE IF observed[t] = 0 THEN "look" ELSE "resend"
<1>1. /\ refreshed' = refreshed + 1 /\ refreshed \in Nat
      /\ due' = FALSE /\ owner' = Nobody /\ owner = t /\ Session!Go(t, next)
  BY DEF Session!Renewed, SessionInv, SharedOK, HolderOK
<1>2. \A u \in Session!Threads :
          /\ observed'[u] = observed[u] /\ observed[u] \in Nat
          /\ observed[u] < refreshed' /\ observed[u] <= refreshed'
  BY <1>1 DEF SessionInv, SharedOK, HolderOK
<1>3. /\ DOMAIN at' = Session!Threads /\ at'[t] = next
      /\ \A u \in Session!Threads : u # t => at'[u] = at[u]
  BY <1>1, SessionGoes DEF SessionInv
<1>4. \A u \in Session!Threads : u # t => at[u] \notin Renewing
  BY <1>1 DEF SessionInv, HolderOK
<1>5. \A u \in Session!Threads : at'[u] \notin Renewing
  BY <1>3, <1>4 DEF Renewing
<1>6. SharedOK'
  <2>1. refreshed' \in Nat /\ refreshed' # 0
    BY <1>1
  <2> QED
    BY <1>1, <1>3, <2>1 DEF SessionInv, SharedOK
<1>7. ASSUME NEW u \in Session!Threads
      PROVE  HolderOK(u)'
  BY <1>1, <1>2, <1>5, SessionThreads DEF HolderOK
<1>8. ASSUME NEW u \in Requests
      PROVE  RequestOK(u)'
  <2>1. u \in Session!Threads /\ at'[u] \notin Renewing /\ RequestOK(u)
    BY <1>5, SessionThreads DEF SessionInv
  <2>2. at'[u] # "probe"
    BY <2>1 DEF Renewing
  <2>3. /\ observed'[u] = observed[u] /\ observed[u] < refreshed'
        /\ observed[u] # refreshed'
    BY <1>2, <2>1
  <2>4. CASE u = t
    <3>1. t # Main /\ at[t] # "idle"
      BY <2>4, SessionThreads DEF Renewing
    <3>2. at[Main] = "answered" /\ at'[Main] = at[Main]
      BY <1>3, <2>1, <2>4, <3>1, SessionThreads DEF RequestOK
    <3>3. at'[u] = IF observed[u] = 0 THEN "look" ELSE "resend"
      BY <1>3, <2>4, <3>1
    <3> QED
      BY <2>3, <3>2, <3>3 DEF RequestOK
  <2>5. CASE u # t
    <3>1. at'[u] = at[u]
      BY <1>3, <2>1, <2>5
    <3>2. at[Main] = "answered" => at'[Main] = "answered"
      BY <1>3, SessionThreads
    <3> QED
      BY <2>1, <2>2, <2>3, <3>1, <3>2 DEF RequestOK
  <2> QED
    BY <2>4, <2>5
<1> QED
  BY <1>6, <1>7, <1>8 DEF SessionInv

\* Whoever gives up leaves a reason for the next to try.
LEMMA RaiseKeeps ==
    ASSUME Session!ThreadsAreTold, SessionInv, NEW t \in Session!Threads, at[t] \in Renewing,
           Session!Raise(t), UNCHANGED << observed, relapsed >>, valid' \in {valid, TRUE}
    PROVE  SessionInv'
<1>1. /\ due' = due /\ refreshed' = refreshed /\ observed' = observed /\ relapsed' = relapsed
      /\ owner' = Nobody /\ owner = t /\ justified' = TRUE /\ Session!Go(t, "failed")
  BY DEF Session!Raise, SessionInv, HolderOK
<1>2. /\ DOMAIN at' = Session!Threads /\ at'[t] = "failed"
      /\ \A u \in Session!Threads : u # t => at'[u] = at[u]
  BY <1>1, SessionGoes DEF SessionInv
<1>3. \A u \in Session!Threads : at'[u] \notin Renewing
  BY <1>1, <1>2 DEF SessionInv, HolderOK, Renewing
<1>4. valid' \in BOOLEAN /\ (valid => valid')
  BY DEF SessionInv, SharedOK
<1>5. at'[Main] = "answered" => at[Main] = "answered"
  BY <1>2, SessionThreads
<1>6. SharedOK'
  BY <1>1, <1>2, <1>4, <1>5 DEF SessionInv, SharedOK
<1>7. ASSUME NEW u \in Session!Threads
      PROVE  HolderOK(u)'
  BY <1>1, <1>3, SessionThreads DEF SessionInv, HolderOK
<1>8. ASSUME NEW u \in Requests
      PROVE  RequestOK(u)'
  <2>1. u \in Session!Threads /\ RequestOK(u)
    BY SessionThreads DEF SessionInv
  <2>2. CASE u = t
    <3>1. at[u] # "idle" /\ at'[u] = "failed" /\ at'[Main] = at[Main]
      BY <1>2, <2>2, SessionThreads DEF Renewing
    <3> QED
      BY <1>1, <1>4, <2>1, <3>1 DEF RequestOK
  <2>3. CASE u # t
    <3>1. at'[u] = at[u]
      BY <1>2, <2>1, <2>3
    <3>2. at[Main] = "answered" => at'[Main] = "answered"
      BY <1>2, SessionThreads DEF Renewing
    <3> QED
      BY <1>1, <1>4, <2>1, <3>1, <3>2 DEF RequestOK
  <2> QED
    BY <2>2, <2>3
<1> QED
  BY <1>6, <1>7, <1>8 DEF SessionInv

\* A renewal goes on, or OCI renews the session: the lock stays taken.
LEMMA RenewalGoesOn ==
    ASSUME Session!ThreadsAreTold, SessionInv, NEW t \in Session!Threads, at[t] \in Renewing,
           NEW step \in Renewing \ {"probe"}, Session!Go(t, step),
           UNCHANGED << due, refreshed, owner, observed, relapsed >>,
           valid' \in {valid, TRUE}, valid' = TRUE \/ justified' = justified
    PROVE  SessionInv'
<1>1. /\ DOMAIN at' = Session!Threads /\ at'[t] = step
      /\ \A u \in Session!Threads : u # t => at'[u] = at[u]
  BY SessionGoes DEF SessionInv
<1>2. owner = t /\ owner # Nobody /\ \A u \in Session!Threads : u # t => at[u] \notin Renewing
  BY SessionThreads DEF SessionInv, HolderOK
<1>3. valid' \in BOOLEAN /\ (valid => valid') /\ (~valid' => justified' = justified)
  BY DEF SessionInv, SharedOK
<1>4. step # "answered" /\ step # "idle" /\ step # "probe" /\ step # "refused"
      /\ step # "resend" /\ step # "send" /\ step # "expired"
  BY DEF Renewing
<1>5. at'[Main] = "answered" => at[Main] = "answered"
  BY <1>1, <1>4, SessionThreads
<1>6. SharedOK'
  BY <1>1, <1>2, <1>3, <1>5 DEF SessionInv, SharedOK
<1>7. ASSUME NEW u \in Session!Threads
      PROVE  HolderOK(u)'
  BY <1>1 DEF SessionInv, HolderOK
<1>8. ASSUME NEW u \in Requests
      PROVE  RequestOK(u)'
  <2>1. u \in Session!Threads /\ RequestOK(u)
    BY SessionThreads DEF SessionInv
  <2>2. CASE u = t
    <3>1. at[u] # "idle" /\ at'[u] = step /\ at'[Main] = at[Main]
      BY <1>1, <2>2, SessionThreads DEF Renewing
    <3> QED
      BY <1>3, <1>4, <2>1, <3>1 DEF RequestOK
  <2>3. CASE u # t
    <3>1. at'[u] = at[u] /\ at[u] # "probe" /\ owner' # Nobody
      BY <1>1, <1>2, <2>1, <2>3 DEF Renewing
    <3>2. at[Main] = "answered" => at'[Main] = "answered"
      BY <1>1, SessionThreads DEF Renewing
    <3> QED
      BY <1>3, <2>1, <3>1, <3>2 DEF RequestOK
  <2> QED
    BY <2>2, <2>3
<1> QED
  BY <1>6, <1>7, <1>8 DEF SessionInv

\* What the thread that has the lock does: it goes on, is done or gives up.
LEMMA EnsureAuthKeeps ==
    ASSUME Session!ThreadsAreTold, SessionInv, NEW t \in Session!Threads, Session!EnsureAuth(t)
    PROVE  SessionInv'
<1> DEFINE GoesOn(step) ==
               /\ Session!Go(t, step)
               /\ UNCHANGED << due, refreshed, owner, observed, relapsed >>
               /\ valid' \in {valid, TRUE} /\ (valid' = TRUE \/ justified' = justified)
           Done == /\ valid /\ Session!Renewed(t)
                   /\ UNCHANGED << valid, observed, justified, relapsed >>
           GivesUp == /\ Session!Raise(t) /\ UNCHANGED << observed, relapsed >>
                      /\ valid' \in {valid, TRUE}
<1>1. /\ at[t] \in Renewing
      /\ Done \/ GivesUp \/ \E step \in Renewing \ {"probe"} : GoesOn(step)
  <2>1. CASE Session!Probe(t)
    BY <2>1 DEF Session!Probe, Session!Keep, Renewing
  <2>2. CASE Session!Refresh(t)
    BY <2>2 DEF Session!Refresh, Session!Keep, Renewing
  <2>3. CASE Session!Revalidate(t)
    BY <2>3 DEF Session!Revalidate, Session!Keep, Renewing
  <2>4. CASE Session!Browser(t)
    BY <2>4 DEF Session!Browser, Session!Keep, Renewing
  <2>5. CASE Session!Authenticate(t)
    BY <2>5 DEF Session!Authenticate, Session!Keep, Renewing
  <2>6. CASE Session!LastProbe(t)
    BY <2>6 DEF Session!LastProbe, Renewing
  <2> QED
    BY <2>1, <2>2, <2>3, <2>4, <2>5, <2>6 DEF Session!EnsureAuth
<1> QED
  BY <1>1, RenewedKeeps, RaiseKeeps, RenewalGoesOn

\* Every step of the threads, of OCI and of time keeps the invariant.
LEMMA SessionKeeps ==
    ASSUME Session!ThreadsAreTold, SessionInv, [Session!Next]_(Session!vars)
    PROVE  SessionInv'
<1>1. CASE Session!Lapse
  <2>1. /\ UNCHANGED << due, refreshed, owner, at, observed >>
        /\ valid' = FALSE /\ justified' = TRUE
        /\ relapsed' = relapsed \cup {r \in Requests : observed[r] # 0 /\ refreshed > observed[r]}
    BY <1>1 DEF Session!Lapse
  <2>2. SharedOK'
    BY <2>1 DEF SessionInv, SharedOK
  <2>3. \A t \in Session!Threads : HolderOK(t)'
    BY <2>1 DEF SessionInv, HolderOK
  <2>4. ASSUME NEW r \in Requests
        PROVE  RequestOK(r)'
    <3>1. RequestOK(r) /\ observed[r] \in Nat /\ refreshed \in Nat
      BY SessionThreads DEF SessionInv, SharedOK
    <3>2. (observed[r] # 0 /\ observed[r] < refreshed) => r \in relapsed'
      BY <2>1, <3>1
    <3>3. r \in relapsed => r \in relapsed'
      BY <2>1
    <3> QED
      BY <2>1, <3>1, <3>2, <3>3 DEF RequestOK
  <2> QED
    BY <2>2, <2>3, <2>4 DEF SessionInv
<1>2. CASE Session!IntervalPasses
  <2>1. /\ UNCHANGED << valid, refreshed, owner, at, observed, relapsed >>
        /\ due' = TRUE /\ justified' = TRUE
    BY <1>2 DEF Session!IntervalPasses
  <2>2. SharedOK'
    BY <2>1 DEF SessionInv, SharedOK
  <2>3. \A t \in Session!Threads : HolderOK(t)'
    BY <2>1 DEF SessionInv, HolderOK
  <2>4. \A r \in Requests : RequestOK(r)'
    BY <2>1 DEF SessionInv, RequestOK
  <2> QED
    BY <2>2, <2>3, <2>4 DEF SessionInv
<1>3. CASE UNCHANGED Session!vars
  BY <1>3 DEF Session!vars, SessionInv, SharedOK, HolderOK, RequestOK
<1> QED
  BY <1>1, <1>2, <1>3, RequestKeeps, EnsureAuthKeeps DEF Session!Next, Session!Over

\* The invariant tells why a renewal is tried and what became of a refusal.
LEMMA SessionServesAll ==
    ASSUME SessionInv
    PROVE  Session!SessionIsShared
  BY DEF SessionInv, RequestOK, Session!SessionIsShared, Session!RenewedForAReason,
      Session!LapsesAreSurvived

\* The runner's session: its invariant holds in every behaviour.
THEOREM SessionInvariant == Spec => [](program = "session" => SessionInv)
<1> DEFINE Inv == program = "session" => SessionInv
<1>1. Init => Inv
  BY SessionInit, ConstantsArePossible DEF Init
<1>2. Inv /\ [Next]_vars => Inv'
  BY StepsAreApart, SessionKeeps, ConstantsArePossible
<1> QED
  BY <1>1, <1>2, PTL DEF Spec

\* A worker renews the session only for a reason, and a request is refused for
\* good only after the session ended twice on it.
THEOREM SessionsAreShared == Spec => []SessionIsShared
<1>1. (program = "session" => SessionInv) => SessionIsShared
  BY SessionServesAll DEF SessionIsShared
<1> QED
  BY <1>1, SessionInvariant, PTL

-----------------------------------------------------------------------------
(* The loader and its rollback. What the operators of the model return.     *)

\* The first of some positions is among them, and none is before it.
LEMMA FirstIsLeast ==
    ASSUME NEW S \in SUBSET Nat, S # {}
    PROVE  Load!First(S) \in S /\ \A j \in S : Load!First(S) <= j
<1>1. \E i \in S : \A j \in S : i <= j
  BY LeastNumber
<1> QED
  BY <1>1 DEF Load!First

\* The manifest of a load: every table once, its parents before it.
Ordered(tables) ==
    /\ tables \in [1 .. Len(Inventory) -> Load!Tables]
    /\ \A t \in Load!Tables : \E i \in DOMAIN tables : tables[i] = t
    /\ \A i, j \in DOMAIN tables : tables[i] = tables[j] => i = j
    /\ \A i \in DOMAIN tables : \A u \in Load!Parents(tables[i]) :
           \E j \in DOMAIN tables : j < i /\ tables[j] = u

\* The order of a load is an order of the whole inventory, parents first.
LEMMA LoadOrderIsOrdered ==
    ASSUME Load!InputIsPossible, Load!Loadable
    PROVE  Ordered(Load!LoadOrder)
<1> DEFINE N == Len(Inventory)
           D == 1 .. N
<1>1. /\ N \in Nat /\ DOMAIN Inventory = D
      /\ \A p \in D : Inventory[p] \in Load!Tables
      /\ \A t \in Load!Tables : \E p \in D : Inventory[p] = t
      /\ \A p, q \in D : Inventory[p] = Inventory[q] => p = q
  BY DEF Load!InputIsPossible, Load!Tables
<1> HIDE DEF N
<1> DEFINE s == CHOOSE x \in Load!Sorts : TRUE
           Left(i) == D \ { s[j] : j \in 1 .. (i - 1) }
<1>2. s \in Load!Sorts /\ Load!LoadOrder = [i \in D |-> Inventory[s[i]]]
  BY <1>1 DEF Load!Loadable, Load!LoadOrder
<1> HIDE DEF s
<1>3. s \in [D -> D]
  BY <1>1, <1>2 DEF Load!Sorts
<1>4. ASSUME NEW i \in D
      PROVE  s[i] \in Load!Ready(Left(i))
  <2>1. Load!Ready(Left(i)) # {} /\ s[i] = Load!First(Load!Ready(Left(i)))
    BY <1>1, <1>2 DEF Load!Sorts
  <2>2. Load!Ready(Left(i)) \in SUBSET Nat
    BY <1>1 DEF Load!Ready
  <2> QED
    BY <2>1, <2>2, FirstIsLeast
<1>5. ASSUME NEW i \in D, NEW j \in D, j < i
      PROVE  s[i] # s[j]
  <2>1. s[i] \in Left(i)
    BY <1>4 DEF Load!Ready
  <2>2. j \in 1 .. (i - 1)
    BY <1>1, <1>5
  <2> QED
    BY <2>1, <2>2
<1>6. \A i, j \in D : s[i] = s[j] => i = j
  BY <1>1, <1>5
<1>7. ASSUME NEW p \in D
      PROVE  \E i \in D : s[i] = p
  <2>1. SUFFICES ASSUME \A i \in D : s[i] # p
                 PROVE  FALSE
    OBVIOUS
  <2>2. s \in [D -> D \ {p}]
    BY <1>3, <2>1
  <2>3. IsFiniteSet(D) /\ Cardinality(D) \in Nat
    BY <1>1, FS_Interval, FS_CardinalityType
  <2> HIDE DEF D
  <2>4. IsFiniteSet(D \ {p}) /\ Cardinality(D \ {p}) = Cardinality(D) - 1
    BY <2>3, FS_RemoveElement
  <2>5. \E i, j \in D : i # j /\ s[i] = s[j]
    BY <2>2, <2>3, <2>4, FS_PigeonHole
  <2> QED
    BY <1>6, <2>5
<1>8. ASSUME NEW i \in D, NEW u \in Load!Parents(Inventory[s[i]])
      PROVE  \E j \in D : j < i /\ Inventory[s[j]] = u
  <2>1. PICK p \in D : Inventory[p] = u
    BY <1>1 DEF Load!Parents
  <2>2. p \notin Left(i)
    BY <1>4, <2>1 DEF Load!Ready
  <2>3. PICK j \in 1 .. (i - 1) : s[j] = p
    BY <2>2
  <2> QED
    BY <1>1, <2>1, <2>3
<1>9. \A t \in Load!Tables : \E i \in D : Inventory[s[i]] = t
  <2> TAKE t \in Load!Tables
  <2>1. PICK p \in D : Inventory[p] = t
    BY <1>1
  <2> QED
    BY <1>7, <2>1
<1>10. \A i, j \in D : Inventory[s[i]] = Inventory[s[j]] => i = j
  BY <1>1, <1>3, <1>6
<1>11. Load!LoadOrder \in [D -> Load!Tables]
  BY <1>1, <1>2, <1>3
<1>12. DOMAIN Load!LoadOrder = D /\ \A i \in D : Load!LoadOrder[i] = Inventory[s[i]]
  BY <1>2
<1>13. \A i \in D : \A u \in Load!Parents(Inventory[s[i]]) :
           \E j \in D : j < i /\ Inventory[s[j]] = u
  BY <1>8
<1>14. D = 1 .. Len(Inventory)
  BY DEF N
<1> HIDE DEF D
<1>15. Load!LoadOrder \in [1 .. Len(Inventory) -> Load!Tables]
  BY <1>11, <1>14
<1>16. \A t \in Load!Tables : \E i \in DOMAIN Load!LoadOrder : Load!LoadOrder[i] = t
  BY <1>9, <1>12
<1>17. \A i, j \in DOMAIN Load!LoadOrder : Load!LoadOrder[i] = Load!LoadOrder[j] => i = j
  BY <1>10, <1>12
<1>18. \A i \in DOMAIN Load!LoadOrder : \A u \in Load!Parents(Load!LoadOrder[i]) :
           \E j \in DOMAIN Load!LoadOrder : j < i /\ Load!LoadOrder[j] = u
  <2> TAKE i \in DOMAIN Load!LoadOrder
  <2> TAKE u \in Load!Parents(Load!LoadOrder[i])
  <2>1. i \in D /\ u \in Load!Parents(Inventory[s[i]])
    BY <1>12
  <2>2. PICK j \in D : j < i /\ Inventory[s[j]] = u
    BY <1>13, <2>1
  <2> QED
    BY <1>12, <2>2
<1> HIDE DEF Load!LoadOrder
<1> QED
  BY <1>15, <1>16, <1>17, <1>18 DEF Ordered

\* The keys of the input lie from Low to High.
LEMMA KeyBounds ==
    ASSUME Load!InputIsPossible
    PROVE  /\ Load!Low \in OwnKeys /\ Load!High \in OwnKeys /\ OwnKeys \subseteq Nat
           /\ \A k \in OwnKeys : Load!Low <= k /\ k <= Load!High
<1>1. OwnKeys \in SUBSET Nat /\ OwnKeys # {}
  BY DEF Load!InputIsPossible
<1>2. \E k \in OwnKeys : \A o \in OwnKeys : k <= o
  BY <1>1, LeastNumber
<1>3. \E k \in OwnKeys : \A o \in OwnKeys : o <= k
  BY DEF Load!InputIsPossible
<1> QED
  BY <1>1, <1>2, <1>3 DEF Load!Low, Load!High

\* A quotient and its remainder.
LEMMA Division ==
    ASSUME NEW a \in Nat, NEW c \in Nat \ {0}
    PROVE  /\ a \div c \in Nat
           /\ (a \div c) * c <= a /\ a < (a \div c) * c + c
  BY SMTT(30)

\* Products grow with their factor.
LEMMA Products ==
    ASSUME NEW a \in Nat, NEW b \in Nat, NEW c \in Nat \ {0}, a * c < b * c
    PROVE  a < b
<1>1. SUFFICES ASSUME b <= a PROVE FALSE
  OBVIOUS
<1>2. PICK d \in Nat : a = b + d
  BY <1>1
<1>3. a * c = b * c + d * c /\ d * c \in Nat /\ b * c \in Nat
  BY <1>2
<1> QED
  BY <1>3

\* The chunks of a rollback hold every key of the input, and no other key
\* than those from Low to High (pk_chunk_ranges).
LEMMA ChunksAreExact ==
    ASSUME Load!InputIsPossible
    PROVE  /\ Load!PkChunkRanges \in Seq(Int \X Int)
           /\ \A k \in OwnKeys : \E i \in DOMAIN Load!PkChunkRanges :
                  Load!Within(Load!PkChunkRanges[i], k)
           /\ \A i \in DOMAIN Load!PkChunkRanges :
                  Load!Low <= Load!PkChunkRanges[i][1] /\ Load!PkChunkRanges[i][2] <= Load!High
<1> DEFINE C == ChunkSize
           Span == Load!High - Load!Low
           N == (Load!High - Load!Low + C) \div C
           Piece(i) == << Load!Low + (i - 1) * C,
                          IF Load!Low + i * C - 1 < Load!High
                          THEN Load!Low + i * C - 1 ELSE Load!High >>
<1>1. /\ Load!Low \in Nat /\ Load!High \in Nat /\ Load!Low <= Load!High
      /\ C \in Nat \ {0} /\ Span \in Nat
  <2>1. Load!Low \in Nat /\ Load!High \in Nat /\ Load!Low <= Load!High
    BY KeyBounds
  <2>2. C \in Nat \ {0}
    BY DEF Load!InputIsPossible
  <2> HIDE DEF C
  <2> QED
    BY <2>1, <2>2
<1>2. N \in Nat /\ N * C <= Span + C /\ Span + C < N * C + C
  BY <1>1, Division
<1>3. Load!PkChunkRanges = [i \in 1 .. N |-> Piece(i)]
  BY DEF Load!PkChunkRanges
<1> HIDE DEF C, N
<1>4. ASSUME NEW i \in 1 .. N
      PROVE  Piece(i) \in Int \X Int /\ Load!Low <= Piece(i)[1] /\ Piece(i)[2] <= Load!High
  <2>1. (i - 1) * C \in Nat /\ i * C \in Nat
    BY <1>1, <1>2
  <2> QED
    BY <1>1, <2>1
<1>5. ASSUME NEW k \in OwnKeys
      PROVE  \E i \in 1 .. N : Load!Within(Piece(i), k)
  <2>1. k \in Nat /\ Load!Low <= k /\ k <= Load!High /\ k - Load!Low \in Nat
    BY <1>1, KeyBounds
  <2>2. PICK q \in Nat : q * C <= k - Load!Low /\ k - Load!Low < q * C + C
    BY <1>1, <2>1, Division
  <2>3. q * C \in Nat /\ N * C \in Nat /\ (q + 1) * C = q * C + C /\ (N + 1) * C = N * C + C
    BY <1>1, <1>2
  <2>4. (q + 1) * C < (N + 1) * C
    BY <1>1, <1>2, <2>1, <2>2, <2>3
  <2>5. q + 1 < N + 1
    BY <1>1, <1>2, <2>4, Products
  <2>6. q + 1 \in 1 .. N
    BY <1>2, <2>5
  <2>7. Piece(q + 1)[1] = Load!Low + q * C
    BY <1>1
  <2>8. Load!Within(Piece(q + 1), k)
    BY <1>1, <2>1, <2>2, <2>3, <2>7 DEF Load!Within
  <2> QED
    BY <2>6, <2>8
<1>6. Load!PkChunkRanges \in Seq(Int \X Int)
  BY <1>2, <1>3, <1>4
<1> QED
  BY <1>3, <1>4, <1>5, <1>6

-----------------------------------------------------------------------------
(* The inductive invariant.                                                 *)

\* The types of the variables, and what a job's place among the tables is.
Typed ==
    /\ foreign \in Foreign /\ guarded \subseteq Load!Tables
    /\ oracle \in [Load!Tables -> [Load!Keys -> Nat]]
    /\ job \in {"none", "load", "rollback"} /\ keepGoing \in BOOLEAN
    /\ open \subseteq Load!Tasks /\ tries \in [Load!Tasks -> Nat] /\ failures \subseteq Load!Tables
    /\ chunks \in Seq(Int \X Int)
    /\ manifest = << >> \/ Ordered(manifest)
    /\ job # "none" => Ordered(manifest) /\ turn \in Load!Turns
    /\ job = "none" => failures = {}
    /\ job # "load" => open = {}
    /\ outcome \in {"loaded", "rolled back"} => job = "none"

\* A load has every row of the tables before its turn in Oracle, but of those
\* that failed, and of the table at its turn what no open task has to insert.
LoadedSoFar ==
    job = "load" =>
        /\ \A t \in failures : \E i \in DOMAIN manifest : i < turn /\ manifest[i] = t
        /\ \A i \in DOMAIN manifest :
               i < turn => \/ manifest[i] \in failures
                           \/ \A k \in OwnKeys : oracle[manifest[i]][k] > 0
        /\ \A x \in open : x[1] \in failures \/ (x[1] = Load!Table /\ stage = "write")
        /\ stage = "write" =>
               \A k \in OwnKeys : oracle[Load!Table][k] > 0 \/ << Load!Table, k >> \in open

\* A guarded row that is there and still to be inserted was reported failed.
InsertedOnce ==
    \A x \in open : x[1] \in guarded /\ oracle[x[1]][x[2]] > 0 => tries[x] > 0

\* The rows of others are there, and no chunk reaches them.
Spared ==
    /\ Load!RollbackSparesOthers
    /\ \A i \in DOMAIN chunks : Load!Low <= chunks[i][1] /\ chunks[i][2] <= Load!High

\* A rollback has left no row of the input in the tables before its turn, but
\* in those that failed, and in the table at its turn what chunks remain for.
RolledSoFar ==
    job = "rollback" =>
        /\ \A i \in Load!RollbackTurns :
               i < turn => \/ Load!RollbackOrder[i] \in failures
                           \/ \A k \in OwnKeys : oracle[Load!RollbackOrder[i]][k] = 0
        /\ \A k \in OwnKeys :
               oracle[Load!Table][k] = 0 \/ \E i \in DOMAIN chunks : Load!Within(chunks[i], k)

IInv ==
    /\ Typed
    /\ LoadedSoFar
    /\ InsertedOnce
    /\ Spared
    /\ RolledSoFar
    /\ Load!LoadedMeansComplete
    /\ Load!RolledBackMeansGone

-----------------------------------------------------------------------------
(* The steps of a job.                                                      *)

\* A task is a table and a key of the input.
LEMMA TaskParts ==
    ASSUME NEW x \in Load!Tasks
    PROVE  x[1] \in Load!Tables /\ x[2] \in OwnKeys /\ x = << x[1], x[2] >>
  BY DEF Load!Tasks

\* The keys of the input and those of others have none in common.
LEMMA KeysAreApart ==
    ASSUME Load!InputIsPossible
    PROVE  /\ OwnKeys \subseteq Load!Keys
           /\ OtherKeys \subseteq Load!Keys /\ Load!Keys \subseteq Nat
           /\ \A k \in OtherKeys : k \notin OwnKeys /\ (k < Load!Low \/ k > Load!High)
<1>1. OwnKeys \subseteq Nat /\ OtherKeys \subseteq Nat
  BY DEF Load!InputIsPossible
<1>2. \A k \in OtherKeys : (\A o \in OwnKeys : k < o) \/ (\A o \in OwnKeys : k > o)
  BY DEF Load!InputIsPossible
<1>3. Load!Low \in OwnKeys /\ Load!High \in OwnKeys
  BY KeyBounds
<1>4. ASSUME NEW k \in OtherKeys
      PROVE  k \notin OwnKeys /\ (k < Load!Low \/ k > Load!High)
  <2>1. CASE \A o \in OwnKeys : k < o
    BY <1>1, <1>3, <2>1
  <2>2. CASE \A o \in OwnKeys : k > o
    BY <1>1, <1>3, <2>2
  <2> QED
    BY <1>2, <2>1, <2>2
<1> QED
  BY <1>1, <1>4 DEF Load!Keys

\* The turns of a job: positions of its order, which for a load are all, and
\* for a rollback those of the guarded tables.
LEMMA TurnsOfJob ==
    ASSUME Ordered(manifest)
    PROVE  /\ DOMAIN manifest \subseteq Nat /\ DOMAIN Load!RollbackOrder = DOMAIN manifest
           /\ Load!Turns \subseteq DOMAIN manifest /\ Load!RollbackTurns \subseteq DOMAIN manifest
           /\ job = "load" => Load!Turns = DOMAIN manifest /\ Load!JobOrder = manifest
           /\ job = "rollback" =>
                  Load!Turns = Load!RollbackTurns /\ Load!JobOrder = Load!RollbackOrder
           /\ \A i \in DOMAIN manifest :
                  manifest[i] \in Load!Tables /\ Load!RollbackOrder[i] \in Load!Tables
           /\ \A i \in DOMAIN manifest : Load!JobOrder[i] \in Load!Tables
           /\ \A t \in Load!Tables \cap guarded :
                  \E i \in Load!RollbackTurns : Load!RollbackOrder[i] = t
<1> DEFINE N == Len(manifest)
<1>1. DOMAIN manifest = 1 .. N /\ N \in Nat
  BY DEF Ordered
<1>2. \A i \in 1 .. N : manifest[i] \in Load!Tables
  BY <1>1 DEF Ordered
<1>3. \A i \in 1 .. N : N + 1 - i \in 1 .. N /\ N + 1 - (N + 1 - i) = i
  BY <1>1
<1>4. Load!RollbackOrder = [i \in 1 .. N |-> manifest[N + 1 - i]]
  BY <1>1 DEF Load!RollbackOrder
<1> HIDE DEF N
<1>5. \A i \in 1 .. N : Load!RollbackOrder[i] \in Load!Tables
  BY <1>2, <1>3, <1>4
<1>6. ASSUME NEW t \in Load!Tables \cap guarded
      PROVE  \E i \in Load!RollbackTurns : Load!RollbackOrder[i] = t
  <2>1. PICK j \in 1 .. N : manifest[j] = t
    BY <1>1 DEF Ordered
  <2>2. Load!RollbackOrder[N + 1 - j] = t /\ N + 1 - j \in 1 .. N
    BY <1>3, <1>4, <2>1
  <2> QED
    BY <1>4, <2>2 DEF Load!RollbackTurns
<1>7. DOMAIN Load!RollbackOrder = 1 .. N /\ Load!RollbackTurns \subseteq 1 .. N
  BY <1>4 DEF Load!RollbackTurns
<1> QED
  BY <1>1, <1>2, <1>5, <1>6, <1>7 DEF Load!Turns, Load!JobOrder

\* A job goes on to the first of its later turns, or it is over.
LEMMA NextTurn ==
    ASSUME Typed, job # "none", NEW failing, NEW left, Load!NextTable(failing, left)
    PROVE  \/ Load!End("failed")
           \/ /\ failing = {} /\ \A i \in Load!Turns : i <= turn
              /\ Load!End(IF job = "load" THEN "loaded" ELSE "rolled back")
           \/ /\ turn' \in Load!Turns /\ turn < turn'
              /\ \A i \in Load!Turns : i < turn' => i <= turn
              /\ stage' = IF job = "load" THEN "guard" ELSE "delete"
              /\ chunks' = IF job = "load" THEN << >> ELSE Load!PkChunkRanges
              /\ failures' = failing /\ open' = left
              /\ UNCHANGED << job, keepGoing, tries, outcome >>
<1> DEFINE later == { i \in Load!Turns : i > turn }
<1>1. Load!Turns \subseteq Nat /\ turn \in Nat
  BY TurnsOfJob DEF Typed
<1>2. later = {} => \A i \in Load!Turns : i <= turn
  BY <1>1
<1>3. later # {} => /\ Load!First(later) \in later
                    /\ \A i \in Load!Turns : i < Load!First(later) => i <= turn
  <2>1. later \in SUBSET Nat
    BY <1>1
  <2> QED
    BY <1>1, <2>1, FirstIsLeast
<1> HIDE DEF Load!End
<1> QED
  BY <1>1, <1>2, <1>3 DEF Load!NextTable

\* An insertion adds one to the rows of its key.
LEMMA Inserting ==
    ASSUME Load!InputIsPossible, Typed, NEW x \in Load!Tasks, Load!Insert(x)
    PROVE  /\ oracle' \in [Load!Tables -> [Load!Keys -> Nat]]
           /\ oracle'[x[1]][x[2]] = oracle[x[1]][x[2]] + 1
           /\ \A t \in Load!Tables, k \in Load!Keys :
                  oracle'[t][k] = oracle[t][k] \/ (t = x[1] /\ k = x[2])
<1>1. x[1] \in Load!Tables /\ x[2] \in Load!Keys
  BY TaskParts, KeysAreApart
<1>2. oracle \in [Load!Tables -> [Load!Keys -> Nat]]
  BY DEF Typed
<1>3. oracle[x[1]] \in [Load!Keys -> Nat] /\ oracle[x[1]][x[2]] \in Nat
  BY <1>1, <1>2
<1> DEFINE row == [oracle[x[1]] EXCEPT ![x[2]] = @ + 1]
<1>4. /\ row \in [Load!Keys -> Nat] /\ row[x[2]] = oracle[x[1]][x[2]] + 1
      /\ \A k \in Load!Keys : row[k] = oracle[x[1]][k] \/ k = x[2]
  BY <1>1, <1>3
<1>5. oracle' = [oracle EXCEPT ![x[1]] = row]
  BY DEF Load!Insert
<1> HIDE DEF row
<1>6. oracle'[x[1]] = row /\ \A t \in Load!Tables : t # x[1] => oracle'[t] = oracle[t]
  BY <1>1, <1>2, <1>5
<1>7. oracle' \in [Load!Tables -> [Load!Keys -> Nat]]
  BY <1>2, <1>4, <1>5
<1> QED
  BY <1>4, <1>6, <1>7

\* A deletion leaves no row of a key in its range, and the other rows.
LEMMA Erasing ==
    ASSUME Typed, NEW t \in Load!Tables, NEW range, Load!Delete(t, range)
    PROVE  /\ oracle' \in [Load!Tables -> [Load!Keys -> Nat]]
           /\ \A u \in Load!Tables, k \in Load!Keys : oracle'[u][k] \in {0, oracle[u][k]}
           /\ \A k \in Load!Keys : Load!Within(range, k) => oracle'[t][k] = 0
           /\ \A u \in Load!Tables, k \in Load!Keys :
                  ~Load!Within(range, k) => oracle'[u][k] = oracle[u][k]
<1>1. oracle' = [oracle EXCEPT ![t] =
                                 [k \in Load!Keys |-> IF Load!Within(range, k) THEN 0 ELSE oracle[t][k]]]
  BY DEF Load!Delete
<1>2. \A u \in Load!Tables : oracle'[u] = IF u = t
                                     THEN [k \in Load!Keys |->
                                              IF Load!Within(range, k) THEN 0 ELSE oracle[t][k]]
                                     ELSE oracle[u]
  BY <1>1 DEF Typed
<1>3. ASSUME NEW u \in Load!Tables
      PROVE  oracle'[u] \in [Load!Keys -> Nat]
  <2>1. oracle[u] \in [Load!Keys -> Nat] /\ oracle[t] \in [Load!Keys -> Nat]
    BY DEF Typed
  <2>2. CASE u = t
    <3>1. \A k \in Load!Keys : (IF Load!Within(range, k) THEN 0 ELSE oracle[t][k]) \in Nat
      BY <2>1
    <3> QED
      BY <1>2, <2>2, <3>1
  <2>3. CASE u # t
    BY <1>2, <2>1, <2>3
  <2> QED
    BY <2>2, <2>3
<1>4. oracle' \in [Load!Tables -> [Load!Keys -> Nat]]
  BY <1>1, <1>3 DEF Typed
<1> QED
  BY <1>2, <1>4 DEF Typed

-----------------------------------------------------------------------------
(* Every step keeps the invariant.                                          *)

\* What a step of a load does to Oracle: rows are added, to the input's keys.
Adds ==
    /\ oracle' \in [Load!Tables -> [Load!Keys -> Nat]]
    /\ \A t \in Load!Tables, k \in Load!Keys : oracle'[t][k] >= oracle[t][k]
    /\ \A t \in Load!Tables, k \in OtherKeys : oracle'[t][k] = oracle[t][k]

\* What a step of a rollback does: rows are deleted, and none of others.
Removes ==
    /\ oracle' \in [Load!Tables -> [Load!Keys -> Nat]]
    /\ \A t \in Load!Tables, k \in Load!Keys : oracle'[t][k] \in {0, oracle[t][k]}
    /\ \A t \in Load!Tables, k \in OtherKeys : oracle'[t][k] = oracle[t][k]

\* The places of a job in a next state with the same schema and manifest.
LEMMA SamePlaces ==
    ASSUME UNCHANGED << foreign, guarded, manifest >>
    PROVE  /\ Load!RollbackOrder' = Load!RollbackOrder /\ Load!RollbackTurns' = Load!RollbackTurns
           /\ job' = job => Load!Turns' = Load!Turns /\ Load!JobOrder' = Load!JobOrder
           /\ Ordered(manifest)' <=> Ordered(manifest)
           /\ job' = job /\ turn' = turn => Load!Table' = Load!Table
  BY DEF Load!RollbackOrder, Load!RollbackTurns, Load!Turns, Load!JobOrder,
      Load!Table, Ordered, Load!Parents

\* A job that ends without success claims nothing.
LEMMA EndsBadly ==
    ASSUME Load!InputIsPossible, IInv, Load!End("failed"), Adds \/ Removes,
           UNCHANGED << foreign, guarded, manifest >>
    PROVE  IInv'
<1>1. oracle' \in [Load!Tables -> [Load!Keys -> Nat]] /\ Load!RollbackSparesOthers'
  BY DEF Adds, Removes, IInv, Spared, Load!RollbackSparesOthers
<1>2. [x \in Load!Tasks |-> 0] \in [Load!Tasks -> Nat] /\ << >> \in Seq(Int \X Int)
  OBVIOUS
<1>3. Typed'
  BY <1>1, <1>2, SamePlaces DEF Load!End, IInv, Typed
<1>4. LoadedSoFar' /\ InsertedOnce' /\ Spared' /\ RolledSoFar'
  BY <1>1 DEF Load!End, LoadedSoFar, InsertedOnce, Spared, RolledSoFar
<1>5. Load!LoadedMeansComplete' /\ Load!RolledBackMeansGone'
  BY DEF Load!End, Load!LoadedMeansComplete, Load!RolledBackMeansGone
<1> QED
  BY <1>3, <1>4, <1>5 DEF IInv

\* A load leaves a table that has failed, or whose rows are all in Oracle.
LEMMA LoadMovesOn ==
    ASSUME Load!InputIsPossible, IInv, job = "load", Adds,
           UNCHANGED << foreign, guarded, manifest >>,
           NEW failing, NEW left \in SUBSET open, Load!NextTable(failing, left),
           failing \in {failures, failures \cup {Load!Table}},
           Load!Table \in failing \/ \A k \in OwnKeys : oracle'[Load!Table][k] > 0,
           \A x \in left : x[1] \in failing,
           \A x \in left : x[1] \in guarded /\ oracle'[x[1]][x[2]] > 0 => tries[x] > 0
    PROVE  IInv'
<1>1. Typed /\ LoadedSoFar /\ Ordered(manifest) /\ turn \in Load!Turns
  BY DEF IInv, Typed
<1>2. /\ Load!Turns = DOMAIN manifest /\ Load!JobOrder = manifest /\ DOMAIN manifest \subseteq Nat
      /\ \A i \in DOMAIN manifest : manifest[i] \in Load!Tables
      /\ Load!Table \in Load!Tables /\ Load!Table = manifest[turn]
  BY <1>1, TurnsOfJob DEF Load!Table
<1>3. OwnKeys \subseteq Load!Keys
  BY KeysAreApart
<1>4. ASSUME NEW i \in DOMAIN manifest, i <= turn
      PROVE  manifest[i] \in failing \/ \A k \in OwnKeys : oracle'[manifest[i]][k] > 0
  <2>1. CASE i = turn
    BY <1>2, <2>1
  <2>2. CASE i < turn
    <3>1. manifest[i] \in failures \/ \A k \in OwnKeys : oracle[manifest[i]][k] > 0
      BY <1>1, <2>2 DEF LoadedSoFar
    <3>2. ASSUME NEW k \in OwnKeys, oracle[manifest[i]][k] > 0
          PROVE  oracle'[manifest[i]][k] > 0
      <4>1. manifest[i] \in Load!Tables /\ k \in Load!Keys
        BY <1>2, <1>3
      <4>2. \A t \in Load!Tables :
               oracle[t] \in [Load!Keys -> Nat] /\ oracle'[t] \in [Load!Keys -> Nat]
        BY <1>1 DEF Adds, Typed
      <4>3. oracle[manifest[i]][k] \in Nat /\ oracle'[manifest[i]][k] \in Nat
        BY <4>1, <4>2
      <4> QED
        BY <3>2, <4>1, <4>3 DEF Adds
    <3> QED
      BY <3>1, <3>2
  <2> QED
    BY <1>1, <1>2, <1>4, <2>1, <2>2
<1>5. Load!RollbackSparesOthers'
  BY DEF Adds, IInv, Spared, Load!RollbackSparesOthers
<1>6. CASE Load!End("failed")
  BY <1>6, EndsBadly
<1>7. CASE /\ failing = {} /\ \A i \in Load!Turns : i <= turn
           /\ Load!End("loaded")
  <2>1. Load!LoadedMeansComplete'
    <3> SUFFICES ASSUME NEW t \in Load!Tables, NEW k \in OwnKeys
                 PROVE  oracle'[t][k] > 0
      BY DEF Load!LoadedMeansComplete
    <3>1. PICK i \in DOMAIN manifest : manifest[i] = t
      BY <1>1 DEF Ordered
    <3> QED
      BY <1>2, <1>4, <1>7, <3>1
  <2>2. [x \in Load!Tasks |-> 0] \in [Load!Tasks -> Nat] /\ << >> \in Seq(Int \X Int)
    OBVIOUS
  <2>3. Typed'
    BY <1>1, <1>7, <2>2, SamePlaces DEF Load!End, Typed, Adds
  <2>4. LoadedSoFar' /\ InsertedOnce' /\ Spared' /\ RolledSoFar'
    BY <1>5, <1>7 DEF Load!End, LoadedSoFar, InsertedOnce, Spared, RolledSoFar
  <2>5. Load!RolledBackMeansGone'
    BY <1>7 DEF Load!End, Load!RolledBackMeansGone
  <2> QED
    BY <2>1, <2>3, <2>4, <2>5 DEF IInv
<1>8. CASE /\ turn' \in Load!Turns /\ turn < turn' /\ \A i \in Load!Turns : i < turn' => i <= turn
           /\ stage' = "guard" /\ chunks' = << >>
           /\ failures' = failing /\ open' = left
           /\ UNCHANGED << job, keepGoing, tries, outcome >>
  <2>1. << >> \in Seq(Int \X Int)
    OBVIOUS
  <2>2. failing \subseteq Load!Tables /\ left \subseteq Load!Tasks
    BY <1>1, <1>2 DEF Typed
  <2>3. Typed'
    BY <1>1, <1>8, <2>1, <2>2, SamePlaces DEF Typed, Adds
  <2>4. \A t \in failing : \E i \in DOMAIN manifest : i < turn' /\ manifest[i] = t
    <3> TAKE t \in failing
    <3>1. CASE t \in failures
      <4>1. PICK i \in DOMAIN manifest : i < turn /\ manifest[i] = t
        BY <1>1, <3>1 DEF LoadedSoFar
      <4>2. i < turn'
        BY <1>1, <1>2, <1>8, <4>1
      <4> QED
        BY <4>1, <4>2
    <3>2. CASE t = Load!Table
      BY <1>1, <1>2, <1>8, <3>2
    <3> QED
      BY <3>1, <3>2
  <2>5. LoadedSoFar'
    BY <1>2, <1>4, <1>8, <2>4 DEF LoadedSoFar
  <2>6. InsertedOnce' /\ Spared' /\ RolledSoFar'
    BY <1>5, <1>8 DEF InsertedOnce, Spared, RolledSoFar
  <2>7. Load!LoadedMeansComplete' /\ Load!RolledBackMeansGone'
    BY <1>1, <1>8 DEF Typed, Load!LoadedMeansComplete, Load!RolledBackMeansGone
  <2> QED
    BY <2>3, <2>5, <2>6, <2>7 DEF IInv
<1> QED
  BY <1>1, <1>6, <1>7, <1>8, NextTurn

\* A rollback leaves a table that has failed, or where no row of the input is.
LEMMA RollbackMovesOn ==
    ASSUME Load!InputIsPossible, IInv, job = "rollback", Removes,
           UNCHANGED << foreign, guarded, manifest >>,
           NEW failing, Load!NextTable(failing, open),
           failing \in {failures, failures \cup {Load!Table}},
           Load!Table \in failing \/ \A k \in OwnKeys : oracle'[Load!Table][k] = 0
    PROVE  IInv'
<1>1. Typed /\ RolledSoFar /\ Ordered(manifest) /\ turn \in Load!Turns /\ open = {}
  BY DEF IInv, Typed
<1>2. /\ Load!Turns = Load!RollbackTurns /\ Load!JobOrder = Load!RollbackOrder
      /\ Load!Turns \subseteq Nat
      /\ \A i \in Load!RollbackTurns : Load!RollbackOrder[i] \in Load!Tables
      /\ \A t \in Load!Tables \cap guarded : \E i \in Load!RollbackTurns : Load!RollbackOrder[i] = t
      /\ Load!Table \in Load!Tables /\ Load!Table = Load!RollbackOrder[turn]
  BY <1>1, TurnsOfJob DEF Load!Table
<1>3. OwnKeys \subseteq Load!Keys
  BY KeysAreApart
<1>4. ASSUME NEW i \in Load!RollbackTurns, i <= turn
      PROVE  \/ Load!RollbackOrder[i] \in failing
             \/ \A k \in OwnKeys : oracle'[Load!RollbackOrder[i]][k] = 0
  <2>1. CASE i = turn
    BY <1>2, <2>1
  <2>2. CASE i < turn
    <3>1. \/ Load!RollbackOrder[i] \in failures
          \/ \A k \in OwnKeys : oracle[Load!RollbackOrder[i]][k] = 0
      BY <1>1, <2>2 DEF RolledSoFar
    <3>2. \A k \in OwnKeys :
              oracle'[Load!RollbackOrder[i]][k] \in {0, oracle[Load!RollbackOrder[i]][k]}
      BY <1>2, <1>3 DEF Removes
    <3> QED
      BY <3>1, <3>2
  <2> QED
    BY <1>1, <1>2, <1>4, <2>1, <2>2
<1>5. Load!RollbackSparesOthers'
  BY DEF Removes, IInv, Spared, Load!RollbackSparesOthers
<1>6. CASE Load!End("failed")
  BY <1>6, EndsBadly
<1>7. CASE /\ failing = {} /\ \A i \in Load!Turns : i <= turn
           /\ Load!End("rolled back")
  <2>1. Load!RolledBackMeansGone'
    <3> SUFFICES ASSUME NEW t \in guarded, NEW k \in OwnKeys
                 PROVE  oracle'[t][k] = 0
      BY DEF Load!RolledBackMeansGone
    <3>1. PICK i \in Load!RollbackTurns : Load!RollbackOrder[i] = t
      BY <1>1, <1>2 DEF Typed
    <3> QED
      BY <1>2, <1>4, <1>7, <3>1
  <2>2. [x \in Load!Tasks |-> 0] \in [Load!Tasks -> Nat] /\ << >> \in Seq(Int \X Int)
    OBVIOUS
  <2>3. Typed'
    BY <1>1, <1>7, <2>2, SamePlaces DEF Load!End, Typed, Removes
  <2>4. LoadedSoFar' /\ InsertedOnce' /\ Spared' /\ RolledSoFar'
    <3>1. job' = "none" /\ open' = {} /\ chunks' = << >>
      BY <1>7 DEF Load!End
    <3> QED
      BY <1>5, <3>1 DEF LoadedSoFar, InsertedOnce, Spared, RolledSoFar
  <2>5. Load!LoadedMeansComplete'
    BY <1>7 DEF Load!End, Load!LoadedMeansComplete
  <2> QED
    BY <2>1, <2>3, <2>4, <2>5 DEF IInv
<1>8. CASE /\ turn' \in Load!Turns /\ turn < turn' /\ \A i \in Load!Turns : i < turn' => i <= turn
           /\ stage' = "delete" /\ chunks' = Load!PkChunkRanges
           /\ failures' = failing /\ open' = open
           /\ UNCHANGED << job, keepGoing, tries, outcome >>
  <2>1. failing \subseteq Load!Tables
    BY <1>1, <1>2 DEF Typed
  <2>2. Typed'
    BY <1>1, <1>8, <2>1, SamePlaces, ChunksAreExact DEF Typed, Removes
  <2>3. \A k \in OwnKeys : \E i \in DOMAIN chunks' : Load!Within(chunks'[i], k)
    BY <1>8, ChunksAreExact
  <2>4. \A i \in Load!RollbackTurns :
            i < turn' => \/ Load!RollbackOrder[i] \in failures'
                         \/ \A k \in OwnKeys : oracle'[Load!RollbackOrder[i]][k] = 0
    BY <1>2, <1>4, <1>8
  <2>5. RolledSoFar'
    BY <2>3, <2>4, SamePlaces DEF RolledSoFar
  <2>6. Spared'
    BY <1>5, <1>8, ChunksAreExact DEF Spared, Load!Low, Load!High
  <2>7. LoadedSoFar' /\ InsertedOnce'
    BY <1>1, <1>8 DEF InsertedOnce, LoadedSoFar
  <2>8. Load!LoadedMeansComplete' /\ Load!RolledBackMeansGone'
    BY <1>1, <1>8 DEF Typed, Load!LoadedMeansComplete, Load!RolledBackMeansGone
  <2> QED
    BY <2>2, <2>5, <2>6, <2>7, <2>8 DEF IInv
<1> QED
  BY <1>1, <1>6, <1>7, <1>8, NextTurn

\* The start of a load: nothing is before its turn, and nothing is open.
LEMMA StartLoadStep ==
    ASSUME Load!InputIsPossible, IInv, Load!StartLoad
    PROVE  IInv'
<1>1. Typed /\ job = "none" /\ failures = {} /\ open = {}
  BY DEF IInv, Typed, Load!StartLoad
<1>2. UNCHANGED << foreign, guarded, constrained, oracle, open, tries, chunks, failures >>
  BY DEF Load!StartLoad, Load!schema
<1>3. Load!RollbackSparesOthers' /\ InsertedOnce' /\ Spared'
  BY <1>1, <1>2 DEF IInv, InsertedOnce, Spared, Load!RollbackSparesOthers
<1>4. CASE outcome' = "refused" /\ UNCHANGED << manifest, Load!place >>
  BY <1>1, <1>2, <1>3, <1>4, SamePlaces DEF IInv, Typed, Load!place, LoadedSoFar, RolledSoFar,
      Load!LoadedMeansComplete, Load!RolledBackMeansGone
<1>5. CASE /\ Load!Loadable /\ manifest' = Load!LoadOrder
           /\ job' = "load" /\ turn' = 1 /\ stage' = "guard"
           /\ keepGoing' \in BOOLEAN /\ outcome' = "none"
  <2>1. Ordered(Load!LoadOrder)
    BY <1>5, LoadOrderIsOrdered
  <2>2. Ordered(manifest)'
    BY <1>2, <1>5, <2>1 DEF Ordered, Load!Parents
  <2>3. turn' \in DOMAIN manifest' /\ DOMAIN manifest' \subseteq Nat \ {0}
    BY <1>5, <2>1 DEF Ordered, Load!InputIsPossible
  <2>4. Typed'
    BY <1>1, <1>2, <1>5, <2>2, <2>3 DEF Typed, Load!Turns
  <2>5. LoadedSoFar'
    BY <1>1, <1>2, <1>5, <2>3 DEF LoadedSoFar
  <2> QED
    BY <1>3, <1>5, <2>4, <2>5 DEF IInv, RolledSoFar, Load!LoadedMeansComplete,
        Load!RolledBackMeansGone
<1> QED
  BY <1>4, <1>5 DEF Load!StartLoad

\* The start of a rollback: every row of its first table is in a chunk.
LEMMA StartRollbackStep ==
    ASSUME Load!InputIsPossible, IInv, Load!StartRollback
    PROVE  IInv'
<1>1. Typed /\ job = "none" /\ failures = {} /\ open = {}
  BY DEF IInv, Typed, Load!StartRollback
<1>2. /\ UNCHANGED << foreign, guarded, constrained, oracle, manifest, open, tries, failures >>
      /\ job' = "rollback" /\ stage' = "delete" /\ keepGoing' \in BOOLEAN
      /\ chunks' = Load!PkChunkRanges /\ outcome' = "none"
  BY DEF Load!StartRollback, Load!schema
<1>3. Load!RollbackTurns # {} /\ turn' = Load!First(Load!RollbackTurns)
  BY DEF Load!StartRollback
<1>4. Ordered(manifest)
  <2>1. Load!RollbackTurns \subseteq DOMAIN manifest
    BY DEF Load!RollbackTurns, Load!RollbackOrder
  <2>2. DOMAIN << >> = {}
    OBVIOUS
  <2>3. manifest # << >>
    BY <1>3, <2>1, <2>2
  <2> QED
    BY <1>1, <2>3 DEF Typed
<1>5. Load!RollbackTurns \in SUBSET Nat
  BY <1>4, TurnsOfJob
<1>6. turn' \in Load!RollbackTurns /\ \A i \in Load!RollbackTurns : turn' <= i
  BY <1>3, <1>5, FirstIsLeast
<1>7. Load!RollbackTurns' = Load!RollbackTurns /\ Ordered(manifest)' /\ turn' \in Load!Turns'
  BY <1>2, <1>4, <1>6, SamePlaces DEF Load!Turns
<1>8. Typed'
  BY <1>1, <1>2, <1>7, ChunksAreExact DEF Typed
<1>9. \A i \in Load!RollbackTurns : ~(i < turn')
  BY <1>5, <1>6
<1>10. \A k \in OwnKeys : \E i \in DOMAIN chunks' : Load!Within(chunks'[i], k)
  BY <1>2, ChunksAreExact
<1>11. RolledSoFar'
  BY <1>7, <1>9, <1>10 DEF RolledSoFar
<1>12. Spared'
  BY <1>2, ChunksAreExact DEF IInv, Spared, Load!RollbackSparesOthers, Load!Low, Load!High
<1> QED
  BY <1>1, <1>2, <1>8, <1>11, <1>12 DEF IInv, LoadedSoFar, InsertedOnce, Load!LoadedMeansComplete,
      Load!RolledBackMeansGone

\* What leaves Oracle as it is both adds and removes nothing.
LEMMA NothingChanges ==
    ASSUME Load!InputIsPossible, Typed, oracle' = oracle
    PROVE  Adds /\ Removes
<1>1. \A t \in Load!Tables : oracle[t] \in [Load!Keys -> Nat]
  BY DEF Typed
<1>2. \A t \in Load!Tables, k \in Load!Keys : oracle[t][k] \in Nat
  BY <1>1
<1>3. oracle' \in [Load!Tables -> [Load!Keys -> Nat]]
  BY DEF Typed
<1>4. \A t \in Load!Tables, k \in Load!Keys : oracle'[t][k] >= oracle[t][k]
  BY <1>2
<1>5. \A t \in Load!Tables, k \in Load!Keys : oracle'[t][k] \in {0, oracle[t][k]}
  OBVIOUS
<1> QED
  BY <1>3, <1>4, <1>5 DEF Adds, Removes

\* An insertion adds.
LEMMA InsertionAdds ==
    ASSUME Load!InputIsPossible, Typed, NEW x \in Load!Tasks, Load!Insert(x)
    PROVE  Adds
<1>1. \A t \in Load!Tables : oracle[t] \in [Load!Keys -> Nat]
  BY DEF Typed
<1>2. \A t \in Load!Tables, k \in Load!Keys : oracle[t][k] \in Nat
  BY <1>1
<1>3. x[1] \in Load!Tables /\ x[2] \in OwnKeys
  BY TaskParts
<1>4. \A t \in Load!Tables, k \in Load!Keys : oracle'[t][k] >= oracle[t][k]
  BY <1>2, Inserting
<1>5. \A t \in Load!Tables, k \in OtherKeys : oracle'[t][k] = oracle[t][k]
  BY <1>3, Inserting, KeysAreApart
<1> QED
  BY <1>4, <1>5, Inserting DEF Adds

\* A step of a load that stays at its table: rows are added, and the tasks that
\* remain open were open, as were those of a row that is not in Oracle yet.
LEMMA LoadStays ==
    ASSUME Load!InputIsPossible, IInv, job = "load", Adds,
           UNCHANGED << foreign, guarded, manifest, Load!place, chunks, failures, outcome >>,
           open' \subseteq open, tries' \in [Load!Tasks -> Nat],
           \A x \in open : x \in open' \/ x[1] # Load!Table \/ oracle'[x[1]][x[2]] > 0,
           \A x \in open' : x[1] \in guarded /\ oracle'[x[1]][x[2]] > 0 => tries'[x] > 0
    PROVE  IInv'
<1>1. Typed /\ LoadedSoFar /\ Ordered(manifest) /\ turn \in Load!Turns
  BY DEF IInv, Typed
<1>2. /\ Load!Turns = DOMAIN manifest /\ Load!JobOrder = manifest /\ DOMAIN manifest \subseteq Nat
      /\ \A i \in DOMAIN manifest : manifest[i] \in Load!Tables
      /\ Load!Table \in Load!Tables
  BY <1>1, TurnsOfJob DEF Load!Table
<1>3. OwnKeys \subseteq Load!Keys
  BY KeysAreApart
<1>4. /\ UNCHANGED << job, turn, stage, keepGoing >>
      /\ Load!Table' = Load!Table
  BY SamePlaces DEF Load!place
<1>5. Typed'
  BY <1>1, <1>4, SamePlaces DEF Typed, Adds
<1>6. ASSUME NEW t \in Load!Tables, NEW k \in OwnKeys, oracle[t][k] > 0
      PROVE  oracle'[t][k] > 0
  <2>1. k \in Load!Keys
    BY <1>3
  <2>2. oracle[t] \in [Load!Keys -> Nat] /\ oracle'[t] \in [Load!Keys -> Nat]
    BY <1>1 DEF Adds, Typed
  <2>3. oracle[t][k] \in Nat /\ oracle'[t][k] \in Nat
    BY <2>1, <2>2
  <2> QED
    BY <1>6, <2>1, <2>3 DEF Adds
<1>7. ASSUME NEW i \in DOMAIN manifest, i < turn
      PROVE  manifest[i] \in failures \/ \A k \in OwnKeys : oracle'[manifest[i]][k] > 0
  <2>1. manifest[i] \in failures \/ \A k \in OwnKeys : oracle[manifest[i]][k] > 0
    BY <1>1, <1>7 DEF LoadedSoFar
  <2> QED
    BY <1>2, <1>6, <2>1
<1>8. ASSUME stage = "write", NEW k \in OwnKeys
      PROVE  oracle'[Load!Table][k] > 0 \/ << Load!Table, k >> \in open'
  <2>1. oracle[Load!Table][k] > 0 \/ << Load!Table, k >> \in open
    BY <1>1, <1>8 DEF LoadedSoFar
  <2>2. << Load!Table, k >>[1] = Load!Table /\ << Load!Table, k >>[2] = k
    OBVIOUS
  <2> QED
    BY <1>2, <1>6, <2>1, <2>2
<1>9. LoadedSoFar'
  <2>1. \A t \in failures : \E i \in DOMAIN manifest : i < turn /\ manifest[i] = t
    BY <1>1 DEF LoadedSoFar
  <2>2. \A x \in open' : x[1] \in failures \/ (x[1] = Load!Table /\ stage = "write")
    BY <1>1 DEF LoadedSoFar
  <2> QED
    BY <1>4, <1>7, <1>8, <2>1, <2>2 DEF LoadedSoFar
<1>10. Spared'
  BY DEF IInv, Spared, Load!RollbackSparesOthers, Adds
<1> QED
  BY <1>1, <1>4, <1>5, <1>9, <1>10 DEF IInv, Typed, InsertedOnce, RolledSoFar,
      Load!LoadedMeansComplete, Load!RolledBackMeansGone

\* The guard opens a task for each row that is not in Oracle, or it fails.
LEMMA GuardStep ==
    ASSUME Load!InputIsPossible, IInv, Load!Guard
    PROVE  IInv'
<1>1. /\ Typed /\ LoadedSoFar /\ Ordered(manifest) /\ turn \in Load!Turns
      /\ job = "load" /\ stage = "guard"
  BY DEF IInv, Typed, Load!Guard
<1>2. /\ Load!Turns = DOMAIN manifest /\ Load!JobOrder = manifest /\ DOMAIN manifest \subseteq Nat
      /\ Load!Table \in Load!Tables
  BY <1>1, TurnsOfJob DEF Load!Table
<1>3. UNCHANGED << foreign, guarded, constrained, oracle, manifest >> /\ Adds
  BY <1>1, NothingChanges DEF Load!Guard, Load!schema
<1>4. \A x \in open : x[1] \in failures
  BY <1>1 DEF LoadedSoFar
<1>5. InsertedOnce
  BY DEF IInv
<1>6. CASE /\ open' = open \cup { << Load!Table, k >> : k \in OwnKeys \ Load!Skipped(Load!Table) }
           /\ stage' = "write"
           /\ UNCHANGED << job, keepGoing, turn, tries, chunks, failures, outcome, faults >>
  <2>1. Load!Table' = Load!Table
    BY <1>3, <1>6, SamePlaces
  <2>2. open' \subseteq Load!Tasks
    BY <1>1, <1>2, <1>6 DEF Typed, Load!Tasks
  <2>3. Typed'
    BY <1>1, <1>3, <1>6, <2>2, SamePlaces DEF Typed
  <2>4. ASSUME NEW x \in open'
        PROVE  \/ x \in open
               \/ \E k \in OwnKeys \ Load!Skipped(Load!Table) :
                     x = << Load!Table, k >> /\ x[1] = Load!Table /\ x[2] = k
    BY <1>6
  <2>5. \A x \in open' : x[1] \in failures \/ x[1] = Load!Table
    BY <1>4, <2>4
  <2>6. \A k \in OwnKeys : oracle[Load!Table][k] > 0 \/ << Load!Table, k >> \in open'
    BY <1>6 DEF Load!Skipped
  <2>7. LoadedSoFar'
    <3>1. /\ \A t \in failures : \E i \in DOMAIN manifest : i < turn /\ manifest[i] = t
          /\ \A i \in DOMAIN manifest :
               i < turn => manifest[i] \in failures \/ \A k \in OwnKeys : oracle[manifest[i]][k] > 0
      BY <1>1 DEF LoadedSoFar
    <3> QED
      BY <1>3, <1>6, <2>1, <2>5, <2>6, <3>1 DEF LoadedSoFar
  <2>8. InsertedOnce'
    <3> SUFFICES ASSUME NEW x \in open', x[1] \in guarded, oracle[x[1]][x[2]] > 0
                 PROVE  tries[x] > 0
      BY <1>3, <1>6 DEF InsertedOnce
    <3>1. CASE x \in open
      BY <1>5, <3>1 DEF InsertedOnce
    <3>2. ASSUME NEW k \in OwnKeys \ Load!Skipped(Load!Table), x[1] = Load!Table, x[2] = k
          PROVE  FALSE
      BY <3>2, KeyBounds DEF Load!Skipped
    <3> QED
      BY <2>4, <3>1, <3>2
  <2>9. Spared'
    BY <1>3, <1>6 DEF IInv, Spared, Load!RollbackSparesOthers
  <2> QED
    BY <1>1, <1>3, <1>6, <2>3, <2>7, <2>8, <2>9 DEF IInv, Typed, RolledSoFar,
        Load!LoadedMeansComplete, Load!RolledBackMeansGone
<1>7. CASE Load!FailTable(open)
  <2>1. CASE Load!End("failed")
    BY <1>3, <2>1, EndsBadly
  <2>2. CASE Load!NextTable(failures \cup {Load!Table}, open)
    <3>1. \A x \in open : x[1] \in guarded /\ oracle'[x[1]][x[2]] > 0 => tries[x] > 0
      BY <1>3, <1>5 DEF InsertedOnce
    <3> QED
      BY <1>1, <1>3, <1>4, <2>2, <3>1, LoadMovesOn
  <2> QED
    BY <1>7, <2>1, <2>2 DEF Load!FailTable
<1> QED
  BY <1>6, <1>7 DEF Load!Guard

\* A task commits its row.
LEMMA CommitStep ==
    ASSUME Load!InputIsPossible, IInv, NEW x \in Load!Tasks, Load!Commit(x)
    PROVE  IInv'
<1>1. Typed /\ job = "load" /\ x \in open /\ Load!Insert(x)
  BY DEF IInv, Typed, Load!Commit
<1>2. /\ UNCHANGED << foreign, guarded, manifest, Load!place, chunks, failures, outcome, tries >>
      /\ open' = open \ {x}
  BY DEF Load!Commit, Load!schema
<1>3. Adds
  BY <1>1, InsertionAdds
<1>4. oracle'[x[1]][x[2]] > 0
  <2>1. x[1] \in Load!Tables /\ x[2] \in Load!Keys
    BY TaskParts, KeysAreApart
  <2>2. oracle[x[1]] \in [Load!Keys -> Nat]
    BY <1>1, <2>1 DEF Typed
  <2>3. oracle[x[1]][x[2]] \in Nat
    BY <2>1, <2>2
  <2> QED
    BY <1>1, <2>3, Inserting
<1>5. ASSUME NEW y \in open, y # x
      PROVE  oracle'[y[1]][y[2]] = oracle[y[1]][y[2]]
  <2>1. y \in Load!Tasks
    BY <1>1 DEF Typed
  <2>2. y[1] # x[1] \/ y[2] # x[2]
    BY <1>5, <2>1, TaskParts
  <2>3. y[1] \in Load!Tables /\ y[2] \in Load!Keys
    BY <2>1, TaskParts, KeysAreApart
  <2> QED
    BY <1>1, <2>2, <2>3, Inserting
<1>6. \A y \in open' : y[1] \in guarded /\ oracle'[y[1]][y[2]] > 0 => tries'[y] > 0
  BY <1>2, <1>5 DEF IInv, InsertedOnce
<1>7. \A y \in open : y \in open' \/ y[1] # Load!Table \/ oracle'[y[1]][y[2]] > 0
  BY <1>2, <1>4
<1> QED
  BY <1>1, <1>2, <1>3, <1>6, <1>7, LoadStays DEF Typed

\* A task fails, whether its row is in Oracle or not, and is tried again, or
\* its table fails.
LEMMA TaskFailsStep ==
    ASSUME Load!InputIsPossible, IInv, NEW x \in Load!Tasks, Load!TaskFails(x)
    PROVE  IInv'
<1>1. Typed /\ LoadedSoFar /\ job = "load" /\ x \in open
  BY DEF IInv, Typed, Load!TaskFails
<1>2. UNCHANGED << foreign, guarded, manifest >> /\ Load!Retry(x)
  BY DEF Load!TaskFails, Load!schema
<1>3. oracle' = oracle \/ Load!Insert(x)
  BY DEF Load!TaskFails
<1>4. Adds
  BY <1>1, <1>3, NothingChanges, InsertionAdds
<1>5. ASSUME NEW y \in open, y # x
      PROVE  oracle'[y[1]][y[2]] = oracle[y[1]][y[2]]
  <2>1. y \in Load!Tasks
    BY <1>1 DEF Typed
  <2>2. y[1] # x[1] \/ y[2] # x[2]
    BY <1>5, <2>1, TaskParts
  <2>3. y[1] \in Load!Tables /\ y[2] \in Load!Keys
    BY <2>1, TaskParts, KeysAreApart
  <2> QED
    BY <1>1, <1>3, <2>2, <2>3, Inserting
<1>6. \A y \in open \ {x} : y[1] \in guarded /\ oracle'[y[1]][y[2]] > 0 => tries[y] > 0
  BY <1>5 DEF IInv, InsertedOnce
<1>7. CASE /\ x[1] # Load!Table /\ open' = open \ {x}
           /\ UNCHANGED << Load!place, tries, chunks, failures, outcome >>
  BY <1>1, <1>2, <1>4, <1>6, <1>7, LoadStays DEF Typed
<1>8. CASE /\ tries' = [tries EXCEPT ![x] = @ + 1]
           /\ UNCHANGED << Load!place, open, chunks, failures, outcome >>
  <2>1. /\ tries' \in [Load!Tasks -> Nat] /\ tries'[x] > 0
        /\ \A y \in open : y # x => tries'[y] = tries[y]
    <3>1. tries \in [Load!Tasks -> Nat] /\ tries[x] \in Nat /\ open \subseteq Load!Tasks
      BY <1>1 DEF Typed
    <3>2. tries' = [tries EXCEPT ![x] = tries[x] + 1]
      BY <1>8
    <3> QED
      BY <3>1, <3>2
  <2>2. \A y \in open' : y[1] \in guarded /\ oracle'[y[1]][y[2]] > 0 => tries'[y] > 0
    BY <1>6, <1>8, <2>1
  <2> QED
    BY <1>1, <1>2, <1>4, <1>8, <2>1, <2>2, LoadStays
<1>9. CASE x[1] = Load!Table /\ Load!FailTable(open \ {x})
  <2>1. CASE Load!End("failed")
    BY <1>2, <1>4, <2>1, EndsBadly
  <2>2. CASE Load!NextTable(failures \cup {Load!Table}, open \ {x})
    <3>1. \A y \in open \ {x} : y[1] \in failures \cup {Load!Table}
      BY <1>1 DEF LoadedSoFar
    <3> QED
      BY <1>1, <1>2, <1>4, <1>6, <2>2, <3>1, LoadMovesOn
  <2> QED
    BY <1>9, <2>1, <2>2 DEF Load!FailTable
<1> QED
  BY <1>2, <1>7, <1>8, <1>9 DEF Load!Retry

\* A table is finished when no task of it is open.
LEMMA FinishTableStep ==
    ASSUME Load!InputIsPossible, IInv, Load!FinishTable
    PROVE  IInv'
<1>1. Typed /\ LoadedSoFar /\ job = "load" /\ stage = "write" /\ \A x \in open : x[1] # Load!Table
  BY DEF IInv, Typed, Load!FinishTable
<1>2. UNCHANGED << foreign, guarded, manifest, oracle >> /\ Load!NextTable(failures, open)
  BY DEF Load!FinishTable, Load!schema
<1>3. Adds
  BY <1>1, <1>2, NothingChanges
<1>4. ASSUME NEW k \in OwnKeys
      PROVE  oracle'[Load!Table][k] > 0
  <2>1. oracle[Load!Table][k] > 0 \/ << Load!Table, k >> \in open
    BY <1>1 DEF LoadedSoFar
  <2>2. << Load!Table, k >>[1] = Load!Table
    OBVIOUS
  <2> QED
    BY <1>1, <1>2, <2>1, <2>2
<1>5. \A x \in open : x[1] \in failures
  BY <1>1 DEF LoadedSoFar
<1>6. \A x \in open : x[1] \in guarded /\ oracle'[x[1]][x[2]] > 0 => tries[x] > 0
  BY <1>2 DEF IInv, InsertedOnce
<1> QED
  BY <1>1, <1>2, <1>3, <1>4, <1>5, <1>6, LoadMovesOn

\* The first chunk and those after it.
LEMMA TailParts ==
    ASSUME NEW S, NEW q \in Seq(S), q # << >>
    PROVE  /\ 1 \in DOMAIN q /\ Head(q) = q[1] /\ q[1] \in S /\ Tail(q) \in Seq(S)
           /\ \A i \in DOMAIN q :
                  i = 1 \/ (i - 1 \in DOMAIN Tail(q) /\ Tail(q)[i - 1] = q[i])
           /\ \A i \in DOMAIN Tail(q) : i + 1 \in DOMAIN q /\ Tail(q)[i] = q[i + 1]
<1>1. /\ Len(q) \in Nat \ {0} /\ DOMAIN q = 1 .. Len(q) /\ Tail(q) \in Seq(S)
      /\ Len(Tail(q)) = Len(q) - 1 /\ DOMAIN Tail(q) = 1 .. Len(q) - 1
  OBVIOUS
<1>2. \A i \in 1 .. Len(q) - 1 : Tail(q)[i] = q[i + 1]
  OBVIOUS
<1>3. ASSUME NEW i \in DOMAIN q, i # 1
      PROVE  i - 1 \in DOMAIN Tail(q) /\ Tail(q)[i - 1] = q[i]
  BY <1>1, <1>2, <1>3
<1>4. \A i \in DOMAIN Tail(q) : i + 1 \in DOMAIN q /\ Tail(q)[i] = q[i + 1]
  BY <1>1, <1>2
<1> QED
  BY <1>1, <1>3, <1>4

\* A chunk is deleted, or its table fails.
LEMMA DeleteChunkStep ==
    ASSUME Load!InputIsPossible, IInv, Load!DeleteChunk
    PROVE  IInv'
<1>1. /\ Typed /\ RolledSoFar /\ Spared /\ Ordered(manifest) /\ turn \in Load!Turns
      /\ job = "rollback" /\ chunks # << >> /\ open = {}
  BY DEF IInv, Typed, Load!DeleteChunk
<1>2. UNCHANGED << foreign, guarded, manifest >>
  BY DEF Load!DeleteChunk, Load!schema
<1>3. /\ Load!Turns = Load!RollbackTurns
      /\ \A i \in Load!RollbackTurns : Load!RollbackOrder[i] \in Load!Tables
      /\ Load!Table \in Load!Tables
  BY <1>1, TurnsOfJob DEF Load!Table
<1>4. /\ 1 \in DOMAIN chunks /\ Head(chunks) = chunks[1] /\ chunks[1] \in Int \X Int
      /\ Tail(chunks) \in Seq(Int \X Int)
      /\ \A i \in DOMAIN chunks :
              i = 1 \/ (i - 1 \in DOMAIN Tail(chunks) /\ Tail(chunks)[i - 1] = chunks[i])
      /\ \A i \in DOMAIN Tail(chunks) : i + 1 \in DOMAIN chunks /\ Tail(chunks)[i] = chunks[i + 1]
  <2>1. chunks \in Seq(Int \X Int)
    BY <1>1 DEF Typed
  <2> QED
    BY <1>1, <2>1, TailParts
<1>5. oracle' = oracle \/ Load!Delete(Load!Table, Head(chunks))
  BY DEF Load!DeleteChunk
<1>6. \A k \in OtherKeys : ~Load!Within(Head(chunks), k)
  <2>1. Load!Low <= chunks[1][1] /\ chunks[1][2] <= Load!High /\ chunks[1] \in Int \X Int
    BY <1>1, <1>4 DEF Spared
  <2>2. Load!Low \in Int /\ Load!High \in Int /\ chunks[1][1] \in Int /\ chunks[1][2] \in Int
    BY <2>1, KeyBounds
  <2>3. \A k \in OtherKeys : k \in Int /\ (k < Load!Low \/ k > Load!High)
    BY KeysAreApart
  <2> QED
    BY <1>4, <2>1, <2>2, <2>3 DEF Load!Within
<1>7. Removes
  <2>1. CASE oracle' = oracle
    BY <1>1, <2>1, NothingChanges
  <2>2. CASE Load!Delete(Load!Table, Head(chunks))
    <3>1. \A t \in Load!Tables, k \in OtherKeys : oracle'[t][k] = oracle[t][k]
      BY <1>1, <1>3, <1>6, <2>2, Erasing, KeysAreApart
    <3> QED
      BY <1>1, <1>3, <2>2, <3>1, Erasing DEF Removes
  <2> QED
    BY <1>5, <2>1, <2>2
<1>8. CASE Load!FailTable(open)
  <2>1. CASE Load!End("failed")
    BY <1>2, <1>7, <2>1, EndsBadly
  <2>2. CASE Load!NextTable(failures \cup {Load!Table}, open)
    BY <1>1, <1>2, <1>7, <2>2, RollbackMovesOn
  <2> QED
    BY <1>8, <2>1, <2>2 DEF Load!FailTable
<1>9. CASE /\ Load!Delete(Load!Table, Head(chunks)) /\ chunks' = Tail(chunks)
           /\ UNCHANGED << Load!place, open, tries, failures, outcome, faults >>
  <2>1. /\ UNCHANGED << job, turn, stage, keepGoing >>
        /\ Load!Table' = Load!Table
    BY <1>2, <1>9, SamePlaces DEF Load!place
  <2>2. Typed'
    BY <1>1, <1>2, <1>4, <1>7, <1>9, <2>1, SamePlaces DEF Typed, Removes
  <2>3. ASSUME NEW k \in OwnKeys
        PROVE  oracle'[Load!Table][k] = 0 \/ \E i \in DOMAIN chunks' : Load!Within(chunks'[i], k)
    <3>1. k \in Load!Keys
      BY KeysAreApart
    <3>2. CASE Load!Within(chunks[1], k)
      BY <1>1, <1>3, <1>4, <1>9, <3>1, <3>2, Erasing
    <3>3. CASE oracle[Load!Table][k] = 0
      BY <1>3, <1>7, <3>1, <3>3 DEF Removes
    <3>4. CASE \E i \in DOMAIN chunks : i # 1 /\ Load!Within(chunks[i], k)
      BY <1>4, <1>9, <3>4
    <3> QED
      BY <1>1, <3>2, <3>3, <3>4 DEF RolledSoFar
  <2>4. ASSUME NEW i \in Load!RollbackTurns, i < turn
        PROVE  \/ Load!RollbackOrder[i] \in failures
               \/ \A k \in OwnKeys : oracle'[Load!RollbackOrder[i]][k] = 0
    <3>1. \/ Load!RollbackOrder[i] \in failures
          \/ \A k \in OwnKeys : oracle[Load!RollbackOrder[i]][k] = 0
      BY <1>1, <2>4 DEF RolledSoFar
    <3>2. \A k \in OwnKeys :
              oracle'[Load!RollbackOrder[i]][k] \in {0, oracle[Load!RollbackOrder[i]][k]}
      BY <1>3, <1>7, KeysAreApart DEF Removes
    <3> QED
      BY <3>1, <3>2
  <2>5. RolledSoFar'
    BY <1>2, <1>9, <2>1, <2>3, <2>4, SamePlaces DEF RolledSoFar
  <2>6. Spared'
    <3>1. Load!RollbackSparesOthers'
      BY <1>1, <1>7 DEF Spared, Load!RollbackSparesOthers, Removes
    <3>2. \A i \in DOMAIN Tail(chunks) :
              Load!Low <= Tail(chunks)[i][1] /\ Tail(chunks)[i][2] <= Load!High
      BY <1>1, <1>4 DEF Spared
    <3> QED
      BY <1>9, <3>1, <3>2 DEF Spared, Load!Low, Load!High
  <2> QED
    BY <1>1, <1>9, <2>1, <2>2, <2>5, <2>6 DEF IInv, Typed, LoadedSoFar, InsertedOnce,
        Load!LoadedMeansComplete, Load!RolledBackMeansGone
<1> QED
  BY <1>8, <1>9 DEF Load!DeleteChunk

\* A table is rolled back when no chunk of it remains.
LEMMA FinishRollbackStep ==
    ASSUME Load!InputIsPossible, IInv, Load!FinishRollback
    PROVE  IInv'
<1>1. Typed /\ RolledSoFar /\ job = "rollback" /\ chunks = << >>
  BY DEF IInv, Typed, Load!FinishRollback
<1>2. UNCHANGED << foreign, guarded, manifest, oracle >> /\ Load!NextTable(failures, open)
  BY DEF Load!FinishRollback, Load!schema
<1>3. Removes
  BY <1>1, <1>2, NothingChanges
<1>4. DOMAIN chunks = {}
  BY <1>1
<1>5. \A k \in OwnKeys : oracle'[Load!Table][k] = 0
  BY <1>1, <1>2, <1>4 DEF RolledSoFar
<1> QED
  BY <1>1, <1>2, <1>3, <1>5, RollbackMovesOn

\* Every step of loads and rollbacks keeps the invariant.
LEMMA InvariantStep ==
    ASSUME Load!InputIsPossible, IInv, [Load!Next]_(Load!vars)
    PROVE  IInv'
<1>1. Typed
  BY DEF IInv
<1>2. CASE Load!Crash
  <2>1. Load!End("failed") /\ UNCHANGED << foreign, guarded, manifest, oracle >>
    BY <1>2 DEF Load!Crash, Load!schema
  <2> QED
    BY <1>1, <2>1, NothingChanges, EndsBadly
<1>3. CASE UNCHANGED Load!vars
  <2>1. /\ UNCHANGED << foreign, guarded, constrained, oracle, manifest,
                    job, keepGoing, turn, stage >>
        /\ UNCHANGED << open, tries, chunks, failures, outcome >>
    BY <1>3 DEF Load!vars, Load!schema, Load!place
  <2>2. Typed' /\ LoadedSoFar' /\ InsertedOnce'
    BY <2>1, SamePlaces DEF IInv, Typed, LoadedSoFar, InsertedOnce
  <2>3. Spared' /\ RolledSoFar'
    BY <2>1, SamePlaces DEF IInv, Spared, Load!RollbackSparesOthers, RolledSoFar,
        Load!Low, Load!High
  <2>4. Load!LoadedMeansComplete' /\ Load!RolledBackMeansGone'
    BY <2>1 DEF IInv, Load!LoadedMeansComplete, Load!RolledBackMeansGone
  <2> QED
    BY <2>2, <2>3, <2>4 DEF IInv
<1>4. CASE Load!Next
  <2>1. CASE \E x \in Load!Tasks : Load!Commit(x) \/ Load!TaskFails(x)
    BY <2>1, CommitStep, TaskFailsStep
  <2>2. CASE Load!Over
    BY <1>3, <2>2 DEF Load!Over
  <2> QED
    BY <1>2, <1>4, <2>1, <2>2, StartLoadStep, GuardStep, FinishTableStep, StartRollbackStep,
        DeleteChunkStep, FinishRollbackStep DEF Load!Next
<1> QED
  BY <1>3, <1>4

\* Before the first job, Oracle has the rows of others.
LEMMA Initially ==
    ASSUME Load!InputIsPossible, Load!Init
    PROVE  IInv
<1>1. oracle \in [Load!Tables -> [Load!Keys -> Nat]]
  BY DEF Load!Init
<1>2. \A t \in Load!Tables, k \in OtherKeys : oracle[t][k] = 1
  BY KeysAreApart DEF Load!Init
<1>3. tries \in [Load!Tasks -> Nat] /\ chunks \in Seq(Int \X Int) /\ DOMAIN chunks = {}
  BY DEF Load!Init
<1>4. foreign \in Foreign /\ guarded \subseteq Load!Tables
  BY DEF Load!Init, Load!InputIsPossible
<1>5. Typed
  BY <1>1, <1>3, <1>4 DEF Typed, Load!Init
<1> QED
  BY <1>2, <1>3, <1>5 DEF IInv, Load!Init, LoadedSoFar, InsertedOnce, Spared,
      Load!RollbackSparesOthers,
      RolledSoFar, Load!LoadedMeansComplete, Load!RolledBackMeansGone

-----------------------------------------------------------------------------
(* The theorems.                                                            *)

\* The invariant of the loader, of which the theorems below are consequences.
THEOREM LoaderInvariant == Spec => [](program = "load" => IInv)
<1> DEFINE Inv == program = "load" => IInv
<1>1. Init => Inv
  BY Initially, ConstantsArePossible DEF Init
<1>2. Inv /\ [Next]_vars => Inv'
  <2> SUFFICES ASSUME program = "load", IInv, [Next]_vars
               PROVE  IInv'
    BY StepsAreApart
  <2> QED
    BY StepsAreApart, InvariantStep, ConstantsArePossible
<1> QED
  BY <1>1, <1>2, PTL DEF Spec

\* When a task of a load runs, the rows it references are in Oracle, unless the
\* parent's table failed and the load went on (topo_sort_for_load).
THEOREM ParentsComeFirst == Spec => []ParentsAreLoaded
<1>1. (program = "load" => IInv) => ParentsAreLoaded
  <2> SUFFICES ASSUME IInv, NEW x \in open, NEW u \in Load!Parents(x[1])
               PROVE  oracle[u][x[2]] > 0 \/ u \in failures
    BY DEF ParentsAreLoaded, Load!ParentsAreLoaded
  <2>1. Typed /\ LoadedSoFar /\ job = "load" /\ Ordered(manifest) /\ turn \in Load!Turns
    BY DEF IInv, Typed
  <2>2. /\ Load!Turns = DOMAIN manifest /\ Load!JobOrder = manifest /\ DOMAIN manifest \subseteq Nat
        /\ Load!Table = manifest[turn]
    BY <2>1, TurnsOfJob DEF Load!Table
  <2>3. x[2] \in OwnKeys
    BY <2>1, TaskParts DEF Typed
  <2>4. PICK i \in DOMAIN manifest : i <= turn /\ manifest[i] = x[1]
    <3>1. CASE x[1] \in failures
      <4>1. PICK i \in DOMAIN manifest : i < turn /\ manifest[i] = x[1]
        BY <2>1, <3>1 DEF LoadedSoFar
      <4> QED
        BY <2>1, <2>2, <4>1
    <3>2. CASE x[1] = Load!Table
      BY <2>1, <2>2, <3>2
    <3> QED
      BY <2>1, <3>1, <3>2 DEF LoadedSoFar
  <2>5. PICK j \in DOMAIN manifest : j < i /\ manifest[j] = u
    BY <2>1, <2>4 DEF Ordered
  <2>6. j < turn
    BY <2>1, <2>2, <2>4, <2>5
  <2> QED
    BY <2>1, <2>3, <2>5, <2>6 DEF LoadedSoFar
<1> QED
  BY <1>1, LoaderInvariant, PTL

\* A rollback that reports success left no row of the input in a table that can
\* be rolled back, and none ever deletes a row of others (pk_chunk_ranges).
THEOREM RollbacksAreExact == Spec => []RollbackIsExact
<1>1. (program = "load" => IInv) => RollbackIsExact
  BY DEF IInv, Spared, RollbackIsExact, Load!RollbackIsExact
<1> QED
  BY <1>1, LoaderInvariant, PTL

\* A load that reports success has every row of the input in Oracle, also after
\* loads, rollbacks and retries that got half way; what an attempt to publish
\* reports of the final path is so (published, it holds the whole output and
\* nothing else; restored or refused, what it held), and so is what a repair
\* does (repaired, restored or as it was).
THEOREM ReportsAreTrue == Spec => []OutcomesAreTrue
<1>1. /\ program = "load" => IInv
      /\ program = "promotion" => PromotionInv
      /\ program = "repair" => RepairInv
      => OutcomesAreTrue
  BY DEF IInv, PromotionInv, RepairInv, OutcomesAreTrue
<1> QED
  BY <1>1, LoaderInvariant, PromotionInvariant, RepairInvariant, PTL

\* A row that a guarded table has is only inserted again by a task that was
\* reported failed in the same load (apply_pk_guard).
THEOREM RerunsAreGuarded == Spec => RerunsAddNoDuplicate
<1> DEFINE A == program = "load" =>
                    \A t \in guarded, k \in OwnKeys :
                        (oracle[t][k] > 0 /\ oracle'[t][k] > oracle[t][k]) => tries[<< t, k >>] > 0
<1>1. (program = "load" => IInv) /\ [Next]_vars => [A]_vars
  <2> SUFFICES ASSUME IInv, Load!Next, NEW t \in guarded, NEW k \in OwnKeys,
                      oracle[t][k] > 0, oracle'[t][k] > oracle[t][k]
               PROVE  tries[<< t, k >>] > 0
    BY DEF Next, LoadStep, PromotionStep, RepairStep, ExtractStep, MigrationStep, SessionStep,
        LineageStep, RewriteStep, HandoffStep, CommandsStep
  <2>1. Typed /\ t \in Load!Tables /\ k \in Load!Keys
    BY KeysAreApart, ConstantsArePossible DEF IInv, Typed
  <2>2. oracle[t] \in [Load!Keys -> Nat] /\ oracle[t][k] \in Nat
    <3>1. oracle[t] \in [Load!Keys -> Nat]
      BY <2>1 DEF Typed
    <3> QED
      BY <2>1, <3>1
  <2>3. ~(oracle' = oracle)
    BY <2>2
  <2>4. ASSUME NEW u \in Load!Tables, NEW range, Load!Delete(u, range)
        PROVE  FALSE
    BY <2>1, <2>2, <2>4, Erasing
  <2>5. PICK x \in Load!Tasks : (Load!Commit(x) \/ Load!TaskFails(x)) /\ Load!Insert(x)
    <3>1. CASE Load!DeleteChunk
      <4>1. Load!Delete(Load!Table, Head(chunks))
        BY <2>3, <3>1 DEF Load!DeleteChunk
      <4>2. Load!Table \in Load!Tables
        BY <2>1, <3>1, TurnsOfJob DEF Typed, Load!Table, Load!DeleteChunk
      <4> QED
        BY <2>4, <4>1, <4>2
    <3>2. CASE \E x \in Load!Tasks : Load!Commit(x) \/ Load!TaskFails(x)
      BY <2>3, <3>2 DEF Load!Commit, Load!TaskFails
    <3> QED
      BY <2>3, <3>1, <3>2 DEF Load!Next, Load!StartLoad, Load!Guard, Load!FinishTable,
          Load!StartRollback, Load!FinishRollback,
          Load!Crash, Load!Over, Load!vars
  <2>6. x \in open /\ x = << x[1], x[2] >>
    BY <2>5, TaskParts DEF Load!Commit, Load!TaskFails
  <2>7. t = x[1] /\ k = x[2]
    BY <2>1, <2>2, <2>5, Inserting, ConstantsArePossible
  <2> QED
    BY <2>6, <2>7 DEF IInv, InsertedOnce
<1> QED
  BY <1>1, LoaderInvariant, PTL DEF Spec, RerunsAddNoDuplicate
-----------------------------------------------------------------------------
(* The lineage of a pipeline (PipelineLineage).                             *)

Making == {"plan", "materialize", "publish"}
Nodes == Making \cup {"validate", "load", "insert", "succeeded", "failed"}

Intervals ==
    {{"engorda"}, {"validate"}, {"load"}, {"engorda", "validate"}, {"validate", "load"},
     {"engorda", "validate", "load"}}

Listed(s) == s \in Seq({ s[i] : i \in DOMAIN s })

\* What a descriptor states of an output, and of the report on it, is so.
OutputTrue(output) ==
    /\ output.uri \in DOMAIN synthetics
    /\ output.oracle_access # "unstated" =>
         /\ synthetics[output.uri].whole
         /\ output.oracle_access = synthetics[output.uri].oracle_access

ReportTrue(of, output) ==
    /\ of.uri \in DOMAIN reports
    /\ reports[of.uri].resolved_input = output.uri /\ reports[of.uri].clean
    /\ of.oracle_access = reports[of.uri].oracle_access
    /\ output.oracle_access = "disabled" => of.oracle_access = "disabled"

\* A manifest on which later runs may build.
ManifestTrue(m) ==
    /\ \A p \in DOMAIN m.synthetic : OutputTrue(m.synthetic[p])
    /\ \A p \in DOMAIN m.report :
          p \in DOMAIN m.synthetic /\ ReportTrue(m.report[p], m.synthetic[p])

\* What a run is going to make is named by it, and stated as its nodes are told
\* to make it; a report is no better than the output it is of.
Told(r, mine, p) ==
    /\ "engorda" \in mine.stages =>
         mine.synthetic[p] = [uri |-> Lineage!Own(r, p),
                              oracle_access |-> Lineage!Access(p \in mine.offline)]
    /\ "validate" \in mine.stages =>
         /\ mine.report[p] = [uri |-> Lineage!Own(r, p),
                              oracle_access |-> Lineage!Access(p \in mine.unverified)]
         /\ mine.synthetic[p].oracle_access = "disabled" => p \in mine.unverified

PlanHeld(r, mine) ==
    /\ mine.stages \in Intervals
    /\ DOMAIN mine.synthetic = mine.products
    /\ DOMAIN mine.report = { p \in mine.products : mine.stages # {"engorda"} }
    /\ \A p \in mine.products : Told(r, mine, p)

\* What the plan relies on is there from the start, and what the nodes of a
\* product make, once they are through.
NodeHeld(r, p, mine, n) ==
    /\ n \in Nodes
    /\ n \in Making => "engorda" \in mine.stages
    /\ n = "validate" => "validate" \in mine.stages
    /\ n \in {"load", "insert"} => "load" \in mine.stages
    /\ n = "publish" =>
         /\ Lineage!Own(r, p) \in DOMAIN synthetics
         /\ synthetics[Lineage!Own(r, p)].oracle_access = Lineage!Access(p \in mine.offline)
    /\ n \in Making \cup {"validate"} => Lineage!Own(r, p) \notin DOMAIN reports
    /\ "engorda" \notin mine.stages \/ n \notin Making \cup {"failed"} =>
         OutputTrue(mine.synthetic[p])
    /\ mine.stages = {"load"} \/ ("validate" \in mine.stages /\ n \in {"load", "insert", "succeeded"})
         => ReportTrue(mine.report[p], mine.synthetic[p])

RunsAligned ==
    /\ Listed(launched) /\ Listed(node) /\ Listed(status)
    /\ Len(node) = Len(launched) /\ Len(status) = Len(launched)

RunHeld(r) ==
    /\ status[r] \in {"RUNNING", "SUCCEEDED", "FAILED"}
    /\ PlanHeld(r, launched[r]) /\ DOMAIN node[r] = launched[r].products
    /\ \A p \in launched[r].products : NodeHeld(r, p, launched[r], node[r][p])
    /\ status[r] = "SUCCEEDED" => \A p \in launched[r].products : node[r][p] = "succeeded"

\* An output without the marker that is whole was made with Oracle, and a report
\* is of a run that was started.
StoreHeld ==
    /\ \A uri \in DOMAIN synthetics : synthetics[uri] \in Lineage!Outputs
    /\ \A uri \in DOMAIN synthetics :
          synthetics[uri].whole /\ ~synthetics[uri].marker =>
              synthetics[uri].oracle_access = "live"
    /\ \A uri \in DOMAIN reports :
          reports[uri].oracle_access \in {"live", "disabled"} /\ uri[1] \in DOMAIN launched

AtInsert(r, p) == r \in DOMAIN launched /\ p \in launched[r].products /\ node[r][p] = "insert"

InputOf(r, p) == launched[r].synthetic[p].uri

\* Whoever is about to insert has the claim to the output, alone; the claim of
\* what was inserted is never given back.
ClaimsHeld ==
    /\ \A l \in loaded : l.input \in claims
    /\ \A r, p : AtInsert(r, p) =>
        /\ InputOf(r, p) \in claims
        /\ \A l \in loaded : l.input # InputOf(r, p)
        /\ \A s, q : AtInsert(s, q) /\ InputOf(s, q) = InputOf(r, p) => s = r /\ q = p

LoadedHeld ==
    \A l \in loaded : l.input \in DOMAIN synthetics /\ l.report \in DOMAIN reports

LineageInv ==
    /\ RunsAligned /\ \A r \in DOMAIN launched : RunHeld(r)
    /\ StoreHeld /\ ClaimsHeld /\ LoadedHeld
    /\ \A m \in adopted : ManifestTrue(m)
    /\ Lineage!LoadsAreSound

\* What is written stays: no node takes anything back that a descriptor states.
StoreGrows ==
    /\ \A uri \in DOMAIN synthetics :
        /\ uri \in DOMAIN synthetics'
        /\ synthetics'[uri].oracle_access = synthetics[uri].oracle_access
        /\ synthetics[uri].whole => synthetics'[uri].whole
    /\ \A uri \in DOMAIN reports : uri \in DOMAIN reports' /\ reports'[uri] = reports[uri]

\* A list that grows at its end, and one of which a member is replaced.
LEMMA ListedAfter ==
    ASSUME NEW s, NEW e, Listed(s)
    PROVE  /\ Listed(Append(s, e)) /\ Len(Append(s, e)) = Len(s) + 1
           /\ DOMAIN Append(s, e) = DOMAIN s \cup {Len(s) + 1} /\ Len(s) + 1 \notin DOMAIN s
           /\ DOMAIN s = 1 .. Len(s) /\ Len(s) \in Nat
           /\ Append(s, e)[Len(s) + 1] = e /\ \A i \in DOMAIN s : Append(s, e)[i] = s[i]
<1> DEFINE W == { s[i] : i \in DOMAIN s } \cup {e}
<1>1. s \in Seq(W) /\ e \in W
  BY DEF Listed
<1> HIDE DEF W
<1>2. /\ Append(s, e) \in Seq(W) /\ Len(Append(s, e)) = Len(s) + 1
      /\ DOMAIN Append(s, e) = DOMAIN s \cup {Len(s) + 1} /\ Len(s) + 1 \notin DOMAIN s
      /\ DOMAIN s = 1 .. Len(s) /\ Len(s) \in Nat
      /\ Append(s, e)[Len(s) + 1] = e /\ \A i \in DOMAIN s : Append(s, e)[i] = s[i]
  BY <1>1
<1>3. Listed(Append(s, e))
  BY <1>2 DEF Listed
<1> QED
  BY <1>2, <1>3

LEMMA ListedExcept ==
    ASSUME NEW s, NEW i \in DOMAIN s, NEW e, Listed(s)
    PROVE  /\ Listed([s EXCEPT ![i] = e]) /\ Len([s EXCEPT ![i] = e]) = Len(s)
           /\ DOMAIN s = 1 .. Len(s)
<1> DEFINE W == { s[j] : j \in DOMAIN s } \cup {e}
           t == [s EXCEPT ![i] = e]
<1>1. s \in Seq(W) /\ e \in W
  BY DEF Listed
<1>2. DOMAIN t = DOMAIN s /\ \A j \in DOMAIN t : t[j] \in W
  OBVIOUS
<1> HIDE DEF W
<1>3. DOMAIN s = 1 .. Len(s) /\ Len(s) \in Nat
  BY <1>1
<1>4. t \in Seq(W) /\ Len(t) = Len(s)
  <2>1. t = [j \in 1 .. Len(s) |-> t[j]]
    BY <1>2, <1>3
  <2> HIDE DEF t
  <2> QED
    BY <1>2, <1>3, <2>1
<1> HIDE DEF t
<1>5. Listed(t)
  BY <1>4 DEF Listed
<1> QED
  BY <1>3, <1>4, <1>5 DEF t

\* What was true of an output or of a report stays true.
LEMMA TruthStays ==
    ASSUME StoreGrows, NEW output, NEW of
    PROVE  /\ OutputTrue(output) => OutputTrue(output)'
           /\ ReportTrue(of, output) => ReportTrue(of, output)'
  BY DEF StoreGrows, OutputTrue, ReportTrue

LEMMA NodesStay ==
    ASSUME StoreGrows, NEW r, NEW p, NEW mine, NEW n, NodeHeld(r, p, mine, n),
           Lineage!Own(r, p) \in DOMAIN reports' => Lineage!Own(r, p) \in DOMAIN reports
    PROVE  NodeHeld(r, p, mine, n)'
<1>1. /\ OutputTrue(mine.synthetic[p]) => OutputTrue(mine.synthetic[p])'
      /\ ReportTrue(mine.report[p], mine.synthetic[p])
             => ReportTrue(mine.report[p], mine.synthetic[p])'
  BY TruthStays
<1>2. ASSUME Lineage!Own(r, p) \in DOMAIN synthetics
      PROVE  /\ Lineage!Own(r, p) \in DOMAIN synthetics'
             /\ synthetics'[Lineage!Own(r, p)].oracle_access
                    = synthetics[Lineage!Own(r, p)].oracle_access
  BY <1>2 DEF StoreGrows
<1> QED
  BY <1>1, <1>2 DEF NodeHeld, Lineage!Own, Lineage!Access

LEMMA ManifestsStayTrue ==
    ASSUME StoreGrows, NEW m, ManifestTrue(m)
    PROVE  ManifestTrue(m)'
  BY TruthStays DEF ManifestTrue

LEMMA LoadsStaySound ==
    ASSUME StoreGrows, LoadedHeld, Lineage!LoadsAreSound, loaded' = loaded
    PROVE  LoadedHeld' /\ Lineage!LoadsAreSound'
  BY DEF StoreGrows, LoadedHeld, Lineage!LoadsAreSound

\* A node of a product moves on: every other product's node keeps what it held,
\* and its run is not one that has succeeded.
LEMMA NodeMoves ==
    ASSUME LineageInv, NEW r \in DOMAIN launched, NEW p \in launched[r].products, NEW n,
           Lineage!Goto(r, p, n), Lineage!Keep, StoreGrows,
           DOMAIN reports' \subseteq DOMAIN reports \cup {Lineage!Own(r, p)},
           node[r][p] # "succeeded",
           NodeHeld(r, p, launched[r], n)'
    PROVE  /\ RunsAligned' /\ \A s \in DOMAIN launched' : RunHeld(s)'
           /\ \A m \in adopted' : ManifestTrue(m)'
<1>1. launched' = launched /\ status' = status /\ adopted' = adopted
  BY DEF Lineage!Keep
<1>2. RunsAligned /\ \A s \in DOMAIN launched : RunHeld(s)
  BY DEF LineageInv
<1>3. DOMAIN node = DOMAIN launched /\ DOMAIN status = DOMAIN launched
  BY <1>2, ListedAfter DEF RunsAligned
<1>4. node' = [node EXCEPT ![r] = [node[r] EXCEPT ![p] = n]]
  BY DEF Lineage!Goto
<1>5. RunsAligned'
  <2> PICK nodes, row : nodes = node /\ row = [node[r] EXCEPT ![p] = n]
    OBVIOUS
  <2>1. Listed(nodes) /\ r \in DOMAIN nodes
    BY <1>2, <1>3 DEF RunsAligned
  <2>2. Listed([nodes EXCEPT ![r] = row]) /\ Len([nodes EXCEPT ![r] = row]) = Len(nodes)
    BY <2>1, ListedExcept
  <2>3. Listed(node') /\ Len(node') = Len(node)
    BY <2>2, <1>4, Zenon
  <2> QED
    BY <2>3, <1>1, <1>2 DEF RunsAligned
<1>6. ASSUME NEW s \in DOMAIN launched PROVE RunHeld(s)'
  <2>1. RunHeld(s)
    BY <1>2
  <2>2. DOMAIN node'[s] = DOMAIN node[s]
    BY <1>3, <1>4
  <2>3. ASSUME NEW q \in launched[s].products, ~(s = r /\ q = p)
        PROVE  node'[s][q] = node[s][q] /\ NodeHeld(s, q, launched[s], node[s][q])'
    <3>1. node'[s][q] = node[s][q]
      BY <1>3, <1>4, <2>1, <2>3 DEF RunHeld
    <3>2. NodeHeld(s, q, launched[s], node[s][q])
      BY <2>1 DEF RunHeld
    <3>3. Lineage!Own(s, q) \in DOMAIN reports' => Lineage!Own(s, q) \in DOMAIN reports
      BY <2>3 DEF Lineage!Own
    <3>4. launched'[s] = launched[s]
      BY <1>1
    <3> HIDE DEF LineageInv
    <3> QED
      BY <3>1, <3>2, <3>3, <3>4, NodesStay
  <2>4. node'[r][p] = n
    BY <1>2, <1>3, <1>4 DEF RunHeld
  <2>5. \A q \in launched'[s].products : NodeHeld(s, q, launched[s], node[s][q])'
    BY <1>1, <2>3, <2>4
  <2>6. PlanHeld(s, launched[s])' /\ DOMAIN node'[s] = launched'[s].products
    BY <1>1, <2>1, <2>2 DEF RunHeld, PlanHeld, Told, Lineage!Own, Lineage!Access
  <2>7. /\ status'[s] \in {"RUNNING", "SUCCEEDED", "FAILED"}
        /\ status'[s] = "SUCCEEDED" => \A q \in launched'[s].products : node'[s][q] = "succeeded"
    BY <1>1, <2>1, <2>3 DEF RunHeld
  <2> QED
    BY <2>5, <2>6, <2>7 DEF RunHeld
<1>7. \A m \in adopted' : ManifestTrue(m)'
  BY <1>1, ManifestsStayTrue DEF LineageInv
<1> QED
  BY <1>1, <1>5, <1>6, <1>7

\* A node that does not go to insert disturbs nobody's claim.
LEMMA ClaimsStay ==
    ASSUME LineageInv, NEW r \in DOMAIN launched, NEW p \in launched[r].products, NEW n,
           Lineage!Goto(r, p, n), Lineage!Keep, n # "insert",
           claims' = claims, loaded' = loaded
    PROVE  ClaimsHeld'
<1>1. launched' = launched
  BY DEF Lineage!Keep
<1>2. DOMAIN node = DOMAIN launched /\ \A s \in DOMAIN launched : DOMAIN node[s] = launched[s].products
  BY ListedAfter DEF LineageInv, RunsAligned, RunHeld
<1>3. node' = [node EXCEPT ![r] = [node[r] EXCEPT ![p] = n]]
  BY DEF Lineage!Goto
<1>4. \A s, q : AtInsert(s, q)' => AtInsert(s, q)
  BY <1>1, <1>2, <1>3 DEF AtInsert
<1>5. \A s, q : InputOf(s, q)' = InputOf(s, q)
  BY <1>1 DEF InputOf
<1> QED
  BY <1>4, <1>5 DEF LineageInv, ClaimsHeld

-----------------------------------------------------------------------------
(* Planning.                                                                *)

\* The stages of a plan are an interval, so that none of engorda and load is
\* without validate.
LEMMA StagesAreIntervals ==
    ASSUME NEW q, q.from \in DOMAIN Lineage!PublicStages, q.to \in DOMAIN Lineage!PublicStages,
           Lineage!StagesOf(q) # {}, Lineage!StagesOf(q) \subseteq Lineage!TracerStages
    PROVE  Lineage!StagesOf(q) \in Intervals
<1> DEFINE a == Lineage!PublicStages[q.from]
           b == Lineage!PublicStages[q.to]
           S == Lineage!StagesOf(q)
<1>1. a \in Nat /\ b \in Nat
  BY DEF Lineage!PublicStages
<1>2. /\ "engorda" \in S <=> a <= 3 /\ 3 <= b
      /\ "validate" \in S <=> a <= 4 /\ 4 <= b
      /\ "load" \in S <=> a <= 5 /\ 5 <= b
  BY <1>1 DEF Lineage!StagesOf, Lineage!PublicStages
<1> HIDE DEF a, b
<1>3. "engorda" \in S /\ "load" \in S => "validate" \in S
  BY <1>1, <1>2
<1>4. S \subseteq {"engorda", "validate", "load"} /\ S # {}
  BY DEF Lineage!TracerStages
<1> HIDE DEF S
<1>5. S \in Intervals
  BY <1>3, <1>4, Zenon DEF Intervals
<1> QED
  BY <1>5 DEF S

\* What a plan says holds of it, if what it builds on is true: it relies on an
\* output that is there, and validates without Oracle what was made without.
LEMMA PlansAreHeld ==
    ASSUME NEW r, NEW c, NEW q, NEW up, Lineage!Plannable(r, c, q, up), ManifestTrue(up)
    PROVE  /\ PlanHeld(r, Lineage!Plan(r, c, q, up))
           /\ Lineage!Plan(r, c, q, up).products = q.products
           /\ Lineage!Plan(r, c, q, up).stages = Lineage!StagesOf(q)
           /\ \A p \in q.products :
                /\ "engorda" \notin Lineage!StagesOf(q) =>
                      OutputTrue(Lineage!Plan(r, c, q, up).synthetic[p])
                /\ Lineage!StagesOf(q) = {"load"} =>
                      ReportTrue(Lineage!Plan(r, c, q, up).report[p],
                                 Lineage!Plan(r, c, q, up).synthetic[p])
<1> DEFINE stages == Lineage!StagesOf(q)
           mine == Lineage!Plan(r, c, q, up)
<1>1. Lineage!Answerable(c, q, up) /\ \A p \in q.products : Lineage!HasLineage(q, up, p)
  BY DEF Lineage!Plannable
<1>2. stages \in Intervals
  BY <1>1, StagesAreIntervals DEF Lineage!Answerable
<1> HIDE DEF stages
<1>3. /\ mine.products = q.products /\ mine.stages = stages
      /\ DOMAIN mine.synthetic = q.products
      /\ DOMAIN mine.report = { p \in q.products : stages # {"engorda"} }
  BY DEF Lineage!Plan, stages
<1>4. ASSUME NEW p \in q.products
      PROVE  /\ mine.synthetic[p] = Lineage!SyntheticOf(r, c, q, up, p)
             /\ stages # {"engorda"} => mine.report[p] = Lineage!ReportOf(r, c, q, up, p)
             /\ p \in mine.offline <=> "engorda" \in stages /\ Lineage!EngordaNoOracle(c, q, p)
             /\ p \in mine.unverified <=>
                    "validate" \in stages /\ Lineage!ValidateNoOracle(c, q, up, p)
  BY DEF Lineage!Plan, stages
<1> HIDE DEF mine
<1>5. ASSUME NEW p \in q.products
      PROVE  Told(r, mine, p)
  <2>1. "engorda" \in stages =>
          mine.synthetic[p] = [uri |-> Lineage!Own(r, p),
                               oracle_access |-> Lineage!Access(p \in mine.offline)]
    BY <1>4, <1>5 DEF Lineage!SyntheticOf, Lineage!Access, stages
  <2>2. "validate" \in stages =>
          mine.report[p] = [uri |-> Lineage!Own(r, p),
                            oracle_access |-> Lineage!Access(p \in mine.unverified)]
    <3>1. "validate" \in stages => stages # {"engorda"}
      OBVIOUS
    <3> QED
      BY <1>4, <1>5, <3>1 DEF Lineage!ReportOf, Lineage!Access, stages
  <2>3. ASSUME "validate" \in stages, mine.synthetic[p].oracle_access = "disabled"
        PROVE  Lineage!ValidateNoOracle(c, q, up, p)
    <3>1. CASE "engorda" \in stages
      <4>1. p \in mine.offline
        BY <2>1, <2>3, <3>1 DEF Lineage!Access
      <4> QED
        BY <1>4, <1>5, <2>3, <3>1, <4>1 DEF Lineage!ValidateNoOracle, stages
    <3>2. CASE "engorda" \notin stages
      BY <1>4, <1>5, <2>3, <3>2 DEF Lineage!ValidateNoOracle, Lineage!SyntheticOf, stages
    <3> QED
      BY <3>1, <3>2
  <2> QED
    BY <1>3, <1>4, <1>5, <2>1, <2>2, <2>3 DEF Told
<1>6. PlanHeld(r, mine)
  BY <1>2, <1>3, <1>5 DEF PlanHeld
<1>7. ASSUME NEW p \in q.products, "engorda" \notin stages
      PROVE  mine.synthetic[p] = up.synthetic[p] /\ OutputTrue(mine.synthetic[p])
  <2>1. mine.synthetic[p] = up.synthetic[p] /\ p \in DOMAIN up.synthetic
    BY <1>1, <1>4, <1>7 DEF Lineage!SyntheticOf, Lineage!HasLineage, stages
  <2> QED
    BY <2>1 DEF ManifestTrue
<1>8. ASSUME NEW p \in q.products, stages = {"load"}
      PROVE  ReportTrue(mine.report[p], mine.synthetic[p])
  <2>1. p \in DOMAIN up.report
    BY <1>1, <1>8 DEF Lineage!HasLineage, stages
  <2>2. "engorda" \notin stages /\ "validate" \notin stages /\ stages # {"engorda"}
    BY <1>8
  <2>3. mine.report[p] = up.report[p] /\ mine.synthetic[p] = up.synthetic[p]
    BY <1>4, <1>7, <1>8, <2>2 DEF Lineage!ReportOf, stages
  <2> QED
    BY <2>1, <2>3 DEF ManifestTrue
<1> QED
  BY <1>3, <1>6, <1>7, <1>8 DEF mine, stages

\* What later runs may build on is true.
LEMMA UpstreamIsTrue ==
    ASSUME LineageInv, NEW m \in Lineage!Upstream
    PROVE  ManifestTrue(m)
<1>1. CASE m \in adopted
  BY <1>1 DEF LineageInv
<1>2. CASE m \notin adopted
  <2>1. PICK r \in DOMAIN launched : m = Lineage!Manifest(r) /\ status[r] = "SUCCEEDED"
    <3>1. PICK r \in DOMAIN launched : m = Lineage!Manifest(r) /\ m.status \in {"ADOPTED", "SUCCEEDED"}
      BY <1>2 DEF Lineage!Upstream
    <3>2. m.status = status[r]
      BY <3>1 DEF Lineage!Manifest
    <3>3. RunHeld(r)
      BY DEF LineageInv
    <3> QED
      BY <3>1, <3>2, <3>3 DEF RunHeld
  <2>2. m.synthetic = launched[r].synthetic /\ m.report = launched[r].report
    BY <2>1 DEF Lineage!Manifest
  <2>3. RunHeld(r)
    BY DEF LineageInv
  <2>4. ASSUME NEW p \in launched[r].products
        PROVE  /\ OutputTrue(launched[r].synthetic[p])
               /\ launched[r].stages # {"engorda"} =>
                     ReportTrue(launched[r].report[p], launched[r].synthetic[p])
    <3>1. NodeHeld(r, p, launched[r], "succeeded")
      BY <2>1, <2>3, <2>4 DEF RunHeld
    <3>2. launched[r].stages \in Intervals
      BY <2>3 DEF RunHeld, PlanHeld
    <3> QED
      BY <3>1, <3>2 DEF NodeHeld, Intervals, Making
  <2> QED
    BY <2>2, <2>3, <2>4 DEF ManifestTrue, RunHeld, PlanHeld
<1> QED
  BY <1>1, <1>2

-----------------------------------------------------------------------------
(* The steps of a lineage.                                                  *)

LEMMA LineageInit ==
    ASSUME Lineage!ProductsAreKnown, Lineage!Init
    PROVE  LineageInv
<1>1. synthetics \in External /\ DOMAIN reports = {} /\ loaded = {} /\ claims = {} /\ adopted = {}
  BY DEF Lineage!Init
<1>2. launched = << >> /\ node = << >> /\ status = << >> /\ DOMAIN launched = {}
  BY DEF Lineage!Init
<1>3. RunsAligned
  BY <1>2 DEF RunsAligned, Listed
<1>4. StoreHeld
  BY <1>1 DEF StoreHeld, Lineage!ProductsAreKnown
<1>5. ClaimsHeld /\ LoadedHeld /\ Lineage!LoadsAreSound
  BY <1>1, <1>2 DEF ClaimsHeld, LoadedHeld, Lineage!LoadsAreSound, AtInsert
<1> QED
  BY <1>1, <1>2, <1>3, <1>4, <1>5 DEF LineageInv

\* Nothing but the adopted manifests changes.
LEMMA AdoptStep ==
    ASSUME LineageInv, Lineage!Adopt
    PROVE  LineageInv'
<1>1. UNCHANGED << launched, node, status, drafts, synthetics, reports, claims, loaded >>
  BY DEF Lineage!Adopt, Lineage!ofRuns, Lineage!ofStore
<1> DEFINE manifestOf(products, given, uris) ==
                [status |-> "ADOPTED", products |-> products, inputs |-> TRUE,
                 synthetic |-> [p \in given |-> Lineage!Unstated(uris[p])], report |-> << >>]
<1>2. PICK products, given, uris :
          /\ uris \in [given -> Lineage!Artifacts]
          /\ \A p \in given : Lineage!Exists(uris[p])
          /\ adopted' = adopted \cup {manifestOf(products, given, uris)}
  <2>1. PICK products \in Adoptions : \E given \in SUBSET products :
            \E uris \in [given -> Lineage!Artifacts] :
                /\ \A p \in given : uris[p][2] = p /\ Lineage!Exists(uris[p])
                /\ adopted' = adopted \cup {manifestOf(products, given, uris)}
    BY DEF Lineage!Adopt
  <2> HIDE DEF manifestOf
  <2> QED
    BY <2>1
<1>3. StoreGrows
  BY <1>1 DEF StoreGrows
<1>4. ASSUME NEW m \in adopted'
      PROVE  ManifestTrue(m)'
  <2>1. CASE m \in adopted
    BY <1>3, <2>1, ManifestsStayTrue DEF LineageInv
  <2>2. CASE m \notin adopted
    <3>1. m.synthetic = [p \in given |-> Lineage!Unstated(uris[p])] /\ DOMAIN m.report = {}
      BY <1>2, <1>4, <2>2
    <3>2. \A p \in given : uris[p] \in DOMAIN synthetics
      BY <1>2 DEF Lineage!Exists
    <3>3. \A p \in given : m.synthetic[p].uri = uris[p] /\ m.synthetic[p].oracle_access = "unstated"
      BY <3>1 DEF Lineage!Unstated
    <3> QED
      BY <1>1, <3>1, <3>2, <3>3 DEF ManifestTrue, OutputTrue
  <2> QED
    BY <2>1, <2>2
<1>5. RunsAligned' /\ \A r \in DOMAIN launched' : RunHeld(r)'
  BY <1>1 DEF LineageInv, RunsAligned, RunHeld, PlanHeld, Told, NodeHeld, OutputTrue, ReportTrue,
      Lineage!Own, Lineage!Access
<1>6. StoreHeld' /\ ClaimsHeld' /\ LoadedHeld' /\ Lineage!LoadsAreSound'
  BY <1>1 DEF LineageInv, StoreHeld, ClaimsHeld, LoadedHeld, Lineage!LoadsAreSound, AtInsert,
      InputOf
<1> QED
  BY <1>4, <1>5, <1>6 DEF LineageInv

\* A run that starts relies on what is there, and has made nothing yet.
LEMMA StartStep ==
    ASSUME LineageInv, Lineage!Start
    PROVE  LineageInv'
<1>1. UNCHANGED << adopted, drafts, synthetics, reports, claims, loaded >>
  BY DEF Lineage!Start, Lineage!ofStore
<1> PICK new : new = Len(launched) + 1
  OBVIOUS
<1>2. PICK c \in Configs, q \in Commands, up \in Lineage!Upstream :
          /\ Lineage!Plannable(new, c, q, up)
          /\ launched' = Append(launched, Lineage!Plan(new, c, q, up))
          /\ node' = Append(node, [p \in q.products |-> Lineage!First(Lineage!StagesOf(q))])
          /\ status' = Append(status, "RUNNING")
  BY DEF Lineage!Start
<1> DEFINE stages == Lineage!StagesOf(q)
           first == [p \in q.products |-> Lineage!First(stages)]
<1> PICK mine : mine = Lineage!Plan(new, c, q, up)
  OBVIOUS
<1>3. /\ PlanHeld(new, mine) /\ mine.products = q.products /\ mine.stages = stages
      /\ \A p \in q.products :
            /\ "engorda" \notin stages => OutputTrue(mine.synthetic[p])
            /\ stages = {"load"} => ReportTrue(mine.report[p], mine.synthetic[p])
  BY <1>2, UpstreamIsTrue, PlansAreHeld
<1> HIDE DEF stages, first
<1>4. RunsAligned /\ \A r \in DOMAIN launched : RunHeld(r)
  BY DEF LineageInv
<1>5. /\ RunsAligned' /\ DOMAIN launched' = DOMAIN launched \cup {new} /\ new \notin DOMAIN launched
      /\ launched'[new] = mine /\ node'[new] = first /\ status'[new] = "RUNNING"
      /\ \A r \in DOMAIN launched :
            launched'[r] = launched[r] /\ node'[r] = node[r] /\ status'[r] = status[r]
  BY <1>2, <1>4, ListedAfter DEF RunsAligned, first, stages
<1>6. StoreGrows /\ DOMAIN reports' = DOMAIN reports
  BY <1>1 DEF StoreGrows
<1>7. ASSUME NEW r \in DOMAIN launched
      PROVE  RunHeld(r)'
  <2>1. RunHeld(r) /\ launched'[r] = launched[r] /\ node'[r] = node[r] /\ status'[r] = status[r]
    BY <1>4, <1>5
  <2>2. \A p \in launched[r].products : NodeHeld(r, p, launched[r], node[r][p])'
    BY <1>6, <2>1, NodesStay DEF RunHeld
  <2>3. PlanHeld(r, launched[r])'
    BY <2>1 DEF RunHeld, PlanHeld, Told, Lineage!Own, Lineage!Access
  <2> QED
    BY <2>1, <2>2, <2>3 DEF RunHeld
<1>8. RunHeld(new)'
  <2>1. first = [p \in q.products |-> Lineage!First(stages)] /\ stages \in Intervals
    BY <1>3 DEF first, PlanHeld
  <2>2. ASSUME NEW p \in q.products
        PROVE  NodeHeld(new, p, mine, first[p])'
    <3>1. Lineage!Own(new, p) \notin DOMAIN reports
      BY <1>5 DEF LineageInv, StoreHeld, Lineage!Own
    <3>2. first[p] = Lineage!First(stages)
      BY <2>1
    <3>3. NodeHeld(new, p, mine, first[p])
      BY <1>3, <2>1, <3>1, <3>2 DEF NodeHeld, Lineage!First, Intervals, Nodes, Making
    <3> QED
      BY <1>6, <3>3, NodesStay
  <2>3. PlanHeld(new, mine)'
    BY <1>3 DEF PlanHeld, Told, Lineage!Own, Lineage!Access
  <2> QED
    BY <1>3, <1>5, <2>1, <2>2, <2>3 DEF RunHeld
<1>9. StoreHeld'
  BY <1>1, <1>5 DEF LineageInv, StoreHeld
<1>10. ClaimsHeld'
  <2>1. first = [p \in q.products |-> Lineage!First(stages)] /\ Lineage!First(stages) # "insert"
    BY DEF first, Lineage!First
  <2>2. \A r, p : AtInsert(r, p)' => AtInsert(r, p) /\ InputOf(r, p)' = InputOf(r, p)
    BY <1>3, <1>5, <2>1 DEF AtInsert, InputOf
  <2> QED
    BY <1>1, <2>2 DEF LineageInv, ClaimsHeld
<1>11. LoadedHeld' /\ Lineage!LoadsAreSound' /\ \A m \in adopted' : ManifestTrue(m)'
  BY <1>1, <1>6, LoadsStaySound, ManifestsStayTrue DEF LineageInv
<1> QED
  BY <1>5, <1>7, <1>8, <1>9, <1>10, <1>11 DEF LineageInv

\* A run reports success only if its nodes did.
LEMMA FinishStep ==
    ASSUME LineageInv, NEW r \in DOMAIN launched, Lineage!Finish(r)
    PROVE  LineageInv'
<1>1. UNCHANGED << adopted, launched, node, drafts, synthetics, reports, claims, loaded >>
  BY DEF Lineage!Finish, Lineage!ofStore
<1>2. PICK s \in {"SUCCEEDED", "FAILED"} :
          /\ status' = [status EXCEPT ![r] = s]
          /\ s = "SUCCEEDED" => \A p \in launched[r].products : node[r][p] = "succeeded"
  BY DEF Lineage!Finish
<1>3. RunsAligned /\ DOMAIN status = DOMAIN launched /\ \A x \in DOMAIN launched : RunHeld(x)
  BY ListedAfter DEF LineageInv, RunsAligned
<1>4. RunsAligned'
  <2>1. Listed([status EXCEPT ![r] = s]) /\ Len([status EXCEPT ![r] = s]) = Len(status)
    BY <1>3, ListedExcept DEF RunsAligned
  <2> QED
    BY <1>1, <1>2, <1>3, <2>1 DEF RunsAligned
<1>5. StoreGrows /\ DOMAIN reports' = DOMAIN reports
  BY <1>1 DEF StoreGrows
<1>6. ASSUME NEW x \in DOMAIN launched
      PROVE  RunHeld(x)'
  <2>1. RunHeld(x) /\ status'[x] = IF x = r THEN s ELSE status[x]
    BY <1>2, <1>3
  <2>2. \A p \in launched[x].products : NodeHeld(x, p, launched[x], node[x][p])'
    BY <1>1, <1>5, <2>1, NodesStay DEF RunHeld
  <2>3. PlanHeld(x, launched[x])'
    BY <1>1, <2>1 DEF RunHeld, PlanHeld, Told, Lineage!Own, Lineage!Access
  <2> QED
    BY <1>1, <1>2, <2>1, <2>2, <2>3 DEF RunHeld
<1>7. StoreHeld' /\ ClaimsHeld'
  BY <1>1 DEF LineageInv, StoreHeld, ClaimsHeld, AtInsert, InputOf
<1>8. LoadedHeld' /\ Lineage!LoadsAreSound' /\ \A m \in adopted' : ManifestTrue(m)'
  BY <1>1, <1>5, LoadsStaySound, ManifestsStayTrue DEF LineageInv
<1> QED
  BY <1>1, <1>4, <1>6, <1>7, <1>8 DEF LineageInv

\* Planning writes a draft, and nothing that is stated anywhere.
LEMMA PlanStep ==
    ASSUME LineageInv, NEW r \in DOMAIN launched, NEW p \in launched[r].products,
           Lineage!EngordaPlan(r, p)
    PROVE  LineageInv'
<1>1. /\ node[r][p] = "plan" /\ Lineage!Goto(r, p, "materialize") /\ Lineage!Keep
      /\ UNCHANGED << synthetics, reports, claims, loaded >>
  BY DEF Lineage!EngordaPlan, Lineage!At
<1>2. StoreGrows /\ DOMAIN reports' \subseteq DOMAIN reports \cup {Lineage!Own(r, p)}
  BY <1>1 DEF StoreGrows
<1>3. NodeHeld(r, p, launched[r], "materialize")'
  <2>1. NodeHeld(r, p, launched[r], "plan")
    BY <1>1 DEF LineageInv, RunHeld
  <2>2. NodeHeld(r, p, launched[r], "materialize")
    BY <2>1 DEF NodeHeld, Nodes, Making
  <2>3. launched' = launched
    BY <1>1 DEF Lineage!Keep
  <2> QED
    BY <1>1, <1>2, <2>2, <2>3, NodesStay
<1>4. RunsAligned' /\ (\A s \in DOMAIN launched' : RunHeld(s)') /\ \A m \in adopted' : ManifestTrue(m)'
  BY <1>1, <1>2, <1>3, NodeMoves
<1>5. ClaimsHeld'
  BY <1>1, ClaimsStay
<1>6. LoadedHeld' /\ Lineage!LoadsAreSound'
  BY <1>1, <1>2, LoadsStaySound DEF LineageInv
<1>7. StoreHeld'
  BY <1>1 DEF LineageInv, StoreHeld, Lineage!Keep
<1> QED
  BY <1>4, <1>5, <1>6, <1>7 DEF LineageInv

\* What is published is not whole before it is there to the end, and tells how
\* it was made from the start.
LEMMA MaterializeStep ==
    ASSUME LineageInv, NEW r \in DOMAIN launched, NEW p \in launched[r].products,
           Lineage!Materialize(r, p)
    PROVE  LineageInv'
<1> DEFINE own == Lineage!Own(r, p)
           offline == p \in launched[r].offline
<1>1. /\ node[r][p] = "materialize" /\ Lineage!Goto(r, p, "publish") /\ Lineage!Keep
      /\ UNCHANGED << drafts, reports, claims, loaded >>
      /\ Lineage!Access(offline) = drafts[own] /\ own \notin DOMAIN synthetics
  BY DEF Lineage!Materialize, Lineage!At, Lineage!MaterializeArgv
<1>2. PICK marker \in BOOLEAN : synthetics' = Lineage!Written(synthetics, own,
                        [whole |-> FALSE, marker |-> marker, oracle_access |-> drafts[own]])
  BY DEF Lineage!Materialize, Lineage!MaterializeArgv
<1> HIDE DEF own, offline
<1>3. /\ DOMAIN synthetics' = DOMAIN synthetics \cup {own}
      /\ \A uri \in DOMAIN synthetics : synthetics'[uri] = synthetics[uri]
      /\ synthetics'[own] \in Lineage!Outputs
      /\ ~synthetics'[own].whole /\ synthetics'[own].oracle_access = drafts[own]
  <2>1. drafts[own] \in {"live", "disabled"}
    BY <1>1 DEF Lineage!Access
  <2>2. synthetics'[own] = [whole |-> FALSE, marker |-> marker, oracle_access |-> drafts[own]]
    BY <1>1, <1>2 DEF Lineage!Written
  <2> QED
    BY <1>1, <1>2, <2>1, <2>2 DEF Lineage!Written, Lineage!Outputs
<1>4. StoreGrows /\ DOMAIN reports' \subseteq DOMAIN reports \cup {own}
  BY <1>1, <1>3 DEF StoreGrows
<1>5. NodeHeld(r, p, launched[r], "publish")'
  <2>1. NodeHeld(r, p, launched[r], "materialize")
    BY <1>1 DEF LineageInv, RunHeld
  <2>2. NodeHeld(r, p, launched[r], "materialize")'
    BY <1>1, <1>4, <2>1, NodesStay DEF Lineage!Keep
  <2>3. own \in DOMAIN synthetics' /\ synthetics'[own].oracle_access = Lineage!Access(offline)
    BY <1>1, <1>3
  <2>4. launched' = launched
    BY <1>1 DEF Lineage!Keep
  <2> QED
    BY <2>2, <2>3, <2>4 DEF NodeHeld, Nodes, Making, own, offline, Lineage!Own, Lineage!Access
<1>6. RunsAligned' /\ (\A s \in DOMAIN launched' : RunHeld(s)') /\ \A m \in adopted' : ManifestTrue(m)'
  BY <1>1, <1>4, <1>5, NodeMoves DEF own
<1>7. ClaimsHeld'
  BY <1>1, ClaimsStay
<1>8. LoadedHeld' /\ Lineage!LoadsAreSound'
  BY <1>1, <1>4, LoadsStaySound DEF LineageInv
<1>9. StoreHeld'
  BY <1>1, <1>3 DEF LineageInv, StoreHeld, Lineage!Keep
<1> QED
  BY <1>6, <1>7, <1>8, <1>9 DEF LineageInv

\* Where a node goes when its stage is done.
LEMMA NextNode ==
    ASSUME NEW stages \in Intervals
    PROVE  /\ "engorda" \in stages =>
                Lineage!After(stages, "engorda")
                    = IF "validate" \in stages THEN "validate" ELSE "succeeded"
           /\ "validate" \in stages =>
                Lineage!After(stages, "validate") = IF "load" \in stages THEN "load" ELSE "succeeded"
           /\ "engorda" \in stages /\ "load" \in stages => "validate" \in stages
           /\ "engorda" \in stages => stages # {"load"}
           /\ "validate" \in stages => stages # {"load"} /\ stages # {"engorda"}
  BY DEF Lineage!After, Intervals

\* The output is whole, and has the marker if it was made without Oracle.
LEMMA PublishStep ==
    ASSUME LineageInv, NEW r \in DOMAIN launched, NEW p \in launched[r].products,
           Lineage!Publish(r, p)
    PROVE  LineageInv'
<1> DEFINE own == Lineage!Own(r, p)
           offline == p \in launched[r].offline
           stages == launched[r].stages
           n == Lineage!After(stages, "engorda")
<1>1. /\ node[r][p] = "publish" /\ Lineage!Goto(r, p, n) /\ Lineage!Keep
      /\ UNCHANGED << drafts, reports, claims, loaded >>
      /\ synthetics' = [synthetics EXCEPT ![own] = [@ EXCEPT !.whole = TRUE, !.marker = offline]]
  BY DEF Lineage!Publish, Lineage!At, Lineage!Done, Lineage!MaterializeArgv
<1>2. launched' = launched
  BY <1>1 DEF Lineage!Keep
<1>3. NodeHeld(r, p, launched[r], "publish") /\ PlanHeld(r, launched[r])
  BY <1>1 DEF LineageInv, RunHeld
<1>4. /\ "engorda" \in stages /\ own \in DOMAIN synthetics
      /\ synthetics[own].oracle_access = Lineage!Access(offline)
      /\ own \notin DOMAIN reports
      /\ launched[r].synthetic[p] = [uri |-> own, oracle_access |-> Lineage!Access(offline)]
      /\ stages \in Intervals
  BY <1>3 DEF NodeHeld, PlanHeld, Told, Making
<1>5. n \in {"validate", "succeeded"} /\ (n = "validate" <=> "validate" \in stages)
  BY <1>4, NextNode
<1> HIDE DEF own, offline, stages, n
<1>6. /\ DOMAIN synthetics' = DOMAIN synthetics
      /\ \A uri \in DOMAIN synthetics : uri # own => synthetics'[uri] = synthetics[uri]
      /\ synthetics'[own] \in Lineage!Outputs
      /\ synthetics'[own].whole /\ (synthetics'[own].marker <=> offline)
      /\ synthetics'[own].oracle_access = synthetics[own].oracle_access
  <2>1. synthetics[own] \in Lineage!Outputs
    BY <1>4 DEF LineageInv, StoreHeld
  <2>2. synthetics'[own] = [synthetics[own] EXCEPT !.whole = TRUE, !.marker = offline]
    BY <1>1, <1>4
  <2>3. /\ synthetics'[own] \in Lineage!Outputs
        /\ synthetics'[own].whole = TRUE /\ synthetics'[own].marker = offline
        /\ synthetics'[own].oracle_access = synthetics[own].oracle_access
    <3>1. PICK b : b = offline
      OBVIOUS
    <3>2. b \in BOOLEAN
      BY <3>1 DEF offline
    <3>3. PICK o : o = synthetics[own]
      OBVIOUS
    <3>4. synthetics'[own] = [o EXCEPT !.whole = TRUE, !.marker = b]
      BY <2>2, <3>1, <3>3, Zenon
    <3>5. o \in Lineage!Outputs
      BY <2>1, <3>3
    <3>6. PICK x : x = [o EXCEPT !.whole = TRUE, !.marker = b]
      OBVIOUS
    <3>7. x \in Lineage!Outputs /\ x.whole = TRUE /\ x.marker = b /\ x.oracle_access = o.oracle_access
      BY <3>2, <3>5, <3>6 DEF Lineage!Outputs
    <3>8. synthetics'[own] = x
      BY <3>4, <3>6, Zenon
    <3> QED
      BY <3>1, <3>3, <3>7, <3>8, Zenon
  <2> QED
    BY <1>1, <1>4, <2>3
<1>7. StoreGrows /\ DOMAIN reports' \subseteq DOMAIN reports \cup {own}
  BY <1>1, <1>6 DEF StoreGrows
<1>8. NodeHeld(r, p, launched[r], n)'
  <2>1. OutputTrue(launched[r].synthetic[p])'
    BY <1>2, <1>4, <1>6 DEF OutputTrue
  <2>2. own \notin DOMAIN reports'
    BY <1>1, <1>4
  <2>3. launched[r].stages \in Intervals /\ "engorda" \in launched[r].stages
    BY <1>4 DEF stages
  <2>4. n' \in {"validate", "succeeded"} /\ (n' = "validate" <=> "validate" \in launched'[r].stages)
    BY <1>2, <1>5 DEF n, stages
  <2> QED
    BY <1>2, <2>1, <2>2, <2>3, <2>4, NextNode DEF NodeHeld, Nodes, Making, own, Lineage!Own
<1>9. RunsAligned' /\ (\A s \in DOMAIN launched' : RunHeld(s)') /\ \A m \in adopted' : ManifestTrue(m)'
  <2>1. n' = n
    BY <1>2 DEF n, stages
  <2> QED
    BY <1>1, <1>7, <1>8, <2>1, NodeMoves DEF own
<1>10. ClaimsHeld'
  BY <1>1, <1>5, ClaimsStay
<1>11. LoadedHeld' /\ Lineage!LoadsAreSound'
  BY <1>1, <1>7, LoadsStaySound DEF LineageInv
<1>12. StoreHeld'
  BY <1>1, <1>2, <1>4, <1>6 DEF LineageInv, StoreHeld, Lineage!Access
<1> QED
  BY <1>9, <1>10, <1>11, <1>12 DEF LineageInv

\* A report is written once, and the node only goes on with one that is clean
\* and of this product and output; what was made without Oracle is told so.
LEMMA ValidateStep ==
    ASSUME LineageInv, NEW r \in DOMAIN launched, NEW p \in launched[r].products,
           Lineage!Validate(r, p)
    PROVE  LineageInv'
<1> PICK own : own = Lineage!Own(r, p)
  OBVIOUS
<1> PICK mine : mine = launched[r]
  OBVIOUS
<1>1. PICK clean, n :
          /\ reports' = Lineage!Written(reports, own,
                [product |-> Validator[p], resolved_input |-> mine.synthetic[p].uri,
                 clean |-> clean, oracle_access |-> Lineage!Access(p \in mine.unverified)])
          /\ Lineage!Goto(r, p, n)
          /\ \/ n = "failed"
             \/ n = Lineage!After(mine.stages, "validate") /\ clean
  BY DEF Lineage!Validate, Lineage!ValidatorArgv, Lineage!Accepts, Lineage!Done
<1>2. /\ node[r][p] = "validate" /\ Lineage!Keep /\ launched' = launched
      /\ UNCHANGED << drafts, synthetics, claims, loaded >>
  BY DEF Lineage!Validate, Lineage!At, Lineage!Keep
<1>3. NodeHeld(r, p, mine, "validate") /\ PlanHeld(r, mine)
  BY <1>2 DEF LineageInv, RunHeld
<1>4. /\ own \notin DOMAIN reports /\ "validate" \in mine.stages /\ mine.stages \in Intervals
      /\ OutputTrue(mine.synthetic[p])
      /\ mine.report[p] = [uri |-> own, oracle_access |-> Lineage!Access(p \in mine.unverified)]
      /\ mine.synthetic[p].oracle_access = "disabled" => p \in mine.unverified
  BY <1>3 DEF NodeHeld, PlanHeld, Told, Making
<1>5. /\ DOMAIN reports' = DOMAIN reports \cup {own}
      /\ \A uri \in DOMAIN reports : reports'[uri] = reports[uri]
      /\ reports'[own] = [product |-> Validator[p], resolved_input |-> mine.synthetic[p].uri,
                          clean |-> clean, oracle_access |-> Lineage!Access(p \in mine.unverified)]
  BY <1>1, <1>4 DEF Lineage!Written
<1>6. StoreGrows /\ DOMAIN reports' \subseteq DOMAIN reports \cup {own}
  BY <1>2, <1>5 DEF StoreGrows
<1>7. n \in {"failed", "load", "succeeded"} /\ (n = "load" => "load" \in mine.stages)
  BY <1>1, <1>4, NextNode
<1>8. NodeHeld(r, p, mine, n)'
  <2>1. OutputTrue(mine.synthetic[p])'
    BY <1>4, <1>6, TruthStays
  <2>2. ASSUME n # "failed"
        PROVE  ReportTrue(mine.report[p], mine.synthetic[p])'
    BY <1>1, <1>4, <1>5, <1>7, <2>2 DEF ReportTrue, Lineage!Access
  <2>3. mine.stages # {"load"}
    BY <1>4
  <2> QED
    BY <1>7, <2>1, <2>2, <2>3 DEF NodeHeld, Nodes, Making
<1>9. RunsAligned' /\ (\A s \in DOMAIN launched' : RunHeld(s)') /\ \A m \in adopted' : ManifestTrue(m)'
  <2>1. NodeHeld(r, p, launched[r], n)'
    BY <1>2, <1>8
  <2> QED
    BY <1>1, <1>2, <1>6, <2>1, NodeMoves
<1>10. ClaimsHeld'
  BY <1>1, <1>2, <1>7, ClaimsStay
<1>11. LoadedHeld' /\ Lineage!LoadsAreSound'
  BY <1>2, <1>6, LoadsStaySound DEF LineageInv
<1>12. StoreHeld'
  <2>1. own[1] = r
    BY DEF Lineage!Own
  <2>2. reports'[own].oracle_access \in {"live", "disabled"}
    BY <1>5 DEF Lineage!Access
  <2>3. ASSUME NEW uri \in DOMAIN reports'
        PROVE  reports'[uri].oracle_access \in {"live", "disabled"} /\ uri[1] \in DOMAIN launched'
    BY <1>2, <1>5, <2>1, <2>2, <2>3 DEF LineageInv, StoreHeld
  <2> QED
    BY <1>2, <2>3 DEF LineageInv, StoreHeld
<1> QED
  BY <1>9, <1>10, <1>11, <1>12 DEF LineageInv

\* A node that fails has made nothing that is stated.
LEMMA FailStep ==
    ASSUME LineageInv, NEW r \in DOMAIN launched, NEW p \in launched[r].products,
           node[r][p] # "succeeded", Lineage!Goto(r, p, "failed"), Lineage!Keep,
           UNCHANGED << synthetics, reports, claims, loaded >>
    PROVE  LineageInv'
<1>1. StoreGrows /\ DOMAIN reports' \subseteq DOMAIN reports \cup {Lineage!Own(r, p)}
      /\ launched' = launched
  BY DEF StoreGrows, Lineage!Keep
<1>2. NodeHeld(r, p, launched[r], "failed")'
  <2>1. NodeHeld(r, p, launched[r], node[r][p])
    BY DEF LineageInv, RunHeld
  <2>2. launched[r].stages = {"load"} => "engorda" \notin launched[r].stages
    OBVIOUS
  <2>3. NodeHeld(r, p, launched[r], "failed")
    BY <2>1, <2>2 DEF NodeHeld, Nodes, Making
  <2> QED
    BY <1>1, <2>3, NodesStay
<1>3. RunsAligned' /\ (\A s \in DOMAIN launched' : RunHeld(s)') /\ \A m \in adopted' : ManifestTrue(m)'
  BY <1>1, <1>2, NodeMoves
<1>4. ClaimsHeld'
  BY ClaimsStay
<1>5. LoadedHeld' /\ Lineage!LoadsAreSound'
  BY <1>1, LoadsStaySound DEF LineageInv
<1>6. StoreHeld'
  BY <1>1 DEF LineageInv, StoreHeld
<1> QED
  BY <1>3, <1>4, <1>5, <1>6 DEF LineageInv

\* A load is prepared for an output nobody has the claim to.
LEMMA PrepareStep ==
    ASSUME LineageInv, NEW r \in DOMAIN launched, NEW p \in launched[r].products,
           Lineage!PrepareLoad(r, p)
    PROVE  LineageInv'
<1>1. /\ node[r][p] = "load" /\ Lineage!Keep /\ launched' = launched
      /\ UNCHANGED << drafts, synthetics, reports, loaded >>
  BY DEF Lineage!PrepareLoad, Lineage!At, Lineage!Keep
<1>2. CASE UNCHANGED claims /\ Lineage!Goto(r, p, "failed")
  BY <1>1, <1>2, FailStep
<1>3. CASE /\ InputOf(r, p) \notin claims /\ claims' = claims \cup {InputOf(r, p)}
           /\ Lineage!Goto(r, p, "insert")
  <2>1. StoreGrows /\ DOMAIN reports' \subseteq DOMAIN reports \cup {Lineage!Own(r, p)}
    BY <1>1 DEF StoreGrows
  <2>2. NodeHeld(r, p, launched[r], "insert")'
    <3>1. NodeHeld(r, p, launched[r], "load")
      BY <1>1 DEF LineageInv, RunHeld
    <3>2. NodeHeld(r, p, launched[r], "insert")
      BY <3>1 DEF NodeHeld, Nodes, Making
    <3> QED
      BY <1>1, <2>1, <3>2, NodesStay
  <2>3. RunsAligned' /\ (\A s \in DOMAIN launched' : RunHeld(s)')
        /\ \A m \in adopted' : ManifestTrue(m)'
    BY <1>1, <1>3, <2>1, <2>2, NodeMoves
  <2>4. ClaimsHeld'
    <3>1. /\ DOMAIN node = DOMAIN launched
          /\ \A s \in DOMAIN launched : DOMAIN node[s] = launched[s].products
      BY ListedAfter DEF LineageInv, RunsAligned, RunHeld
    <3>2. node' = [node EXCEPT ![r] = [node[r] EXCEPT ![p] = "insert"]]
      BY <1>3 DEF Lineage!Goto
    <3>3. \A s, q : AtInsert(s, q)' => AtInsert(s, q) \/ (s = r /\ q = p)
      BY <1>1, <3>1, <3>2 DEF AtInsert
    <3>4. \A s, q : InputOf(s, q)' = InputOf(s, q)
      BY <1>1 DEF InputOf
    <3>5. ClaimsHeld
      BY DEF LineageInv
    <3>6. \A l \in loaded' : l.input \in claims /\ l.input \in claims' /\ l.input # InputOf(r, p)
      BY <1>1, <1>3, <3>5 DEF ClaimsHeld
    <3>7. ASSUME NEW s, NEW q, AtInsert(s, q)'
          PROVE  /\ InputOf(s, q)' \in claims' /\ \A l \in loaded' : l.input # InputOf(s, q)'
                 /\ InputOf(s, q) \in claims \/ (s = r /\ q = p)
      BY <1>1, <1>3, <3>3, <3>4, <3>5, <3>6, <3>7 DEF ClaimsHeld
    <3>8. ASSUME NEW s, NEW q, NEW x, NEW y, AtInsert(s, q)', AtInsert(x, y)',
                 InputOf(x, y)' = InputOf(s, q)'
          PROVE  x = s /\ y = q
      BY <1>3, <3>3, <3>4, <3>5, <3>7, <3>8 DEF ClaimsHeld
    <3> QED
      BY <3>6, <3>7, <3>8 DEF ClaimsHeld
  <2>5. LoadedHeld' /\ Lineage!LoadsAreSound'
    BY <1>1, <2>1, LoadsStaySound DEF LineageInv
  <2>6. StoreHeld'
    BY <1>1 DEF LineageInv, StoreHeld
  <2> QED
    BY <2>3, <2>4, <2>5, <2>6 DEF LineageInv
<1> QED
  BY <1>2, <1>3 DEF Lineage!PrepareLoad, Lineage!LoadArgv, InputOf

\* What a node about to insert goes by is there.
LEMMA InsertsRest ==
    ASSUME LineageInv, NEW r \in DOMAIN launched, NEW p \in launched[r].products,
           node[r][p] = "insert"
    PROVE  /\ launched[r].report[p].uri \in DOMAIN reports
           /\ InputOf(r, p) \in DOMAIN synthetics
           /\ AtInsert(r, p)
<1>1. NodeHeld(r, p, launched[r], "insert") /\ launched[r].stages \in Intervals
  BY DEF LineageInv, RunHeld, PlanHeld
<1>2. "load" \in launched[r].stages /\ OutputTrue(launched[r].synthetic[p])
  BY <1>1 DEF NodeHeld, Making
<1>3. launched[r].stages = {"load"} \/ "validate" \in launched[r].stages
  BY <1>1, <1>2 DEF Intervals
<1>4. ReportTrue(launched[r].report[p], launched[r].synthetic[p])
  BY <1>1, <1>3 DEF NodeHeld
<1> QED
  BY <1>2, <1>4 DEF OutputTrue, ReportTrue, InputOf, AtInsert

\* A load inserts what its report covers, and what nobody inserted.
LEMMA InsertStep ==
    ASSUME LineageInv, NEW r \in DOMAIN launched, NEW p \in launched[r].products,
           Lineage!Insert(r, p)
    PROVE  LineageInv'
<1> PICK input : input = InputOf(r, p)
  OBVIOUS
<1> PICK from : from = launched[r].report[p].uri
  OBVIOUS
<1>1. /\ node[r][p] = "insert" /\ Lineage!Keep /\ launched' = launched
      /\ UNCHANGED << drafts, synthetics, reports, claims >>
  BY DEF Lineage!Insert, Lineage!At, Lineage!Keep
<1>2. CASE UNCHANGED loaded /\ Lineage!Goto(r, p, "failed")
  BY <1>1, <1>2, FailStep
<1>3. ASSUME NEW n \in {"succeeded", "failed"}, NEW l, Lineage!Goto(r, p, n),
             ~Lineage!OfflineInput(input), loaded' = loaded \cup {l},
             l.input = input, l.report = from, l.product = p,
             l.whole <=> synthetics[input].whole,
             reports[from].clean, reports[from].oracle_access # "disabled",
             reports[from].product = Validator[p], reports[from].resolved_input = input
      PROVE  LineageInv'
  <2>1. StoreGrows /\ DOMAIN reports' \subseteq DOMAIN reports \cup {Lineage!Own(r, p)}
    BY <1>1 DEF StoreGrows
  <2>2. from \in DOMAIN reports /\ input \in DOMAIN synthetics /\ AtInsert(r, p)
    BY <1>1, InsertsRest
  <2>3. NodeHeld(r, p, launched[r], n)'
    <3>1. NodeHeld(r, p, launched[r], "insert")
      BY <1>1 DEF LineageInv, RunHeld
    <3>2. NodeHeld(r, p, launched[r], n)
      BY <1>3, <3>1 DEF NodeHeld, Nodes, Making
    <3> QED
      BY <1>1, <2>1, <3>2, NodesStay
  <2>4. RunsAligned' /\ (\A s \in DOMAIN launched' : RunHeld(s)')
        /\ \A m \in adopted' : ManifestTrue(m)'
    BY <1>1, <1>3, <2>1, <2>3, NodeMoves
  <2>5. ClaimsHeld
    BY DEF LineageInv
  <2>6. \A m \in loaded : m.input # input
    BY <2>2, <2>5 DEF ClaimsHeld
  <2>7. ClaimsHeld'
    <3>1. /\ DOMAIN node = DOMAIN launched
          /\ \A s \in DOMAIN launched : DOMAIN node[s] = launched[s].products
      BY ListedAfter DEF LineageInv, RunsAligned, RunHeld
    <3>2. node' = [node EXCEPT ![r] = [node[r] EXCEPT ![p] = n]]
      BY <1>3 DEF Lineage!Goto
    <3>3. \A s, q : AtInsert(s, q)' => AtInsert(s, q) /\ ~(s = r /\ q = p)
      BY <1>1, <1>3, <3>1, <3>2 DEF AtInsert
    <3>4. \A s, q : InputOf(s, q)' = InputOf(s, q)
      BY <1>1 DEF InputOf
    <3>5. \A s, q : AtInsert(s, q)' => InputOf(s, q) # input
      BY <2>2, <2>5, <3>3 DEF ClaimsHeld
    <3>6. input \in claims
      BY <2>2, <2>5 DEF ClaimsHeld
    <3> QED
      BY <1>1, <1>3, <2>5, <3>3, <3>4, <3>5, <3>6 DEF ClaimsHeld
  <2>8. LoadedHeld'
    BY <1>1, <1>3, <2>2 DEF LineageInv, LoadedHeld
  <2>9. Lineage!LoadsAreSound'
    <3>1. reports[from].oracle_access = "live"
      BY <1>3, <2>2 DEF LineageInv, StoreHeld
    <3>2. l.whole => synthetics[input].oracle_access = "live"
      BY <1>3, <2>2 DEF LineageInv, StoreHeld, Lineage!OfflineInput
    <3>3. \A m \in loaded : m.input # l.input
      BY <1>3, <2>6
    <3> QED
      BY <1>1, <1>3, <3>1, <3>2, <3>3 DEF LineageInv, Lineage!LoadsAreSound
  <2>10. StoreHeld'
    BY <1>1 DEF LineageInv, StoreHeld
  <2> QED
    BY <2>4, <2>7, <2>8, <2>9, <2>10 DEF LineageInv
<1>4. CASE ~(UNCHANGED loaded /\ Lineage!Goto(r, p, "failed"))
  <2> DEFINE l == [run |-> r, product |-> p, input |-> input, report |-> from,
                   whole |-> synthetics[input].whole]
  <2>1. /\ ~Lineage!OfflineInput(input) /\ loaded' = loaded \cup {l}
        /\ Lineage!ReportCovers(reports[from], Lineage!LoadArgv(r, p))
    BY <1>4 DEF Lineage!Insert, Lineage!LoadArgv, InputOf
  <2>2. PICK n \in {"succeeded", "failed"} : Lineage!Goto(r, p, n)
    BY <1>4 DEF Lineage!Insert
  <2>3. /\ reports[from].clean /\ reports[from].oracle_access # "disabled"
        /\ reports[from].product = Validator[p] /\ reports[from].resolved_input = input
    BY <2>1 DEF Lineage!ReportCovers, Lineage!LoadArgv, InputOf
  <2>4. PICK x : x = l
    OBVIOUS
  <2>5. /\ x.input = input /\ x.report = from /\ x.product = p
        /\ x.whole = synthetics[input].whole
    BY <2>4
  <2> QED
    BY <1>3, <2>1, <2>2, <2>3, <2>4, <2>5
<1> QED
  BY <1>2, <1>4

\* Every step keeps the invariant.
LEMMA LineageKeeps ==
    ASSUME LineageInv, [Lineage!Next]_(Lineage!vars)
    PROVE  LineageInv'
<1>1. CASE UNCHANGED Lineage!vars
  <2>1. UNCHANGED << adopted, launched, node, status, drafts, synthetics, reports, claims, loaded >>
    BY <1>1 DEF Lineage!vars
  <2>2. RunsAligned' /\ \A r \in DOMAIN launched' : RunHeld(r)'
    BY <2>1 DEF LineageInv, RunsAligned, RunHeld, PlanHeld, Told, NodeHeld, OutputTrue, ReportTrue,
        Lineage!Own, Lineage!Access
  <2>3. StoreHeld' /\ ClaimsHeld' /\ LoadedHeld' /\ Lineage!LoadsAreSound'
    BY <2>1 DEF LineageInv, StoreHeld, ClaimsHeld, LoadedHeld, Lineage!LoadsAreSound, AtInsert,
        InputOf
  <2>4. \A m \in adopted' : ManifestTrue(m)'
    BY <2>1 DEF LineageInv, ManifestTrue, OutputTrue, ReportTrue
  <2> QED
    BY <2>2, <2>3, <2>4 DEF LineageInv
<1>2. ASSUME NEW r \in DOMAIN launched, NEW p \in launched[r].products, Lineage!Node(r, p)
      PROVE  LineageInv'
  <2>1. CASE Lineage!Fail(r, p)
    BY <2>1, FailStep DEF Lineage!Fail, Lineage!ofStore
  <2> QED
    BY <1>2, <2>1, PlanStep, MaterializeStep, PublishStep, ValidateStep, PrepareStep, InsertStep
        DEF Lineage!Node
<1>3. CASE Lineage!Next
  BY <1>1, <1>2, <1>3, AdoptStep, StartStep, FinishStep DEF Lineage!Next, Lineage!Over
<1> QED
  BY <1>1, <1>3

\* What a run states of its artifacts when it succeeds is so.
LEMMA SucceededIsTrue ==
    ASSUME LineageInv
    PROVE  Lineage!LineageIsTrue
<1> SUFFICES ASSUME NEW r \in DOMAIN launched, status[r] = "SUCCEEDED",
                    NEW p \in launched[r].products
             PROVE  /\ OutputTrue(launched[r].synthetic[p])
                    /\ p \in DOMAIN launched[r].report =>
                          ReportTrue(launched[r].report[p], launched[r].synthetic[p])
  BY DEF Lineage!LineageIsTrue, OutputTrue, ReportTrue
<1>1. Lineage!Manifest(r) \in Lineage!Upstream
  BY DEF Lineage!Upstream, Lineage!Manifest
<1>2. ManifestTrue(Lineage!Manifest(r))
  BY <1>1, UpstreamIsTrue
<1>3. DOMAIN launched[r].synthetic = launched[r].products
  BY DEF LineageInv, RunHeld, PlanHeld
<1> QED
  BY <1>2, <1>3 DEF ManifestTrue, Lineage!Manifest

\* The invariant of the lineage, of which the theorem below is a consequence.
THEOREM LineageInvariant == Spec => [](program = "lineage" => LineageInv)
<1> DEFINE Inv == program = "lineage" => LineageInv
<1>1. Init => Inv
  BY LineageInit, ConstantsArePossible DEF Init
<1>2. Inv /\ [Next]_vars => Inv'
  BY StepsAreApart, LineageKeeps
<1> QED
  BY <1>1, <1>2, PTL DEF Spec

\* What a run of the pipeline states of its artifacts when it succeeds is so,
\* and by no chain of adoptions and runs, of whatever products, options and
\* stages, is anything loaded that a validator with Oracle did not find without
\* errors, twice, or, when it is whole, that was made without Oracle.
THEOREM LineagesAreSound == Spec => []LineageIsSound
<1>1. (program = "lineage" => LineageInv) => LineageIsSound
  BY SucceededIsTrue DEF LineageIsSound, LineageInv
<1> QED
  BY <1>1, LineageInvariant, PTL

-----------------------------------------------------------------------------
(* The chunks of a table (RowidMigration).                                  *)

Places == Migration!Positions

\* The blocks of the extents of a table up to each of its places.
SumTo(S) ==
    LET sum[x \in 0 .. Len(Blocks)] ==
            IF x = 0 THEN 0 ELSE sum[x - 1] + (IF x \in S THEN Blocks[x] ELSE 0)
    IN  sum

\* And of those from a to b.
BlocksOf(S, a, b) == SumTo(S)[b] - SumTo(S)[a - 1]

LEMMA SumsExist ==
    ASSUME NEW S
    PROVE  /\ SumTo(S) \in [0 .. Len(Blocks) -> Nat]
           /\ \A x \in Places :
                 SumTo(S)[x] = SumTo(S)[x - 1] + (IF x \in S THEN Blocks[x] ELSE 0)
<1> DEFINE N == Len(Blocks)
           part(x) == IF x \in S THEN Blocks[x] ELSE 0
           step == [x \in 1 .. N |-> [v \in Nat |-> v + part(x)]]
           Is(f) == f = [x \in 0 .. N |-> IF x = 0 THEN 0 ELSE f[x - 1] + part(x)]
<1>1. N \in Nat /\ \A x \in 1 .. N : Blocks[x] \in Nat
  BY ConstantsArePossible DEF Migration!SizesAreKnown
<1>2. \A x \in 1 .. N : part(x) \in Nat
  BY <1>1
<1> HIDE DEF part, N
<1>3. step \in [1 .. N -> [Nat -> Nat]] /\ 0 \in Nat
  BY <1>2
<1>4. \A x \in 1 .. N, v \in Nat : step[x][v] = v + part(x)
  OBVIOUS
<1> HIDE DEF step
<1>5. PICK f \in [0 .. N -> Nat] : f[0] = 0 /\ \A x \in 1 .. N : f[x] = step[x][f[x - 1]]
  <2>1. \E f : Iterates(f, N, Nat, 0, step)
    BY <1>1, <1>3, IterationExists
  <2> QED
    BY <2>1 DEF Iterates
<1>6. Is(f)
  <2>1. ASSUME NEW x \in 0 .. N
        PROVE  f[x] = IF x = 0 THEN 0 ELSE f[x - 1] + part(x)
    <3>1. CASE x = 0
      BY <1>5, <3>1
    <3>2. CASE x # 0
      <4>1. x \in 1 .. N /\ x - 1 \in 0 .. N /\ f[x - 1] \in Nat
        BY <1>1, <3>2
      <4>2. f[x] = step[x][f[x - 1]]
        BY <1>5, <3>2
      <4> QED
        BY <1>4, <4>1, <4>2, <3>2
    <3> QED
      BY <3>1, <3>2
  <2> QED
    BY <2>1
<1> DEFINE sum == CHOOSE g : Is(g)
<1>7. SumTo(S) = sum
  BY DEF SumTo, N, part
<1>8. Is(sum)
  BY <1>6
<1> HIDE DEF sum
<1>9. \A x \in 0 .. N : sum[x] = IF x = 0 THEN 0 ELSE sum[x - 1] + part(x)
  BY <1>8
<1>10. DOMAIN sum = 0 .. N
  BY <1>8
<1> HIDE DEF Is
<1> DEFINE P == {x \in 0 .. N : sum[x] \in Nat}
<1>11. 0 .. N \subseteq P
  <2>1. 0 \in P
    BY <1>1, <1>9
  <2>2. \A x \in 1 .. N : x - 1 \in P => x \in P
    BY <1>1, <1>2, <1>9
  <2> HIDE DEF P
  <2> QED
    BY <1>1, <2>1, <2>2, CountingUp
<1>12. sum \in [0 .. N -> Nat]
  <2>1. sum = [x \in 0 .. N |-> sum[x]]
    BY <1>8, <1>10 DEF Is
  <2> QED
    BY <2>1, <1>11
<1>13. \A x \in 1 .. N : sum[x] = sum[x - 1] + part(x)
  <2>1. \A x \in 1 .. N : x \in 0 .. N /\ x # 0
    BY <1>1
  <2> QED
    BY <1>9, <2>1
<1> QED
  BY <1>7, <1>12, <1>13 DEF N, part, Places, Migration!Positions

\* More extents, or those of a wider interval, have no fewer blocks.
LEMMA MoreBlocks ==
    ASSUME NEW S, NEW T, S \subseteq T,
           NEW a \in Places, NEW b \in Places, NEW c \in Places, NEW d \in Places,
           c <= a, a <= b, b <= d
    PROVE  /\ BlocksOf(S, a, b) \in Nat /\ BlocksOf(T, c, d) \in Nat
           /\ BlocksOf(S, a, b) <= BlocksOf(T, c, d)
<1> DEFINE N == Len(Blocks)
           s == SumTo(S)
           t == SumTo(T)
           g == [x \in 0 .. N |-> t[x] - s[x]]
<1>1. N \in Nat /\ \A x \in Places : Blocks[x] \in Nat
  BY ConstantsArePossible DEF Migration!SizesAreKnown, Places, Migration!Positions
<1>2. /\ s \in [0 .. N -> Nat] /\ t \in [0 .. N -> Nat]
      /\ \A x \in 1 .. N : s[x] = s[x - 1] + (IF x \in S THEN Blocks[x] ELSE 0)
      /\ \A x \in 1 .. N : t[x] = t[x - 1] + (IF x \in T THEN Blocks[x] ELSE 0)
  BY SumsExist DEF Places, Migration!Positions
<1>3. BlocksOf(S, a, b) = s[b] - s[a - 1] /\ BlocksOf(T, c, d) = t[d] - t[c - 1]
  BY DEF BlocksOf
<1>4. Places = 1 .. N
  BY DEF Places, Migration!Positions
<1> HIDE DEF s, t, N
<1>5. g \in [0 .. N -> Int]
  BY <1>2
<1>6. \A x \in 1 .. N : x - 1 \in 0 .. N /\ x \in 0 .. N /\ x \in Places
  BY <1>1, <1>4
<1>7. \A x \in 1 .. N : s[x - 1] <= s[x] /\ t[x - 1] <= t[x] /\ g[x - 1] <= g[x]
  <2> TAKE x \in 1 .. N
  <2>1. /\ x - 1 \in 0 .. N /\ x \in 0 .. N /\ Blocks[x] \in Nat
        /\ s[x] \in Nat /\ s[x - 1] \in Nat /\ t[x] \in Nat /\ t[x - 1] \in Nat
    BY <1>1, <1>2, <1>6
  <2>2. s[x] = s[x - 1] + (IF x \in S THEN Blocks[x] ELSE 0)
    BY <1>2
  <2>3. t[x] = t[x - 1] + (IF x \in T THEN Blocks[x] ELSE 0)
    BY <1>2
  <2>4. g[x] = t[x] - s[x] /\ g[x - 1] = t[x - 1] - s[x - 1]
    BY <2>1
  <2> HIDE DEF g
  <2> QED
    BY <2>1, <2>2, <2>3, <2>4
<1>8. a - 1 \in 0 .. N /\ b \in 0 .. N /\ c - 1 \in 0 .. N /\ d \in 0 .. N
  BY <1>1, <1>4
<1>9. \A x \in 0 .. N : g[x] = t[x] - s[x]
  OBVIOUS
<1> HIDE DEF g
<1>10. a - 1 <= b /\ c - 1 <= a - 1 /\ b <= d
  BY <1>4, <1>1
<1>11. s[a - 1] <= s[b] /\ g[a - 1] <= g[b] /\ t[c - 1] <= t[a - 1] /\ t[b] <= t[d]
  <2>1. s \in [0 .. N -> Int] /\ t \in [0 .. N -> Int]
    BY <1>2
  <2>2. s[a - 1] <= s[b]
    BY <2>1, <1>1, <1>7, <1>8, <1>10, StepsUp
  <2>3. g[a - 1] <= g[b]
    BY <1>5, <1>1, <1>7, <1>8, <1>10, StepsUp
  <2>4. t[c - 1] <= t[a - 1]
    BY <2>1, <1>1, <1>7, <1>8, <1>10, StepsUp
  <2>5. t[b] <= t[d]
    BY <2>1, <1>1, <1>7, <1>8, <1>10, StepsUp
  <2> QED
    BY <2>2, <2>3, <2>4, <2>5
<1>12. /\ s[a - 1] \in Nat /\ s[b] \in Nat /\ t[a - 1] \in Nat /\ t[b] \in Nat
       /\ t[c - 1] \in Nat /\ t[d] \in Nat
  BY <1>2, <1>8
<1> QED
  BY <1>3, <1>8, <1>9, <1>11, <1>12

LEMMA OneMoreBlock ==
    ASSUME NEW S, NEW a \in Places, NEW x \in Places
    PROVE  /\ x > 1 => BlocksOf(S, a, x) = BlocksOf(S, a, x - 1) + (IF x \in S THEN Blocks[x] ELSE 0)
           /\ x \in S => BlocksOf(S, x, x) = Blocks[x]
           /\ BlocksOf(S, a, x) \in Int
           /\ Blocks[x] \in Nat \ {0}
<1> DEFINE N == Len(Blocks)
           s == SumTo(S)
<1>1. N \in Nat /\ \A y \in Places : Blocks[y] \in Nat \ {0}
  BY ConstantsArePossible DEF Migration!SizesAreKnown, Places, Migration!Positions
<1>2. /\ s \in [0 .. N -> Nat]
      /\ \A y \in 1 .. N : s[y] = s[y - 1] + (IF y \in S THEN Blocks[y] ELSE 0)
  BY SumsExist DEF Places, Migration!Positions
<1>3. /\ BlocksOf(S, a, x) = s[x] - s[a - 1] /\ BlocksOf(S, a, x - 1) = s[x - 1] - s[a - 1]
      /\ BlocksOf(S, x, x) = s[x] - s[x - 1]
  BY DEF BlocksOf
<1>4. Places = 1 .. N
  BY DEF Places, Migration!Positions
<1> HIDE DEF s, N
<1>5. /\ x \in 1 .. N /\ x - 1 \in 0 .. N /\ x \in 0 .. N /\ a - 1 \in 0 .. N
  BY <1>1, <1>4
<1>6. s[x] \in Nat /\ s[x - 1] \in Nat /\ s[a - 1] \in Nat
  BY <1>2, <1>5
<1>7. s[x] = s[x - 1] + (IF x \in S THEN Blocks[x] ELSE 0)
  BY <1>2, <1>5
<1> QED
  BY <1>1, <1>3, <1>6, <1>7

\* A chunk among the first x places, as fetch_rowid_ranges makes it: it runs
\* from one extent of the table to another, and fits if it has two.
Fits(S, x, k) ==
    /\ k \in Places \X Places \X Places
    /\ k[1] <= k[2] /\ k[2] <= k[3] /\ k[3] <= x
    /\ k[2] \in S /\ k[3] \in S
    /\ k[2] < k[3] => BlocksOf(S, k[2], k[3]) <= TargetBlocks

\* The chunks cover the extents in their order, and the first extent of each
\* had not fitted into the one before.
Divided(S, x, c) ==
    /\ c \in Seq(Places \X Places \X Places)
    /\ \A i \in 1 .. Len(c) : c[i][1] = i /\ Fits(S, x, c[i])
    /\ \A i, j \in 1 .. Len(c) : i < j => c[i][3] < c[j][2]
    /\ \A i \in 1 .. Len(c) : i + 1 <= Len(c) =>
          BlocksOf(S, c[i][2], c[i + 1][2]) > TargetBlocks
    /\ \A y \in S : y <= x => \E i \in 1 .. Len(c) : c[i][2] <= y /\ y <= c[i][3]

PackedTo(S, x, v) ==
    /\ Divided(S, x, v.chunks)
    /\ v \in [chunks : Seq(Places \X Places \X Places), blocks : Nat]
    /\ Len(v.chunks) > 0 => v.blocks = BlocksOf(S, v.chunks[Len(v.chunks)][2], x)

LEMMA NothingPacked ==
    ASSUME NEW S \in SUBSET Places
    PROVE  PackedTo(S, 0, Migration!NoChunk)
<1>1. \A y \in S : ~(y <= 0)
  BY DEF Places, Migration!Positions
<1> QED
  BY <1>1 DEF PackedTo, Divided, Migration!NoChunk

\* A place without an extent changes nothing.
LEMMA PassedOver ==
    ASSUME NEW S \in SUBSET Places, NEW x \in Places, NEW v, PackedTo(S, x - 1, v), x \notin S
    PROVE  PackedTo(S, x, v)
<1> PICK c : c = v.chunks
  OBVIOUS
<1>0. x \in Nat /\ S \subseteq Int
  BY DEF Places, Migration!Positions
<1>1. Divided(S, x - 1, c) /\ c \in Seq(Places \X Places \X Places) /\ Len(c) \in Nat
  BY DEF PackedTo
<1>2. \A i \in 1 .. Len(c) : c[i][1] = i /\ Fits(S, x, c[i])
  <2> TAKE i \in 1 .. Len(c)
  <2>1. c[i][1] = i /\ Fits(S, x - 1, c[i])
    BY <1>1 DEF Divided
  <2>2. c[i][3] \in Places
    BY <2>1 DEF Fits
  <2>3. c[i][3] <= x - 1 => c[i][3] <= x
    BY <2>2 DEF Places, Migration!Positions
  <2> QED
    BY <2>1, <2>3 DEF Fits
<1>3. \A y \in S : y <= x => y <= x - 1
  BY <1>0
<1>4. Divided(S, x, c)
  BY <1>1, <1>2, <1>3 DEF Divided
<1>5. ASSUME Len(c) > 0
      PROVE  v.blocks = BlocksOf(S, c[Len(c)][2], x)
  <2>1. Fits(S, x - 1, c[Len(c)])
    BY <1>1, <1>5 DEF Divided
  <2>2. c[Len(c)][2] \in Places /\ c[Len(c)][2] <= x - 1
    BY <2>1, <1>0 DEF Fits, Places, Migration!Positions
  <2>3. x > 1
    BY <2>2, <1>0 DEF Places, Migration!Positions
  <2>4. /\ BlocksOf(S, c[Len(c)][2], x) = BlocksOf(S, c[Len(c)][2], x - 1) + 0
        /\ BlocksOf(S, c[Len(c)][2], x) \in Int
    BY <2>2, <2>3, OneMoreBlock
  <2>5. v.blocks = BlocksOf(S, c[Len(c)][2], x - 1) /\ v.blocks \in Nat
    BY <1>5 DEF PackedTo
  <2> QED
    BY <2>4, <2>5
<1> QED
  BY <1>4, <1>5 DEF PackedTo

\* An extent that fits extends the last chunk.
LEMMA ChunkGrows ==
    ASSUME NEW S \in SUBSET Places, NEW x \in S, NEW v, PackedTo(S, x - 1, v),
           Len(v.chunks) > 0, v.blocks + Blocks[x] <= TargetBlocks
    PROVE  PackedTo(S, x, Migration!WithExtent(v, x))
<1> PICK c, n : c = v.chunks /\ n = Len(c)
  OBVIOUS
<1> DEFINE last == <<n, c[n][2], x>>
           d == [c EXCEPT ![n] = last]
           w == [chunks |-> d, blocks |-> v.blocks + Blocks[x]]
<1>0. x \in Places /\ x \in Nat /\ S \subseteq Int /\ Places \subseteq Nat \ {0}
  BY DEF Places, Migration!Positions
<1>1. /\ Divided(S, x - 1, c) /\ c \in Seq(Places \X Places \X Places) /\ n \in Nat /\ n > 0
      /\ n \in 1 .. n /\ v.blocks \in Nat /\ v.blocks = BlocksOf(S, c[n][2], x - 1)
  BY DEF PackedTo
<1>2. Migration!WithExtent(v, x) = w
  BY <1>1 DEF Migration!WithExtent
<1>3. \A i \in 1 .. n : c[i][1] = i /\ Fits(S, x - 1, c[i])
  BY <1>1 DEF Divided
<1>4. /\ c[n][2] \in Places /\ c[n][3] \in Places /\ n \in Places /\ c[n][2] \in S
      /\ n <= c[n][2] /\ c[n][2] <= c[n][3] /\ c[n][3] <= x - 1
  BY <1>1, <1>3 DEF Fits
<1>a. c[n][2] \in Nat /\ c[n][3] \in Nat
  BY <1>4, <1>0
<1>5. x > 1 /\ c[n][2] < x /\ c[n][2] <= x
  <2> PICK a, b : a = c[n][2] /\ b = c[n][3]
    OBVIOUS
  <2>1. a \in Nat \ {0} /\ b \in Nat /\ a <= b /\ b <= x - 1 /\ x \in Nat
    <3>1. c[n][2] \in Nat \ {0}
      BY <1>4, <1>0
    <3> QED
      BY <3>1, <1>4, <1>0, <1>a
  <2>2. x > 1 /\ a < x /\ a <= x
    BY <2>1
  <2> QED
    BY <2>2
<1>6. /\ BlocksOf(S, c[n][2], x) = BlocksOf(S, c[n][2], x - 1) + Blocks[x]
      /\ Blocks[x] \in Nat
  <2>1. c[n][2] \in Places /\ x \in Places
    BY <1>0, <1>4
  <2>2. x > 1 => BlocksOf(S, c[n][2], x)
                    = BlocksOf(S, c[n][2], x - 1) + (IF x \in S THEN Blocks[x] ELSE 0)
    BY <2>1, OneMoreBlock, Zenon
  <2>3. Blocks[x] \in Nat \ {0}
    BY <2>1, OneMoreBlock, Zenon
  <2> QED
    BY <2>2, <2>3, <1>5
<1>7. v.blocks + Blocks[x] = BlocksOf(S, c[n][2], x) /\ v.blocks + Blocks[x] \in Nat
  BY <1>1, <1>6
<1>8. last \in Places \X Places \X Places /\ last[1] = n /\ last[2] = c[n][2] /\ last[3] = x
  BY <1>0, <1>4
<1> HIDE DEF last
<1>9. Fits(S, x, last)
  <2>1. BlocksOf(S, last[2], last[3]) <= TargetBlocks
    BY <1>7, <1>8
  <2>2. last[1] <= last[2] /\ last[2] <= last[3] /\ last[3] <= x /\ last[2] \in S /\ last[3] \in S
    <3>1. last[1] <= last[2] /\ last[2] <= last[3] /\ last[2] \in S /\ last[3] \in S
      BY <1>4, <1>5, <1>8, Zenon
    <3> QED
      BY <3>1, <1>8, <1>0
  <2> QED
    BY <1>8, <2>1, <2>2 DEF Fits
<1>10. /\ d \in Seq(Places \X Places \X Places) /\ Len(d) = n /\ d[n] = last
       /\ \A i \in 1 .. n : i # n => d[i] = c[i]
  BY <1>1, <1>8
<1> HIDE DEF d
<1>11. \A i \in 1 .. n : d[i][1] = i /\ Fits(S, x, d[i])
  <2> TAKE i \in 1 .. n
  <2>1. CASE i = n
    BY <2>1, <1>9, <1>8, <1>10
  <2>2. CASE i # n
    <3>1. d[i] = c[i] /\ c[i][1] = i /\ Fits(S, x - 1, c[i])
      BY <2>2, <1>3, <1>10
    <3>2. c[i][3] \in Places /\ c[i][3] <= x - 1
      BY <3>1 DEF Fits
    <3>3. c[i][3] <= x
      BY <3>2, <1>0
    <3> QED
      BY <3>1, <3>3 DEF Fits
  <2> QED
    BY <2>1, <2>2
<1>12. \A i \in 1 .. n : d[i][2] = c[i][2]
  BY <1>8, <1>10
<1>13. \A i \in 1 .. n : i # n => d[i][3] = c[i][3]
  BY <1>10
<1>14. \A i, j \in 1 .. n : i < j => d[i][3] < d[j][2]
  <2> SUFFICES ASSUME NEW i \in 1 .. n, NEW j \in 1 .. n, i < j
               PROVE  d[i][3] < d[j][2]
    OBVIOUS
  <2>1. i # n /\ c[i][3] < c[j][2]
    BY <1>1 DEF Divided
  <2> QED
    BY <2>1, <1>12, <1>13
<1>15. \A i \in 1 .. n : i + 1 <= n => BlocksOf(S, d[i][2], d[i + 1][2]) > TargetBlocks
  <2> SUFFICES ASSUME NEW i \in 1 .. n, i + 1 <= n
               PROVE  BlocksOf(S, d[i][2], d[i + 1][2]) > TargetBlocks
    OBVIOUS
  <2>1. i + 1 \in 1 .. n /\ BlocksOf(S, c[i][2], c[i + 1][2]) > TargetBlocks
    BY <1>1 DEF Divided
  <2> QED
    BY <2>1, <1>12
<1>16. \A y \in S : y <= x => \E i \in 1 .. n : d[i][2] <= y /\ y <= d[i][3]
  <2> SUFFICES ASSUME NEW y \in S, y <= x
               PROVE  \E i \in 1 .. n : d[i][2] <= y /\ y <= d[i][3]
    OBVIOUS
  <2>1. CASE y = x
    <3>1. d[n][2] = c[n][2] /\ d[n][3] = x
      BY <1>8, <1>10
    <3>2. d[n][2] <= y /\ y <= d[n][3]
      <4>1. d[n][2] <= y
        BY <2>1, <3>1, <1>5, Zenon
      <4> QED
        BY <4>1, <2>1, <3>1, <1>0
    <3> QED
      BY <3>2, <1>1
  <2>2. CASE y # x
    <3>1. y <= x - 1
      BY <2>2, <1>0
    <3>2. PICK i \in 1 .. n : c[i][2] <= y /\ y <= c[i][3]
      BY <3>1, <1>1 DEF Divided
    <3>3. CASE i = n
      <4>1. d[n][2] <= y /\ y <= d[n][3]
        BY <3>2, <3>3, <1>8, <1>10
      <4> QED
        BY <4>1, <1>1
    <3>4. CASE i # n
      <4>1. d[i][2] <= y /\ y <= d[i][3]
        BY <3>2, <3>4, <1>10
      <4> QED
        BY <4>1
    <3> QED
      BY <3>3, <3>4
  <2> QED
    BY <2>1, <2>2
<1>17. Divided(S, x, d)
  BY <1>10, <1>11, <1>14, <1>15, <1>16 DEF Divided
<1>18. w \in [chunks : Seq(Places \X Places \X Places), blocks : Nat]
  BY <1>10, <1>7
<1>19. w.chunks = d /\ w.blocks = BlocksOf(S, d[n][2], x)
  BY <1>7, <1>12, <1>1
<1> HIDE DEF w
<1> QED
  BY <1>2, <1>10, <1>17, <1>18, <1>19 DEF PackedTo

\* One that does not begins another.
LEMMA ChunkIsAdded ==
    ASSUME NEW S \in SUBSET Places, NEW x \in S, NEW v, PackedTo(S, x - 1, v),
           Len(v.chunks) = 0 \/ v.blocks + Blocks[x] > TargetBlocks
    PROVE  PackedTo(S, x, Migration!WithExtent(v, x))
<1> PICK c, n : c = v.chunks /\ n = Len(c)
  OBVIOUS
<1> DEFINE last == <<n + 1, x, x>>
           d == Append(c, last)
           w == [chunks |-> d, blocks |-> Blocks[x]]
<1>0. x \in Places /\ x \in Nat /\ S \subseteq Int /\ Places \subseteq Nat \ {0}
  BY DEF Places, Migration!Positions
<1>n. n \in Nat
  BY DEF PackedTo
<1>1. /\ Divided(S, x - 1, c) /\ c \in Seq(Places \X Places \X Places) /\ n \in Nat
      /\ v.blocks \in Nat
      /\ n > 0 => v.blocks = BlocksOf(S, c[n][2], x - 1)
  BY DEF PackedTo
<1>2. Migration!WithExtent(v, x) = w
  <2>1. Blocks[x] \in Nat /\ TargetBlocks \in Nat
    BY <1>0, OneMoreBlock, ConstantsArePossible DEF Migration!SizesAreKnown
  <2>2. v.blocks \in Nat
    BY DEF PackedTo
  <2>3. ~(Len(v.chunks) > 0 /\ v.blocks + Blocks[x] <= TargetBlocks)
    BY <2>1, <2>2
  <2> QED
    BY <2>3 DEF Migration!WithExtent
<1>3. \A i \in 1 .. n : c[i][1] = i /\ Fits(S, x - 1, c[i])
  BY <1>1 DEF Divided
<1>4. ASSUME NEW i \in 1 .. n
      PROVE  /\ c[i][2] \in Places /\ c[i][3] \in Places /\ i <= c[i][2]
             /\ c[i][2] <= c[i][3] /\ c[i][3] <= x - 1 /\ c[i][3] < x
             /\ Fits(S, x, c[i])
  <2>1. c[i][1] = i /\ Fits(S, x - 1, c[i])
    BY <1>3
  <2>2. /\ c[i][2] \in Places /\ c[i][3] \in Places /\ i <= c[i][2]
        /\ c[i][2] <= c[i][3] /\ c[i][3] <= x - 1
    BY <2>1 DEF Fits
  <2>3. c[i][3] < x /\ c[i][3] <= x
    BY <2>2, <1>0
  <2> QED
    BY <2>1, <2>2, <2>3 DEF Fits
<1>5. n + 1 <= x
  <2>1. CASE n = 0
    BY <2>1, <1>0
  <2>2. CASE n > 0
    <3>1. n \in 1 .. n
      BY <2>2, <1>1
    <3>2. n <= c[n][2] /\ c[n][2] <= c[n][3] /\ c[n][3] < x /\ c[n][2] \in Nat /\ c[n][3] \in Nat
      BY <3>1, <1>4, <1>0
    <3> QED
      BY <3>2, <1>0, <1>1
  <2> QED
    BY <2>1, <2>2, <1>1
<1>6. n + 1 \in Places
  BY <1>5, <1>0, <1>1 DEF Places, Migration!Positions
<1>7. last \in Places \X Places \X Places /\ last[1] = n + 1 /\ last[2] = x /\ last[3] = x
  BY <1>0, <1>6
<1>8. Fits(S, x, last)
  BY <1>0, <1>5, <1>7 DEF Fits
<1> HIDE DEF last
<1>9. /\ d \in Seq(Places \X Places \X Places) /\ Len(d) = n + 1 /\ d[n + 1] = last
      /\ \A i \in 1 .. n : d[i] = c[i]
  BY <1>1, <1>7
<1> HIDE DEF d
<1>10. \A i \in 1 .. n + 1 : d[i][1] = i /\ Fits(S, x, d[i])
  <2> TAKE i \in 1 .. n + 1
  <2>1. CASE i = n + 1
    BY <2>1, <1>8, <1>7, <1>9
  <2>2. CASE i # n + 1
    <3>1. i \in 1 .. n
      BY <2>2, <1>1
    <3> QED
      BY <3>1, <1>3, <1>4, <1>9
  <2> QED
    BY <2>1, <2>2
<1>11. \A i, j \in 1 .. n + 1 : i < j => d[i][3] < d[j][2]
  <2> SUFFICES ASSUME NEW i \in 1 .. n + 1, NEW j \in 1 .. n + 1, i < j
               PROVE  d[i][3] < d[j][2]
    OBVIOUS
  <2>1. i \in 1 .. n
    BY <1>1
  <2>2. CASE j = n + 1
    BY <2>1, <2>2, <1>4, <1>7, <1>9
  <2>3. CASE j # n + 1
    <3>1. j \in 1 .. n
      BY <2>3, <1>n
    <3>2. c[i][3] < c[j][2]
      BY <2>1, <3>1, <1>1 DEF Divided
    <3> QED
      BY <2>1, <3>1, <3>2, <1>9
  <2> QED
    BY <2>2, <2>3
<1>12. \A i \in 1 .. n + 1 : i + 1 <= n + 1 => BlocksOf(S, d[i][2], d[i + 1][2]) > TargetBlocks
  <2> SUFFICES ASSUME NEW i \in 1 .. n
               PROVE  BlocksOf(S, d[i][2], d[i + 1][2]) > TargetBlocks
    BY <1>1
  <2>1. CASE i = n
    <3>0. n > 0 /\ n \in 1 .. n
      BY <2>1, <1>n
    <3>a. /\ c[n][2] \in Places /\ c[n][3] \in Places /\ c[n][2] <= c[n][3] /\ c[n][3] < x
          /\ d[i][2] = c[n][2] /\ d[i + 1][2] = x
      BY <2>1, <3>0, <1>4, <1>7, <1>9
    <3>b. x > 1 /\ c[n][2] < x
      <4> PICK a, b : a = c[n][2] /\ b = c[n][3]
        OBVIOUS
      <4>1. a \in Places /\ b \in Places /\ a <= b /\ b < x
        BY <3>a
      <4>2. a \in Nat \ {0} /\ b \in Nat /\ x \in Nat
        BY <4>1, <1>0
      <4>3. x > 1 /\ a < x
        BY <4>1, <4>2
      <4> QED
        BY <4>3
    <3>1. n > 0 /\ c[n][2] \in Places /\ c[n][2] < x /\ d[i][2] = c[n][2] /\ d[i + 1][2] = x
      BY <3>0, <3>a, <3>b
    <3>2. x > 1
      BY <3>b
    <3>3. /\ BlocksOf(S, c[n][2], x) = BlocksOf(S, c[n][2], x - 1) + Blocks[x]
          /\ Blocks[x] \in Nat /\ TargetBlocks \in Nat
      <4>0. c[n][2] \in Places /\ x \in Places
        BY <3>1, <1>0
      <4>1. x > 1 => BlocksOf(S, c[n][2], x)
                        = BlocksOf(S, c[n][2], x - 1) + (IF x \in S THEN Blocks[x] ELSE 0)
        BY <4>0, OneMoreBlock, Zenon
      <4>3. Blocks[x] \in Nat \ {0}
        BY <4>0, OneMoreBlock, Zenon
      <4>2. TargetBlocks \in Nat
        BY ConstantsArePossible DEF Migration!SizesAreKnown
      <4> QED
        BY <4>1, <4>2, <4>3, <3>2
    <3>4. v.blocks = BlocksOf(S, c[n][2], x - 1) /\ v.blocks + Blocks[x] > TargetBlocks
      <4>1. ~(Len(v.chunks) = 0)
        BY <3>1
      <4> QED
        BY <4>1, <3>1, <1>1, Zenon
    <3> QED
      BY <3>1, <3>3, <3>4
  <2>2. CASE i # n
    <3>1. i + 1 \in 1 .. n /\ i + 1 <= n
      BY <2>2, <1>1
    <3>2. BlocksOf(S, c[i][2], c[i + 1][2]) > TargetBlocks
      BY <3>1, <1>1 DEF Divided
    <3> QED
      BY <3>1, <3>2, <1>9
  <2> QED
    BY <2>1, <2>2
<1>13. \A y \in S : y <= x => \E i \in 1 .. n + 1 : d[i][2] <= y /\ y <= d[i][3]
  <2> SUFFICES ASSUME NEW y \in S, y <= x
               PROVE  \E i \in 1 .. n + 1 : d[i][2] <= y /\ y <= d[i][3]
    OBVIOUS
  <2>1. CASE y = x
    <3>1. d[n + 1][2] <= y /\ y <= d[n + 1][3] /\ n + 1 \in 1 .. n + 1
      BY <2>1, <1>7, <1>9, <1>0, <1>1
    <3> QED
      BY <3>1
  <2>2. CASE y # x
    <3>1. y <= x - 1
      BY <2>2, <1>0
    <3>2. PICK i \in 1 .. n : c[i][2] <= y /\ y <= c[i][3]
      BY <3>1, <1>1 DEF Divided
    <3>3. i \in 1 .. n + 1 /\ d[i] = c[i]
      BY <1>1, <1>9
    <3> QED
      BY <3>2, <3>3
  <2> QED
    BY <2>1, <2>2
<1>14. Divided(S, x, d)
  BY <1>9, <1>10, <1>11, <1>12, <1>13 DEF Divided
<1>15. Blocks[x] \in Nat /\ BlocksOf(S, x, x) = Blocks[x]
  BY <1>0, OneMoreBlock
<1>16. w \in [chunks : Seq(Places \X Places \X Places), blocks : Nat]
  BY <1>9, <1>15
<1>17. w.chunks = d /\ w.blocks = BlocksOf(S, d[n + 1][2], x)
  BY <1>7, <1>9, <1>15
<1> HIDE DEF w
<1> QED
  BY <1>2, <1>9, <1>14, <1>16, <1>17 DEF PackedTo

\* fetch_rowid_ranges can go through the extents one after another.
LEMMA PackingExists ==
    ASSUME NEW S \in SUBSET Places
    PROVE  \E f : f = [x \in 0 .. Len(Blocks) |->
                          IF x = 0 THEN Migration!NoChunk
                          ELSE IF x \in S THEN Migration!WithExtent(f[x - 1], x) ELSE f[x - 1]]
<1> DEFINE N == Len(Blocks)
           Triples == Nat \X Places \X Places
           V == [chunks : Seq(Triples), blocks : Nat]
           next(v, x) == IF x \in S THEN Migration!WithExtent(v, x) ELSE v
           step == [x \in 1 .. N |-> [v \in V |-> next(v, x)]]
<1>1. N \in Nat /\ \A x \in 1 .. N : Blocks[x] \in Nat
  BY ConstantsArePossible DEF Migration!SizesAreKnown
<1>2. Places = 1 .. N
  BY DEF Places, Migration!Positions
<1>3. ASSUME NEW x \in 1 .. N, NEW v \in V
      PROVE  Migration!WithExtent(v, x) \in V
  <2> PICK c, n : c = v.chunks /\ n = Len(c)
    OBVIOUS
  <2>1. c \in Seq(Triples) /\ n \in Nat /\ v.blocks \in Nat /\ Blocks[x] \in Nat
    BY <1>1
  <2>2. CASE n > 0 /\ v.blocks + Blocks[x] <= TargetBlocks
    <3>1. c[n] \in Triples /\ n \in 1 .. Len(c)
      BY <2>1, <2>2
    <3>2. <<n, c[n][2], x>> \in Triples
      BY <2>1, <3>1, <1>2
    <3>3. [c EXCEPT ![n] = <<n, c[n][2], x>>] \in Seq(Triples)
      BY <2>1, <3>1, <3>2
    <3>4. v.blocks + Blocks[x] \in Nat
      BY <2>1
    <3>5. Migration!WithExtent(v, x) =
             [chunks |-> [c EXCEPT ![n] = <<n, c[n][2], x>>], blocks |-> v.blocks + Blocks[x]]
      BY <2>2 DEF Migration!WithExtent
    <3> QED
      BY <3>3, <3>4, <3>5
  <2>3. CASE ~(n > 0 /\ v.blocks + Blocks[x] <= TargetBlocks)
    <3>1. <<n + 1, x, x>> \in Triples
      BY <2>1, <1>2
    <3>2. Append(c, <<n + 1, x, x>>) \in Seq(Triples)
      BY <2>1, <3>1
    <3>3. Migration!WithExtent(v, x) =
             [chunks |-> Append(c, <<n + 1, x, x>>), blocks |-> Blocks[x]]
      BY <2>3 DEF Migration!WithExtent
    <3> QED
      BY <2>1, <3>2, <3>3
  <2> QED
    BY <2>2, <2>3
<1>4. Migration!NoChunk \in V
  BY DEF Migration!NoChunk
<1> HIDE DEF V, N
<1>5. \A x \in 1 .. N, v \in V : next(v, x) \in V
  BY <1>3
<1> HIDE DEF next
<1>6. step \in [1 .. N -> [V -> V]]
  BY <1>5
<1>7. \A x \in 1 .. N, v \in V : step[x][v] = next(v, x)
  OBVIOUS
<1> HIDE DEF step
<1>8. PICK f : Iterates(f, N, V, Migration!NoChunk, step)
  BY <1>1, <1>4, <1>6, IterationExists
<1>9. /\ f \in [0 .. N -> V] /\ f[0] = Migration!NoChunk
      /\ \A x \in 1 .. N : f[x] = step[x][f[x - 1]]
  BY <1>8 DEF Iterates
<1>10. ASSUME NEW x \in 0 .. N
       PROVE  f[x] = IF x = 0 THEN Migration!NoChunk ELSE next(f[x - 1], x)
  <2>1. CASE x = 0
    BY <1>9, <2>1
  <2>2. CASE x # 0
    <3>1. x \in 1 .. N /\ x - 1 \in 0 .. N
      BY <1>1, <2>2
    <3>2. f[x - 1] \in V /\ f[x] = step[x][f[x - 1]]
      BY <1>9, <3>1
    <3> QED
      BY <1>7, <3>1, <3>2, <2>2
  <2> QED
    BY <2>1, <2>2
<1>11. f = [x \in 0 .. N |-> f[x]]
  BY <1>9
<1>12. f = [x \in 0 .. N |-> IF x = 0 THEN Migration!NoChunk ELSE next(f[x - 1], x)]
  BY <1>10, <1>11
<1> QED
  BY <1>12 DEF N, next

\* The chunks of a table divide it.
LEMMA ChunksDivide ==
    ASSUME NEW S \in SUBSET Places
    PROVE  Divided(S, Len(Blocks), Migration!Chunks(S))
<1> DEFINE N == Len(Blocks)
           Is(f) == f = [x \in 0 .. N |->
                            IF x = 0 THEN Migration!NoChunk
                            ELSE IF x \in S THEN Migration!WithExtent(f[x - 1], x) ELSE f[x - 1]]
           packing == CHOOSE f : Is(f)
<1>1. N \in Nat /\ Places = 1 .. N
  BY ConstantsArePossible DEF Migration!SizesAreKnown, Places, Migration!Positions
<1>2. Is(packing)
  BY PackingExists
<1>3. Migration!Chunks(S) = packing[N].chunks
  BY DEF Migration!Chunks
<1> HIDE DEF packing, N
<1>4. \A x \in 0 .. N : packing[x] = IF x = 0 THEN Migration!NoChunk
                                     ELSE IF x \in S THEN Migration!WithExtent(packing[x - 1], x)
                                     ELSE packing[x - 1]
  BY <1>2
<1> HIDE DEF Is
<1> DEFINE P == {x \in 0 .. N : PackedTo(S, x, packing[x])}
<1>5. 0 \in P
  BY <1>1, <1>4, NothingPacked
<1>6. ASSUME NEW x \in 1 .. N, x - 1 \in P
      PROVE  x \in P
  <2>1. PackedTo(S, x - 1, packing[x - 1]) /\ x \in Places /\ x \in 0 .. N /\ x # 0
    BY <1>1, <1>6
  <2>2. packing[x] = IF x \in S THEN Migration!WithExtent(packing[x - 1], x) ELSE packing[x - 1]
    BY <1>4, <2>1
  <2> PICK v : v = packing[x - 1]
    OBVIOUS
  <2>3. v.blocks \in Nat /\ Len(v.chunks) \in Nat /\ Blocks[x] \in Nat /\ TargetBlocks \in Nat
    <3>1. Blocks[x] \in Nat
      BY <2>1, OneMoreBlock
    <3>2. TargetBlocks \in Nat
      BY ConstantsArePossible DEF Migration!SizesAreKnown
    <3> QED
      BY <2>1, <3>1, <3>2 DEF PackedTo
  <2>4. PackedTo(S, x, packing[x])
    <3>1. CASE x \notin S
      BY <2>1, <2>2, <3>1, PassedOver
    <3>2. CASE x \in S /\ Len(v.chunks) > 0 /\ v.blocks + Blocks[x] <= TargetBlocks
      BY <2>1, <2>2, <3>2, ChunkGrows
    <3>3. CASE x \in S /\ ~(Len(v.chunks) > 0 /\ v.blocks + Blocks[x] <= TargetBlocks)
      <4>1. Len(v.chunks) = 0 \/ v.blocks + Blocks[x] > TargetBlocks
        BY <2>3, <3>3
      <4> QED
        BY <2>1, <2>2, <3>3, <4>1, ChunkIsAdded
    <3> QED
      BY <3>1, <3>2, <3>3
  <2> QED
    BY <2>1, <2>4
<1> HIDE DEF P
<1>7. N \in P
  <2>1. \A x \in 1 .. N : x - 1 \in P => x \in P
    BY <1>6
  <2>2. 0 .. N \subseteq P
    BY <1>1, <1>5, <2>1, CountingUp
  <2> QED
    BY <1>1, <2>2
<1>8. PackedTo(S, N, packing[N])
  BY <1>7 DEF P
<1> QED
  BY <1>3, <1>8 DEF PackedTo, N

\* A number between two others, and two that cannot be.
LEMMA Between ==
    \A a, b, e \in Nat : a <= b /\ b < e => a < e /\ a <= e
OBVIOUS

LEMMA NoneRound ==
    \A a, b, e, f \in Nat : ~(a <= b /\ b < e /\ e <= f /\ f < a)
OBVIOUS

LEMMA NoneOver ==
    \A a, b, e \in Nat : ~(a > e /\ a <= b /\ b <= e)
OBVIOUS

\* Of a table that has grown, the chunk of a number is there if it was, and
\* begins no later.
LEMMA ChunksMoveBack ==
    ASSUME NEW S \in SUBSET Places, NEW T \in SUBSET Places, S \subseteq T,
           NEW c, c = Migration!Chunks(S), NEW d, d = Migration!Chunks(T)
    PROVE  /\ Len(c) <= Len(d)
           /\ \A n \in 1 .. Len(c) : d[n][2] <= c[n][2]
<1> DEFINE N == Len(Blocks)
<1>1. N \in Nat /\ Places = 1 .. N /\ TargetBlocks \in Nat
  BY ConstantsArePossible DEF Migration!SizesAreKnown, Places, Migration!Positions
<1>2. Divided(S, N, c) /\ Divided(T, N, d) /\ Len(c) \in Nat /\ Len(d) \in Nat
  <2>1. Divided(S, N, c) /\ Divided(T, N, d)
    BY ChunksDivide
  <2>2. c \in Seq(Places \X Places \X Places) /\ d \in Seq(Places \X Places \X Places)
    BY <2>1 DEF Divided
  <2> QED
    BY <2>1, <2>2
<1>3. /\ \A i \in 1 .. Len(c) :
            /\ c[i][2] \in S /\ c[i][3] \in S /\ c[i][2] \in Places /\ c[i][3] \in Places
            /\ c[i][2] <= c[i][3]
      /\ \A i \in 1 .. Len(d) :
            /\ d[i][2] \in Places /\ d[i][3] \in Places /\ d[i][2] <= d[i][3]
            /\ d[i][2] < d[i][3] => BlocksOf(T, d[i][2], d[i][3]) <= TargetBlocks
  BY <1>2 DEF Divided, Fits
<1>4. /\ \A i, j \in 1 .. Len(c) : i < j => c[i][3] < c[j][2]
      /\ \A i, j \in 1 .. Len(d) : i < j => d[i][3] < d[j][2]
      /\ \A i \in 1 .. Len(c) : i + 1 <= Len(c) =>
            BlocksOf(S, c[i][2], c[i + 1][2]) > TargetBlocks
  BY <1>2 DEF Divided
<1>5. \A y \in T : \E i \in 1 .. Len(d) : d[i][2] <= y /\ y <= d[i][3]
  <2> TAKE y \in T
  <2>1. y <= N
    BY <1>1
  <2> QED
    BY <2>1, <1>2 DEF Divided
<1> HIDE DEF N
\* A chunk that ends no earlier than the one of number i begins, begins no earlier.
<1>6. ASSUME NEW i \in 1 .. Len(d), NEW j \in 1 .. Len(d), i <= j
      PROVE  d[i][2] <= d[j][2]
  <2>1. CASE i = j
    BY <2>1, <1>1, <1>3
  <2>2. CASE i # j
    <3>1. d[i][3] < d[j][2] /\ d[i][2] <= d[i][3]
      BY <1>6, <2>2, <1>3, <1>4
    <3>2. d[i][2] \in Nat /\ d[i][3] \in Nat /\ d[j][2] \in Nat
      BY <1>1, <1>3
    <3> QED
      BY <3>1, <3>2
  <2> QED
    BY <2>1, <2>2
<1> DEFINE P == {n \in 0 .. Len(c) : n > 0 => n <= Len(d) /\ d[n][2] <= c[n][2]}
<1>7. 0 \in P
  BY <1>2
<1>8. ASSUME NEW n \in 1 .. Len(c), n - 1 \in P
      PROVE  n \in P
  <2>1. c[n][2] \in T /\ c[n][2] \in Places
    BY <1>3
  <2>2. PICK j \in 1 .. Len(d) : d[j][2] <= c[n][2] /\ c[n][2] <= d[j][3]
    BY <2>1, <1>5
  <2>3. d[j][2] \in Places /\ d[j][3] \in Places
    BY <1>3
  <2>4. CASE n <= j
    <3>1. n \in 1 .. Len(d) /\ d[n][2] <= d[j][2]
      BY <2>4, <1>2, <1>6
    <3>2. d[n][2] \in Nat /\ d[j][2] \in Nat /\ c[n][2] \in Nat
      BY <3>1, <2>1, <2>3, <1>1, <1>3
    <3> QED
      BY <3>1, <3>2, <2>2, <1>2
  <2>5. CASE j < n
    <3> DEFINE m == n - 1
    <3>1. m \in 1 .. Len(c) /\ m + 1 = n /\ j <= m /\ m > 0
      BY <2>5, <1>2
    <3>2. m <= Len(d) /\ d[m][2] <= c[m][2] /\ m \in 1 .. Len(d)
      BY <3>1, <1>8, <1>2
    <3> HIDE DEF m
    <3>3. /\ c[m][2] \in Nat /\ c[m][3] \in Nat /\ c[n][2] \in Nat /\ d[m][2] \in Nat
          /\ d[j][3] \in Nat /\ d[m][3] \in Nat /\ c[m][2] \in Places /\ d[m][2] \in Places
      <4>1. /\ c[m][2] \in Places /\ c[m][3] \in Places /\ c[n][2] \in Places
            /\ d[m][2] \in Places /\ d[m][3] \in Places /\ d[j][3] \in Places
        BY <3>1, <3>2, <2>1, <2>3, <1>3
      <4>2. Places \subseteq Nat
        BY <1>1
      <4> QED
        BY <4>1, <4>2
    <3>4. c[m][2] <= c[m][3] /\ c[m][3] < c[n][2] /\ c[m][2] < c[n][2] /\ c[m][2] <= c[n][2]
      <4>1. c[m][2] <= c[m][3] /\ c[m][3] < c[n][2]
        <5>1. m < n
          BY <3>1
        <5> QED
          BY <5>1, <3>1, <1>3, <1>4
      <4> QED
        BY <4>1, <3>3, Between, Zenon
    <3>5. CASE j = m
      <4>1. d[m][2] < d[m][3]
        BY <3>2, <3>3, <3>4, <3>5, <2>2
      <4>2. BlocksOf(T, d[m][2], d[m][3]) <= TargetBlocks
        BY <4>1, <3>2, <1>3
      <4>3. BlocksOf(S, c[m][2], c[n][2]) > TargetBlocks
        BY <3>1, <1>4
      <4>4. c[n][2] <= d[m][3]
        BY <2>2, <3>5
      <4>5. /\ BlocksOf(S, c[m][2], c[n][2]) <= BlocksOf(T, d[m][2], d[m][3])
            /\ BlocksOf(S, c[m][2], c[n][2]) \in Nat /\ BlocksOf(T, d[m][2], d[m][3]) \in Nat
        BY <3>2, <3>3, <3>4, <4>4, <2>1, <2>3, <3>5, MoreBlocks
      <4>6. TargetBlocks \in Nat
        BY <1>1
      <4> QED
        BY <4>2, <4>3, <4>5, <4>6, NoneOver, Zenon
    <3>6. CASE j # m
      <4>1. j < m
        BY <3>1, <3>6
      <4>2. d[j][3] < d[m][2]
        BY <4>1, <3>2, <1>4
      <4>3. c[n][2] <= d[j][3] /\ d[j][3] < d[m][2] /\ d[m][2] <= c[m][2] /\ c[m][2] < c[n][2]
        BY <4>2, <3>2, <3>4, <2>2, Zenon
      <4> QED
        BY <4>3, <3>3, NoneRound, Zenon
    <3> QED
      BY <3>5, <3>6
  <2> QED
    BY <2>4, <2>5, <1>2
<1> HIDE DEF P
<1>9. 0 .. Len(c) \subseteq P
  <2>1. \A n \in 1 .. Len(c) : n - 1 \in P => n \in P
    BY <1>8
  <2> QED
    BY <1>2, <1>7, <2>1, CountingUp
<1>10. \A n \in 1 .. Len(c) : n <= Len(d) /\ d[n][2] <= c[n][2]
  BY <1>9, <1>2 DEF P
<1>11. Len(c) <= Len(d)
  <2>1. CASE Len(c) = 0
    BY <2>1, <1>2
  <2>2. CASE Len(c) # 0
    <3>1. Len(c) \in 1 .. Len(c)
      BY <2>2, <1>2
    <3> QED
      BY <3>1, <1>10
  <2> QED
    BY <2>1, <2>2
<1> QED
  BY <1>10, <1>11

-----------------------------------------------------------------------------
(* The migration.                                                           *)

\* A key that was entered while the table had the extents S: its chunk ended
\* at one of them, and the chunk of its number began no later.
Planned(k, S) ==
    LET c == Migration!Chunks(S)
    IN  /\ k \in Places \X Places \X Places /\ k[2] <= k[3] /\ k[3] \in S
        /\ k[1] <= Len(c) /\ c[k[1]][2] <= k[2]

\* The object of its number has what there is of P between its ends.
Copied(k, P, o) == \A x \in P : k[2] <= x /\ x <= k[3] => x \in o[k[1]]

\* No plan for a table with the extents T or more has the chunk.
Outgrown(k, T) ==
    \/ Migration!Chunks(T)[k[1]][2] < k[2]
    \/ k[2] < k[3] /\ BlocksOf(T, k[2], k[3]) > TargetBlocks

MigrationTyped ==
    /\ extents \subseteq Places /\ promised \subseteq extents
    /\ objects \in [Places -> SUBSET Places]
    /\ pc \in {"idle", "copy", "record"}
    /\ runs \in Nat /\ growth \in Nat
    /\ growth = 0 => extents = promised
    /\ runs = 0 => pc = "idle" /\ recorded = {} /\ done = {}

\* The checkpoint keys, and the plan of a run, are from some earlier state S
\* of the table; a key whose object was overwritten has been outgrown.
KeysHeld ==
    \E S \in SUBSET extents :
        /\ promised \subseteq S
        /\ pc # "idle" => plan = Migration!Chunks(S)
        /\ \A k \in recorded \cup done :
              Planned(k, S) /\ (Copied(k, promised, objects) \/ Outgrown(k, extents))

\* The chunks of the plan that are done hold what was promised, and a run
\* without a failure has done those behind it.
TurnHeld ==
    /\ pc # "idle" =>
          /\ turn \in 1 .. Len(plan) + 1
          /\ \A i \in 1 .. Len(plan) :
                /\ i < turn /\ ~failed => plan[i] \in done
                /\ plan[i] \in done => Copied(plan[i], promised, objects)
    /\ pc = "record" => turn <= Len(plan) /\ Copied(plan[turn], promised, objects)

\* The objects of a table that has not grown keep to the chunks of it.
ObjectsHeld ==
    growth = 0 => \A n \in Places : \A x \in objects[n] :
        LET c == Migration!Chunks(promised)
        IN  n <= Len(c) /\ c[n][2] <= x /\ x <= c[n][3]

SuccessHeld ==
    outcome = "succeeded" =>
        pc = "idle" /\ runs > 0 /\ \A x \in promised : \E i \in Places : x \in objects[i]

MigrationInv == MigrationTyped /\ KeysHeld /\ TurnHeld /\ ObjectsHeld /\ SuccessHeld

\* Places are numbers, and the chunks of a table are numbered among them.
LEMMA PlacesAreNumbers ==
    /\ Places \subseteq Nat \ {0} /\ Places = 1 .. Len(Blocks) /\ Len(Blocks) \in Nat
    /\ TargetBlocks \in Nat
BY ConstantsArePossible DEF Migration!SizesAreKnown, Places, Migration!Positions

LEMMA ChunkIsOfPlaces ==
    ASSUME NEW S \in SUBSET Places, NEW c, c = Migration!Chunks(S)
    PROVE  /\ Len(c) \in Nat
           /\ \A i \in 1 .. Len(c) :
                 /\ c[i] \in Places \X Places \X Places
                 /\ c[i][1] = i /\ i \in Places
                 /\ c[i][2] \in S /\ c[i][3] \in S /\ c[i][2] <= c[i][3]
                 /\ c[i][2] < c[i][3] => BlocksOf(S, c[i][2], c[i][3]) <= TargetBlocks
           /\ \A i, j \in 1 .. Len(c) : i < j => c[i][3] < c[j][2]
           /\ \A y \in S : \E i \in 1 .. Len(c) : c[i][2] <= y /\ y <= c[i][3]
           /\ \A i \in 1 .. Len(c) : i + 1 <= Len(c) =>
                 BlocksOf(S, c[i][2], c[i + 1][2]) > TargetBlocks
<1>1. Divided(S, Len(Blocks), c)
  BY ChunksDivide
<1>2. c \in Seq(Places \X Places \X Places)
  BY <1>1 DEF Divided
<1>3. ASSUME NEW i \in 1 .. Len(c)
      PROVE  /\ c[i] \in Places \X Places \X Places
             /\ c[i][1] = i /\ i \in Places
             /\ c[i][2] \in S /\ c[i][3] \in S /\ c[i][2] <= c[i][3]
             /\ c[i][2] < c[i][3] => BlocksOf(S, c[i][2], c[i][3]) <= TargetBlocks
  <2>1. c[i][1] = i /\ Fits(S, Len(Blocks), c[i])
    BY <1>1 DEF Divided
  <2> QED
    BY <2>1 DEF Fits
<1>4. \A y \in S : y <= Len(Blocks)
  BY PlacesAreNumbers
<1> QED
  BY <1>1, <1>2, <1>3, <1>4 DEF Divided

LEMMA PlannedStays ==
    ASSUME NEW T \in SUBSET Places, NEW S \in SUBSET T, NEW k, Planned(k, S)
    PROVE  Planned(k, T)
<1> PICK c, d : c = Migration!Chunks(S) /\ d = Migration!Chunks(T)
  OBVIOUS
<1>1. /\ k \in Places \X Places \X Places /\ k[2] <= k[3] /\ k[3] \in S
      /\ k[1] <= Len(c) /\ c[k[1]][2] <= k[2]
  BY DEF Planned
<1>2. S \in SUBSET Places /\ Len(c) <= Len(d) /\ \A n \in 1 .. Len(c) : d[n][2] <= c[n][2]
  BY ChunksMoveBack
<1>3. Len(c) \in Nat /\ Len(d) \in Nat /\ k[1] \in Nat \ {0} /\ k[1] \in 1 .. Len(c)
      /\ k[1] \in 1 .. Len(d)
  BY <1>1, <1>2, ChunkIsOfPlaces, PlacesAreNumbers
<1>4. c[k[1]][2] \in Places /\ d[k[1]][2] \in Places /\ k[2] \in Places
  BY <1>1, <1>2, <1>3, ChunkIsOfPlaces
<1>5. d[k[1]][2] <= c[k[1]][2]
  BY <1>2, <1>3
<1>6. d[k[1]][2] <= k[2] /\ k[1] <= Len(d)
  BY <1>1, <1>3, <1>4, <1>5, PlacesAreNumbers
<1> QED
  BY <1>1, <1>6 DEF Planned

LEMMA OutgrownStays ==
    ASSUME NEW U \in SUBSET Places, NEW T \in SUBSET U, NEW k, Planned(k, T), Outgrown(k, T)
    PROVE  Outgrown(k, U)
<1> PICK c, d : c = Migration!Chunks(T) /\ d = Migration!Chunks(U)
  OBVIOUS
<1>1. k \in Places \X Places \X Places /\ k[2] <= k[3] /\ k[1] <= Len(c)
  BY DEF Planned
<1>2. T \in SUBSET Places /\ Len(c) <= Len(d) /\ \A n \in 1 .. Len(c) : d[n][2] <= c[n][2]
  BY ChunksMoveBack
<1>3. Len(c) \in Nat /\ Len(d) \in Nat /\ k[1] \in Nat \ {0} /\ k[1] \in 1 .. Len(c)
      /\ k[1] \in 1 .. Len(d)
  BY <1>1, <1>2, ChunkIsOfPlaces, PlacesAreNumbers
<1>4. /\ c[k[1]][2] \in Places /\ d[k[1]][2] \in Places /\ k[2] \in Places /\ k[3] \in Places
      /\ d[k[1]][2] <= c[k[1]][2]
  BY <1>1, <1>2, <1>3, ChunkIsOfPlaces
<1>5. CASE c[k[1]][2] < k[2]
  <2>1. d[k[1]][2] < k[2]
    BY <1>4, <1>5, PlacesAreNumbers
  <2> QED
    BY <2>1 DEF Outgrown
<1>6. CASE k[2] < k[3] /\ BlocksOf(T, k[2], k[3]) > TargetBlocks
  <2>1. k[2] <= k[2] /\ k[3] <= k[3]
    BY <1>4, PlacesAreNumbers
  <2>2. /\ BlocksOf(T, k[2], k[3]) \in Nat /\ BlocksOf(U, k[2], k[3]) \in Nat
        /\ BlocksOf(T, k[2], k[3]) <= BlocksOf(U, k[2], k[3])
    BY <1>1, <1>4, <2>1, MoreBlocks
  <2> QED
    BY <1>6, <2>2, PlacesAreNumbers DEF Outgrown
<1> QED
  BY <1>5, <1>6 DEF Outgrown

\* A chunk of the plan is planned, and not outgrown.
LEMMA PlanIsCurrent ==
    ASSUME NEW S \in SUBSET Places, NEW i \in 1 .. Len(Migration!Chunks(S))
    PROVE  /\ Planned(Migration!Chunks(S)[i], S)
           /\ ~Outgrown(Migration!Chunks(S)[i], S)
<1> PICK c : c = Migration!Chunks(S)
  OBVIOUS
<1>1. /\ c[i] \in Places \X Places \X Places
      /\ c[i][1] = i /\ i \in Places /\ c[i][3] \in S /\ c[i][2] <= c[i][3]
      /\ c[i][2] < c[i][3] => BlocksOf(S, c[i][2], c[i][3]) <= TargetBlocks
      /\ Len(c) \in Nat
  BY ChunkIsOfPlaces
<1>2. c[i][2] \in Nat /\ c[i][3] \in Nat /\ c[i][2] \in Places /\ c[i][3] \in Places
  BY <1>1, PlacesAreNumbers
<1>3. c[i][2] <= c[i][2] /\ c[i][3] <= c[i][3] /\ ~(c[i][2] < c[i][2]) /\ i <= Len(c)
  BY <1>2, <1>1
<1>4. BlocksOf(S, c[i][2], c[i][3]) \in Nat
  BY <1>1, <1>2, <1>3, MoreBlocks
<1>5. ~(c[i][2] < c[i][3] /\ BlocksOf(S, c[i][2], c[i][3]) > TargetBlocks)
  BY <1>1, <1>4, PlacesAreNumbers
<1>6. Planned(c[i], S)
  BY <1>1, <1>3 DEF Planned
<1>7. ~Outgrown(c[i], S)
  BY <1>1, <1>3, <1>5 DEF Outgrown
<1> QED
  BY <1>6, <1>7

\* An object overwritten for a later plan has what a key tells of it, or the
\* key is outgrown.
LEMMA PutKeepsKeys ==
    ASSUME NEW T \in SUBSET Places, NEW S \in SUBSET T, NEW P \in SUBSET S,
           NEW i \in 1 .. Len(Migration!Chunks(S)), NEW b, b = Migration!Chunks(S)[i],
           NEW o, NEW u, \A m \in Places : m # i => u[m] = o[m],
           \A x \in T : b[2] <= x /\ x <= b[3] => x \in u[i],
           NEW k, Planned(k, S), Copied(k, P, o) \/ Outgrown(k, T)
    PROVE  Copied(k, P, u) \/ Outgrown(k, T)
<1> PICK c : c = Migration!Chunks(S)
  OBVIOUS
<1>0. S \in SUBSET Places
  OBVIOUS
<1>1. /\ b \in Places \X Places \X Places /\ b[1] = i /\ i \in Places
      /\ b[2] \in S /\ b[3] \in S /\ b[2] <= b[3] /\ Len(c) \in Nat
  BY <1>0, ChunkIsOfPlaces
<1>2. /\ k \in Places \X Places \X Places /\ k[2] <= k[3] /\ k[3] \in S
      /\ k[1] <= Len(c) /\ c[k[1]][2] <= k[2]
  BY DEF Planned
<1>3. b[2] \in Places /\ b[3] \in Places /\ k[2] \in Places /\ k[3] \in Places /\ k[1] \in Places
  BY <1>1, <1>2
<1>4. CASE k[1] # i
  <2>1. u[k[1]] = o[k[1]]
    BY <1>1, <1>3, <1>4
  <2> QED
    BY <2>1 DEF Copied
<1>5. CASE k[1] = i
  <2>1. b = c[k[1]] /\ b[2] <= k[2]
    BY <1>2, <1>5
  <2>2. \A x \in T : b[2] <= x /\ x <= b[3] => x \in u[k[1]]
    BY <1>5
  <2>3. CASE b[2] < k[2]
    <3>1. Planned(b, S)
      BY PlanIsCurrent, <1>0
    <3>2. PICK d : d = Migration!Chunks(T)
      OBVIOUS
    <3>3. Len(c) <= Len(d) /\ \A n \in 1 .. Len(c) : d[n][2] <= c[n][2]
      BY <3>2, <1>0, ChunksMoveBack
    <3>4. Len(d) \in Nat /\ i \in 1 .. Len(d) /\ d[i][2] <= b[2]
      BY <3>2, <3>3, <2>1, <1>5, ChunkIsOfPlaces
    <3>5. d[i][2] \in Places
      BY <3>2, <3>4, ChunkIsOfPlaces
    <3>6. d[k[1]][2] < k[2]
      BY <3>4, <3>5, <2>3, <1>3, <1>5, PlacesAreNumbers
    <3> QED
      BY <3>2, <3>6 DEF Outgrown
  <2>4. CASE ~(b[2] < k[2]) /\ k[3] <= b[3]
    <3>1. ASSUME NEW x \in P, k[2] <= x, x <= k[3]
          PROVE  x \in u[k[1]]
      <4>1. x \in T /\ x \in Nat
        BY PlacesAreNumbers
      <4>2. b[2] \in Nat /\ b[3] \in Nat /\ k[2] \in Nat /\ k[3] \in Nat
        BY <1>3, PlacesAreNumbers
      <4>3. b[2] <= x /\ x <= b[3]
        BY <4>1, <4>2, <3>1, <2>1, <2>4
      <4> QED
        BY <4>1, <4>3, <2>2
    <3> QED
      BY <3>1 DEF Copied
  <2>5. CASE ~(b[2] < k[2]) /\ ~(k[3] <= b[3])
    <3>1. b[2] \in Nat /\ b[3] \in Nat /\ k[2] \in Nat /\ k[3] \in Nat
      BY <1>3, PlacesAreNumbers
    <3>2. b[2] = k[2] /\ b[3] < k[3] /\ k[2] < k[3]
      BY <3>1, <2>1, <2>5, <1>1
    <3>3. PICK j \in 1 .. Len(c) : c[j][2] <= k[3] /\ k[3] <= c[j][3]
      <4>1. \A y \in S : \E j \in 1 .. Len(c) : c[j][2] <= y /\ y <= c[j][3]
        BY <1>0, ChunkIsOfPlaces
      <4> QED
        BY <4>1, <1>2
    <3>4. i < j
      <4>1. c[j][2] \in Nat /\ c[j][3] \in Nat
        BY <1>0, <3>3, ChunkIsOfPlaces, PlacesAreNumbers
      <4>2. ~(j < i)
        <5>1. j < i => c[j][3] < c[i][2]
          BY <1>0, <3>3, ChunkIsOfPlaces
        <5> QED
          BY <5>1, <4>1, <3>1, <3>2, <3>3, <2>1, <1>5
      <4>3. j # i
        BY <4>1, <3>1, <3>2, <3>3, <2>1, <1>5
      <4> QED
        BY <4>2, <4>3, <3>3
    <3>5. i + 1 <= Len(c) /\ i + 1 \in 1 .. Len(c)
      BY <3>4, <1>1
    <3>6. BlocksOf(S, b[2], c[i + 1][2]) > TargetBlocks
      BY <3>5, <1>0, ChunkIsOfPlaces
    <3>7. c[i + 1][2] \in Places /\ c[j][2] \in Places /\ c[i + 1][3] \in Places
          /\ c[i + 1][2] <= c[i + 1][3]
      BY <3>3, <3>5, <1>0, ChunkIsOfPlaces
    <3>8. c[i + 1][2] <= k[3]
      <4>1. c[i + 1][2] \in Nat /\ c[j][2] \in Nat /\ c[i + 1][3] \in Nat
        BY <3>7, PlacesAreNumbers
      <4>2. i + 1 < j => c[i + 1][3] < c[j][2]
        BY <3>3, <3>5, <1>0, ChunkIsOfPlaces
      <4>3. CASE i + 1 = j
        BY <4>3, <3>3
      <4>4. CASE i + 1 < j
        BY <4>1, <4>2, <4>4, <3>3, <3>7, <3>1
      <4> QED
        BY <4>3, <4>4, <3>4, <3>5
    <3>9. b[2] < c[i + 1][2] /\ b[2] <= c[i + 1][2]
      <4>1. b[3] < c[i + 1][2]
        <5>1. i < i + 1 /\ b = c[i]
          BY <2>1, <1>5
        <5> QED
          BY <5>1, <3>5, <1>0, ChunkIsOfPlaces
      <4>2. c[i + 1][2] \in Nat
        BY <3>7, PlacesAreNumbers
      <4> QED
        BY <4>1, <4>2, <3>1, <1>1
    <3>10. /\ BlocksOf(S, b[2], c[i + 1][2]) \in Nat /\ BlocksOf(T, k[2], k[3]) \in Nat
           /\ BlocksOf(S, b[2], c[i + 1][2]) <= BlocksOf(T, k[2], k[3])
      <4>1. k[2] <= b[2]
        BY <3>1, <3>2
      <4> QED
        BY <4>1, <3>7, <3>8, <3>9, <1>3, MoreBlocks
    <3>11. BlocksOf(T, k[2], k[3]) > TargetBlocks
      BY <3>6, <3>10, PlacesAreNumbers
    <3> QED
      BY <3>2, <3>11 DEF Outgrown
  <2> QED
    BY <2>3, <2>4, <2>5
<1> QED
  BY <1>4, <1>5

LEMMA MigrationBegins ==
    ASSUME Migration!Init
    PROVE  MigrationInv
<1>1. MigrationTyped
  BY DEF Migration!Init, MigrationTyped, Places, Migration!Numbers
<1>2. KeysHeld
  <2>1. extents \in SUBSET extents /\ promised \subseteq extents /\ pc = "idle"
        /\ recorded \cup done = {}
    BY DEF Migration!Init
  <2> QED
    BY <2>1 DEF KeysHeld
<1>3. TurnHeld /\ ObjectsHeld /\ SuccessHeld
  BY DEF Migration!Init, TurnHeld, ObjectsHeld, SuccessHeld, Places, Migration!Numbers
<1> QED
  BY <1>1, <1>2, <1>3 DEF MigrationInv

\* The table grows.
LEMMA MigrationGrow ==
    ASSUME MigrationInv, Migration!Grow
    PROVE  MigrationInv'
<1> USE DEF MigrationInv
<1>1. PICK y \in Places : extents' = extents \cup {y}
  BY DEF Migration!Grow, Places
<1>2. /\ growth' = growth + 1 /\ promised' = IF runs = 0 THEN extents' ELSE promised
      /\ objects' = objects /\ recorded' = recorded /\ done' = done /\ pc' = pc /\ plan' = plan
      /\ turn' = turn /\ failed' = failed /\ outcome' = outcome /\ runs' = runs
  BY DEF Migration!Grow, Migration!file
<1>3. /\ extents \in SUBSET Places /\ extents' \in SUBSET Places /\ extents \subseteq extents'
      /\ promised' \subseteq extents' /\ growth' \in Nat /\ growth' # 0
  BY <1>1, <1>2 DEF MigrationTyped
<1>4. MigrationTyped'
  BY <1>2, <1>3 DEF MigrationTyped
<1>5. KeysHeld'
  <2>1. CASE runs = 0
    <3>1. pc = "idle" /\ recorded \cup done = {}
      BY <2>1 DEF MigrationTyped
    <3>2. extents' \in SUBSET extents' /\ promised' \subseteq extents'
      BY <1>3
    <3> QED
      BY <3>1, <3>2, <1>2 DEF KeysHeld
  <2>2. CASE runs # 0
    <3>1. PICK S \in SUBSET extents :
            /\ promised \subseteq S
            /\ pc # "idle" => plan = Migration!Chunks(S)
            /\ \A k \in recorded \cup done :
                  Planned(k, S) /\ (Copied(k, promised, objects) \/ Outgrown(k, extents))
      BY DEF KeysHeld
    <3>2. \A k \in recorded \cup done : Outgrown(k, extents) => Outgrown(k, extents')
      <4> SUFFICES ASSUME NEW k \in recorded \cup done, Outgrown(k, extents)
                   PROVE  Outgrown(k, extents')
        OBVIOUS
      <4>1. Planned(k, extents)
        BY <3>1, <1>3, PlannedStays
      <4> QED
        BY <4>1, <1>3, OutgrownStays
    <3>3. S \in SUBSET extents' /\ promised' = promised
      BY <2>2, <1>2, <1>3
    <3> QED
      BY <3>1, <3>2, <3>3, <1>2 DEF KeysHeld
  <2> QED
    BY <2>1, <2>2
<1>6. TurnHeld'
  <2>1. CASE runs = 0
    <3>1. pc = "idle"
      BY <2>1 DEF MigrationTyped
    <3> QED
      BY <3>1, <1>2 DEF TurnHeld
  <2>2. CASE runs # 0
    <3>1. promised' = promised
      BY <2>2, <1>2
    <3> QED
      BY <3>1, <1>2 DEF TurnHeld
  <2> QED
    BY <2>1, <2>2
<1>7. ObjectsHeld'
  BY <1>3 DEF ObjectsHeld
<1>8. SuccessHeld'
  <2>1. ASSUME outcome = "succeeded"
        PROVE  promised' = promised
    <3>1. runs > 0 /\ runs # 0
      BY <2>1 DEF SuccessHeld, MigrationTyped
    <3> QED
      BY <3>1, <1>2
  <2> QED
    BY <2>1, <1>2 DEF SuccessHeld
<1> QED
  BY <1>4, <1>5, <1>6, <1>7, <1>8

\* A run begins.
LEMMA MigrationStart ==
    ASSUME MigrationInv, Migration!Start
    PROVE  MigrationInv'
<1> USE DEF MigrationInv
<1>1. /\ pc = "idle" /\ runs' = runs + 1 /\ pc' = "copy" /\ plan' = Migration!Chunks(extents)
      /\ turn' = 1 /\ done' = recorded /\ outcome' = "none"
      /\ extents' = extents /\ promised' = promised /\ objects' = objects /\ recorded' = recorded
      /\ failed' = failed /\ growth' = growth
  BY DEF Migration!Start, Migration!file
<1>2. extents \in SUBSET Places /\ promised \subseteq extents /\ runs \in Nat
  BY DEF MigrationTyped
<1>3. MigrationTyped'
  BY <1>1, <1>2 DEF MigrationTyped
<1>4. \A k \in recorded :
         Planned(k, extents) /\ (Copied(k, promised, objects) \/ Outgrown(k, extents))
  <2>1. PICK S \in SUBSET extents :
          \A k \in recorded :
              Planned(k, S) /\ (Copied(k, promised, objects) \/ Outgrown(k, extents))
    BY DEF KeysHeld
  <2> QED
    BY <2>1, <1>2, PlannedStays
<1>5. KeysHeld'
  <2>1. extents \in SUBSET extents
    OBVIOUS
  <2> QED
    BY <2>1, <1>1, <1>2, <1>4 DEF KeysHeld
<1>6. TurnHeld'
  <2> PICK c : c = Migration!Chunks(extents)
    OBVIOUS
  <2>1. Len(c) \in Nat
    BY <1>2, ChunkIsOfPlaces
  <2>2. ASSUME NEW i \in 1 .. Len(c), c[i] \in recorded
        PROVE  Copied(c[i], promised, objects)
    <3>1. ~Outgrown(c[i], extents)
      BY <1>2, PlanIsCurrent
    <3> QED
      BY <3>1, <2>2, <1>4
  <2>3. 1 \in 1 .. Len(c) + 1 /\ \A i \in 1 .. Len(c) : ~(i < 1)
    BY <2>1
  <2> QED
    BY <2>2, <2>3, <1>1 DEF TurnHeld
<1>7. ObjectsHeld'
  BY <1>1 DEF ObjectsHeld
<1>8. SuccessHeld'
  BY <1>1 DEF SuccessHeld
<1> QED
  BY <1>3, <1>5, <1>6, <1>7, <1>8

\* A chunk that is done is passed over.
LEMMA MigrationSkip ==
    ASSUME MigrationInv, Migration!Skip
    PROVE  MigrationInv'
<1> USE DEF MigrationInv
<1>1. /\ pc = "copy" /\ turn <= Len(plan) /\ plan[turn] \in done /\ turn' = turn + 1
      /\ extents' = extents /\ promised' = promised /\ objects' = objects /\ recorded' = recorded
      /\ failed' = failed /\ growth' = growth /\ pc' = pc /\ plan' = plan /\ done' = done
      /\ runs' = runs /\ outcome' = outcome
  BY DEF Migration!Skip, Migration!file, Migration!Chunk
<1>2. MigrationTyped' /\ KeysHeld' /\ ObjectsHeld' /\ SuccessHeld'
  BY <1>1 DEF MigrationTyped, KeysHeld, ObjectsHeld, SuccessHeld
<1>3. TurnHeld'
  <2>1. /\ turn \in 1 .. Len(plan) + 1
        /\ \A i \in 1 .. Len(plan) :
              /\ i < turn /\ ~failed => plan[i] \in done
              /\ plan[i] \in done => Copied(plan[i], promised, objects)
    BY <1>1 DEF TurnHeld
  <2>2. Len(plan) \in Nat
    BY <1>1, ChunkIsOfPlaces DEF KeysHeld, MigrationTyped
  <2>3. turn + 1 \in 1 .. Len(plan) + 1
    BY <2>1, <2>2, <1>1
  <2>4. \A i \in 1 .. Len(plan) : i < turn + 1 => i < turn \/ i = turn
    BY <2>1, <2>2
  <2>5. \A i \in 1 .. Len(plan) : i < turn + 1 /\ ~failed => plan[i] \in done
    BY <2>1, <2>4, <1>1
  <2> QED
    BY <2>1, <2>3, <2>5, <1>1 DEF TurnHeld
<1> QED
  BY <1>2, <1>3

\* What is put into the object of a chunk of the plan.
LEMMA MigrationPuts ==
    ASSUME MigrationInv, Migration!Put, pc = "copy", turn <= Len(plan), plan[turn] \notin done,
           extents' = extents, promised' = promised, growth' = growth
    PROVE  /\ objects' \in [Places -> SUBSET Places]
           /\ Copied(plan[turn], promised, objects')
           /\ \A i \in 1 .. Len(plan) : plan[i] \in done => Copied(plan[i], promised, objects')
           /\ \E S \in SUBSET extents :
                 /\ promised \subseteq S /\ plan = Migration!Chunks(S)
                 /\ \A k \in recorded \cup done :
                       Planned(k, S) /\ (Copied(k, promised, objects') \/ Outgrown(k, extents))
           /\ ObjectsHeld'
<1> USE DEF MigrationInv
<1>1. PICK S \in SUBSET extents :
        /\ promised \subseteq S /\ plan = Migration!Chunks(S)
        /\ \A k \in recorded \cup done :
              Planned(k, S) /\ (Copied(k, promised, objects) \/ Outgrown(k, extents))
  BY DEF KeysHeld
<1> PICK b, n : b = plan[turn] /\ n = turn
  OBVIOUS
<1>2. /\ extents \in SUBSET Places /\ S \in SUBSET Places /\ promised \in SUBSET S
      /\ objects \in [Places -> SUBSET Places]
  BY <1>1 DEF MigrationTyped
<1>3. Len(plan) \in Nat /\ n \in 1 .. Len(plan)
  <2>1. Len(plan) \in Nat
    BY <1>1, <1>2, ChunkIsOfPlaces
  <2>2. n \in 1 .. Len(plan) + 1
    BY DEF TurnHeld
  <2> QED
    BY <2>1, <2>2
<1>4. /\ b \in Places \X Places \X Places /\ b[1] = n /\ n \in Places
      /\ b[2] \in Places /\ b[3] \in Places
  BY <1>1, <1>2, <1>3, ChunkIsOfPlaces
<1> PICK put : put = {x \in extents : b[2] <= x /\ x <= b[3]}
  OBVIOUS
<1>5. objects' = [objects EXCEPT ![b[1]] = put]
  BY DEF Migration!Put, Migration!Chunk, Migration!Exported
<1>6. put \in SUBSET Places
  BY <1>2
<1>7. objects' \in [Places -> SUBSET Places] /\ objects'[n] = put
      /\ \A m \in Places : m # n => objects'[m] = objects[m]
  BY <1>2, <1>4, <1>5, <1>6
<1>8. Copied(b, promised, objects')
  BY <1>4, <1>7, <1>1 DEF Copied
<1>9. ASSUME NEW i \in 1 .. Len(plan), plan[i] \in done
      PROVE  Copied(plan[i], promised, objects')
  <2>1. Copied(plan[i], promised, objects)
    BY <1>9 DEF TurnHeld
  <2>2. i # n
    BY <1>9
  <2>3. plan[i][1] = i /\ i \in Places
    BY <1>1, <1>2, ChunkIsOfPlaces
  <2> QED
    BY <2>1, <2>2, <2>3, <1>7 DEF Copied
<1>10. \A k \in recorded \cup done : Copied(k, promised, objects') \/ Outgrown(k, extents)
  <2> SUFFICES ASSUME NEW k \in recorded \cup done
               PROVE  Copied(k, promised, objects') \/ Outgrown(k, extents)
    OBVIOUS
  <2>1. Planned(k, S) /\ (Copied(k, promised, objects) \/ Outgrown(k, extents))
    BY <1>1
  <2>2. n \in 1 .. Len(Migration!Chunks(S)) /\ b = Migration!Chunks(S)[n]
    BY <1>1, <1>3
  <2>3. PICK o, u, T, P : o = objects /\ u = objects' /\ T = extents /\ P = promised
    OBVIOUS
  <2>4. /\ \A m \in Places : m # n => u[m] = o[m]
        /\ \A x \in T : b[2] <= x /\ x <= b[3] => x \in u[n]
    BY <2>3, <1>7
  <2>5. /\ T \in SUBSET Places /\ S \in SUBSET T /\ P \in SUBSET S
        /\ Planned(k, S) /\ (Copied(k, P, o) \/ Outgrown(k, T))
    BY <2>1, <2>3, <1>2
  <2>6. Copied(k, P, u) \/ Outgrown(k, T)
    BY <2>2, <2>4, <2>5, PutKeepsKeys
  <2> QED
    BY <2>3, <2>6
<1>11. ObjectsHeld'
  <2> SUFFICES ASSUME growth = 0, NEW m \in Places, NEW x \in objects'[m]
               PROVE  LET c == Migration!Chunks(promised)
                      IN  m <= Len(c) /\ c[m][2] <= x /\ x <= c[m][3]
    BY DEF ObjectsHeld
  <2>1. extents = promised /\ S = promised
    BY <1>1 DEF MigrationTyped
  <2>2. CASE m = n
    <3>1. x \in put /\ b[2] <= x /\ x <= b[3]
      BY <2>2, <1>7
    <3> QED
      BY <3>1, <2>1, <2>2, <1>1, <1>3
  <2>3. CASE m # n
    <3>1. x \in objects[m]
      BY <2>3, <1>7
    <3> QED
      BY <3>1 DEF ObjectsHeld
  <2> QED
    BY <2>2, <2>3
<1> QED
  BY <1>1, <1>7, <1>8, <1>9, <1>10, <1>11

\* A chunk is exported and uploaded, or fails to be.
LEMMA MigrationUpload ==
    ASSUME MigrationInv, Migration!Upload
    PROVE  MigrationInv'
<1> USE DEF MigrationInv
<1>1. /\ pc = "copy" /\ turn <= Len(plan) /\ plan[turn] \notin done
      /\ extents' = extents /\ promised' = promised /\ growth' = growth /\ runs' = runs
      /\ Migration!Put \/ objects' = objects
  BY DEF Migration!Upload, Migration!Chunk
<1>2. /\ objects' \in [Places -> SUBSET Places]
      /\ \A i \in 1 .. Len(plan) : plan[i] \in done => Copied(plan[i], promised, objects')
      /\ \E S \in SUBSET extents :
            /\ promised \subseteq S /\ plan = Migration!Chunks(S)
            /\ \A k \in recorded \cup done :
                  Planned(k, S) /\ (Copied(k, promised, objects') \/ Outgrown(k, extents))
      /\ ObjectsHeld'
  <2>1. CASE Migration!Put
    BY <2>1, <1>1, MigrationPuts
  <2>2. CASE objects' = objects
    <3>1. objects \in [Places -> SUBSET Places]
      BY DEF MigrationTyped
    <3>2. \A i \in 1 .. Len(plan) : plan[i] \in done => Copied(plan[i], promised, objects)
      BY <1>1 DEF TurnHeld
    <3>3. ObjectsHeld'
      BY <2>2, <1>1 DEF ObjectsHeld
    <3>4. pc # "idle"
      BY <1>1
    <3> QED
      BY <2>2, <3>1, <3>2, <3>3, <3>4 DEF KeysHeld
  <2> QED
    BY <2>1, <2>2, <1>1
<1>3. outcome # "succeeded"
  BY <1>1 DEF SuccessHeld
<1>4. /\ Len(plan) \in Nat /\ turn \in 1 .. Len(plan)
      /\ \A i \in 1 .. Len(plan) : i < turn /\ ~failed => plan[i] \in done
  <2>1. Len(plan) \in Nat
    BY <1>1, ChunkIsOfPlaces DEF KeysHeld, MigrationTyped
  <2>2. turn \in 1 .. Len(plan) + 1
    BY <1>1 DEF TurnHeld
  <2>3. turn \in 1 .. Len(plan)
    BY <2>1, <2>2, <1>1
  <2> QED
    BY <2>1, <2>3, <1>1 DEF TurnHeld
<1>5. CASE Migration!Put /\ pc' = "record" /\ UNCHANGED << Migration!file, plan, turn, done,
                                                           keepGoing, failed, outcome, faults >>
  <2>1. /\ pc' = "record" /\ recorded' = recorded /\ plan' = plan /\ turn' = turn /\ done' = done
        /\ failed' = failed /\ outcome' = outcome
    BY <1>5 DEF Migration!file
  <2>2. Copied(plan[turn], promised, objects')
    BY <1>5, <1>1, MigrationPuts
  <2>3. MigrationTyped'
    BY <1>1, <1>2, <2>1 DEF MigrationTyped
  <2>4. KeysHeld'
    BY <1>1, <1>2, <2>1 DEF KeysHeld
  <2>5. turn \in 1 .. Len(plan) + 1
    BY <1>4
  <2>6. TurnHeld'
    BY <1>1, <1>2, <1>4, <2>1, <2>2, <2>5 DEF TurnHeld
  <2>7. SuccessHeld'
    BY <1>3, <2>1 DEF SuccessHeld
  <2> QED
    BY <1>2, <2>3, <2>4, <2>6, <2>7
<1>6. CASE /\ Migration!AppendLine({})
           /\ IF keepGoing
              THEN turn' = turn + 1 /\ failed' = TRUE /\ UNCHANGED << pc, plan, done, keepGoing, outcome >>
              ELSE Migration!End("failed")
  <2>1. recorded' \subseteq recorded
    BY <1>6 DEF Migration!AppendLine
  <2>2. CASE keepGoing
    <3>1. /\ turn' = turn + 1 /\ failed' = TRUE /\ pc' = pc /\ plan' = plan /\ done' = done
          /\ outcome' = outcome
      BY <2>2, <1>6
    <3>2. MigrationTyped'
      BY <1>1, <1>2, <2>1, <3>1 DEF MigrationTyped
    <3>3. KeysHeld'
      <4>1. \A k \in recorded' \cup done' : k \in recorded \cup done
        BY <2>1, <3>1
      <4> QED
        BY <1>1, <1>2, <3>1, <4>1 DEF KeysHeld
    <3>4. turn + 1 \in 1 .. Len(plan) + 1
      BY <1>4
    <3>5. TurnHeld'
      BY <1>1, <1>2, <3>1, <3>4 DEF TurnHeld
    <3>6. SuccessHeld'
      BY <1>3, <3>1 DEF SuccessHeld
    <3> QED
      BY <1>2, <3>2, <3>3, <3>5, <3>6
  <2>3. CASE ~keepGoing
    <3>1. pc' = "idle" /\ outcome' = "failed" /\ done' = {}
      BY <2>3, <1>6 DEF Migration!End
    <3>2. MigrationTyped'
      BY <1>1, <1>2, <2>1, <3>1 DEF MigrationTyped
    <3>3. KeysHeld'
      <4>1. \A k \in recorded' \cup done' : k \in recorded \cup done
        BY <2>1, <3>1
      <4> QED
        BY <1>1, <1>2, <3>1, <4>1 DEF KeysHeld
    <3>4. TurnHeld' /\ SuccessHeld'
      BY <3>1 DEF TurnHeld, SuccessHeld
    <3> QED
      BY <1>2, <3>2, <3>3, <3>4
  <2> QED
    BY <2>2, <2>3
<1> QED
  BY <1>5, <1>6 DEF Migration!Upload

\* What remains when a run ends.
LEMMA MigrationEnds ==
    ASSUME MigrationInv, pc # "idle", pc' = "idle", done' = {},
           recorded' \subseteq recorded \cup (IF pc = "record" THEN {plan[turn]} ELSE {}),
           extents' = extents, promised' = promised, objects' = objects, growth' = growth,
           runs' = runs,
           outcome' = "succeeded" => \A x \in promised : \E i \in Places : x \in objects[i]
    PROVE  MigrationInv'
<1> USE DEF MigrationInv
<1>1. MigrationTyped'
  BY DEF MigrationTyped
<1>2. KeysHeld'
  <2>1. PICK S \in SUBSET extents :
          /\ promised \subseteq S /\ plan = Migration!Chunks(S)
          /\ \A k \in recorded \cup done :
                Planned(k, S) /\ (Copied(k, promised, objects) \/ Outgrown(k, extents))
    BY DEF KeysHeld
  <2>2. ASSUME NEW k \in recorded'
        PROVE  Planned(k, S) /\ (Copied(k, promised, objects) \/ Outgrown(k, extents))
    <3>1. CASE k \in recorded
      BY <2>1, <3>1
    <3>2. CASE pc = "record" /\ k = plan[turn]
      <4>1. Copied(k, promised, objects) /\ turn \in 1 .. Len(plan) + 1 /\ turn <= Len(plan)
        BY <3>2 DEF TurnHeld
      <4>2. S \in SUBSET Places
        BY DEF MigrationTyped
      <4>3. Len(plan) \in Nat
        BY <2>1, <4>2, ChunkIsOfPlaces
      <4>4. turn \in 1 .. Len(plan)
        BY <4>1, <4>3
      <4>5. PICK i : i = turn
        OBVIOUS
      <4>6. Planned(k, S)
        BY <4>2, <4>4, <4>5, <3>2, <2>1, PlanIsCurrent
      <4> QED
        BY <4>1, <4>6
    <3> QED
      BY <3>1, <3>2
  <2> QED
    BY <2>1, <2>2 DEF KeysHeld
<1>3. TurnHeld' /\ ObjectsHeld'
  BY DEF TurnHeld, ObjectsHeld
<1>4. SuccessHeld'
  <2>1. runs > 0
    BY DEF MigrationTyped
  <2> QED
    BY <2>1 DEF SuccessHeld
<1> QED
  BY <1>1, <1>2, <1>3, <1>4

\* A chunk that is copied is entered.
LEMMA MigrationRecord ==
    ASSUME MigrationInv, Migration!Record
    PROVE  MigrationInv'
<1> USE DEF MigrationInv
<1> PICK b, n : b = plan[turn] /\ n = turn
  OBVIOUS
<1>1. /\ pc = "record" /\ recorded' \subseteq recorded \cup {b} /\ done' = done \cup {b}
      /\ turn' = turn + 1 /\ pc' = "copy"
      /\ extents' = extents /\ promised' = promised /\ objects' = objects /\ plan' = plan
      /\ failed' = failed /\ outcome' = outcome /\ runs' = runs /\ growth' = growth
  BY DEF Migration!Record, Migration!AppendLine, Migration!Chunk
<1>2. PICK S \in SUBSET extents :
        /\ promised \subseteq S /\ plan = Migration!Chunks(S)
        /\ \A k \in recorded \cup done :
              Planned(k, S) /\ (Copied(k, promised, objects) \/ Outgrown(k, extents))
  BY <1>1 DEF KeysHeld
<1>3. S \in SUBSET Places
  BY DEF MigrationTyped
<1>4. Len(plan) \in Nat /\ n \in 1 .. Len(plan) /\ Copied(b, promised, objects)
  <2>1. Len(plan) \in Nat
    BY <1>2, <1>3, ChunkIsOfPlaces
  <2>2. n \in 1 .. Len(plan) + 1 /\ n <= Len(plan) /\ Copied(b, promised, objects)
    BY <1>1 DEF TurnHeld
  <2> QED
    BY <2>1, <2>2
<1>5. Planned(b, S)
  BY <1>2, <1>3, <1>4, PlanIsCurrent
<1>6. MigrationTyped'
  BY <1>1 DEF MigrationTyped
<1>7. KeysHeld'
  <2>1. \A k \in recorded' \cup done' :
           Planned(k, S) /\ (Copied(k, promised, objects) \/ Outgrown(k, extents))
    BY <1>1, <1>2, <1>4, <1>5
  <2> QED
    BY <2>1, <1>1, <1>2 DEF KeysHeld
<1>8. TurnHeld'
  <2>1. \A i \in 1 .. Len(plan) :
           /\ i < n /\ ~failed => plan[i] \in done
           /\ plan[i] \in done => Copied(plan[i], promised, objects)
    BY <1>1 DEF TurnHeld
  <2>2. \A i \in 1 .. Len(plan) : i < n + 1 => i < n \/ i = n
    BY <1>4
  <2>3. \A i \in 1 .. Len(plan) :
           /\ i < n + 1 /\ ~failed => plan[i] \in done \cup {b}
           /\ plan[i] \in done \cup {b} => Copied(plan[i], promised, objects)
    BY <2>1, <2>2, <1>4
  <2>4. n + 1 \in 1 .. Len(plan) + 1
    BY <1>4
  <2> QED
    BY <2>3, <2>4, <1>1 DEF TurnHeld
<1>9. ObjectsHeld' /\ SuccessHeld'
  BY <1>1 DEF ObjectsHeld, SuccessHeld
<1> QED
  BY <1>6, <1>7, <1>8, <1>9

\* A run that went through its plan without a failure has copied the table.
LEMMA MigrationFinish ==
    ASSUME MigrationInv, Migration!Finish
    PROVE  MigrationInv'
<1>1. /\ pc = "copy" /\ turn > Len(plan) /\ pc' = "idle" /\ done' = {}
      /\ outcome' = IF failed THEN "failed" ELSE "succeeded"
      /\ extents' = extents /\ promised' = promised /\ objects' = objects /\ growth' = growth
      /\ runs' = runs /\ recorded' = recorded
  BY DEF Migration!Finish, Migration!End, Migration!file
<1>2. ASSUME ~failed, NEW x \in promised
      PROVE  \E i \in Places : x \in objects[i]
  <2>1. PICK S \in SUBSET extents : promised \subseteq S /\ plan = Migration!Chunks(S)
    BY <1>1 DEF MigrationInv, KeysHeld
  <2>2. S \in SUBSET Places
    BY DEF MigrationInv, MigrationTyped
  <2>3. \A y \in S : \E i \in 1 .. Len(plan) : plan[i][2] <= y /\ y <= plan[i][3]
    BY <2>1, <2>2, ChunkIsOfPlaces
  <2>4. PICK i \in 1 .. Len(plan) : plan[i][2] <= x /\ x <= plan[i][3]
    BY <2>1, <2>3
  <2>5. plan[i][1] = i /\ i \in Places /\ Len(plan) \in Nat
    BY <2>1, <2>2, ChunkIsOfPlaces
  <2>6. turn \in 1 .. Len(plan) + 1 /\ (i < turn => Copied(plan[i], promised, objects))
    BY <1>1, <1>2 DEF MigrationInv, TurnHeld
  <2>7. i < turn
    BY <2>5, <2>6, <1>1
  <2>8. x \in objects[i]
    BY <2>4, <2>5, <2>6, <2>7 DEF Copied
  <2> QED
    BY <2>5, <2>8
<1> QED
  BY <1>1, <1>2, MigrationEnds

\* The process dies.
LEMMA MigrationDie ==
    ASSUME MigrationInv, Migration!Die
    PROVE  MigrationInv'
<1>1. /\ pc # "idle" /\ pc' = "idle" /\ done' = {} /\ outcome' = "died"
      /\ extents' = extents /\ promised' = promised /\ objects' = objects /\ growth' = growth
      /\ runs' = runs
  BY DEF Migration!Die, Migration!End
<1>2. recorded' \subseteq recorded \cup (IF pc = "record" THEN {plan[turn]} ELSE {})
  BY DEF Migration!Die, Migration!TearLine, Migration!file, Migration!Chunk
<1> QED
  BY <1>1, <1>2, MigrationEnds

LEMMA MigrationKeeps ==
    ASSUME MigrationInv, [Migration!Next]_(Migration!vars)
    PROVE  MigrationInv'
<1>1. CASE UNCHANGED Migration!vars
  BY <1>1 DEF Migration!vars, Migration!file, MigrationInv, MigrationTyped, KeysHeld, TurnHeld,
      ObjectsHeld, SuccessHeld
<1>2. CASE Migration!Next
  BY <1>1, <1>2, MigrationGrow, MigrationStart, MigrationSkip, MigrationUpload, MigrationRecord,
      MigrationFinish, MigrationDie DEF Migration!Next, Migration!Over
<1> QED
  BY <1>1, <1>2

LEMMA MigrationCopiesOnce ==
    ASSUME MigrationInv
    PROVE  Migration!CopiedOnce
<1> SUFFICES ASSUME outcome = "succeeded"
             PROVE  /\ promised \subseteq UNION {objects[i] : i \in Places}
                    /\ growth = 0 => \A i, j \in Places :
                                        i # j => objects[i] \cap objects[j] = {}
  BY DEF Migration!CopiedOnce, Places, Migration!Numbers
<1>1. promised \subseteq UNION {objects[i] : i \in Places}
  BY DEF MigrationInv, SuccessHeld
<1>2. ASSUME growth = 0, NEW i \in Places, NEW j \in Places, i # j,
             NEW x \in objects[i], x \in objects[j]
      PROVE  FALSE
  <2> PICK c : c = Migration!Chunks(promised)
    OBVIOUS
  <2>1. /\ i <= Len(c) /\ c[i][2] <= x /\ x <= c[i][3]
        /\ j <= Len(c) /\ c[j][2] <= x /\ x <= c[j][3]
    BY <1>2 DEF MigrationInv, ObjectsHeld
  <2>2. promised \in SUBSET Places /\ x \in Places
    BY <1>2 DEF MigrationInv, MigrationTyped
  <2>3. i \in 1 .. Len(c) /\ j \in 1 .. Len(c)
    BY <2>1, <2>2, ChunkIsOfPlaces, PlacesAreNumbers
  <2>4. c[i][2] \in Nat /\ c[i][3] \in Nat /\ c[j][2] \in Nat /\ c[j][3] \in Nat /\ x \in Nat
    BY <2>2, <2>3, ChunkIsOfPlaces, PlacesAreNumbers
  <2>5. (i < j => c[i][3] < c[j][2]) /\ (j < i => c[j][3] < c[i][2])
    BY <2>2, <2>3, ChunkIsOfPlaces
  <2>6. i < j \/ j < i
    BY <1>2, <2>3
  <2> QED
    BY <2>1, <2>4, <2>5, <2>6
<1> QED
  BY <1>1, <1>2

\* The invariant of a migration, of which the theorem below is a consequence.
THEOREM MigrationInvariant == Spec => [](program = "migration" => MigrationInv)
<1> DEFINE Inv == program = "migration" => MigrationInv
<1>1. Init => Inv
  BY MigrationBegins DEF Init
<1>2. Inv /\ [Next]_vars => Inv'
  BY StepsAreApart, MigrationKeeps
<1> QED
  BY <1>1, <1>2, PTL DEF Spec

-----------------------------------------------------------------------------
(* The packing of tables into buckets (ParallelExtract).                    *)

eTables == Extract!Tables
eBuckets == Extract!Buckets

LEMMA ArgumentsOfExtract ==
    /\ NumTables \in Nat /\ eTables = 1 .. NumTables
    /\ NumBuckets \in Nat \ {0} /\ eBuckets = 1 .. NumBuckets
    /\ MaxConcurrentRuns \in Nat \ {0} /\ MaxRetries \in Nat
    /\ \A request \in ExtractRequests :
          request.seeds \subseteq eTables /\ request.edges \subseteq eTables \X eTables
    /\ \A tiers \in SizeTiers : tiers \in Seq([eTables -> Nat])
BY ConstantsArePossible
   DEF Extract!ArgumentsAreNumbers, Extract!Tables, Extract!Buckets, eTables, eBuckets

LEMMA SameCardinality ==
    ASSUME NEW S
    PROVE  Extract!Cardinality(S) = Cardinality(S)
BY DEF Extract!Cardinality, Cardinality

\* What the tables of B weigh, up to each table.
WeightTo(w, B) ==
    LET sum[t \in 0 .. NumTables] ==
            IF t = 0 THEN 0 ELSE sum[t - 1] + (IF t \in B THEN w[t] ELSE 0)
    IN  sum

AddsUp(f, w, B) ==
    /\ f \in [0 .. NumTables -> Nat] /\ f[0] = 0
    /\ \A t \in 1 .. NumTables : f[t] = f[t - 1] + (IF t \in B THEN w[t] ELSE 0)

LEMMA WeightsAddUp ==
    ASSUME NEW K \in SUBSET eTables, NEW w \in [K -> Nat], NEW B \in SUBSET K
    PROVE  AddsUp(WeightTo(w, B), w, B)
<1> DEFINE N == NumTables
           part(t) == IF t \in B THEN w[t] ELSE 0
           step == [t \in 1 .. N |-> [v \in Nat |-> v + part(t)]]
           Is(f) == f = [t \in 0 .. N |-> IF t = 0 THEN 0 ELSE f[t - 1] + part(t)]
<1>1. N \in Nat
  BY ArgumentsOfExtract
<1>2. \A t \in 1 .. N : part(t) \in Nat
  OBVIOUS
<1> HIDE DEF part, N
<1>3. step \in [1 .. N -> [Nat -> Nat]] /\ 0 \in Nat
  BY <1>2
<1>4. \A t \in 1 .. N, v \in Nat : step[t][v] = v + part(t)
  OBVIOUS
<1> HIDE DEF step
<1>5. PICK f \in [0 .. N -> Nat] : f[0] = 0 /\ \A t \in 1 .. N : f[t] = step[t][f[t - 1]]
  <2>1. \E f : Iterates(f, N, Nat, 0, step)
    BY <1>1, <1>3, IterationExists
  <2> QED
    BY <2>1 DEF Iterates
<1>6. Is(f)
  <2>1. ASSUME NEW t \in 0 .. N
        PROVE  f[t] = IF t = 0 THEN 0 ELSE f[t - 1] + part(t)
    <3>1. CASE t = 0
      BY <1>5, <3>1
    <3>2. CASE t # 0
      <4>1. t \in 1 .. N /\ t - 1 \in 0 .. N /\ f[t - 1] \in Nat
        BY <1>1, <3>2
      <4>2. f[t] = step[t][f[t - 1]]
        BY <1>5, <3>2
      <4> QED
        BY <1>4, <4>1, <4>2, <3>2
    <3> QED
      BY <3>1, <3>2
  <2> QED
    BY <2>1
<1> DEFINE sum == CHOOSE g : Is(g)
<1>7. WeightTo(w, B) = sum
  BY DEF WeightTo, N, part
<1>8. Is(sum)
  BY <1>6
<1> HIDE DEF sum
<1>9. \A t \in 0 .. N : sum[t] = IF t = 0 THEN 0 ELSE sum[t - 1] + part(t)
  BY <1>8
<1>10. sum = [t \in 0 .. N |-> sum[t]]
  <2>1. DOMAIN sum = 0 .. N /\ sum = [t \in DOMAIN sum |-> sum[t]]
    BY <1>8
  <2> QED
    BY <2>1
<1> HIDE DEF Is
<1>11. sum[0] = 0 /\ \A t \in 1 .. N : sum[t] = sum[t - 1] + part(t)
  <2>1. 0 \in 0 .. N /\ \A t \in 1 .. N : t \in 0 .. N /\ t # 0
    BY <1>1
  <2> QED
    BY <1>9, <2>1
<1> DEFINE P == {t \in 0 .. N : sum[t] \in Nat}
<1>12. 0 .. N \subseteq P
  <2>1. 0 \in P
    BY <1>1, <1>11
  <2>2. \A t \in 1 .. N : t - 1 \in P => t \in P
    BY <1>1, <1>2, <1>11
  <2> HIDE DEF P
  <2> QED
    BY <1>1, <2>1, <2>2, CountingUp
<1>13. sum \in [0 .. N -> Nat]
  BY <1>10, <1>12
<1> QED
  BY <1>7, <1>11, <1>13 DEF N, part, AddsUp

Weight(w, B) == WeightTo(w, B)[NumTables]

LEMMA NothingWeighsNothing ==
    ASSUME NEW K \in SUBSET eTables, NEW w \in [K -> Nat]
    PROVE  Weight(w, {}) = 0
<1> PICK f : f = WeightTo(w, {})
  OBVIOUS
<1>1. NumTables \in Nat
  BY ArgumentsOfExtract
<1>2. f[0] = 0 /\ \A t \in 1 .. NumTables : f[t] = f[t - 1] + 0
  <2>1. {} \in SUBSET K
    OBVIOUS
  <2>2. AddsUp(WeightTo(w, {}), w, {})
    BY <2>1, WeightsAddUp
  <2> QED
    BY <2>2 DEF AddsUp
<1> DEFINE P == {t \in 0 .. NumTables : f[t] = 0}
<1>3. 0 \in P
  BY <1>1, <1>2
<1>4. \A t \in 1 .. NumTables : t - 1 \in P => t \in P
  BY <1>1, <1>2
<1> HIDE DEF P
<1>5. 0 .. NumTables \subseteq P
  BY <1>1, <1>3, <1>4, CountingUp
<1> QED
  BY <1>1, <1>5 DEF P, Weight

\* A table adds its weight.
LEMMA OneMoreWeighs ==
    ASSUME NEW K \in SUBSET eTables, NEW w \in [K -> Nat], NEW B \in SUBSET K, NEW u \in K \ B
    PROVE  /\ Weight(w, B) \in Nat /\ w[u] \in Nat
           /\ Weight(w, B \cup {u}) = Weight(w, B) + w[u]
<1> PICK f, g, C : f = WeightTo(w, B) /\ g = WeightTo(w, C) /\ C = B \cup {u}
  OBVIOUS
<1>1. NumTables \in Nat /\ u \in 1 .. NumTables /\ w[u] \in Nat
  BY ArgumentsOfExtract
<1>2. /\ f \in [0 .. NumTables -> Nat] /\ f[0] = 0
      /\ \A t \in 1 .. NumTables : f[t] = f[t - 1] + (IF t \in B THEN w[t] ELSE 0)
  <2>1. AddsUp(WeightTo(w, B), w, B)
    BY WeightsAddUp
  <2> QED
    BY <2>1 DEF AddsUp
<1>3. /\ g \in [0 .. NumTables -> Nat] /\ g[0] = 0
      /\ \A t \in 1 .. NumTables : g[t] = g[t - 1] + (IF t \in C THEN w[t] ELSE 0)
  <2>1. C \in SUBSET K
    OBVIOUS
  <2>2. AddsUp(WeightTo(w, C), w, C)
    BY <2>1, WeightsAddUp
  <2> QED
    BY <2>2 DEF AddsUp
<1> DEFINE P == {t \in 0 .. NumTables : g[t] = f[t] + (IF u <= t THEN w[u] ELSE 0)}
<1>4. 0 \in P
  BY <1>1, <1>2, <1>3
<1>5. ASSUME NEW t \in 1 .. NumTables, t - 1 \in P
      PROVE  t \in P
  <2>1. g[t - 1] = f[t - 1] + (IF u <= t - 1 THEN w[u] ELSE 0)
    BY <1>5
  <2>2. /\ f[t] = f[t - 1] + (IF t \in B THEN w[t] ELSE 0)
        /\ g[t] = g[t - 1] + (IF t \in C THEN w[t] ELSE 0)
    BY <1>2, <1>3
  <2>3. t - 1 \in 0 .. NumTables /\ t \in 0 .. NumTables
    BY <1>1
  <2>4. f[t - 1] \in Nat /\ g[t - 1] \in Nat
    BY <1>2, <1>3, <2>3
  <2>5. CASE t = u
    <3>1. t \in C /\ t \notin B /\ ~(u <= t - 1) /\ u <= t
      BY <2>5, <1>1
    <3> QED
      BY <3>1, <2>1, <2>2, <2>3, <2>4, <2>5, <1>1
  <2>6. CASE t # u
    <3>1. (t \in C <=> t \in B) /\ (u <= t - 1 <=> u <= t)
      BY <2>6, <1>1
    <3>2. CASE t \in B
      <4>1. w[t] \in Nat
        BY <3>2
      <4>2. f[t] = f[t - 1] + w[t] /\ g[t] = g[t - 1] + w[t]
        BY <3>1, <3>2, <2>2
      <4>3. g[t] = f[t] + (IF u <= t THEN w[u] ELSE 0)
        BY <4>1, <4>2, <3>1, <2>1, <2>4, <1>1
      <4> QED
        BY <4>3, <2>3
    <3>3. CASE t \notin B
      <4>1. f[t] = f[t - 1] /\ g[t] = g[t - 1]
        BY <3>1, <3>3, <2>2, <2>4
      <4>2. g[t] = f[t] + (IF u <= t THEN w[u] ELSE 0)
        BY <4>1, <3>1, <2>1
      <4> QED
        BY <4>2, <2>3
    <3> QED
      BY <3>2, <3>3
  <2> QED
    BY <2>5, <2>6
<1> HIDE DEF P
<1>6. 0 .. NumTables \subseteq P
  <2>1. \A t \in 1 .. NumTables : t - 1 \in P => t \in P
    BY <1>5
  <2> QED
    BY <1>1, <1>4, <2>1, CountingUp
<1>7. g[NumTables] = f[NumTables] + w[u]
  <2>1. NumTables \in P /\ u <= NumTables
    BY <1>1, <1>6
  <2> QED
    BY <2>1 DEF P
<1>8. f[NumTables] \in Nat
  BY <1>1, <1>2
<1> QED
  BY <1>1, <1>7, <1>8 DEF Weight

\* The heaviest table and the lightest bucket are there.
LEMMA HeaviestIsLeft ==
    ASSUME NEW K \in SUBSET eTables, NEW w \in [K -> Nat], NEW left \in SUBSET K, left # {}
    PROVE  Extract!Heaviest(left, w) \in left
<1>1. left \in SUBSET Nat /\ IsFiniteSet(left)
  <2>1. left \in SUBSET (1 .. NumTables) /\ 1 \in Int /\ NumTables \in Int
    BY ArgumentsOfExtract
  <2>2. IsFiniteSet(1 .. NumTables)
    BY <2>1, FS_Interval
  <2>3. IsFiniteSet(left)
    BY <2>1, <2>2, FS_Subset
  <2>4. left \in SUBSET Nat
    BY <2>1
  <2> QED
    BY <2>3, <2>4
<1> DEFINE f == [u \in left |-> w[u]]
           W == {f[u] : u \in left}
<1>2. \A u \in left : f[u] = w[u] /\ w[u] \in Nat
  OBVIOUS
<1>3. DOMAIN f = left
  OBVIOUS
<1> HIDE DEF f
<1>4. IsFiniteSet(W)
  BY <1>1, <1>3, FiniteImage
<1>5. W \in SUBSET Int /\ W # {}
  BY <1>2
<1>6. PICK most \in W : \A v \in W : v <= most
  BY <1>4, <1>5, GreatestNumber
<1> DEFINE T == {u \in left : w[u] = most}
<1>7. T \in SUBSET Nat /\ T # {}
  BY <1>1, <1>2, <1>6
<1>8. PICK t \in T : \A u \in T : t <= u
  BY <1>7, LeastNumber
<1>9. most \in Nat /\ \A u \in left : w[u] <= most
  <2>1. \A u \in left : f[u] \in W
    OBVIOUS
  <2> QED
    BY <1>2, <1>6, <2>1
<1> HIDE DEF W
<1>10. \A u \in left : w[u] < w[t] \/ (w[u] = w[t] /\ t <= u)
  <2> TAKE u \in left
  <2>1. t \in left /\ w[t] = most /\ w[u] \in Nat /\ w[u] <= most
    BY <1>2, <1>8, <1>9
  <2>2. CASE w[u] = most
    BY <1>8, <2>1, <2>2
  <2>3. CASE w[u] # most
    BY <1>9, <2>1, <2>3
  <2> QED
    BY <2>2, <2>3
<1>11. t \in left
  BY <1>8
<1> QED
  BY <1>10, <1>11 DEF Extract!Heaviest

LEMMA LightestIsLightest ==
    ASSUME NEW totals \in [eBuckets -> Nat], NEW i, i = Extract!Lightest(totals)
    PROVE  i \in eBuckets /\ \A c \in eBuckets : totals[i] <= totals[c]
<1>1. eBuckets = 1 .. NumBuckets /\ NumBuckets \in Nat \ {0} /\ Extract!Buckets = eBuckets
  BY ArgumentsOfExtract DEF eBuckets
<1> DEFINE W == {totals[b] : b \in eBuckets}
<1>2. W \in SUBSET Nat /\ W # {}
  BY <1>1
<1>3. PICK least \in W : \A v \in W : least <= v
  BY <1>2, LeastNumber
<1> DEFINE T == {b \in eBuckets : totals[b] = least}
<1>4. T \in SUBSET Nat /\ T # {}
  BY <1>1, <1>3
<1>5. PICK b \in T : \A c \in T : b <= c
  BY <1>4, LeastNumber
<1>6. least \in Nat /\ \A c \in eBuckets : least <= totals[c] /\ totals[c] \in Nat
  BY <1>2, <1>3
<1> HIDE DEF W
<1>7. \A c \in eBuckets : totals[b] < totals[c] \/ (totals[b] = totals[c] /\ b <= c)
  <2> TAKE c \in eBuckets
  <2>1. CASE totals[c] = least
    BY <1>5, <2>1
  <2>2. CASE totals[c] # least
    BY <1>5, <1>6, <2>2
  <2> QED
    BY <2>1, <2>2
<1>8. b \in eBuckets
  BY <1>5
<1>9. /\ i \in eBuckets
      /\ \A c \in eBuckets : totals[i] < totals[c] \/ (totals[i] = totals[c] /\ i <= c)
  BY <1>1, <1>7, <1>8 DEF Extract!Lightest
<1> QED
  BY <1>9

\* What is packed: no table twice, the totals are right, and no two of them
\* differ by more than a table can weigh.
Placed(v) == UNION {v.buckets[b] : b \in eBuckets}

Packing(K, w, v) ==
    /\ v \in [buckets : [eBuckets -> SUBSET K], totals : [eBuckets -> Nat]]
    /\ \A b, c \in eBuckets : b # c => v.buckets[b] \cap v.buckets[c] = {}
    /\ \A b \in eBuckets : v.totals[b] = Weight(w, v.buckets[b])
    /\ \A most \in Nat : (\A u \in K : w[u] <= most) =>
          \A b, c \in eBuckets : v.totals[b] - v.totals[c] <= most

LEMMA NonePacking ==
    ASSUME NEW K \in SUBSET eTables, NEW w \in [K -> Nat]
    PROVE  Packing(K, w, Extract!NonePacked) /\ Placed(Extract!NonePacked) = {}
<1>1. Extract!NonePacked = [buckets |-> [b \in eBuckets |-> {}], totals |-> [b \in eBuckets |-> 0]]
  BY DEF Extract!NonePacked, eBuckets
<1> PICK v : v = Extract!NonePacked
  OBVIOUS
<1>2. /\ v \in [buckets : [eBuckets -> SUBSET K], totals : [eBuckets -> Nat]]
      /\ \A b \in eBuckets : v.buckets[b] = {} /\ v.totals[b] = 0
  BY <1>1
<1>3. Weight(w, {}) = 0
  BY NothingWeighsNothing
<1> QED
  BY <1>2, <1>3 DEF Packing, Placed

\* Another table is packed.
LEMMA OneMorePacking ==
    ASSUME NEW K \in SUBSET eTables, NEW w \in [K -> Nat], NEW v, Packing(K, w, v),
           Placed(v) # K
    PROVE  /\ Packing(K, w, Extract!OneMorePacked(v, w))
           /\ \E t \in K \ Placed(v) : Placed(Extract!OneMorePacked(v, w)) = Placed(v) \cup {t}
<1> PICK left : left = K \ Placed(v)
  OBVIOUS
<1> PICK t, i : t = Extract!Heaviest(left, w) /\ i = Extract!Lightest(v.totals)
  OBVIOUS
<1> DEFINE packed == [v.buckets EXCEPT ![i] = @ \cup {t}]
           totals == [v.totals EXCEPT ![i] = @ + w[t]]
           u == [buckets |-> packed, totals |-> totals]
<1>1. /\ v \in [buckets : [eBuckets -> SUBSET K], totals : [eBuckets -> Nat]]
      /\ v.buckets \in [eBuckets -> SUBSET K] /\ v.totals \in [eBuckets -> Nat]
      /\ DOMAIN w = K
  BY DEF Packing
<1>2. Placed(v) \subseteq K /\ left \in SUBSET K /\ left # {}
  BY <1>1 DEF Placed
<1>3. t \in K /\ t \notin Placed(v) /\ t \in left
  BY <1>2, HeaviestIsLeft
<1>4. i \in eBuckets /\ \A c \in eBuckets : v.totals[i] <= v.totals[c]
  BY <1>1, LightestIsLightest
<1>5. Extract!OneMorePacked(v, w) = u
  <2>1. DOMAIN w \ UNION {v.buckets[b] : b \in Extract!Buckets} = left
    BY <1>1 DEF Placed, eBuckets
  <2> QED
    BY <2>1 DEF Extract!OneMorePacked
<1>6. w[t] \in Nat /\ v.totals[i] \in Nat
  BY <1>1, <1>3, <1>4
<1>7. /\ packed \in [eBuckets -> SUBSET K] /\ packed[i] = v.buckets[i] \cup {t}
      /\ \A b \in eBuckets : b # i => packed[b] = v.buckets[b]
  BY <1>1, <1>3, <1>4
<1>8. /\ totals \in [eBuckets -> Nat] /\ totals[i] = v.totals[i] + w[t]
      /\ \A b \in eBuckets : b # i => totals[b] = v.totals[b]
  BY <1>1, <1>4, <1>6
<1>9. u \in [buckets : [eBuckets -> SUBSET K], totals : [eBuckets -> Nat]]
  BY <1>7, <1>8
<1>10. u.buckets = packed /\ u.totals = totals
  OBVIOUS
<1> HIDE DEF u, packed, totals
<1>11. \A b \in eBuckets : t \notin v.buckets[b]
  BY <1>3 DEF Placed
<1>12. ASSUME NEW b \in eBuckets, NEW c \in eBuckets, b # c
       PROVE  packed[b] \cap packed[c] = {}
  <2>1. v.buckets[b] \cap v.buckets[c] = {}
    BY <1>12 DEF Packing
  <2>2. CASE b = i
    BY <2>1, <2>2, <1>7, <1>11, <1>12
  <2>3. CASE c = i
    BY <2>1, <2>3, <1>7, <1>11, <1>12
  <2>4. CASE b # i /\ c # i
    BY <2>1, <2>4, <1>7
  <2> QED
    BY <2>2, <2>3, <2>4
<1>13. ASSUME NEW b \in eBuckets
       PROVE  totals[b] = Weight(w, packed[b])
  <2>1. v.totals[b] = Weight(w, v.buckets[b])
    BY DEF Packing
  <2>2. CASE b # i
    BY <2>1, <2>2, <1>7, <1>8
  <2>3. CASE b = i
    <3>1. v.buckets[b] \in SUBSET K /\ t \in K \ v.buckets[b]
      BY <1>1, <1>3, <1>11
    <3>2. Weight(w, v.buckets[b] \cup {t}) = Weight(w, v.buckets[b]) + w[t]
      BY <3>1, OneMoreWeighs
    <3> QED
      BY <2>1, <2>3, <3>2, <1>7, <1>8
  <2> QED
    BY <2>2, <2>3
<1>14. ASSUME NEW most \in Nat, \A x \in K : w[x] <= most,
              NEW b \in eBuckets, NEW c \in eBuckets
       PROVE  totals[b] - totals[c] <= most
  <2>1. v.totals[b] - v.totals[c] <= most
    BY <1>14 DEF Packing
  <2>2. /\ v.totals[b] \in Nat /\ v.totals[c] \in Nat /\ w[t] <= most
        /\ v.totals[i] <= v.totals[c]
    BY <1>1, <1>3, <1>4, <1>14
  <2>3. CASE b = i /\ c = i
    <3>1. totals[b] - totals[c] = 0
      BY <2>3, <1>6, <1>8
    <3> QED
      BY <3>1
  <2>4. CASE b = i /\ c # i
    <3>1. totals[b] = v.totals[i] + w[t] /\ totals[c] = v.totals[c]
      BY <2>4, <1>8
    <3> QED
      BY <3>1, <2>2, <1>6
  <2>5. CASE b # i /\ c = i
    <3>1. totals[c] = v.totals[c] + w[t] /\ totals[b] = v.totals[b]
      BY <2>5, <1>8
    <3> QED
      BY <3>1, <2>1, <2>2, <1>6
  <2>6. CASE b # i /\ c # i
    BY <2>6, <2>1, <1>8
  <2> QED
    BY <2>3, <2>4, <2>5, <2>6
<1>15. Packing(K, w, u)
  BY <1>9, <1>10, <1>12, <1>13, <1>14 DEF Packing
<1>16. Placed(u) = Placed(v) \cup {t}
  <2>1. \A b \in eBuckets : packed[b] \subseteq v.buckets[b] \cup {t} /\ v.buckets[b] \subseteq packed[b]
    BY <1>7
  <2>2. t \in packed[i]
    BY <1>7
  <2>3. ASSUME NEW x
        PROVE  x \in Placed(u) <=> x \in Placed(v) \cup {t}
    <3>1. x \in Placed(u) <=> \E b \in eBuckets : x \in packed[b]
      BY <1>10 DEF Placed
    <3>2. x \in Placed(v) <=> \E b \in eBuckets : x \in v.buckets[b]
      BY DEF Placed
    <3> QED
      BY <3>1, <3>2, <2>1, <2>2, <1>4
  <2> QED
    BY <2>3
<1> QED
  BY <1>3, <1>5, <1>15, <1>16

\* bin_pack can go on table by table.
LEMMA BinPackingExists ==
    ASSUME NEW w, NEW size \in Nat
    PROVE  \E f : f = [n \in 0 .. size |->
                          IF n = 0 THEN Extract!NonePacked ELSE Extract!OneMorePacked(f[n - 1], w)]
<1> DEFINE Upto(f, k) ==
             f = [n \in 0 .. k |->
                     IF n = 0 THEN Extract!NonePacked ELSE Extract!OneMorePacked(f[n - 1], w)]
           P == {k \in 0 .. size : \E f : Upto(f, k)}
<1>1. 0 \in P
  <2> DEFINE f == [n \in 0 .. 0 |-> Extract!NonePacked]
  <2>1. Upto(f, 0)
    OBVIOUS
  <2>2. 0 \in 0 .. size
    OBVIOUS
  <2> QED
    BY <2>1, <2>2
<1>2. ASSUME NEW k \in 1 .. size, k - 1 \in P
      PROVE  k \in P
  <2>1. PICK f : Upto(f, k - 1)
    BY <1>2
  <2> DEFINE g == [n \in 0 .. k |-> IF n = k THEN Extract!OneMorePacked(f[k - 1], w) ELSE f[n]]
  <2>2. ASSUME NEW n \in 0 .. k
        PROVE  g[n] = IF n = 0 THEN Extract!NonePacked ELSE Extract!OneMorePacked(g[n - 1], w)
    <3>1. CASE n = 0
      BY <3>1, <2>1
    <3>2. CASE n # 0 /\ n # k
      <4>1. n \in 0 .. k - 1 /\ n - 1 \in 0 .. k - 1 /\ n - 1 # k
        BY <3>2
      <4>2. f[n] = Extract!OneMorePacked(f[n - 1], w)
        BY <4>1, <3>2, <2>1
      <4>3. g[n] = f[n] /\ g[n - 1] = f[n - 1]
        BY <4>1, <3>2
      <4> QED
        BY <4>2, <4>3, <3>2
    <3>3. CASE n # 0 /\ n = k
      <4>1. n - 1 \in 0 .. k /\ n - 1 # k
        BY <3>3
      <4>2. g[n] = Extract!OneMorePacked(f[k - 1], w) /\ g[n - 1] = f[n - 1]
        BY <4>1, <3>3
      <4> QED
        BY <4>2, <3>3
    <3> QED
      BY <3>1, <3>2, <3>3
  <2>3. g = [n \in 0 .. k |-> g[n]]
    OBVIOUS
  <2> HIDE DEF g
  <2>4. Upto(g, k)
    BY <2>2, <2>3
  <2> QED
    BY <2>4
<1> HIDE DEF P
<1>3. size \in P
  <2>1. \A k \in 1 .. size : k - 1 \in P => k \in P
    BY <1>2
  <2>2. 0 .. size \subseteq P
    BY <1>1, <2>1, CountingUp
  <2> QED
    BY <2>2
<1> QED
  BY <1>3 DEF P

\* What the buckets of a plan are: every table is in one of them, and no two
\* of them differ by more than a table can weigh.
Packed(K, w, packed) ==
    /\ packed \in [eBuckets -> SUBSET K]
    /\ \A t \in K : \E b \in eBuckets : t \in packed[b]
    /\ \A b, c \in eBuckets : b # c => packed[b] \cap packed[c] = {}
    /\ \A most \in Nat : (\A u \in K : w[u] <= most) =>
          \A b, c \in eBuckets : Weight(w, packed[b]) - Weight(w, packed[c]) <= most

LEMMA BinPackPacks ==
    ASSUME NEW K \in SUBSET eTables, NEW w \in [K -> Nat]
    PROVE  Packed(K, w, Extract!BinPack(w))
<1> DEFINE size == Extract!Cardinality(DOMAIN w)
           Is(f) == f = [n \in 0 .. size |-> IF n = 0 THEN Extract!NonePacked
                                             ELSE Extract!OneMorePacked(f[n - 1], w)]
           packing == CHOOSE f : Is(f)
<1>1. IsFiniteSet(K) /\ size \in Nat /\ size = Cardinality(K)
  <2>1. K \in SUBSET (1 .. NumTables) /\ 1 \in Int /\ NumTables \in Int /\ DOMAIN w = K
    BY ArgumentsOfExtract
  <2>2. IsFiniteSet(1 .. NumTables)
    BY <2>1, FS_Interval
  <2>3. IsFiniteSet(K)
    BY <2>1, <2>2, FS_Subset
  <2> QED
    BY <2>1, <2>3, FS_CardinalityType, SameCardinality
<1>2. Extract!BinPack(w) = packing[size].buckets
  BY DEF Extract!BinPack
<1> HIDE DEF size
<1>3. Is(packing)
  BY <1>1, BinPackingExists
<1> HIDE DEF packing
<1>4. \A n \in 0 .. size : packing[n] = IF n = 0 THEN Extract!NonePacked
                                        ELSE Extract!OneMorePacked(packing[n - 1], w)
  BY <1>3
<1> HIDE DEF Is
<1> DEFINE P == {n \in 0 .. size : /\ Packing(K, w, packing[n])
                                   /\ Placed(packing[n]) \subseteq K
                                   /\ Cardinality(Placed(packing[n])) = n}
<1>5. 0 \in P
  <2>1. packing[0] = Extract!NonePacked /\ 0 \in 0 .. size
    BY <1>1, <1>4
  <2>2. Packing(K, w, Extract!NonePacked) /\ Placed(Extract!NonePacked) = {}
    BY NonePacking
  <2> QED
    BY <2>1, <2>2, FS_EmptySet
<1>6. ASSUME NEW n \in 1 .. size, n - 1 \in P
      PROVE  n \in P
  <2> PICK v : v = packing[n - 1]
    OBVIOUS
  <2>1. /\ Packing(K, w, v) /\ Placed(v) \subseteq K /\ Cardinality(Placed(v)) = n - 1
        /\ n \in 0 .. size /\ n # 0
    BY <1>6, <1>1
  <2>2. packing[n] = Extract!OneMorePacked(v, w)
    BY <1>4, <2>1
  <2>3. Placed(v) # K
    BY <2>1, <1>1
  <2>4. Packing(K, w, packing[n])
    BY <2>1, <2>2, <2>3, OneMorePacking
  <2>5. PICK t \in K \ Placed(v) : Placed(packing[n]) = Placed(v) \cup {t}
    BY <2>1, <2>2, <2>3, OneMorePacking
  <2>6. IsFiniteSet(Placed(v))
    BY <2>1, <1>1, FS_Subset
  <2>7. Cardinality(Placed(v) \cup {t}) = Cardinality(Placed(v)) + 1
    BY <2>5, <2>6, FS_AddElement
  <2>8. Placed(packing[n]) \subseteq K /\ Cardinality(Placed(packing[n])) = n
    BY <2>1, <2>5, <2>7
  <2> QED
    BY <2>1, <2>4, <2>8
<1> HIDE DEF P
<1>7. size \in P
  <2>1. \A n \in 1 .. size : n - 1 \in P => n \in P
    BY <1>6
  <2>2. 0 .. size \subseteq P
    BY <1>1, <1>5, <2>1, CountingUp
  <2> QED
    BY <1>1, <2>2
<1> PICK v : v = packing[size]
  OBVIOUS
<1>8. Packing(K, w, v) /\ Placed(v) \subseteq K /\ Cardinality(Placed(v)) = Cardinality(K)
  BY <1>7, <1>1 DEF P
<1>9. Placed(v) = K
  BY <1>1, <1>8, FS_Subset
<1>10. v.buckets \in [eBuckets -> SUBSET K] /\ v.totals \in [eBuckets -> Nat]
  BY <1>8 DEF Packing
<1>11. \A t \in K : \E b \in eBuckets : t \in v.buckets[b]
  BY <1>9 DEF Placed
<1>12. \A b, c \in eBuckets : b # c => v.buckets[b] \cap v.buckets[c] = {}
  BY <1>8 DEF Packing
<1>13. \A most \in Nat : (\A u \in K : w[u] <= most) =>
          \A b, c \in eBuckets : Weight(w, v.buckets[b]) - Weight(w, v.buckets[c]) <= most
  <2> SUFFICES ASSUME NEW most \in Nat, \A u \in K : w[u] <= most,
                      NEW b \in eBuckets, NEW c \in eBuckets
               PROVE  Weight(w, v.buckets[b]) - Weight(w, v.buckets[c]) <= most
    OBVIOUS
  <2>1. v.totals[b] - v.totals[c] <= most
    BY <1>8 DEF Packing
  <2>2. v.totals[b] = Weight(w, v.buckets[b]) /\ v.totals[c] = Weight(w, v.buckets[c])
    BY <1>8 DEF Packing
  <2> QED
    BY <2>1, <2>2
<1> QED
  BY <1>2, <1>10, <1>11, <1>12, <1>13 DEF Packed

-----------------------------------------------------------------------------
(* Sequences without repetition.                                            *)

Once(s) == \A i, j \in 1 .. Len(s) : s[i] = s[j] => i = j
In(s) == {s[i] : i \in 1 .. Len(s)}

LEMMA AppendOnce ==
    ASSUME NEW B, NEW s \in Seq(B), Once(s), NEW b \in B, b \notin In(s)
    PROVE  /\ Append(s, b) \in Seq(B) /\ Once(Append(s, b))
           /\ In(Append(s, b)) = In(s) \cup {b} /\ Len(Append(s, b)) = Len(s) + 1
<1> PICK n, t : n = Len(s) /\ t = Append(s, b)
  OBVIOUS
<1>1. /\ t \in Seq(B) /\ n \in Nat /\ Len(t) = n + 1 /\ t[n + 1] = b
      /\ \A i \in 1 .. n : t[i] = s[i]
  OBVIOUS
<1>2. \A i \in 1 .. n + 1 : i \in 1 .. n \/ i = n + 1
  BY <1>1
<1>3. \A i \in 1 .. n : s[i] # b
  BY DEF In
<1>4. \A i, j \in 1 .. n : s[i] = s[j] => i = j
  BY DEF Once
<1>5. Once(t)
  <2> SUFFICES ASSUME NEW i \in 1 .. n + 1, NEW j \in 1 .. n + 1, t[i] = t[j]
               PROVE  i = j
    BY <1>1 DEF Once
  <2>1. CASE i \in 1 .. n /\ j \in 1 .. n
    BY <2>1, <1>1, <1>4
  <2>2. CASE i = n + 1 /\ j \in 1 .. n
    BY <2>2, <1>1, <1>3
  <2>3. CASE i \in 1 .. n /\ j = n + 1
    BY <2>3, <1>1, <1>3
  <2> QED
    BY <2>1, <2>2, <2>3, <1>2
<1>6. In(t) = In(s) \cup {b}
  <2>1. In(t) = {t[i] : i \in 1 .. n + 1} /\ In(s) = {s[i] : i \in 1 .. n}
    BY <1>1 DEF In
  <2>2. 1 .. n + 1 = (1 .. n) \cup {n + 1}
    BY <1>1
  <2> QED
    BY <2>1, <2>2, <1>1
<1> QED
  BY <1>1, <1>5, <1>6

LEMMA TailOnce ==
    ASSUME NEW B, NEW s \in Seq(B), Once(s), s # << >>
    PROVE  /\ Tail(s) \in Seq(B) /\ Once(Tail(s)) /\ Head(s) \in B
           /\ In(Tail(s)) = In(s) \ {Head(s)} /\ Head(s) \in In(s)
<1> PICK n, t, b : n = Len(s) /\ t = Tail(s) /\ b = Head(s)
  OBVIOUS
<1>1. /\ n \in Nat \ {0} /\ t \in Seq(B) /\ Len(t) = n - 1 /\ b = s[1] /\ b \in B
      /\ \A i \in 1 .. n - 1 : t[i] = s[i + 1]
  OBVIOUS
<1>2. \A i, j \in 1 .. n : s[i] = s[j] => i = j
  BY DEF Once
<1>3. 1 \in 1 .. n /\ \A i \in 1 .. n - 1 : i + 1 \in 1 .. n /\ i + 1 # 1
  BY <1>1
<1>4. Once(t)
  <2> SUFFICES ASSUME NEW i \in 1 .. n - 1, NEW j \in 1 .. n - 1, t[i] = t[j]
               PROVE  i = j
    BY <1>1 DEF Once
  <2>1. i + 1 = j + 1
    BY <1>1, <1>2, <1>3
  <2> QED
    BY <2>1, <1>1
<1>5. In(t) = {t[i] : i \in 1 .. n - 1} /\ In(s) = {s[i] : i \in 1 .. n}
  BY <1>1 DEF In
<1>6. \A x : x \in In(t) <=> x \in In(s) /\ x # b
  <2> SUFFICES ASSUME NEW x
               PROVE  x \in In(t) <=> x \in In(s) /\ x # b
    OBVIOUS
  <2>1. ASSUME x \in In(t)
        PROVE  x \in In(s) /\ x # b
    <3>1. PICK i \in 1 .. n - 1 : x = t[i]
      BY <2>1, <1>5
    <3>2. x = s[i + 1] /\ i + 1 \in 1 .. n /\ i + 1 # 1
      BY <3>1, <1>1, <1>3
    <3> QED
      BY <3>2, <1>1, <1>2, <1>3, <1>5
  <2>2. ASSUME x \in In(s), x # b
        PROVE  x \in In(t)
    <3>1. PICK j \in 1 .. n : x = s[j]
      BY <2>2, <1>5
    <3>2. j # 1 /\ j - 1 \in 1 .. n - 1 /\ j - 1 + 1 = j
      BY <3>1, <2>2, <1>1
    <3>3. t[j - 1] = x
      BY <3>1, <3>2, <1>1
    <3> QED
      BY <3>2, <3>3, <1>5
  <2> QED
    BY <2>1, <2>2
<1>7. In(t) = In(s) \ {b} /\ b \in In(s)
  BY <1>1, <1>3, <1>5, <1>6
<1> QED
  BY <1>1, <1>4, <1>7

\* As Drop takes a bucket from those in flight.
Without(s, i) == [j \in 1 .. Len(s) - 1 |-> s[IF j < i THEN j ELSE j + 1]]

LEMMA DroppedOnce ==
    ASSUME NEW B, NEW s \in Seq(B), Once(s), NEW i \in 1 .. Len(s)
    PROVE  /\ Without(s, i) \in Seq(B) /\ Once(Without(s, i))
           /\ Len(Without(s, i)) = Len(s) - 1 /\ In(Without(s, i)) = In(s) \ {s[i]}
<1> PICK n, t : n = Len(s) /\ t = Without(s, i)
  OBVIOUS
<1> DEFINE at_(j) == IF j < i THEN j ELSE j + 1
<1>1. n \in Nat \ {0} /\ i \in 1 .. n /\ \A j \in 1 .. n : s[j] \in B
  OBVIOUS
<1>2. \A j \in 1 .. n - 1 : at_(j) \in 1 .. n /\ at_(j) # i
  BY <1>1
<1>3. \A j, k \in 1 .. n - 1 : at_(j) = at_(k) => j = k
  BY <1>1
<1>4. \A k \in 1 .. n : k # i => \E j \in 1 .. n - 1 : at_(j) = k
  <2> SUFFICES ASSUME NEW k \in 1 .. n, k # i
               PROVE  \E j \in 1 .. n - 1 : at_(j) = k
    OBVIOUS
  <2>1. CASE k < i
    <3>1. k \in 1 .. n - 1 /\ at_(k) = k
      BY <2>1, <1>1
    <3> QED
      BY <3>1
  <2>2. CASE k > i
    <3>1. k - 1 \in 1 .. n - 1 /\ at_(k - 1) = k
      BY <2>2, <1>1
    <3> QED
      BY <3>1
  <2> QED
    BY <2>1, <2>2, <1>1
<1>5. t = [j \in 1 .. n - 1 |-> s[at_(j)]]
  BY DEF Without
<1> HIDE DEF at_
<1>6. /\ t \in [1 .. n - 1 -> B] /\ \A j \in 1 .. n - 1 : t[j] = s[at_(j)]
  BY <1>1, <1>2, <1>5
<1>7. t \in Seq(B) /\ Len(t) = n - 1
  <2>1. n - 1 \in Nat
    BY <1>1
  <2> QED
    BY <2>1, <1>6
<1>8. \A j, k \in 1 .. n : s[j] = s[k] => j = k
  BY DEF Once
<1>9. Once(t)
  <2> SUFFICES ASSUME NEW j \in 1 .. n - 1, NEW k \in 1 .. n - 1, t[j] = t[k]
               PROVE  j = k
    BY <1>7 DEF Once
  <2>1. at_(j) = at_(k)
    BY <1>2, <1>6, <1>8
  <2> QED
    BY <2>1, <1>3
<1>10. In(t) = {t[j] : j \in 1 .. n - 1} /\ In(s) = {s[j] : j \in 1 .. n}
  BY <1>7 DEF In
<1>11. ASSUME NEW x
       PROVE  x \in In(t) <=> x \in In(s) /\ x # s[i]
  <2>1. ASSUME x \in In(t)
        PROVE  x \in In(s) /\ x # s[i]
    <3>1. PICK j \in 1 .. n - 1 : x = t[j]
      BY <2>1, <1>10
    <3>2. x = s[at_(j)] /\ at_(j) \in 1 .. n /\ at_(j) # i
      BY <3>1, <1>2, <1>6
    <3> QED
      BY <3>2, <1>1, <1>8, <1>10
  <2>2. ASSUME x \in In(s), x # s[i]
        PROVE  x \in In(t)
    <3>1. PICK k \in 1 .. n : x = s[k]
      BY <2>2, <1>10
    <3>2. PICK j \in 1 .. n - 1 : at_(j) = k
      BY <3>1, <2>2, <1>4
    <3>3. x = t[j]
      BY <3>1, <3>2, <1>6
    <3> QED
      BY <3>3, <1>10
  <2> QED
    BY <2>1, <2>2
<1> QED
  BY <1>7, <1>9, <1>11

\* run_buckets starts with the buckets that are not empty.
LEMMA FilledAreListed ==
    ASSUME NEW packed
    PROVE  /\ Extract!Filled(packed) \in Seq(eBuckets) /\ Once(Extract!Filled(packed))
           /\ In(Extract!Filled(packed)) = {b \in eBuckets : packed[b] # {}}
<1> DEFINE N == NumBuckets
           next(s, b) == IF packed[b] = {} THEN s ELSE Append(s, b)
           V == Seq(eBuckets)
           step == [b \in 1 .. N |-> [s \in V |-> next(s, b)]]
           Is(f) == f = [b \in 0 .. N |->
                            IF b = 0 THEN << >>
                            ELSE IF packed[b] = {} THEN f[b - 1] ELSE Append(f[b - 1], b)]
           listed == CHOOSE f : Is(f)
<1>1. N \in Nat /\ eBuckets = 1 .. N
  BY ArgumentsOfExtract
<1>2. ASSUME NEW b \in 1 .. N, NEW s \in V
      PROVE  next(s, b) \in V
  <2>1. s \in Seq(eBuckets) /\ b \in eBuckets
    BY <1>1
  <2>2. Append(s, b) \in Seq(eBuckets)
    BY <2>1
  <2> QED
    BY <2>1, <2>2
<1>3. << >> \in V
  OBVIOUS
<1>4. Extract!Filled(packed) = listed[N]
  BY DEF Extract!Filled
<1> HIDE DEF N, V, next
<1>5. step \in [1 .. N -> [V -> V]]
  BY <1>2
<1>6. \A b \in 1 .. N, s \in V : step[b][s] = next(s, b)
  OBVIOUS
<1> HIDE DEF step
<1>7. PICK f \in [0 .. N -> V] : f[0] = << >> /\ \A b \in 1 .. N : f[b] = step[b][f[b - 1]]
  <2>1. \E f : Iterates(f, N, V, << >>, step)
    BY <1>1, <1>3, <1>5, IterationExists
  <2> QED
    BY <2>1 DEF Iterates
<1>8. Is(f)
  <2>1. ASSUME NEW b \in 0 .. N
        PROVE  f[b] = IF b = 0 THEN << >> ELSE next(f[b - 1], b)
    <3>1. CASE b = 0
      BY <1>7, <3>1
    <3>2. CASE b # 0
      <4>1. b \in 1 .. N /\ b - 1 \in 0 .. N /\ f[b - 1] \in V
        BY <1>1, <3>2
      <4>2. f[b] = step[b][f[b - 1]]
        BY <1>7, <4>1
      <4> QED
        BY <1>6, <4>1, <4>2, <3>2
    <3> QED
      BY <3>1, <3>2
  <2>2. f = [b \in 0 .. N |-> f[b]]
    OBVIOUS
  <2>3. f = [b \in 0 .. N |-> IF b = 0 THEN << >> ELSE next(f[b - 1], b)]
    BY <2>1, <2>2
  <2> QED
    BY <2>3 DEF next
<1>9. Is(listed)
  BY <1>8
<1> HIDE DEF listed
<1>10. \A b \in 0 .. N : listed[b] = IF b = 0 THEN << >>
                                     ELSE IF packed[b] = {} THEN listed[b - 1]
                                     ELSE Append(listed[b - 1], b)
  BY <1>9
<1> HIDE DEF Is
<1> DEFINE Good(b, s) == /\ s \in V /\ Once(s)
                         /\ \A c : c \in In(s) <=> c \in 1 .. b /\ packed[c] # {}
           P == {b \in 0 .. N : Good(b, listed[b])}
<1>11. 0 \in P
  <2>1. listed[0] = << >> /\ 0 \in 0 .. N
    BY <1>1, <1>10
  <2>2. Once(<< >>) /\ In(<< >>) = {}
    BY DEF Once, In
  <2> QED
    BY <2>1, <2>2, <1>3
<1>12. ASSUME NEW b \in 1 .. N, b - 1 \in P
       PROVE  b \in P
  <2> PICK s : s = listed[b - 1]
    OBVIOUS
  <2>1. Good(b - 1, s) /\ b \in 0 .. N /\ b # 0 /\ b \in eBuckets
    BY <1>12, <1>1
  <2>2. \A c : c \in 1 .. b <=> c \in 1 .. b - 1 \/ c = b
    BY <1>1
  <2>3. CASE packed[b] = {}
    <3>1. listed[b] = s
      BY <2>1, <2>3, <1>10
    <3> QED
      BY <2>1, <2>2, <2>3, <3>1
  <2>4. CASE packed[b] # {}
    <3>1. listed[b] = Append(s, b)
      BY <2>1, <2>4, <1>10
    <3>2. b \notin In(s) /\ s \in Seq(eBuckets) /\ Once(s)
      BY <2>1 DEF V
    <3>3. /\ Append(s, b) \in Seq(eBuckets) /\ Once(Append(s, b))
          /\ In(Append(s, b)) = In(s) \cup {b}
      BY <2>1, <3>2, AppendOnce
    <3> QED
      BY <2>1, <2>2, <2>4, <3>1, <3>3 DEF V
  <2> QED
    BY <2>3, <2>4
<1> HIDE DEF P
<1>13. N \in P
  <2>1. \A b \in 1 .. N : b - 1 \in P => b \in P
    BY <1>12
  <2>2. 0 .. N \subseteq P
    BY <1>1, <1>11, <2>1, CountingUp
  <2> QED
    BY <1>1, <2>2
<1>14. Good(N, listed[N])
  BY <1>13 DEF P
<1> QED
  BY <1>1, <1>4, <1>14 DEF V

\* merge_size_tiers: the first size found is one, and so is a median.
LEMMA RankedIsThere ==
    ASSUME NEW K \in SUBSET eTables, NEW size \in [K -> Nat],
           NEW n \in 0 .. Cardinality(K) - 1
    PROVE  Extract!Ranked(size, n) \in K
<1>1. IsFiniteSet(K) /\ K \subseteq Nat
  <2>1. K \in SUBSET (1 .. NumTables) /\ 1 \in Int /\ NumTables \in Int
    BY ArgumentsOfExtract
  <2>2. IsFiniteSet(1 .. NumTables)
    BY <2>1, FS_Interval
  <2>3. IsFiniteSet(K)
    BY <2>1, <2>2, FS_Subset
  <2>4. K \subseteq Nat
    BY <2>1
  <2> QED
    BY <2>3, <2>4
<1> DEFINE below == [t \in K |-> Extract!Lighter(size, t)]
<1>2. \A t \in K : Extract!Lighter(size, t)
                      = {u \in K : size[u] < size[t] \/ (size[u] = size[t] /\ u < t)}
  BY DEF Extract!Lighter
<1>3. below \in [K -> SUBSET K] /\ \A t \in K : below[t] = Extract!Lighter(size, t)
  BY <1>2
<1> HIDE DEF below
<1>4. \A a \in K : size[a] \in Nat /\ a \in Nat
  BY <1>1
<1>5. \A a, b \in K : a \in below[b] <=> size[a] < size[b] \/ (size[a] = size[b] /\ a < b)
  BY <1>2, <1>3
<1>6. \A a, b \in K : a # b => a \in below[b] \/ b \in below[a]
  BY <1>4, <1>5
<1>7. \A a \in K : a \notin below[a]
  BY <1>4, <1>5
<1>8. \A a, b \in K : a \in below[b] => below[a] \subseteq below[b]
  <2> SUFFICES ASSUME NEW a \in K, NEW b \in K, a \in below[b], NEW c \in below[a]
               PROVE  c \in below[b]
    OBVIOUS
  <2>1. c \in K /\ size[a] \in Nat /\ size[b] \in Nat /\ size[c] \in Nat
        /\ a \in Nat /\ b \in Nat /\ c \in Nat
    BY <1>3, <1>4
  <2>2. size[a] < size[b] \/ (size[a] = size[b] /\ a < b)
    BY <1>5
  <2>3. size[c] < size[a] \/ (size[c] = size[a] /\ c < a)
    BY <1>5, <2>1
  <2>4. size[c] < size[b] \/ (size[c] = size[b] /\ c < b)
    BY <2>1, <2>2, <2>3
  <2> QED
    BY <1>5, <2>1, <2>4
<1>9. \E t \in K : Cardinality(below[t]) = n
  <2>1. /\ IsFiniteSet(K) /\ below \in [K -> SUBSET K]
        /\ \A a, b \in K : a # b => a \in below[b] \/ b \in below[a]
        /\ \A a \in K : a \notin below[a]
        /\ \A a, b \in K : a \in below[b] => below[a] \subseteq below[b]
    BY <1>1, <1>3, <1>6, <1>7, <1>8
  <2>2. \A m \in 0 .. Cardinality(K) - 1 : \E a \in K : Cardinality(below[a]) = m
    BY <2>1, RanksAreABijection, SMTT(60)
  <2> QED
    BY <2>2
<1>10. PICK t \in K : Extract!Cardinality(Extract!Lighter(size, t)) = n
  BY <1>3, <1>9, SameCardinality
<1>11. DOMAIN size = K
  OBVIOUS
<1> QED
  BY <1>10, <1>11 DEF Extract!Ranked

LEMMA SizesAreMerged ==
    ASSUME NEW K \in SUBSET eTables, NEW tiers \in SizeTiers
    PROVE  Extract!MergeSizeTiers(K, tiers) \in [K -> Nat]
<1> DEFINE known == {t \in K : Extract!Resolved(tiers, t) # {}}
           size == [t \in known |-> Extract!FirstSize(tiers, t)]
<1>1. tiers \in Seq([eTables -> Nat])
  BY ArgumentsOfExtract
<1>2. ASSUME NEW t \in known
      PROVE  Extract!FirstSize(tiers, t) \in Nat
  <2> PICK R : R = Extract!Resolved(tiers, t)
    OBVIOUS
  <2>1. R \in SUBSET Nat /\ R # {} /\ R \subseteq 1 .. Len(tiers)
    BY <1>1 DEF Extract!Resolved
  <2>2. \E i \in R : \A j \in R : i <= j
    BY <2>1, LeastNumber
  <2>3. PICK i \in R : Extract!FirstSize(tiers, t) = tiers[i][t]
    BY <2>2 DEF Extract!FirstSize
  <2>4. tiers[i] \in [eTables -> Nat] /\ t \in eTables
    BY <1>1, <2>1
  <2> QED
    BY <2>3, <2>4
<1>3. known \in SUBSET eTables /\ size \in [known -> Nat] /\ DOMAIN size = known
  BY <1>2
<1>4. Extract!MergeSizeTiers(K, tiers)
         = [t \in K |-> IF t \in known THEN 2 * size[t] ELSE Extract!Median(size)]
  BY DEF Extract!MergeSizeTiers
<1> HIDE DEF size, known
<1>5. Extract!Median(size) \in Nat
  <2> PICK n : n = Cardinality(known)
    OBVIOUS
  <2>1. IsFiniteSet(known) /\ n \in Nat
    <3>1. known \in SUBSET (1 .. NumTables) /\ 1 \in Int /\ NumTables \in Int
      BY <1>3, ArgumentsOfExtract
    <3>2. IsFiniteSet(1 .. NumTables)
      BY <3>1, FS_Interval
    <3> QED
      BY <3>1, <3>2, FS_Subset, FS_CardinalityType
  <2>2. Extract!Median(size) = IF n = 0 THEN 2
                               ELSE size[Extract!Ranked(size, (n - 1) \div 2)]
                                       + size[Extract!Ranked(size, n \div 2)]
    BY <1>3, SameCardinality DEF Extract!Median
  <2>3. CASE n # 0
    <3>1. (n - 1) \div 2 \in 0 .. n - 1 /\ n \div 2 \in 0 .. n - 1
      BY <2>1, <2>3
    <3>2. PICK a, b : a = (n - 1) \div 2 /\ b = n \div 2
      OBVIOUS
    <3>3. Extract!Ranked(size, a) \in known /\ Extract!Ranked(size, b) \in known
      BY <1>3, <3>1, <3>2, RankedIsThere
    <3>4. size[Extract!Ranked(size, a)] \in Nat /\ size[Extract!Ranked(size, b)] \in Nat
      BY <1>3, <3>3
    <3> QED
      BY <2>2, <2>3, <3>2, <3>4
  <2>4. CASE n = 0
    BY <2>2, <2>4
  <2> QED
    BY <2>3, <2>4
<1>6. \A t \in known : 2 * size[t] \in Nat
  BY <1>3
<1> QED
  BY <1>4, <1>5, <1>6

-----------------------------------------------------------------------------
(* The extraction.                                                          *)

eAttempts == eBuckets \X (0 .. MaxRetries)

PlanPacked ==
    /\ keys \in SUBSET eTables /\ weights \in [keys -> Nat]
    /\ Packed(keys, weights, buckets)

ExtractTyped ==
    /\ pc \in {"submit", "poll", "exited"}
    /\ pending \in Seq(eBuckets) /\ Once(pending)
    /\ inFlight \in Seq(eBuckets) /\ Once(inFlight)
    /\ round \in Seq(eBuckets) /\ Once(round)
    /\ retries \in [eBuckets -> 0 .. MaxRetries]
    /\ results \in [eBuckets -> {"none", "SUCCEEDED", "FAILED"}]
    /\ runs \in [eAttempts -> {"absent", "running", "stopping", "succeeded", "failed"}]

\* A bucket waits, or is run, or has a result.
BucketsHeld ==
    /\ In(pending) \cap In(inFlight) = {}
    /\ In(round) \subseteq In(inFlight)
    /\ Len(inFlight) <= MaxConcurrentRuns
    /\ \A b \in eBuckets :
          IF b \in In(pending) \cup In(inFlight)
          THEN results[b] = "none"
          ELSE /\ buckets[b] # {} => results[b] # "none"
               /\ results[b] = "SUCCEEDED" => runs[<<b, retries[b]>>] = "succeeded"

\* A run that is not over is its bucket's last, and the driver polls it, but
\* for the one that was asked for by the call that ended the driver.
RunsHeld ==
    \A a \in eAttempts : runs[a] \in Extract!Unfinished =>
        /\ a[2] = retries[a[1]]
        /\ \/ a[1] \in In(inFlight)
           \/ /\ pc = "exited" /\ pending # << >> /\ a[1] = Head(pending)
              /\ Len(inFlight) < MaxConcurrentRuns

ExitHeld ==
    exit = "ok" =>
        pc = "exited" /\ \A b \in eBuckets : buckets[b] # {} => results[b] = "SUCCEEDED"

ExtractInv == PlanPacked /\ ExtractTyped /\ BucketsHeld /\ RunsHeld /\ ExitHeld

LEMMA ExtractBegins ==
    ASSUME Extract!Init
    PROVE  ExtractInv
<1>1. keys \in SUBSET eTables
  <2>1. PICK request \in ExtractRequests :
           \E parents \in BOOLEAN :
              keys = IF parents THEN Extract!WithParents(request) ELSE request.seeds
    BY DEF Extract!Init
  <2>2. request.seeds \subseteq eTables /\ request.edges \subseteq eTables \X eTables
    BY ArgumentsOfExtract
  <2>3. Extract!WithParents(request) \subseteq eTables
    BY <2>2 DEF Extract!WithParents
  <2> QED
    BY <2>1, <2>2, <2>3
<1>2. weights \in [keys -> Nat]
  <2>1. CASE weights = [t \in keys |-> 2]
    BY <2>1
  <2>2. CASE \E tiers \in SizeTiers : weights = Extract!MergeSizeTiers(keys, tiers)
    BY <2>2, <1>1, SizesAreMerged
  <2> QED
    BY <2>1, <2>2 DEF Extract!Init
<1>3. Packed(keys, weights, buckets)
  <2>1. Packed(keys, weights, Extract!BinPack(weights))
    BY <1>1, <1>2, BinPackPacks
  <2> QED
    BY <2>1 DEF Extract!Init
<1>4. /\ pending \in Seq(eBuckets) /\ Once(pending)
      /\ In(pending) = {b \in eBuckets : buckets[b] # {}}
  <2>1. pending = Extract!Filled(buckets)
    BY DEF Extract!Init
  <2> QED
    BY <2>1, FilledAreListed
<1>5. MaxRetries \in Nat /\ 0 \in 0 .. MaxRetries /\ 0 <= MaxConcurrentRuns
  BY ArgumentsOfExtract
<1>6. /\ pc = "submit" /\ inFlight = << >> /\ round = << >> /\ exit = "none"
      /\ retries = [b \in eBuckets |-> 0] /\ results = [b \in eBuckets |-> "none"]
      /\ runs = [a \in eAttempts |-> "absent"]
  BY DEF Extract!Init, eBuckets, eAttempts
<1>7. << >> \in Seq(eBuckets) /\ Once(<< >>) /\ In(<< >>) = {} /\ Len(<< >>) = 0
  BY DEF Once, In
<1>8. ExtractTyped
  BY <1>4, <1>5, <1>6, <1>7 DEF ExtractTyped
<1>9. BucketsHeld
  <2>1. \A b \in eBuckets : results[b] = "none" /\ (buckets[b] # {} => b \in In(pending))
    BY <1>4, <1>6
  <2> QED
    BY <2>1, <1>5, <1>6, <1>7 DEF BucketsHeld
<1>10. RunsHeld
  <2>1. \A a \in eAttempts : runs[a] \notin Extract!Unfinished
    BY <1>6 DEF Extract!Unfinished
  <2> QED
    BY <2>1 DEF RunsHeld
<1>11. ExitHeld
  BY <1>6 DEF ExitHeld
<1> QED
  BY <1>1, <1>2, <1>3, <1>8, <1>9, <1>10, <1>11 DEF ExtractInv, PlanPacked

\* The first that waits is run, or may be.
LEMMA ExtractSubmit ==
    ASSUME ExtractInv, Extract!Submit
    PROVE  ExtractInv'
<1> USE DEF ExtractInv
<1> PICK b : b = Head(pending)
  OBVIOUS
<1>1. /\ pc = "submit" /\ pending # << >> /\ Len(inFlight) < MaxConcurrentRuns
      /\ keys' = keys /\ weights' = weights /\ buckets' = buckets /\ round' = round
      /\ retries' = retries /\ results' = results
  BY DEF Extract!Submit, Extract!MaySubmit, Extract!plan
<1>2. \/ /\ runs' = [runs EXCEPT ![<<b, retries[b]>>] = "running"]
         /\ inFlight' = Append(inFlight, b) /\ pending' = Tail(pending)
         /\ pc' = pc /\ exit' = exit
      \/ /\ pc' = "exited" /\ exit' = "raised" /\ pending' = pending /\ inFlight' = inFlight
         /\ runs' = [runs EXCEPT ![<<b, retries[b]>>] = "running"] \/ runs' = runs
  BY DEF Extract!Submit, Extract!Create, Extract!Raises
<1>3. /\ Tail(pending) \in Seq(eBuckets) /\ Once(Tail(pending)) /\ b \in eBuckets
      /\ In(Tail(pending)) = In(pending) \ {b} /\ b \in In(pending)
  BY <1>1, TailOnce DEF ExtractTyped
<1>4. b \notin In(inFlight)
  BY <1>3 DEF BucketsHeld
<1>5. /\ Append(inFlight, b) \in Seq(eBuckets) /\ Once(Append(inFlight, b))
      /\ In(Append(inFlight, b)) = In(inFlight) \cup {b}
      /\ Len(Append(inFlight, b)) = Len(inFlight) + 1
  BY <1>3, <1>4, AppendOnce DEF ExtractTyped
<1>6. Len(inFlight) \in Nat /\ MaxConcurrentRuns \in Nat
  BY ArgumentsOfExtract DEF ExtractTyped
<1>7. <<b, retries[b]>> \in eAttempts
  BY <1>3 DEF ExtractTyped, eAttempts
<1>8. PlanPacked'
  BY <1>1 DEF PlanPacked
<1>9. ExtractTyped'
  BY <1>1, <1>2, <1>3, <1>5, <1>7 DEF ExtractTyped
<1>10. \A c \in eBuckets : c # b => runs'[<<c, retries[c]>>] = runs[<<c, retries[c]>>]
  <2>1. \A c \in eBuckets : <<c, retries[c]>> \in eAttempts
    BY DEF ExtractTyped, eAttempts
  <2> QED
    BY <2>1, <1>2 DEF ExtractTyped
<1>11. \A c \in eBuckets : c \in In(pending') \cup In(inFlight')
                           <=> c \in In(pending) \cup In(inFlight)
  BY <1>2, <1>3, <1>5
<1>12. BucketsHeld'
  <2>1. \A c \in eBuckets :
           IF c \in In(pending') \cup In(inFlight')
           THEN results'[c] = "none"
           ELSE /\ buckets'[c] # {} => results'[c] # "none"
                /\ results'[c] = "SUCCEEDED" => runs'[<<c, retries'[c]>>] = "succeeded"
    BY <1>1, <1>3, <1>10, <1>11 DEF BucketsHeld
  <2>2. In(pending') \cap In(inFlight') = {}
    BY <1>2, <1>3, <1>5 DEF BucketsHeld
  <2>3. In(round') \subseteq In(inFlight')
    BY <1>1, <1>2, <1>5 DEF BucketsHeld
  <2>4. Len(inFlight') <= MaxConcurrentRuns
    BY <1>1, <1>2, <1>5, <1>6
  <2> QED
    BY <2>1, <2>2, <2>3, <2>4 DEF BucketsHeld
<1>13. RunsHeld'
  <2> SUFFICES ASSUME NEW a \in eAttempts, runs'[a] \in Extract!Unfinished
               PROVE  /\ a[2] = retries[a[1]]
                      /\ \/ a[1] \in In(inFlight')
                         \/ /\ pc' = "exited" /\ pending' # << >> /\ a[1] = Head(pending')
                            /\ Len(inFlight') < MaxConcurrentRuns
    BY <1>1 DEF RunsHeld
  <2>1. CASE a = <<b, retries[b]>>
    BY <2>1, <1>1, <1>2, <1>5
  <2>2. CASE a # <<b, retries[b]>>
    <3>1. runs'[a] = runs[a]
      BY <2>2, <1>2, <1>7 DEF ExtractTyped
    <3>2. a[2] = retries[a[1]] /\ a[1] \in In(inFlight)
      BY <3>1, <1>1 DEF RunsHeld
    <3> QED
      BY <3>2, <1>2, <1>5
  <2> QED
    BY <2>1, <2>2
<1>14. ExitHeld'
  BY <1>1, <1>2 DEF ExitHeld
<1> QED
  BY <1>8, <1>9, <1>12, <1>13, <1>14

LEMMA ExtractRounds ==
    ASSUME ExtractInv, Extract!BeginRound \/ Extract!EndRound
    PROVE  ExtractInv'
<1> USE DEF ExtractInv
<1>1. /\ keys' = keys /\ weights' = weights /\ buckets' = buckets /\ pending' = pending
      /\ inFlight' = inFlight /\ retries' = retries /\ results' = results /\ runs' = runs
      /\ pc # "exited" /\ pc' \in {"submit", "poll", "exited"}
      /\ round' \in {round, inFlight}
  BY DEF Extract!BeginRound, Extract!EndRound, Extract!plan
<1>2. PlanPacked' /\ ExtractTyped'
  BY <1>1 DEF PlanPacked, ExtractTyped
<1>3. BucketsHeld'
  BY <1>1 DEF BucketsHeld
<1>4. RunsHeld'
  BY <1>1 DEF RunsHeld
<1>5. ExitHeld'
  <2>1. CASE exit' = exit
    BY <2>1, <1>1 DEF ExitHeld
  <2>2. CASE exit' # exit
    <3>1. /\ pending = << >> /\ inFlight = << >> /\ pc' = "exited"
          /\ exit' = "ok" => \A b \in eBuckets : results[b] # "FAILED"
      BY <2>2 DEF Extract!BeginRound, Extract!EndRound, eBuckets
    <3>2. In(pending) = {} /\ In(inFlight) = {}
      BY <3>1 DEF In
    <3>3. \A b \in eBuckets : buckets[b] # {} => results[b] # "none"
      BY <3>2 DEF BucketsHeld
    <3>4. \A b \in eBuckets : results[b] \in {"none", "SUCCEEDED", "FAILED"}
      BY DEF ExtractTyped
    <3> QED
      BY <3>1, <3>3, <3>4, <1>1 DEF ExitHeld
  <2> QED
    BY <2>1, <2>2
<1> QED
  BY <1>2, <1>3, <1>4, <1>5

\* A run that goes on stays its bucket's last.
LEMMA ExtractRunGoesOn ==
    ASSUME ExtractInv, Extract!RunGoesOn
    PROVE  ExtractInv'
<1> USE DEF ExtractInv
<1>1. /\ keys' = keys /\ weights' = weights /\ buckets' = buckets /\ pending' = pending
      /\ inFlight' = inFlight /\ retries' = retries /\ results' = results /\ round' = round
      /\ pc' = pc /\ exit' = exit
  BY DEF Extract!RunGoesOn, Extract!plan
<1>2. PICK a \in eAttempts, s \in {"succeeded", "failed", "stopping"} :
         runs[a] \in Extract!Unfinished /\ runs' = [runs EXCEPT ![a] = s]
  BY DEF Extract!RunGoesOn, ExtractTyped
<1>3. runs' \in [eAttempts -> {"absent", "running", "stopping", "succeeded", "failed"}]
  BY <1>2 DEF ExtractTyped
<1>4. \A d \in eAttempts : d # a => runs'[d] = runs[d]
  BY <1>2 DEF ExtractTyped
<1>5. runs[a] # "succeeded"
  BY <1>2 DEF Extract!Unfinished
<1>6. PlanPacked' /\ ExtractTyped' /\ ExitHeld'
  BY <1>1, <1>3 DEF PlanPacked, ExtractTyped, ExitHeld
<1>7. BucketsHeld'
  <2>1. \A b \in eBuckets : <<b, retries[b]>> \in eAttempts
    BY DEF ExtractTyped, eAttempts
  <2>2. \A b \in eBuckets : runs[<<b, retries[b]>>] = "succeeded"
                               => runs'[<<b, retries[b]>>] = "succeeded"
    BY <2>1, <1>4, <1>5
  <2> QED
    BY <2>2, <1>1 DEF BucketsHeld
<1>8. RunsHeld'
  BY <1>1, <1>2, <1>4 DEF RunsHeld
<1> QED
  BY <1>6, <1>7, <1>8

\* The next of the round is polled: it goes on, or is dropped with a result
\* or to be submitted again.
LEMMA ExtractPoll ==
    ASSUME ExtractInv, Extract!Poll
    PROVE  ExtractInv'
<1> USE DEF ExtractInv
<1> PICK b : b = Head(round)
  OBVIOUS
<1>1. /\ pc = "poll" /\ round # << >>
      /\ keys' = keys /\ weights' = weights /\ buckets' = buckets /\ runs' = runs
  BY DEF Extract!Poll, Extract!plan
<1>2. PlanPacked'
  BY <1>1 DEF PlanPacked
<1>3. /\ Tail(round) \in Seq(eBuckets) /\ Once(Tail(round)) /\ b \in eBuckets
      /\ In(Tail(round)) = In(round) \ {b} /\ b \in In(round)
  BY <1>1, TailOnce DEF ExtractTyped
<1>4. b \in In(inFlight) /\ b \notin In(pending) /\ results[b] = "none"
  BY <1>3 DEF BucketsHeld
<1>5. CASE /\ round' = round \/ round' = Tail(round)
           /\ inFlight' = inFlight /\ pending' = pending /\ retries' = retries
           /\ results' = results
           /\ \/ pc' = "exited" /\ exit' = "raised"
              \/ pc' = pc /\ exit' = exit
  <2>1. In(round') \subseteq In(round)
    BY <1>3, <1>5
  <2>2. ExtractTyped'
    BY <1>1, <1>3, <1>5 DEF ExtractTyped
  <2>3. BucketsHeld'
    BY <1>1, <1>5, <2>1 DEF BucketsHeld
  <2>4. RunsHeld'
    BY <1>1, <1>5 DEF RunsHeld
  <2>5. ExitHeld'
    BY <1>1, <1>5 DEF ExitHeld
  <2> QED
    BY <1>2, <2>2, <2>3, <2>4, <2>5
<1>6. CASE /\ Extract!Drop /\ round' = Tail(round) /\ pc' = pc /\ exit' = exit
           /\ runs[<<b, retries[b]>>] \in {"succeeded", "failed"}
           /\ \/ /\ results' = [results EXCEPT ![b] = "SUCCEEDED"]
                 /\ runs[<<b, retries[b]>>] = "succeeded"
                 /\ pending' = pending /\ retries' = retries
              \/ /\ results' = [results EXCEPT ![b] = "FAILED"]
                 /\ pending' = pending /\ retries' = retries
              \/ /\ pending' = Append(pending, b) /\ results' = results
                 /\ retries[b] < MaxRetries /\ retries' = [retries EXCEPT ![b] = @ + 1]
  <2>1. /\ inFlight' \in Seq(eBuckets) /\ Once(inFlight') /\ Len(inFlight') = Len(inFlight) - 1
        /\ In(inFlight') = In(inFlight) \ {b}
    <3> PICK s, t : s = inFlight /\ t = inFlight'
      OBVIOUS
    <3>1. s \in Seq(eBuckets) /\ Once(s)
      BY DEF ExtractTyped
    <3>2. DOMAIN s = 1 .. Len(s)
      BY <3>1
    <3>3. PICK i \in DOMAIN inFlight :
             inFlight' = [j \in 1 .. Len(inFlight) - 1 |-> inFlight[IF j < i THEN j ELSE j + 1]]
             /\ inFlight[i] = b
      BY <1>6, Zenon DEF Extract!Drop, Extract!Bucket
    <3>4. i \in 1 .. Len(s) /\ s[i] = b /\ t = Without(s, i)
      BY <3>2, <3>3, Zenon DEF Without
    <3>5. /\ Without(s, i) \in Seq(eBuckets) /\ Once(Without(s, i))
          /\ Len(Without(s, i)) = Len(s) - 1 /\ In(Without(s, i)) = In(s) \ {s[i]}
      BY <3>1, <3>4, DroppedOnce
    <3> QED
      BY <3>4, <3>5, Zenon
  <2>2. /\ Append(pending, b) \in Seq(eBuckets) /\ Once(Append(pending, b))
        /\ In(Append(pending, b)) = In(pending) \cup {b}
    BY <1>3, <1>4, AppendOnce DEF ExtractTyped
  <2>3. Len(inFlight) \in Nat /\ MaxConcurrentRuns \in Nat /\ MaxRetries \in Nat
        /\ retries[b] \in 0 .. MaxRetries
    BY <1>3, ArgumentsOfExtract DEF ExtractTyped
  <2>4. \A a \in eAttempts : runs[a] \in Extract!Unfinished =>
           a[2] = retries[a[1]] /\ a[1] \in In(inFlight)
    BY <1>1 DEF RunsHeld
  <2>5. \A a \in eAttempts : runs[a] \in Extract!Unfinished =>
           a[2] = retries'[a[1]] /\ a[1] \in In(inFlight')
    <3> SUFFICES ASSUME NEW a \in eAttempts, runs[a] \in Extract!Unfinished
                 PROVE  a[2] = retries'[a[1]] /\ a[1] \in In(inFlight')
      OBVIOUS
    <3>1. a[2] = retries[a[1]] /\ a[1] \in In(inFlight) /\ a = <<a[1], a[2]>> /\ a[1] \in eBuckets
      BY <2>4 DEF eAttempts
    <3>2. a[1] # b
      BY <3>1, <1>6 DEF Extract!Unfinished
    <3>3. retries'[a[1]] = retries[a[1]]
      BY <3>1, <3>2, <1>6 DEF ExtractTyped
    <3> QED
      BY <3>1, <3>2, <3>3, <2>1
  <2>6. RunsHeld'
    BY <2>5, <1>1 DEF RunsHeld
  <2>7. ExitHeld'
    BY <1>1, <1>6 DEF ExitHeld
  <2>8. \A c \in eBuckets : c # b => results'[c] = results[c] /\ retries'[c] = retries[c]
    BY <1>6 DEF ExtractTyped
  <2>9. \A c \in eBuckets : c # b => (c \in In(pending') \cup In(inFlight')
                                       <=> c \in In(pending) \cup In(inFlight))
    BY <1>6, <2>1, <2>2
  <2>10. /\ In(pending') \cap In(inFlight') = {}
         /\ In(round') \subseteq In(inFlight') /\ Len(inFlight') <= MaxConcurrentRuns
    <3>1. In(pending') \cap In(inFlight') = {}
      BY <1>6, <2>1, <2>2 DEF BucketsHeld
    <3>2. In(round') \subseteq In(inFlight')
      BY <1>3, <1>6, <2>1 DEF BucketsHeld
    <3>3. Len(inFlight') <= MaxConcurrentRuns
      BY <2>1, <2>3 DEF BucketsHeld
    <3> QED
      BY <3>1, <3>2, <3>3
  <2>11. \A c \in eBuckets : c # b =>
           IF c \in In(pending') \cup In(inFlight')
           THEN results'[c] = "none"
           ELSE /\ buckets'[c] # {} => results'[c] # "none"
                /\ results'[c] = "SUCCEEDED" => runs'[<<c, retries'[c]>>] = "succeeded"
    BY <1>1, <2>8, <2>9 DEF BucketsHeld
  <2>12. IF b \in In(pending') \cup In(inFlight')
         THEN results'[b] = "none"
         ELSE /\ buckets'[b] # {} => results'[b] # "none"
              /\ results'[b] = "SUCCEEDED" => runs'[<<b, retries'[b]>>] = "succeeded"
    <3>1. CASE pending' = Append(pending, b) /\ results' = results
      BY <3>1, <1>4, <2>2
    <3>2. CASE /\ results' = [results EXCEPT ![b] = "SUCCEEDED"]
               /\ runs[<<b, retries[b]>>] = "succeeded"
               /\ pending' = pending /\ retries' = retries
      BY <3>2, <1>1, <1>3, <1>4, <2>1 DEF ExtractTyped
    <3>3. CASE /\ results' = [results EXCEPT ![b] = "FAILED"]
               /\ pending' = pending /\ retries' = retries
      BY <3>3, <1>1, <1>3, <1>4, <2>1 DEF ExtractTyped
    <3> QED
      BY <3>1, <3>2, <3>3, <1>6
  <2>13. BucketsHeld'
    BY <2>10, <2>11, <2>12 DEF BucketsHeld
  <2>14. ExtractTyped'
    <3>1. pending' \in Seq(eBuckets) /\ Once(pending')
      BY <1>6, <2>2 DEF ExtractTyped
    <3>2. retries' \in [eBuckets -> 0 .. MaxRetries]
      <4>1. retries[b] < MaxRetries => retries[b] + 1 \in 0 .. MaxRetries
        BY <2>3
      <4> QED
        BY <4>1, <1>3, <1>6 DEF ExtractTyped
    <3>3. results' \in [eBuckets -> {"none", "SUCCEEDED", "FAILED"}]
      BY <1>3, <1>6 DEF ExtractTyped
    <3>4. pc' \in {"submit", "poll", "exited"} /\ round' \in Seq(eBuckets) /\ Once(round')
      BY <1>1, <1>3, <1>6 DEF ExtractTyped
    <3> QED
      BY <3>1, <3>2, <3>3, <3>4, <2>1, <1>1 DEF ExtractTyped
  <2> QED
    BY <1>2, <2>6, <2>7, <2>13, <2>14
<1> QED
  BY <1>5, <1>6 DEF Extract!Poll, Extract!Raises, Extract!Bucket, Extract!State

LEMMA ExtractKeeps ==
    ASSUME ExtractInv, [Extract!Next]_(Extract!vars)
    PROVE  ExtractInv'
<1>1. CASE UNCHANGED Extract!vars
  BY <1>1 DEF Extract!vars, Extract!plan, ExtractInv, PlanPacked, ExtractTyped, BucketsHeld,
      RunsHeld, ExitHeld
<1>2. CASE Extract!Next
  BY <1>1, <1>2, ExtractSubmit, ExtractRounds, ExtractPoll, ExtractRunGoesOn
     DEF Extract!Next, Extract!Over
<1> QED
  BY <1>1, <1>2

LEMMA ExtractLeavesNoTable ==
    ASSUME ExtractInv
    PROVE  Extract!EveryTableExtracted
<1> SUFFICES ASSUME exit = "ok", NEW t \in keys
             PROVE  \E a \in DOMAIN runs : t \in buckets[a[1]] /\ runs[a] = "succeeded"
  BY DEF Extract!EveryTableExtracted
<1>1. PICK b \in eBuckets : t \in buckets[b]
  BY DEF ExtractInv, PlanPacked, Packed
<1>2. results[b] = "SUCCEEDED"
  BY <1>1 DEF ExtractInv, ExitHeld
<1>3. runs[<<b, retries[b]>>] = "succeeded"
  BY <1>2 DEF ExtractInv, BucketsHeld
<1>4. <<b, retries[b]>> \in DOMAIN runs
  BY DEF ExtractInv, ExtractTyped, eAttempts
<1> QED
  BY <1>1, <1>3, <1>4

\* No more buckets than allowed have a run that is not over.
LEMMA ExtractRunsAreFew ==
    ASSUME ExtractInv, NEW live, live = {a \in DOMAIN runs : runs[a] \in Extract!Unfinished}
    PROVE  Extract!Cardinality(live) <= MaxConcurrentRuns
<1> USE DEF ExtractInv
<1> PICK n, limit, submitted : n = Len(inFlight) /\ limit = MaxConcurrentRuns /\ submitted = inFlight
  OBVIOUS
<1>1. n \in Nat /\ limit \in Nat /\ n <= limit
  BY ArgumentsOfExtract DEF ExtractTyped, BucketsHeld
<1>2. \A a \in live : /\ a \in eAttempts /\ a = <<a[1], retries[a[1]]>>
                      /\ \/ \E i \in 1 .. n : submitted[i] = a[1]
                         \/ n < limit /\ a[1] = Head(pending)
  BY DEF RunsHeld, ExtractTyped, In, eAttempts
<1>3. \A a, b \in live : a[1] = b[1] => a = b
  BY <1>2
<1> DEFINE index(a) == IF \E i \in 1 .. n : submitted[i] = a[1]
                       THEN CHOOSE i \in 1 .. n : submitted[i] = a[1] ELSE n + 1
           f == [a \in live |-> index(a)]
<1>4. ASSUME NEW a \in live
      PROVE  /\ index(a) \in 1 .. limit
             /\ index(a) \in 1 .. n => submitted[index(a)] = a[1]
             /\ index(a) \notin 1 .. n => a[1] = Head(pending)
  <2>1. CASE \E i \in 1 .. n : submitted[i] = a[1]
    <3>1. index(a) \in 1 .. n /\ submitted[index(a)] = a[1]
      BY <2>1
    <3> QED
      BY <3>1, <1>1
  <2>2. CASE ~ \E i \in 1 .. n : submitted[i] = a[1]
    <3>1. index(a) = n + 1 /\ n < limit /\ a[1] = Head(pending)
      BY <2>2, <1>2
    <3> QED
      BY <3>1, <1>1
  <2> QED
    BY <2>1, <2>2
<1> HIDE DEF index
<1>5. f \in Injection(live, 1 .. limit)
  <2>1. f \in [live -> 1 .. limit]
    BY <1>4
  <2>2. \A a, b \in live : f[a] = f[b] => a = b
    BY <1>3, <1>4
  <2> QED
    BY <2>1, <2>2, Fun_IsInj
<1>6. IsFiniteSet(1 .. limit) /\ Cardinality(1 .. limit) = limit
  BY <1>1, FS_Interval
<1>7. Cardinality(live) <= limit
  BY <1>5, <1>6, FS_Injection
<1> QED
  BY <1>7, SameCardinality

LEMMA ExtractWritesOnce ==
    ASSUME ExtractInv
    PROVE  Extract!OneWriterPerTable
<1> DEFINE live == {a \in DOMAIN runs : runs[a] \in Extract!Unfinished}
<1>1. \A a, b \in live : a # b => buckets[a[1]] \cap buckets[b[1]] = {}
  <2> SUFFICES ASSUME NEW a \in live, NEW b \in live, a # b
               PROVE  buckets[a[1]] \cap buckets[b[1]] = {}
    OBVIOUS
  <2>1. /\ a[1] \in eBuckets /\ a = <<a[1], retries[a[1]]>>
        /\ b[1] \in eBuckets /\ b = <<b[1], retries[b[1]]>>
    BY DEF ExtractInv, RunsHeld, ExtractTyped, eAttempts
  <2>2. a[1] # b[1]
    BY <2>1
  <2> QED
    BY <2>1, <2>2 DEF ExtractInv, PlanPacked, Packed
<1>2. Extract!Cardinality(live) <= MaxConcurrentRuns
  BY ExtractRunsAreFew
<1>3. ASSUME NEW b \in eBuckets, NEW c \in eBuckets, NEW t \in keys,
             \A u \in keys : weights[u] <= weights[t]
      PROVE  Extract!Total(buckets[b]) - Extract!Total(buckets[c]) <= weights[t]
  <2>1. weights[t] \in Nat
    BY DEF ExtractInv, PlanPacked
  <2>2. Weight(weights, buckets[b]) - Weight(weights, buckets[c]) <= weights[t]
    BY <1>3, <2>1 DEF ExtractInv, PlanPacked, Packed
  <2> QED
    BY <2>2 DEF Extract!Total, Weight, WeightTo
<1> QED
  BY <1>1, <1>2, <1>3 DEF Extract!OneWriterPerTable, eBuckets

\* The invariant of an extraction, of which the theorem below is a consequence.
THEOREM ExtractInvariant == Spec => [](program = "extract" => ExtractInv)
<1> DEFINE Inv == program = "extract" => ExtractInv
<1>1. Init => Inv
  BY ExtractBegins DEF Init
<1>2. Inv /\ [Next]_vars => Inv'
  BY StepsAreApart, ExtractKeeps
<1> QED
  BY <1>1, <1>2, PTL DEF Spec

-----------------------------------------------------------------------------
\* A migration that succeeds has copied every extent that was there when it
\* was first run, and twice only if the table grew since, whichever runs died
\* or failed before it; an extraction that exits with success has every table
\* in a run that succeeded, no two runs write a table at a time, there are no
\* more than allowed, and no two buckets differ by more than the heaviest
\* table weighs.
THEOREM EachTableIsHandledOnce == Spec => []EachTableOnce
<1>1. ASSUME program = "migration" => MigrationInv, program = "extract" => ExtractInv
      PROVE  EachTableOnce
  BY <1>1, MigrationCopiesOnce, ExtractLeavesNoTable, ExtractWritesOnce DEF EachTableOnce
<1> QED
  BY <1>1, MigrationInvariant, ExtractInvariant, PTL
=============================================================================
