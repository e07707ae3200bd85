---------------------------- MODULE LedgerLemmas ----------------------------
(***************************************************************************)
(* What the operators of the ledger do, for every ledger of the persisted  *)
(* structure and every valid plan: the artifact an allocation returns, the *)
(* ledger that records it, and why the one meets nothing in the other. The *)
(* proofs about the sequential ledger (RangeLedgerProofs) and about the    *)
(* concurrent calls (ReservationProofs) rest on these lemmas.              *)
(***************************************************************************)
EXTENDS PersistedLedger, TLAPS

-----------------------------------------------------------------------------
(* What an allocation returns.                                              *)

(* A range of count >= 1 slots ends at or after its start and before the    *)
(* mark it leaves behind.                                                   *)
LEMMA PkRangeBounds ==
    ASSUME NEW l \in LedgerShape, NEW t \in Tables,
           NEW q \in PkRequest, q.count # 0
    PROVE  /\ PkRange(l, t, q) \in [start : Int, end : Int, step : Nat \ {0}]
           /\ PkRange(l, t, q).start <= PkRange(l, t, q).end
           /\ l.pks[t] # Absent => l.pks[t] <= PkRange(l, t, q).start
  <1>1. q.count \in Nat /\ q.step \in Nat \ {0} /\ q.minimum \in Int
    BY DEF PkRequest
  <1>2. l.pks[t] \in Int \cup {Absent}
    BY DEF LedgerShape
  <1>3. PkStart(l, t, q) \in Int /\ (l.pks[t] # Absent => l.pks[t] <= PkStart(l, t, q))
    BY <1>1, <1>2, AbsentIsNoNumber DEF PkStart
  <1>4. (q.count - 1) * q.step \in Nat
    <2>1. q.count - 1 \in Nat
      BY <1>1
    <2>2. \A x, y \in Nat : x * y \in Nat
      OBVIOUS
    <2>3. QED
      BY <1>1, <2>1, <2>2
  <1>5. QED
    BY <1>1, <1>3, <1>4 DEF PkRange

(* The entries of a history are artifacts.                                  *)
LEMMA HistoryEntries ==
    ASSUME NEW l \in LedgerShape, NEW i \in DOMAIN l.history
    PROVE  /\ l.history[i] \in ArtifactShape
           /\ l.history[i].cdb \in
                 [prefix : CdbPrefixes, count : Nat, start : Int, end : Int] \cup {Absent}
  <1>1. l.history \in Seq(ArtifactShape)
    BY DEF LedgerShape
  <1>2. l.history[i] \in ArtifactShape
    BY <1>1
  <1>3. QED
    BY <1>2 DEF ArtifactShape

\* The floors of a CDB request in a ledger are integers.
LEMMA CdbFloorsAreNumbers ==
    ASSUME NEW l \in LedgerShape, NEW q \in CdbRequest
    PROVE  CdbFloors(l, q) \subseteq Int
  <1>1. q.minimum \in Int
    BY CdbBounds DEF CdbRequest
  <1>2. ASSUME NEW i \in DOMAIN l.history, l.history[i].cdb # Absent
        PROVE  l.history[i].cdb.end + 1 \in Int
    BY <1>2, HistoryEntries
  <1>3. QED
    BY <1>1, <1>2 DEF CdbFloors

(* The artifact of an allocation has the persisted structure.               *)
LEMMA ArtifactTyping ==
    ASSUME NEW l \in LedgerShape, NEW plan, ValidPlan(plan),
           NEW a \in Artifacts(l, plan)
    PROVE  /\ a \in ArtifactShape
           /\ a.pk = PkRanges(l, plan)
           /\ a.meu \in MeuIntervals(l, plan)
           /\ a.cdb \in CdbIntervals(l, plan)
  <1> DEFINE R == [start : Int, end : Int, step : Nat \ {0}]
  <1>1. PICK meu \in MeuIntervals(l, plan), cdb \in CdbIntervals(l, plan) :
           a = [pk |-> PkRanges(l, plan), meu |-> meu, cdb |-> cdb]
    BY DEF Artifacts
  <1>2. plan \in PlanShape
    BY DEF ValidPlan
  <1>3. PkRanges(l, plan) \in [Tables -> R \cup {Absent}]
    <2>1. ASSUME NEW t \in Tables, plan.pk[t].count # 0
          PROVE  PkRange(l, t, plan.pk[t]) \in R
      BY <2>1, <1>2, PkRangeBounds DEF PlanShape
    <2>2. QED
      BY <2>1 DEF PkRanges
  <1>4. meu \in [ schema : {2, 3}, date : Dates, groups : SUBSET Groups,
                  prefix : Prefixes, start : Int, end : Int ] \cup {Absent}
    BY <1>2, MaxOrdinalIsNat DEF MeuIntervals, PlanShape
  <1>5. cdb \in [prefix : CdbPrefixes, count : Nat, start : Int, end : Int] \cup {Absent}
    <2>1. CASE plan.cdb = Absent
      BY <2>1 DEF CdbIntervals
    <2>2. CASE plan.cdb # Absent
      <3>1. plan.cdb \in CdbRequest
        BY <1>2, <2>2 DEF PlanShape
      <3>2. PICK s \in CdbFloors(l, plan.cdb) :
               cdb = [ prefix |-> plan.cdb.prefix, count |-> plan.cdb.count,
                       start |-> s, end |-> s + plan.cdb.count - 1 ]
        BY <2>2, <1>1 DEF CdbIntervals
      <3>3. s \in Int
        BY <3>1, <3>2, CdbFloorsAreNumbers
      <3>4. QED
        BY <3>1, <3>2, <3>3 DEF CdbRequest
    <2>3. QED
      BY <2>1, <2>2
  <1>6. QED
    BY <1>1, <1>3, <1>4, <1>5 DEF ArtifactShape

(* Appending an artifact keeps the persisted structure: the marks after an  *)
(* interval that fits are at most one above the last ordinal.               *)
LEMMA LedgerTyping ==
    ASSUME NEW l \in LedgerShape, NEW plan, ValidPlan(plan),
           NEW a \in Artifacts(l, plan)
    PROVE  /\ LedgerAfter(l, a) \in LedgerShape
           /\ a.meu # Absent => a.meu.end <= MaxOrdinal /\ a.meu.start <= a.meu.end
  <1>1. /\ a \in ArtifactShape
        /\ a.pk = PkRanges(l, plan)
        /\ a.meu \in MeuIntervals(l, plan)
    BY ArtifactTyping
  <1>2. plan \in PlanShape
    BY DEF ValidPlan
  <1>3. PkMarksAfter(l, a.pk) \in [Tables -> Int \cup {Absent}]
    <2>1. ASSUME NEW t \in Tables, a.pk[t] # Absent
          PROVE  a.pk[t].end + a.pk[t].step \in Int
      BY <2>1, <1>1 DEF ArtifactShape
    <2>2. QED
      BY <2>1 DEF PkMarksAfter, LedgerShape
  <1>4. a.meu # Absent => /\ a.meu.end \in 1 .. MaxOrdinal
                          /\ a.meu.start <= a.meu.end
    <2>1. SUFFICES ASSUME a.meu # Absent
                   PROVE  a.meu.end \in 1 .. MaxOrdinal /\ a.meu.start <= a.meu.end
      OBVIOUS
    <2>2. plan.ordinals \in Nat \ {0}
      BY <1>1, <1>2, <2>1 DEF MeuIntervals, PlanShape
    <2>3. PICK p \in Prefixes, s \in 1 .. MaxOrdinal + 1 :
             /\ FirstFit(l, plan, p)
             /\ s \in MeuFloors(l, plan, p)
             /\ a.meu.start = s
             /\ a.meu.end = s + plan.ordinals - 1
      BY <1>1, <2>2 DEF MeuIntervals
    <2>4. s + plan.ordinals - 1 <= MaxOrdinal
      BY <2>3 DEF FirstFit, MeuFits
    <2>5. QED
      BY <2>2, <2>3, <2>4, MaxOrdinalIsNat
  <1>5. LegacyAfter(l, a.meu) \in [Prefixes -> 1 .. MaxOrdinal + 1]
    <2>1. l.legacy \in [Prefixes -> 1 .. MaxOrdinal + 1]
      BY DEF LedgerShape
    <2>2. a.meu # Absent => a.meu.end + 1 \in 1 .. MaxOrdinal + 1
      BY <1>4, MaxOrdinalIsNat
    <2>3. QED
      BY <2>1, <2>2 DEF LegacyAfter
  <1>6. GroupsAfter(l, a.meu) \in [MeuMarks -> 1 .. MaxOrdinal + 1]
    BY <1>4, MaxOrdinalIsNat DEF GroupsAfter, LedgerShape
  <1>7. Append(l.history, a) \in Seq(ArtifactShape)
    BY <1>1 DEF LedgerShape
  <1>8. QED
    BY <1>3, <1>4, <1>5, <1>6, <1>7 DEF LedgerAfter, LedgerShape

-----------------------------------------------------------------------------
(* A fresh artifact meets nothing in the history it was allocated above.    *)

\* An allocation above the marks shares no primary key slot with the history.
LEMMA FreshPk ==
    ASSUME NEW l \in LedgerShape, PkCovered(l), NEW plan, ValidPlan(plan),
           NEW a \in Artifacts(l, plan), NEW i \in DOMAIN l.history
    PROVE  ~PkClash(l.history[i], a) /\ ~PkClash(a, l.history[i])
  <1> DEFINE old == l.history[i]
  <1>1. /\ a.pk = PkRanges(l, plan)
        /\ a \in ArtifactShape
        /\ old \in ArtifactShape
    BY ArtifactTyping, HistoryEntries
  <1>2. ASSUME NEW t \in Tables, old.pk[t] # Absent, a.pk[t] # Absent
        PROVE  PkSlots(old.pk[t]) \cap PkSlots(a.pk[t]) = {}
    <2>1. plan.pk[t] \in PkRequest /\ plan.pk[t].count # 0
      BY <1>1, <1>2 DEF PkRanges, ValidPlan, PlanShape
    <2>2. a.pk[t] = PkRange(l, t, plan.pk[t])
      BY <1>1, <2>1 DEF PkRanges
    <2>3. l.pks[t] # Absent /\ old.pk[t].end < l.pks[t]
      BY <1>2 DEF PkCovered
    <2>4. l.pks[t] <= a.pk[t].start
      BY <2>1, <2>2, <2>3, PkRangeBounds
    <2>5. /\ old.pk[t].start \in Int /\ old.pk[t].end \in Int
          /\ a.pk[t].start \in Int /\ a.pk[t].end \in Int /\ l.pks[t] \in Int
      BY <1>1, <1>2, <2>3 DEF ArtifactShape, LedgerShape
    <2>6. QED
      BY <2>3, <2>4, <2>5 DEF PkSlots
  <1>3. QED
    BY <1>2 DEF PkClash

\* An allocation above the marks shares no control number with the history.
LEMMA FreshMeu ==
    ASSUME NEW l \in LedgerShape, MeuCovered(l), NEW plan, ValidPlan(plan),
           NEW a \in Artifacts(l, plan), NEW i \in DOMAIN l.history
    PROVE  ~MeuClash(l.history[i], a) /\ ~MeuClash(a, l.history[i])
  <1> DEFINE old == l.history[i]
             Interval == [ schema : {2, 3}, date : Dates, groups : SUBSET Groups,
                           prefix : Prefixes, start : Int, end : Int ]
  <1>1. SUFFICES ASSUME old.meu # Absent, a.meu # Absent,
                        old.meu.prefix = a.meu.prefix, MeuMeet(old.meu, a.meu)
                 PROVE  old.meu.end < a.meu.start
    <2>1. old.meu \in Interval \cup {Absent} /\ a.meu \in Interval \cup {Absent}
      BY ArtifactTyping, HistoryEntries DEF ArtifactShape
    <2>2. MeuMeet(old.meu, a.meu) = MeuMeet(a.meu, old.meu)
      BY DEF MeuMeet
    <2>3. QED
      BY <1>1, <2>1, <2>2 DEF MeuClash
  <1>2. /\ a.meu \in MeuIntervals(l, plan)
        /\ old \in ArtifactShape
    BY ArtifactTyping, HistoryEntries
  <1>3. old.meu \in Interval
    BY <1>1, <1>2 DEF ArtifactShape
  <1>4. plan \in PlanShape /\ plan.ordinals # 0
    BY <1>1, <1>2 DEF MeuIntervals, ValidPlan
  <1>5. PICK p \in Prefixes, s \in 1 .. MaxOrdinal + 1 :
           /\ \A floor \in MeuFloors(l, plan, p) : floor <= s
           /\ a.meu = [ schema |-> plan.schema, date |-> plan.date,
                        groups |-> plan.groups, prefix |-> p,
                        start |-> s, end |-> s + plan.ordinals - 1 ]
    BY <1>2, <1>4 DEF MeuIntervals
  <1>6. CASE old.meu.schema = 2
    <2>1. old.meu.end < l.legacy[p]
      BY <1>1, <1>5, <1>6 DEF MeuCovered
    <2>2. l.legacy[p] \in MeuFloors(l, plan, p) /\ l.legacy[p] \in 1 .. MaxOrdinal + 1
      BY DEF MeuFloors, LedgerShape
    <2>3. QED
      BY <1>3, <1>5, <2>1, <2>2, MaxOrdinalIsNat
  <1>7. CASE old.meu.schema = 3
    <2>1. PICK g \in old.meu.groups :
             plan.schema = 3 => plan.date = old.meu.date /\ g \in plan.groups
      BY <1>1, <1>5, <1>7 DEF MeuMeet, MeuCovered
    <2> DEFINE m == << old.meu.date, p, g >>
    <2>2. m \in MeuMarks /\ Covers(old.meu, m)
      BY <1>1, <1>3, <1>5, <2>1 DEF MeuMarks, Covers
    <2>3. old.meu.end < l.groups[m]
      BY <1>1, <1>7, <2>2 DEF MeuCovered
    <2>4. l.groups[m] \in MeuFloors(l, plan, p)
      BY <2>1, <2>2 DEF MeuFloors
    <2>5. l.groups[m] \in 1 .. MaxOrdinal + 1
      BY <2>2 DEF LedgerShape
    <2>6. QED
      BY <1>3, <1>5, <2>3, <2>4, <2>5, MaxOrdinalIsNat
  <1>8. QED
    BY <1>3, <1>6, <1>7

\* An allocation above the marks shares no CDB code with the history.
LEMMA FreshCdb ==
    ASSUME NEW l \in LedgerShape, CdbMeasured(l), NEW plan, ValidPlan(plan),
           NEW a \in Artifacts(l, plan), NEW i \in DOMAIN l.history
    PROVE  ~CdbClash(l.history[i], a) /\ ~CdbClash(a, l.history[i])
  <1> DEFINE old == l.history[i]
  <1>1. SUFFICES ASSUME old.cdb # Absent, a.cdb # Absent,
                        old.cdb.prefix = a.cdb.prefix,
                        old.cdb.start <= old.cdb.end
                 PROVE  old.cdb.end < a.cdb.start
    <2> DEFINE Interval == [prefix : CdbPrefixes, count : Nat, start : Int, end : Int]
    <2>1. a \in ArtifactShape
      BY ArtifactTyping
    <2>2. old.cdb \in Interval \cup {Absent} /\ a.cdb \in Interval \cup {Absent}
      BY <2>1, HistoryEntries DEF ArtifactShape
    <2>3. ASSUME old.cdb # Absent, a.cdb # Absent, old.cdb.prefix = a.cdb.prefix
          PROVE  (old.cdb.start .. old.cdb.end) \cap (a.cdb.start .. a.cdb.end) = {}
      <3>1. /\ old.cdb.start \in Int /\ old.cdb.end \in Int
            /\ a.cdb.start \in Int /\ a.cdb.end \in Int
        BY <2>2, <2>3
      <3>2. old.cdb.start <= old.cdb.end => old.cdb.end < a.cdb.start
        BY <1>1, <2>3
      <3>3. QED
        BY <3>1, <3>2
    <2>4. QED
      BY <2>3 DEF CdbClash
  <1>2. /\ a.cdb \in CdbIntervals(l, plan)
        /\ old.cdb.count \in Nat /\ old.cdb.start \in Int /\ old.cdb.end \in Int
    BY <1>1, ArtifactTyping, HistoryEntries
  <1>3. plan.cdb # Absent /\ plan.cdb \in CdbRequest
    BY <1>1, <1>2 DEF CdbIntervals, ValidPlan, PlanShape
  <1>4. PICK s \in CdbFloors(l, plan.cdb) :
           /\ \A floor \in CdbFloors(l, plan.cdb) : floor <= s
           /\ a.cdb = [ prefix |-> plan.cdb.prefix, count |-> plan.cdb.count,
                        start |-> s, end |-> s + plan.cdb.count - 1 ]
    BY <1>2, <1>3 DEF CdbIntervals
  <1>5. old.cdb.count > 0
    BY <1>1, <1>2 DEF CdbMeasured
  <1>6. old.cdb.end + 1 \in CdbFloors(l, plan.cdb)
    BY <1>1, <1>4, <1>5 DEF CdbFloors
  <1>7. QED
    BY <1>2, <1>3, <1>4, <1>6, CdbFloorsAreNumbers

-----------------------------------------------------------------------------
(* The marks of the ledger after an allocation cover the longer history.    *)

\* The history after an allocation is the one before it and the new artifact.
LEMMA AppendIndices ==
    ASSUME NEW l \in LedgerShape, NEW a \in ArtifactShape,
           NEW i \in DOMAIN LedgerAfter(l, a).history
    PROVE  \/ i \in DOMAIN l.history /\ LedgerAfter(l, a).history[i] = l.history[i]
           \/ i = Len(l.history) + 1 /\ LedgerAfter(l, a).history[i] = a
  BY DEF LedgerAfter, LedgerShape

(* The mark a primary key range leaves is above the range and above the     *)
(* mark it was drawn from.                                                  *)
LEMMA PkMarkAfter ==
    ASSUME NEW l \in LedgerShape, NEW plan, ValidPlan(plan),
           NEW a \in Artifacts(l, plan), NEW t \in Tables, a.pk[t] # Absent
    PROVE  /\ LedgerAfter(l, a).pks[t] # Absent
           /\ a.pk[t].end < LedgerAfter(l, a).pks[t]
           /\ l.pks[t] # Absent => l.pks[t] < LedgerAfter(l, a).pks[t]
  <1>1. a.pk = PkRanges(l, plan)
    BY ArtifactTyping
  <1>2. plan.pk[t] \in PkRequest /\ plan.pk[t].count # 0
    BY <1>1 DEF PkRanges, ValidPlan, PlanShape
  <1>3. a.pk[t] = PkRange(l, t, plan.pk[t])
    BY <1>1, <1>2 DEF PkRanges
  <1>4. /\ a.pk[t].start \in Int /\ a.pk[t].end \in Int /\ a.pk[t].step \in Nat \ {0}
        /\ a.pk[t].start <= a.pk[t].end
        /\ l.pks[t] # Absent => l.pks[t] <= a.pk[t].start
    BY <1>2, <1>3, PkRangeBounds
  <1>5. l.pks[t] \in Int \cup {Absent}
    BY DEF LedgerShape
  <1>6. LedgerAfter(l, a).pks[t] = a.pk[t].end + a.pk[t].step
    BY DEF LedgerAfter, PkMarksAfter
  <1>7. QED
    BY <1>4, <1>5, <1>6, AbsentIsNoNumber

(* The marks stay above the history, the fresh artifact included.           *)
LEMMA CoverPk ==
    ASSUME NEW l \in LedgerShape, PkCovered(l), NEW plan, ValidPlan(plan),
           NEW a \in Artifacts(l, plan)
    PROVE  PkCovered(LedgerAfter(l, a))
  <1> DEFINE n == LedgerAfter(l, a)
  <1>1. a \in ArtifactShape /\ a.pk = PkRanges(l, plan) /\ n \in LedgerShape
    BY ArtifactTyping, LedgerTyping
  <1>2. ASSUME NEW t \in Tables, a.pk[t] # Absent
        PROVE  /\ n.pks[t] # Absent /\ a.pk[t].end < n.pks[t]
               /\ l.pks[t] # Absent => l.pks[t] < n.pks[t]
    BY <1>2, PkMarkAfter
  <1>3. ASSUME NEW t \in Tables, a.pk[t] = Absent
        PROVE  n.pks[t] = l.pks[t]
    BY <1>3 DEF LedgerAfter, PkMarksAfter
  <1>4. ASSUME NEW i \in DOMAIN n.history, NEW t \in Tables, n.history[i].pk[t] # Absent
        PROVE  n.pks[t] # Absent /\ n.history[i].pk[t].end < n.pks[t]
    <2>1. CASE i \in DOMAIN l.history /\ n.history[i] = l.history[i]
      <3>1. l.pks[t] # Absent /\ l.history[i].pk[t].end < l.pks[t]
        BY <1>4, <2>1 DEF PkCovered
      <3>2. l.history[i].pk[t].end \in Int /\ l.pks[t] \in Int
        <4>1. l.history[i] \in ArtifactShape /\ l.history[i].pk[t] # Absent
          BY <1>4, <2>1, HistoryEntries
        <4>2. l.history[i].pk[t].end \in Int
          BY <4>1 DEF ArtifactShape
        <4>3. l.pks[t] \in Int
          BY <3>1 DEF LedgerShape
        <4>4. QED
          BY <4>2, <4>3
      <3>3. CASE a.pk[t] = Absent
        BY <1>3, <2>1, <3>1, <3>3
      <3>4. CASE a.pk[t] # Absent
        <4>1. n.pks[t] \in Int /\ l.pks[t] < n.pks[t] /\ n.pks[t] # Absent
          BY <1>1, <1>2, <3>1, <3>4 DEF LedgerShape
        <4>2. QED
          BY <2>1, <3>1, <3>2, <4>1
      <3>5. QED
        BY <3>3, <3>4
    <2>2. CASE n.history[i] = a
      BY <1>2, <1>4, <2>2
    <2>3. QED
      BY <1>1, <2>1, <2>2, AppendIndices
  <1>5. QED
    BY <1>4 DEF PkCovered

(* A fresh interval starts at or above every mark it was drawn from.        *)
LEMMA MeuIntervalAboveMarks ==
    ASSUME NEW l \in LedgerShape, NEW plan, ValidPlan(plan),
           NEW a \in Artifacts(l, plan), a.meu # Absent
    PROVE  /\ a.meu.schema = 3 => a.meu.groups # {}
           /\ \A floor \in MeuFloors(l, plan, a.meu.prefix) : floor <= a.meu.start
           /\ a.meu.schema = plan.schema /\ a.meu.date = plan.date
           /\ a.meu.groups = plan.groups
  <1>1. a.meu \in MeuIntervals(l, plan)
    BY ArtifactTyping
  <1>2. plan.ordinals # 0
    BY <1>1 DEF MeuIntervals
  <1>3. PICK p \in Prefixes, s \in 1 .. MaxOrdinal + 1 :
           /\ \A floor \in MeuFloors(l, plan, p) : floor <= s
           /\ a.meu = [ schema |-> plan.schema, date |-> plan.date,
                        groups |-> plan.groups, prefix |-> p,
                        start |-> s, end |-> s + plan.ordinals - 1 ]
    BY <1>1, <1>2 DEF MeuIntervals
  <1>4. plan.schema = 3 => plan.groups # {}
    BY <1>2 DEF ValidPlan
  <1>5. QED
    BY <1>3, <1>4

(* No ordinal mark falls.                                                   *)
LEMMA MeuMarksRise ==
    ASSUME NEW l \in LedgerShape, NEW plan, ValidPlan(plan),
           NEW a \in Artifacts(l, plan)
    PROVE  /\ \A p \in Prefixes : /\ l.legacy[p] \in Int /\ LedgerAfter(l, a).legacy[p] \in Int
                                  /\ l.legacy[p] <= LedgerAfter(l, a).legacy[p]
           /\ \A m \in MeuMarks : /\ l.groups[m] \in Int /\ LedgerAfter(l, a).groups[m] \in Int
                                  /\ l.groups[m] <= LedgerAfter(l, a).groups[m]
  <1> DEFINE n == LedgerAfter(l, a)
             Interval == [ schema : {2, 3}, date : Dates, groups : SUBSET Groups,
                           prefix : Prefixes, start : Int, end : Int ]
  <1>1. /\ a \in ArtifactShape /\ n \in LedgerShape
        /\ a.meu # Absent => a.meu.start <= a.meu.end
    BY ArtifactTyping, LedgerTyping
  <1>2. a.meu \in Interval \cup {Absent}
    BY <1>1 DEF ArtifactShape
  <1>3. a.meu # Absent =>
           /\ \A floor \in MeuFloors(l, plan, a.meu.prefix) : floor <= a.meu.start
           /\ a.meu.schema = plan.schema /\ a.meu.date = plan.date
           /\ a.meu.groups = plan.groups
    BY MeuIntervalAboveMarks
  <1>4. ASSUME NEW p \in Prefixes
        PROVE  l.legacy[p] \in Int /\ n.legacy[p] \in Int /\ l.legacy[p] <= n.legacy[p]
    <2>1. l.legacy[p] \in Int /\ n.legacy[p] \in Int
      BY <1>1, MaxOrdinalIsNat DEF LedgerShape
    <2>2. CASE a.meu # Absent /\ a.meu.schema = 2 /\ a.meu.prefix = p
      <3>1. l.legacy[p] <= a.meu.start
        BY <1>3, <2>2 DEF MeuFloors
      <3>2. n.legacy[p] = a.meu.end + 1
        BY <2>2 DEF LedgerAfter, LegacyAfter, LedgerShape
      <3>3. QED
        BY <1>1, <1>2, <2>1, <2>2, <3>1, <3>2
    <2>3. CASE ~(a.meu # Absent /\ a.meu.schema = 2 /\ a.meu.prefix = p)
      <3>1. n.legacy[p] = l.legacy[p]
        BY <1>2, <2>3 DEF LedgerAfter, LegacyAfter, LedgerShape
      <3>2. QED
        BY <2>1, <3>1
    <2>4. QED
      BY <2>2, <2>3
  <1>5. ASSUME NEW m \in MeuMarks
        PROVE  l.groups[m] \in Int /\ n.groups[m] \in Int /\ l.groups[m] <= n.groups[m]
    <2>1. l.groups[m] \in Int /\ n.groups[m] \in Int
      BY <1>1, MaxOrdinalIsNat DEF LedgerShape
    <2>2. CASE a.meu # Absent /\ a.meu.schema = 3 /\ Covers(a.meu, m)
      <3>1. l.groups[m] <= a.meu.start
        BY <1>3, <2>2 DEF MeuFloors, Covers
      <3>2. n.groups[m] = a.meu.end + 1
        BY <2>2 DEF LedgerAfter, GroupsAfter
      <3>3. QED
        BY <1>1, <1>2, <2>1, <2>2, <3>1, <3>2
    <2>3. CASE ~(a.meu # Absent /\ a.meu.schema = 3 /\ Covers(a.meu, m))
      <3>1. n.groups[m] = l.groups[m]
        BY <2>3 DEF LedgerAfter, GroupsAfter
      <3>2. QED
        BY <2>1, <3>1
    <2>4. QED
      BY <2>2, <2>3
  <1>6. QED
    BY <1>4, <1>5

(* The ordinal marks stay above the history.                                *)
LEMMA CoverMeu ==
    ASSUME NEW l \in LedgerShape, MeuCovered(l), NEW plan, ValidPlan(plan),
           NEW a \in Artifacts(l, plan)
    PROVE  MeuCovered(LedgerAfter(l, a))
  <1> DEFINE n == LedgerAfter(l, a)
             Interval == [ schema : {2, 3}, date : Dates, groups : SUBSET Groups,
                           prefix : Prefixes, start : Int, end : Int ]
  <1>1. /\ a \in ArtifactShape /\ n \in LedgerShape
        /\ a.meu \in MeuIntervals(l, plan)
        /\ a.meu # Absent => a.meu.end <= MaxOrdinal /\ a.meu.start <= a.meu.end
    BY ArtifactTyping, LedgerTyping
  <1>2. a.meu \in Interval \cup {Absent}
    BY <1>1 DEF ArtifactShape
  <1>3. a.meu # Absent => (a.meu.schema = 3 => a.meu.groups # {})
    BY MeuIntervalAboveMarks
  <1>4. \A p \in Prefixes : /\ l.legacy[p] \in Int /\ n.legacy[p] \in Int
                            /\ l.legacy[p] <= n.legacy[p]
    BY MeuMarksRise
  <1>5. \A m \in MeuMarks : /\ l.groups[m] \in Int /\ n.groups[m] \in Int
                            /\ l.groups[m] <= n.groups[m]
    BY MeuMarksRise
  <1>6. ASSUME NEW i \in DOMAIN n.history, n.history[i].meu # Absent
        PROVE  /\ n.history[i].meu.end <= MaxOrdinal
               /\ n.history[i].meu.schema = 2 =>
                     n.history[i].meu.end < n.legacy[n.history[i].meu.prefix]
               /\ n.history[i].meu.schema = 3 =>
                     /\ n.history[i].meu.groups # {}
                     /\ \A m \in MeuMarks :
                           Covers(n.history[i].meu, m) => n.history[i].meu.end < n.groups[m]
    <2> DEFINE x == n.history[i].meu
    <2>1. x \in Interval
      BY <1>1, <1>6, HistoryEntries DEF ArtifactShape
    <2>2. CASE i \in DOMAIN l.history /\ n.history[i] = l.history[i]
      <3>1. /\ x.end <= MaxOrdinal
            /\ x.schema = 2 => x.end < l.legacy[x.prefix]
            /\ x.schema = 3 => /\ x.groups # {}
                               /\ \A m \in MeuMarks : Covers(x, m) => x.end < l.groups[m]
        BY <1>6, <2>2 DEF MeuCovered
      <3>2. x.schema = 2 => x.end < n.legacy[x.prefix]
        BY <1>4, <2>1, <3>1
      <3>3. x.schema = 3 => \A m \in MeuMarks : Covers(x, m) => x.end < n.groups[m]
        BY <1>5, <2>1, <3>1
      <3>4. QED
        BY <3>1, <3>2, <3>3
    <2>3. CASE n.history[i] = a
      <3>1. x.schema = 2 => n.legacy[x.prefix] = x.end + 1
        BY <1>6, <2>1, <2>3 DEF LedgerAfter, LegacyAfter, LedgerShape
      <3>2. x.schema = 3 => \A m \in MeuMarks : Covers(x, m) => n.groups[m] = x.end + 1
        BY <1>6, <2>3 DEF LedgerAfter, GroupsAfter
      <3>3. QED
        BY <1>1, <1>3, <1>6, <2>1, <2>3, <3>1, <3>2
    <2>4. QED
      BY <1>1, <2>2, <2>3, AppendIndices
  <1>7. QED
    BY <1>6 DEF MeuCovered

\* A code interval that an allocation adds has the length its count says.
LEMMA MeasureCdb ==
    ASSUME NEW l \in LedgerShape, CdbMeasured(l), NEW plan, ValidPlan(plan),
           NEW a \in Artifacts(l, plan)
    PROVE  CdbMeasured(LedgerAfter(l, a))
  <1>1. a \in ArtifactShape /\ a.cdb \in CdbIntervals(l, plan)
    BY ArtifactTyping
  <1>2. a.cdb # Absent => /\ a.cdb.end = a.cdb.start + a.cdb.count - 1
                          /\ a.cdb.end <= CdbMax
    BY <1>1 DEF CdbIntervals
  <1>3. QED
    BY <1>1, <1>2, AppendIndices DEF CdbMeasured

(* A ledger object that does not exist, or that schema-1 code wrote, starts *)
(* out well formed, with at most one entry and its marks above it.          *)
LEMMA InitialLedgersAreCovered ==
    ASSUME NEW l \in InitialLedgers
    PROVE  /\ l \in LedgerShape
           /\ MarksCover(l)
           /\ \A i, j \in DOMAIN l.history : i = j
  <1>1. CASE l = EmptyLedger
    <2>1. l \in LedgerShape
      BY <1>1, MaxOrdinalIsNat DEF LedgerShape, EmptyLedger
    <2>2. DOMAIN l.history = {}
      BY <1>1 DEF EmptyLedger
    <2>3. QED
      BY <2>1, <2>2 DEF MarksCover, PkCovered, MeuCovered, CdbMeasured
  <1>2. ASSUME NEW used \in LegacyMarks \ {0}, l = MigratedLedger(used)
        PROVE  /\ l \in LedgerShape
               /\ MarksCover(l)
               /\ \A i, j \in DOMAIN l.history : i = j
    <2>1. used \in 1 .. MaxOrdinal /\ LegacyPrefix \in Prefixes
      BY LegacyIsPossible, MaxOrdinalIsNat
    <2> DEFINE entry == [ pk  |-> [t \in Tables |-> Absent],
                          meu |-> [ schema |-> 2, date |-> AnyDate, groups |-> {},
                                    prefix |-> LegacyPrefix, start |-> 1, end |-> used ],
                          cdb |-> Absent ]
    <2>2. /\ l.pks = [t \in Tables |-> Absent]
          /\ l.legacy = [[p \in Prefixes |-> 1] EXCEPT ![LegacyPrefix] = used + 1]
          /\ l.groups = [m \in MeuMarks |-> 1]
          /\ l.history = << entry >>
          /\ l = [ pks |-> l.pks, legacy |-> l.legacy,
                   groups |-> l.groups, history |-> l.history ]
      BY <1>2 DEF MigratedLedger, EmptyLedger
    <2>3. entry \in ArtifactShape
      BY <2>1, LegacyIsPossible, MaxOrdinalIsNat DEF ArtifactShape, AnyDate
    <2>4. l \in LedgerShape
      <3>1. l.history \in Seq(ArtifactShape)
        BY <2>2, <2>3
      <3>2. l.legacy \in [Prefixes -> 1 .. MaxOrdinal + 1]
        BY <2>1, <2>2, MaxOrdinalIsNat
      <3>3. l.groups \in [MeuMarks -> 1 .. MaxOrdinal + 1]
        BY <2>2, MaxOrdinalIsNat
      <3>4. QED
        BY <2>2, <3>1, <3>2, <3>3 DEF LedgerShape
    <2>5. DOMAIN l.history = {1} /\ l.history[1] = entry
      BY <2>2
    <2>6. PkCovered(l) /\ CdbMeasured(l)
      BY <2>5 DEF PkCovered, CdbMeasured
    <2>7. MeuCovered(l)
      <3>1. l.legacy[LegacyPrefix] = used + 1
        BY <2>1, <2>2
      <3>2. QED
        BY <2>1, <2>5, <3>1 DEF MeuCovered
    <2>8. QED
      BY <2>4, <2>5, <2>6, <2>7 DEF MarksCover
  <1>3. QED
    BY <1>1, <1>2 DEF InitialLedgers

-----------------------------------------------------------------------------
(* One allocation, in one lemma each.                                       *)

(* The ledger that records a fresh artifact is well formed and covered.     *)
LEMMA AllocationCovers ==
    ASSUME NEW l \in LedgerShape, MarksCover(l), NEW plan, ValidPlan(plan),
           NEW a \in Artifacts(l, plan)
    PROVE  /\ a \in ArtifactShape
           /\ LedgerAfter(l, a) \in LedgerShape
           /\ MarksCover(LedgerAfter(l, a))
  <1>1. PkCovered(l) /\ MeuCovered(l) /\ CdbMeasured(l)
    BY DEF MarksCover
  <1>2. a \in ArtifactShape
    BY ArtifactTyping
  <1>3. LedgerAfter(l, a) \in LedgerShape
    BY LedgerTyping
  <1>4. PkCovered(LedgerAfter(l, a))
    BY <1>1, CoverPk
  <1>5. MeuCovered(LedgerAfter(l, a))
    BY <1>1, CoverMeu
  <1>6. CdbMeasured(LedgerAfter(l, a))
    BY <1>1, MeasureCdb
  <1>7. QED
    BY <1>2, <1>3, <1>4, <1>5, <1>6 DEF MarksCover

(* A fresh artifact clashes with nothing that is recorded.                  *)
LEMMA FreshArtifact ==
    ASSUME NEW l \in LedgerShape, MarksCover(l), NEW plan, ValidPlan(plan),
           NEW a \in Artifacts(l, plan), NEW i \in DOMAIN l.history
    PROVE  ~Clash(l.history[i], a) /\ ~Clash(a, l.history[i])
  <1>1. PkCovered(l) /\ MeuCovered(l) /\ CdbMeasured(l)
    BY DEF MarksCover
  <1>2. ~PkClash(l.history[i], a) /\ ~PkClash(a, l.history[i])
    BY <1>1, FreshPk
  <1>3. ~MeuClash(l.history[i], a) /\ ~MeuClash(a, l.history[i])
    BY <1>1, FreshMeu
  <1>4. ~CdbClash(l.history[i], a) /\ ~CdbClash(a, l.history[i])
    BY <1>1, FreshCdb
  <1>5. QED
    BY <1>2, <1>3, <1>4 DEF Clash
=============================================================================
