-------------------------- MODULE RangeLedgerProofs -------------------------
(***************************************************************************)
(* Proofs that the ledger never hands out a key, a control number or a     *)
(* code twice, for every set of plans and every size of the number spaces. *)
(*                                                                         *)
(* The reuse invariants are not inductive on their own: that a fresh range *)
(* avoids the old ones follows from the marks lying above everything in    *)
(* the history, so MarksCover is carried along.                            *)
(***************************************************************************)
EXTENDS RangeLedger, LedgerLemmas

-----------------------------------------------------------------------------
(* The inductive invariant.                                                 *)

\* The ledgers there may be at first, empty or migrated, satisfy the invariant.
LEMMA InitialInvariant == Init => IInv
  <1> SUFFICES ASSUME ledger \in InitialLedgers
               PROVE  IInv
    BY DEF Init
  <1>1. /\ ledger \in LedgerShape
        /\ MarksCover(ledger)
        /\ \A i, j \in DOMAIN ledger.history : i = j
    BY InitialLedgersAreCovered
  <1>2. QED
    BY <1>1 DEF IInv, TypeOK, NoPkReuse, NoMeuReuse, NoCdbReuse

(* An allocation appends one artifact that meets nothing before it.         *)
LEMMA AllocationKeepsInvariant ==
    ASSUME IInv, NEW plan \in Plans, Allocate(plan)
    PROVE  IInv'
  <1>1. ValidPlan(plan) /\ ledger \in LedgerShape
    BY PlansAreValid DEF IInv, TypeOK
  <1>2. PICK a \in Artifacts(ledger, plan) : ledger' = LedgerAfter(ledger, a)
    BY DEF Allocate
  <1>3. PkCovered(ledger) /\ MeuCovered(ledger) /\ CdbMeasured(ledger)
    BY DEF IInv, MarksCover
  <1>4. TypeOK'
    BY <1>1, <1>2, LedgerTyping DEF TypeOK
  <1>5. MarksCover(ledger')
    BY <1>1, <1>2, AllocationCovers DEF IInv
  <1>6. a \in ArtifactShape
    BY <1>1, ArtifactTyping
  <1>7. \A i \in DOMAIN ledger'.history :
           \/ i \in DOMAIN ledger.history /\ ledger'.history[i] = ledger.history[i]
           \/ i = Len(ledger.history) + 1 /\ ledger'.history[i] = a
    BY <1>1, <1>2, <1>6, AppendIndices
  <1>8. NoPkReuse'
    <2>1. \A i \in DOMAIN ledger.history :
             ~PkClash(ledger.history[i], a) /\ ~PkClash(a, ledger.history[i])
      BY <1>1, <1>3, FreshPk
    <2>2. NoPkReuse
      BY DEF IInv
    <2>3. QED
      BY <1>7, <2>1, <2>2 DEF NoPkReuse
  <1>9. NoMeuReuse'
    <2>1. \A i \in DOMAIN ledger.history :
             ~MeuClash(ledger.history[i], a) /\ ~MeuClash(a, ledger.history[i])
      BY <1>1, <1>3, FreshMeu
    <2>2. NoMeuReuse
      BY DEF IInv
    <2>3. QED
      BY <1>7, <2>1, <2>2 DEF NoMeuReuse
  <1>10. NoCdbReuse'
    <2>1. \A i \in DOMAIN ledger.history :
             ~CdbClash(ledger.history[i], a) /\ ~CdbClash(a, ledger.history[i])
      BY <1>1, <1>3, FreshCdb
    <2>2. NoCdbReuse
      BY DEF IInv
    <2>3. QED
      BY <1>7, <2>1, <2>2 DEF NoCdbReuse
  <1>11. QED
    BY <1>4, <1>5, <1>8, <1>9, <1>10 DEF IInv

(* In every reachable state the marks lie above everything handed out.      *)
THEOREM InductiveInvariant == Spec => []IInv
  <1>1. Init => IInv
    BY InitialInvariant
  <1>2. IInv /\ [Next]_ledger => IInv'
    <2> SUFFICES ASSUME IInv, [Next]_ledger
                 PROVE  IInv'
      OBVIOUS
    <2>1. ASSUME NEW plan \in Plans, Allocate(plan)
          PROVE  IInv'
      BY <2>1, AllocationKeepsInvariant
    <2>2. CASE UNCHANGED ledger
      BY <2>2 DEF IInv, TypeOK, MarksCover, NoPkReuse, NoMeuReuse, NoCdbReuse
    <2>3. QED
      BY <2>1, <2>2 DEF Next
  <1>3. QED
    BY <1>1, <1>2, PTL DEF Spec

(* The ledger always has the structure _validate_ledger insists on.         *)
THEOREM LedgerIsWellFormed == Spec => []TypeOK
  <1>1. IInv => TypeOK
    BY DEF IInv
  <1>2. QED
    BY <1>1, InductiveInvariant, PTL

(* No primary key slot of a table is ever handed out twice, whatever the    *)
(* steps, floors and counts of the plans.                                   *)
THEOREM NoKeyTwice == Spec => []NoPkReuse
  <1>1. IInv => NoPkReuse
    BY DEF IInv
  <1>2. QED
    BY <1>1, InductiveInvariant, PTL

(* No control number is ever handed out twice to operations that could      *)
(* meet, whatever the schemas, dates and groups of the plans.               *)
THEOREM NoNumberTwice == Spec => []NoMeuReuse
  <1>1. IInv => NoMeuReuse
    BY DEF IInv
  <1>2. QED
    BY <1>1, InductiveInvariant, PTL

(* No CDB code is ever handed out twice.                                    *)
THEOREM NoCodeTwice == Spec => []NoCdbReuse
  <1>1. IInv => NoCdbReuse
    BY DEF IInv
  <1>2. QED
    BY <1>1, InductiveInvariant, PTL

(* No ordinal or code suffix leaves its number space.                       *)
THEOREM IntervalsFit == Spec => []WithinCapacity
  <1>1. IInv => WithinCapacity
    BY DEF IInv, MarksCover, MeuCovered, CdbMeasured, WithinCapacity
  <1>2. QED
    BY <1>1, InductiveInvariant, PTL

(* An allocation keeps the history and lowers no mark.                      *)
LEMMA AllocationRaisesMarks ==
    ASSUME IInv, NEW plan \in Plans, Allocate(plan)
    PROVE  /\ Len(ledger'.history) > Len(ledger.history)
           /\ \A i \in DOMAIN ledger.history : ledger'.history[i] = ledger.history[i]
           /\ \A t \in Tables : ledger.pks[t] # Absent => /\ ledger'.pks[t] # Absent
                                                          /\ ledger'.pks[t] >= ledger.pks[t]
           /\ \A p \in Prefixes : ledger'.legacy[p] >= ledger.legacy[p]
           /\ \A m \in MeuMarks : ledger'.groups[m] >= ledger.groups[m]
  <1>1. ValidPlan(plan) /\ ledger \in LedgerShape
    BY PlansAreValid DEF IInv, TypeOK
  <1>2. PICK a \in Artifacts(ledger, plan) : ledger' = LedgerAfter(ledger, a)
    BY DEF Allocate
  <1>3. /\ a \in ArtifactShape /\ ledger' \in LedgerShape
        /\ ledger.history \in Seq(ArtifactShape)
    BY <1>1, <1>2, ArtifactTyping, LedgerTyping DEF LedgerShape
  <1>4. ledger'.history = Append(ledger.history, a)
    BY <1>2 DEF LedgerAfter
  <1>5. /\ Len(ledger'.history) > Len(ledger.history)
        /\ \A i \in DOMAIN ledger.history : ledger'.history[i] = ledger.history[i]
    BY <1>3, <1>4
  <1>6. ASSUME NEW t \in Tables, ledger.pks[t] # Absent
        PROVE  ledger'.pks[t] # Absent /\ ledger'.pks[t] >= ledger.pks[t]
    <2>1. CASE a.pk[t] = Absent
      <3>1. ledger'.pks[t] = ledger.pks[t] /\ ledger.pks[t] \in Int
        BY <1>1, <1>2, <1>6, <2>1 DEF LedgerAfter, PkMarksAfter, LedgerShape
      <3>2. QED
        BY <1>6, <3>1
    <2>2. CASE a.pk[t] # Absent
      <3>1. ledger'.pks[t] # Absent /\ ledger.pks[t] < ledger'.pks[t]
        BY <1>1, <1>2, <1>6, <2>2, PkMarkAfter
      <3>2. ledger.pks[t] \in Int /\ ledger'.pks[t] \in Int
        BY <1>1, <1>3, <1>6, <3>1 DEF LedgerShape
      <3>3. QED
        BY <3>1, <3>2
    <2>3. QED
      BY <2>1, <2>2
  <1>7. /\ \A p \in Prefixes : ledger'.legacy[p] >= ledger.legacy[p]
        /\ \A m \in MeuMarks : ledger'.groups[m] >= ledger.groups[m]
    BY <1>1, <1>2, MeuMarksRise
  <1>8. QED
    BY <1>5, <1>6, <1>7

(* The history only grows and no mark ever falls.                           *)
THEOREM MarksNeverFall == Spec => MarksOnlyRise
  <1>1. IInv /\ [Next]_ledger =>
           [ /\ Len(ledger'.history) > Len(ledger.history)
             /\ \A i \in DOMAIN ledger.history : ledger'.history[i] = ledger.history[i]
             /\ \A t \in Tables : ledger.pks[t] # Absent => /\ ledger'.pks[t] # Absent
                                                            /\ ledger'.pks[t] >= ledger.pks[t]
             /\ \A p \in Prefixes : ledger'.legacy[p] >= ledger.legacy[p]
             /\ \A m \in MeuMarks : ledger'.groups[m] >= ledger.groups[m] ]_ledger
    BY AllocationRaisesMarks DEF Next
  <1>2. QED
    BY <1>1, InductiveInvariant, PTL DEF Spec, MarksOnlyRise
=============================================================================
