----------------------------- MODULE RangeLedger ----------------------------
(***************************************************************************)
(* What the reservation ledger promises: plans are allocated one at a      *)
(* time, each against the ledger its predecessor left, and nothing handed  *)
(* out is ever handed out again. scripts/run_pipeline.py reaches this by   *)
(* a lease and compare-and-swap writes; module Reservation models that and *)
(* is checked and, where etags come with the answers, proved to implement  *)
(* this specification.                                                     *)
(***************************************************************************)
EXTENDS PersistedLedger

CONSTANTS
    Plans,            \* the plans that may ask for ranges
    MaxReservations   \* bound on the length of the history

ASSUME PlansAreValid == \A plan \in Plans : ValidPlan(plan)

VARIABLE ledger

Init == ledger \in InitialLedgers

(* A failed allocation raises before anything is stored, so only a          *)
(* successful one is a step.                                                *)
Allocate(plan) ==
    /\ Len(ledger.history) < MaxReservations
    /\ \E artifact \in Artifacts(ledger, plan) :
          ledger' = LedgerAfter(ledger, artifact)

Next == \E plan \in Plans : Allocate(plan)

Spec == Init /\ [][Next]_ledger

-----------------------------------------------------------------------------
(* The persisted structure that _validate_ledger insists on.                *)
TypeOK == ledger \in LedgerShape

(* No two reservations of the history share a primary key slot of a table,  *)
(* whatever steps and floors their plans asked for.                         *)
NoPkReuse ==
    \A i, j \in DOMAIN ledger.history :
        i # j => ~PkClash(ledger.history[i], ledger.history[j])

(* No two reservations give the same control number to operations that      *)
(* could meet, across schema-2 plans, schema-3 plans and a migrated ledger; *)
(* disjoint groups may share an interval.                                   *)
NoMeuReuse ==
    \A i, j \in DOMAIN ledger.history :
        i # j => ~MeuClash(ledger.history[i], ledger.history[j])

(* No two reservations share a synthetic CDB code.                          *)
NoCdbReuse ==
    \A i, j \in DOMAIN ledger.history :
        i # j => ~CdbClash(ledger.history[i], ledger.history[j])

(* A reserved interval never leaves its number space: seven digits for an   *)
(* ordinal, five base-36 digits for a code.                                 *)
WithinCapacity ==
    \A i \in DOMAIN ledger.history :
        /\ ledger.history[i].meu # Absent => ledger.history[i].meu.end <= MaxOrdinal
        /\ ledger.history[i].cdb # Absent => ledger.history[i].cdb.end <= CdbMax

(* A step only ever adds to the history and never lowers a mark, so a range *)
(* burned by a run that failed afterwards stays burned.                     *)
MarksOnlyRise ==
    [][ /\ Len(ledger'.history) > Len(ledger.history)
        /\ \A i \in DOMAIN ledger.history : ledger'.history[i] = ledger.history[i]
        /\ \A t \in Tables : ledger.pks[t] # Absent => /\ ledger'.pks[t] # Absent
                                                       /\ ledger'.pks[t] >= ledger.pks[t]
        /\ \A p \in Prefixes : ledger'.legacy[p] >= ledger.legacy[p]
        /\ \A m \in MeuMarks : ledger'.groups[m] >= ledger.groups[m] ]_ledger
-----------------------------------------------------------------------------
(* Why nothing is reused: the marks lie above the whole history. IInv is    *)
(* inductive, which the properties above are not on their own.              *)

IInv == TypeOK /\ MarksCover(ledger) /\ NoPkReuse /\ NoMeuReuse /\ NoCdbReuse
=============================================================================
