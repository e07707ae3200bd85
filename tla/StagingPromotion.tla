--------------------------- MODULE StagingPromotion --------------------------
(***************************************************************************)
(* How engorda puts an output in its place: _stage_and_publish and          *)
(* _promote_staging_paths of datagen/engorda_tables.py. Each attempt has a  *)
(* staging and a backup directory of its own (a fresh uuid). An attempt may *)
(* die between any two calls; one writer at a time is assumed, as there.    *)
(*                                                                         *)
(* Files are pairs of the attempt that wrote them (0: before any) and of    *)
(* the table's part they hold. A call and the exists() that verifies it are *)
(* one step; an exists() that raises is the failure of that step.           *)
(***************************************************************************)
EXTENDS ObjectTree

CONSTANTS
    Parts,
    Attempts,    \* bound: runs of the job
    MaxFaults    \* bound: calls that fail and runs that die

\* Assumed of the constants.
AttemptsAreCounted == Attempts \in Nat

VARIABLES
    tree,
    exact,       \* require_absent: a DATAGEN_OUTPUT_URI is never replaced
    attempt,
    pc,
    found,       \* what the attempt found at the final path
    outcome,     \* how the last attempt ended
    had,         \* the final path has held a whole table
    faults

vars == <<tree, exact, attempt, pc, found, outcome, had, faults>>

Final == <<"final", 0>>
Staging(n) == <<"staging", n>>
Backup(n) == <<"backup", n>>

Paths == {Final} \cup ({"staging", "backup"} \X (1 .. Attempts))

Written(n) == {n} \X Parts

Init ==
    /\ had \in BOOLEAN
    /\ tree = [p \in Paths |-> IF p = Final /\ had THEN Written(0) ELSE {}]
    /\ exact \in BOOLEAN
    /\ attempt = 0
    /\ pc = "idle"
    /\ found = {}
    /\ outcome = "none"
    /\ faults = 0

-----------------------------------------------------------------------------

End(result) ==
    /\ pc' = "idle"
    /\ outcome' = result
    /\ had' = (had \/ result = "published")

Goto(step) == pc' = step /\ UNCHANGED <<outcome, had>>

Fault == faults < MaxFaults /\ faults' = faults + 1

\* prepare writes the whole output to the staging directory, or fails.
Stage ==
    /\ pc = "idle"
    /\ attempt < Attempts
    /\ attempt' = attempt + 1
    /\ found' = tree[Final]
    /\ \/ /\ tree' = [tree EXCEPT ![Staging(attempt')] = Written(attempt')]
          /\ Goto("staged")
          /\ UNCHANGED faults
       \/ /\ Fault
          /\ tree' \in {[tree EXCEPT ![Staging(attempt')] = s] : s \in SUBSET Written(attempt')}
          /\ End("failed")
    /\ UNCHANGED exact

Check ==
    /\ pc = "staged"
    /\ IF exact /\ Exists(tree, Final)
       THEN End("refused")
       ELSE Goto(IF Exists(tree, Final) THEN "preserve" ELSE "promote")
    /\ UNCHANGED <<tree, exact, attempt, found, faults>>

\* Faulty variant: whether the rename succeeded is not looked at.
PreserveUnverified ==
    /\ pc = "preserve"
    /\ \/ /\ tree' = Moved(tree, Final, Backup(attempt))
          /\ UNCHANGED faults
       \/ /\ Fault
          /\ tree' \in PartialMoves(tree, Final, Backup(attempt))
    /\ Goto("promote")
    /\ UNCHANGED <<exact, attempt, found>>

\* The destination aside, if there was one,
Preserve ==
    /\ pc = "preserve"
    /\ \/ /\ tree' = Moved(tree, Final, Backup(attempt))
          /\ Goto("promote")
          /\ UNCHANGED faults
       \/ /\ Fault
          /\ tree' \in PartialMoves(tree, Final, Backup(attempt))
          /\ End("critical")
    /\ UNCHANGED <<exact, attempt, found>>

\* Faulty variant: a destination that exists is a promotion that succeeded.
PromoteIfThere ==
    /\ pc = "promote"
    /\ \/ tree' = Moved(tree, Staging(attempt), Final) /\ UNCHANGED faults
       \/ Fault /\ tree' \in PartialMoves(tree, Staging(attempt), Final)
    /\ IF Exists(tree', Final)
       THEN IF found = {} THEN End("published") ELSE Goto("cleanup")
       ELSE IF found = {} THEN End("failed") ELSE Goto("erase")
    /\ UNCHANGED <<exact, attempt, found>>

\* and the staged output in its place.
Promote ==
    /\ pc = "promote"
    /\ \/ /\ tree' = Moved(tree, Staging(attempt), Final)
          /\ IF found = {} THEN End("published") ELSE Goto("cleanup")
          /\ UNCHANGED faults
       \/ /\ Fault
          /\ tree' \in PartialMoves(tree, Staging(attempt), Final)
          /\ IF found = {} THEN End("failed") ELSE Goto("erase")
    /\ UNCHANGED <<exact, attempt, found>>

Erase ==
    /\ pc = "erase"
    /\ \/ tree' = Deleted(tree, Final) /\ Goto("restore") /\ UNCHANGED faults
       \/ Fault /\ tree' \in PartialDeletes(tree, Final) /\ End("critical")
    /\ UNCHANGED <<exact, attempt, found>>

Restore ==
    /\ pc = "restore"
    /\ \/ /\ tree' = Moved(tree, Backup(attempt), Final)
          /\ End("restored")
          /\ UNCHANGED faults
       \/ /\ Fault
          /\ tree' \in PartialMoves(tree, Backup(attempt), Final)
          /\ End("critical")
    /\ UNCHANGED <<exact, attempt, found>>

\* A backup that stays is only a warning.
Cleanup ==
    /\ pc = "cleanup"
    /\ \/ tree' = Deleted(tree, Backup(attempt)) /\ UNCHANGED faults
       \/ Fault /\ tree' \in PartialDeletes(tree, Backup(attempt))
    /\ End("published")
    /\ UNCHANGED <<exact, attempt, found>>

\* The run dies.
Die ==
    /\ pc # "idle"
    /\ Fault
    /\ End("died")
    /\ UNCHANGED <<tree, exact, attempt, found>>

Over == pc = "idle" /\ attempt = Attempts /\ UNCHANGED vars

Next ==
    Stage \/ Check \/ Preserve \/ Promote \/ Erase \/ Restore \/ Cleanup \/ Die \/ Over

Spec == Init /\ [][Next]_vars

-----------------------------------------------------------------------------
(* Properties.                                                              *)

\* Once the final path has held a whole table, no part of it is ever lost,
\* whatever fails or dies in whatever attempt: some version of it is at the
\* final path or in a backup (the CRITICAL messages tell which).
NothingLost ==
    LET kept == UNION {tree[p] : p \in {Final} \cup {Backup(n) : n \in 1 .. Attempts}}
    IN  had => \A part \in Parts : \E f \in kept : f[2] = part

\* What an attempt reports is so: published, the final path holds its whole
\* output and nothing else; restored or refused, it holds what was there.
OutcomesAreTrue ==
    /\ outcome = "published" /\ pc = "idle" => tree[Final] = Written(attempt)
    /\ outcome \in {"restored", "refused"} /\ pc = "idle" => tree[Final] = found
=============================================================================
