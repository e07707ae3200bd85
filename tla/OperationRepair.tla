--------------------------- MODULE OperationRepair ---------------------------
(***************************************************************************)
(* run_repair of scripts/repair_operacao_ctx_msg_p2.py: the published       *)
(* OPERACAO is read, some of its references are made null in a copy, and    *)
(* the copy takes its place. Staging and backup are named by the run id,    *)
(* which the operator may give again. A run may die between any two calls;  *)
(* there is one writer, as the script says.                                 *)
(*                                                                         *)
(* Files are pairs of the run that wrote them (0: engorda) and of the       *)
(* table's part they hold; every part engorda wrote has references to null. *)
(* The answer of a rename is ignored: manifests of the files decide.        *)
(***************************************************************************)
EXTENDS ObjectTree

CONSTANTS
    Parts,
    RunIds,
    MaxRuns,     \* bound: runs of the script
    MaxFaults    \* bound: calls that fail and runs that die

VARIABLES
    tree,
    attempt,     \* how many runs there have been
    runId,
    pc,
    found,       \* what the run read from the final path
    outcome,     \* the status the last run reported
    faults

vars == <<tree, attempt, runId, pc, found, outcome, faults>>

Final == <<"final", 0>>
Staging(id) == <<"staging", id>>
Backup(id) == <<"backup", id>>
Backups == {Backup(id) : id \in RunIds}

Paths == {Final} \cup ({"staging", "backup"} \X RunIds)

\* repair_dataframe writes every row it read, with the listed values null.
Repaired(files, run) == {<<run, f[2]>> : f \in files}

\* validate_source: the primary key is unique.
Consistent(files) == \A f, g \in files : f[2] = g[2] => f = g

Matched(files) == \E f \in files : f[1] = 0

Init ==
    /\ tree = [p \in Paths |-> IF p = Final THEN {0} \X Parts ELSE {}]
    /\ attempt = 0
    /\ runId \in RunIds
    /\ pc = "idle"
    /\ found = {}
    /\ outcome = "none"
    /\ faults = 0

End(status) == pc' = "idle" /\ outcome' = status
Goto(step) == pc' = step /\ UNCHANGED outcome

Fault == faults < MaxFaults /\ faults' = faults + 1

-----------------------------------------------------------------------------

\* The source is read and checked, and so is its repaired form.
Read ==
    /\ pc = "idle" /\ attempt < MaxRuns
    /\ attempt' = attempt + 1
    /\ runId' \in RunIds
    /\ found' = tree[Final]
    /\ \/ /\ found' # {} /\ Consistent(found')
          /\ IF Matched(found') THEN Goto("stage") ELSE End("no-op")
          /\ UNCHANGED faults
       \/ /\ found' = {} \/ ~Consistent(found')
          /\ End("failed")
          /\ UNCHANGED faults
       \/ Fault /\ End("failed")
    /\ UNCHANGED tree

\* A stale staging directory is deleted and the repaired table written to
\* it and validated; a backup of this run id is never replaced.
Stage ==
    /\ pc = "stage"
    /\ LET staging == Staging(runId)
           whole == Repaired(found, attempt)
       IN  \/ /\ Exists(tree, Backup(runId))
              /\ End("failed")
              /\ UNCHANGED <<tree, faults>>
           \/ /\ ~Exists(tree, Backup(runId))
              /\ tree' = [tree EXCEPT ![staging] = whole]
              /\ Goto("preserve")
              /\ UNCHANGED faults
           \/ /\ ~Exists(tree, Backup(runId)) /\ Fault
              /\ tree' \in PartialDeletes(tree, staging)
                           \cup {[tree EXCEPT ![staging] = s] : s \in SUBSET whole}
              /\ End("failed")
    /\ UNCHANGED <<attempt, runId, found>>

\* Was everything that should have moved seen to move?
Verified(from, to, files) == tree'[from] = {} /\ tree'[to] = files

\* A rename and the check that decides; the check itself may fail.
Rename(from, to, good, bad) ==
    LET files == tree[from]
        Decide == IF Verified(from, to, files) THEN good ELSE bad
    IN  \/ tree' = Moved(tree, from, to) /\ Decide /\ UNCHANGED faults
        \/ tree' \in PartialMoves(tree, from, to) /\ Fault /\ (Decide \/ End("failed"))

\* promote_staging_paths: the destination aside,
Preserve ==
    /\ pc = "preserve"
    /\ Rename(Final, Backup(runId), Goto("promote"), End("critical"))
    /\ UNCHANGED <<attempt, runId, found>>

\* Faulty variant: a repair that did not arrive is left to the operator.
PromoteOrDrop ==
    /\ pc = "promote"
    /\ Rename(Staging(runId), Final, Goto("validate"), End("restored"))
    /\ UNCHANGED <<attempt, runId, found>>

\* and the repaired table in its place.
Promote ==
    /\ pc = "promote"
    /\ Rename(Staging(runId), Final, Goto("validate"), Goto("erase"))
    /\ UNCHANGED <<attempt, runId, found>>

\* The published table is compared with the repaired form of its backup.
Validate ==
    /\ pc = "validate"
    /\ \/ /\ tree[Final] = Repaired(tree[Backup(runId)], attempt)
          /\ Goto("cleanup")
          /\ UNCHANGED faults
       \/ Fault /\ Goto("erase")
    /\ UNCHANGED <<tree, attempt, runId, found>>

\* _restore_backup_paths: only under a backup that is whole,
Erase ==
    /\ pc = "erase"
    /\ \/ /\ tree[Backup(runId)] = found
          /\ tree' = Deleted(tree, Final)
          /\ Goto("restore")
          /\ UNCHANGED faults
       \/ /\ tree[Backup(runId)] # found
          /\ End("critical")
          /\ UNCHANGED <<tree, faults>>
       \/ /\ Fault
          /\ tree' \in PartialDeletes(tree, Final)
          /\ End("critical")
    /\ UNCHANGED <<attempt, runId, found>>

Restore ==
    /\ pc = "restore"
    /\ Rename(Backup(runId), Final, End("restored"), End("critical"))
    /\ UNCHANGED <<attempt, runId, found>>

\* delete_verified_backup: a backup that stays fails the run.
Cleanup ==
    /\ pc = "cleanup"
    /\ \/ tree' = Deleted(tree, Backup(runId)) /\ End("published") /\ UNCHANGED faults
       \/ tree' \in PartialDeletes(tree, Backup(runId)) /\ Fault /\ End("preserved")
    /\ UNCHANGED <<attempt, runId, found>>

Die ==
    /\ pc # "idle" /\ Fault
    /\ End("died")
    /\ UNCHANGED <<tree, attempt, runId, found>>

Over == pc = "idle" /\ attempt = MaxRuns /\ UNCHANGED vars

Next ==
    \/ Read \/ Stage \/ Preserve \/ Promote \/ Validate
    \/ Erase \/ Restore \/ Cleanup \/ Die \/ Over

Spec == Init /\ [][Next]_vars

-----------------------------------------------------------------------------
(* Properties.                                                              *)

\* No part of the table is ever lost, whatever fails or dies in whatever
\* run: it is at the final path or in a backup, repaired or not.
NothingLost ==
    LET kept == UNION {tree[p] : p \in {Final} \cup Backups}
    IN  \A part \in Parts : \E f \in kept : f[2] = part

\* What a run reports is so: published, or published with its backup
\* preserved, the final path holds what it read, repaired, and nothing else;
\* restored, or nothing to do, it holds what it read.
OutcomesAreTrue ==
    pc = "idle" =>
        /\ outcome \in {"published", "preserved"} => tree[Final] = Repaired(found, attempt)
        /\ outcome = "published" => ~Exists(tree, Backup(runId))
        /\ outcome \in {"restored", "no-op"} => tree[Final] = found
=============================================================================
