------------------------------ MODULE PlanHandoff -----------------------------
(***************************************************************************)
(* What a plan of datagen/engorda_tables.py leaves for its materialization: *)
(* the generated texts and their manifest, the classification of a CCB,    *)
(* the snapshot of the selected rows, and last the plan itself, which the   *)
(* reservation is made for. All are written once; nothing locks them. Two   *)
(* attempts at one plan_uri may overlap, die at any step, and have RAW      *)
(* replaced under them; the materialization then takes the hand-over whole  *)
(* or refuses it.                                                           *)
(*                                                                         *)
(* RAW is known by its version; Raws says what a version holds.             *)
(***************************************************************************)
EXTENDS Naturals, Sequences, FiniteSets

CONSTANTS
    Attempts,   \* executar_job with phase "plan", on one plan_uri
    Jobs,       \* [genai, ccb, K]
    Raws,       \* sequences of [roots, counts, classes, missing]
    Allowlist,  \* selective_missing_keys
    Null

\* Null is no attempt, nor what a refusal leaves; --k is positive.
AttemptsAreTold ==
    /\ Null \notin Attempts /\ Null # [accepted |-> FALSE]
    /\ \A j \in Jobs : j.K \in Nat \ {0}

Root == "INSTRUMENTO_FINANCEIRO"
Tables == <<Root, "OPERACAO">>     \* table_set, in its order
Documents == {"policy", "manifest", "plan"}

VARIABLES
    job, raws,
    raw,         \* the version in place
    at,          \* per attempt, its step
    seen,        \* per attempt, the version it selected its roots from
    touched,     \* the directory of the replacements is there
    replacements,\* attempts whose rows are in it
    docs,        \* per JSON object, the attempt that put it, or Null
    classified,  \* per attempt, the version its classification was frozen from
    snapshot,    \* per attempt, the versions of the datasets written so far
    reserved,    \* the plan the reservation names
    handed,      \* what a materialization took
    overlapped   \* ghost

vars == <<job, raws, raw, at, seen, touched, replacements, docs, classified, snapshot,
          reserved, handed, overlapped>>

Ended == {"new", "done", "failed", "dead"}
Running == {a \in Attempts : at[a] \notin Ended}

Init ==
    /\ job \in Jobs /\ raws \in Raws
    /\ raw = 1
    /\ at = [a \in Attempts |-> "new"]
    /\ seen = [a \in Attempts |-> Null]
    /\ touched = FALSE /\ replacements = {}
    /\ docs = [d \in Documents |-> Null]
    /\ classified = [a \in Attempts |-> Null]
    /\ snapshot = [a \in Attempts |-> <<>>]
    /\ reserved = Null /\ handed = Null
    /\ overlapped = FALSE

Go(a, step) == at' = [at EXCEPT ![a] = step]
GoOrFail(a, sound, step) == Go(a, IF sound THEN step ELSE "failed")

inputs == <<job, raws, raw>>
files == <<touched, replacements, docs, classified, snapshot>>
later == <<reserved, handed>>

\* _assert_exact_output_absent(artifact_root)
ArtifactRootAbsent == ~touched /\ docs["policy"] = Null /\ docs["manifest"] = Null

-----------------------------------------------------------------------------
(* The plan.                                                                *)

Start(a) ==
    /\ at[a] = "new"
    /\ GoOrFail(a, job.genai => ArtifactRootAbsent, "select")
    /\ overlapped' = (overlapped \/ Running # {})
    /\ UNCHANGED <<inputs, seen, files, later>>

\* The roots, their closure and its counts.
Select(a) ==
    /\ at[a] = "select"
    /\ seen' = [seen EXCEPT ![a] = raw]
    /\ Go(a, IF job.genai THEN "generate" ELSE "classify")
    /\ UNCHANGED <<inputs, files, later, overlapped>>

Generate(a) ==
    /\ at[a] = "generate"
    /\ GoOrFail(a, ArtifactRootAbsent, "write texts")
    /\ UNCHANGED <<inputs, seen, files, later, overlapped>>

\* write_genai_artifacts looks once more; Parquet's errorifexists looks too,
\* and makes the directory afterwards.
WriteTexts(a) ==
    /\ at[a] = "write texts"
    /\ GoOrFail(a, ArtifactRootAbsent, "set up")
    /\ UNCHANGED <<inputs, seen, files, later, overlapped>>

SetUp(a) ==
    /\ at[a] = "set up"
    /\ touched' = TRUE
    /\ Go(a, "commit")
    /\ UNCHANGED <<inputs, seen, replacements, docs, classified, snapshot, later, overlapped>>

\* The files of a commit join those that are there.
Commit(a) ==
    /\ at[a] = "commit"
    /\ replacements' = replacements \cup {a}
    /\ Go(a, "read back")
    /\ UNCHANGED <<inputs, seen, touched, docs, classified, snapshot, later, overlapped>>

\* Count and content hash.
ReadBack(a) ==
    /\ at[a] = "read back"
    /\ GoOrFail(a, replacements = {a}, "policy")
    /\ UNCHANGED <<inputs, seen, files, later, overlapped>>

PutOf == [policy |-> "put policy", manifest |-> "put manifest", plan |-> "put plan"]

\* _write_json_artifact on an object store: it looks, and puts afterwards.
Look(a) ==
    /\ at[a] \in Documents
    /\ GoOrFail(a, docs[at[a]] = Null, PutOf[at[a]])
    /\ UNCHANGED <<inputs, seen, files, later, overlapped>>

After == [policy |-> "manifest", manifest |-> "classify", plan |-> "done"]

Put(a) ==
    \E d \in Documents :
        /\ at[a] = PutOf[d]
        /\ docs' = [docs EXCEPT ![d] = a]
        /\ Go(a, After[d])
        /\ UNCHANGED <<inputs, seen, touched, replacements, classified, snapshot, later, overlapped>>

\* _load_ccb_classification_source: RAW, read again, has one classification
\* for each root and is cut to the roots.
Classifies(version, roots) ==
    \A r \in roots : r \in DOMAIN raws[version].classes /\ raws[version].classes[r] # Null

\* _freeze_ccb_classification_source, under a name no other attempt has.
Classify(a) ==
    /\ at[a] = "classify"
    /\ IF job.ccb
       THEN /\ GoOrFail(a, Classifies(raw, raws[seen[a]].roots), "snapshot")
            /\ classified' = [classified EXCEPT
                   ![a] = IF Classifies(raw, raws[seen[a]].roots) THEN raw ELSE Null]
       ELSE Go(a, "snapshot") /\ UNCHANGED classified
    /\ UNCHANGED <<inputs, seen, touched, replacements, docs, snapshot, later, overlapped>>

\* _write_selected_lote_datasets, under a name of its own too: a dataset
\* whose cached blocks are lost is computed again, from RAW as it is now.
WriteDataset(a) ==
    /\ at[a] = "snapshot"
    /\ \E version \in {seen[a], raw} :
          snapshot' = [snapshot EXCEPT ![a] = Append(@, version)]
    /\ Go(a, IF Len(snapshot'[a]) = Len(Tables) + 1 THEN "verify" ELSE "snapshot")
    /\ UNCHANGED <<inputs, seen, touched, replacements, docs, classified, later, overlapped>>

\* The rows of the last dataset, the keys to nullify: those of the allowlist.
Missing(version) ==
    {i \in DOMAIN raws[version].missing : raws[version].missing[i].key \in Allowlist}

\* _load_selected_lote_snapshot: counts, roots and missing keys are those of
\* the descriptor; what the other columns hold is not looked at.
SnapshotHoldsCounts(a) ==
    LET found == snapshot[a]
        expected == raws[seen[a]]
    IN  \A i \in DOMAIN Tables : raws[found[i]].counts[Tables[i]] = expected.counts[Tables[i]]

MissingHold(a) ==
    LET version == snapshot[a][Len(Tables) + 1]
        rows == raws[version].missing
    IN  /\ Cardinality(Missing(version)) = Cardinality(Missing(seen[a]))
        /\ \A i \in Missing(version) : rows[i].value # Null
        /\ \A i, j \in Missing(version) : i # j => rows[i] # rows[j]

\* Mutant: the roots of the snapshot are not compared.
SnapshotOfAnyRoots(a) == SnapshotHoldsCounts(a) /\ MissingHold(a)

SnapshotHolds(a) ==
    /\ SnapshotHoldsCounts(a)
    /\ raws[snapshot[a][1]].roots = raws[seen[a]].roots
    /\ MissingHold(a)

Verify(a) ==
    /\ at[a] = "verify"
    /\ GoOrFail(a, SnapshotHolds(a), "plan")
    /\ UNCHANGED <<inputs, seen, files, later, overlapped>>

Die(a) ==
    /\ a \in Running
    /\ Go(a, "dead")
    /\ UNCHANGED <<inputs, seen, files, later, overlapped>>

-----------------------------------------------------------------------------
(* Around the plan.                                                         *)

\* An extraction replaces RAW, whoever reads it.
ReplaceRaw ==
    /\ raw < Len(raws)
    /\ raw' = raw + 1
    /\ UNCHANGED <<job, raws, at, seen, files, later, overlapped>>

\* The runner's reservation, created once (Reservation).
Reserve ==
    /\ docs["plan"] # Null /\ reserved = Null
    /\ reserved' = docs["plan"]
    /\ UNCHANGED <<inputs, at, seen, files, handed, overlapped>>

\* load_genai_replacements: the hash of the manifest and that of the rows.
\* The policy is the same for all attempts.
LoadReplacements(p) == docs["manifest"] = p /\ replacements = {p}

\* The rows of ACTPCCB evidence, one per root and copy.
Evidence(p) ==
    [c \in raws[seen[p]].roots \X (1 .. job.K) |-> raws[classified[p]].classes[c[1]]]

Refused == [accepted |-> FALSE]

\* executar_job with phase "materialize", and executa_clonagem's comparison
\* of the plan it rebuilds with the one it read.
Materialize ==
    /\ docs["plan"] # Null /\ reserved # Null /\ handed = Null
    /\ LET p == docs["plan"]
       IN  handed' =
             IF reserved = p /\ (job.genai => LoadReplacements(p)) /\ SnapshotHolds(p)
             THEN [accepted |-> TRUE, plan |-> p,
                   texts |-> IF job.genai THEN replacements ELSE {},
                   datasets |-> snapshot[p],
                   evidence |-> IF job.ccb THEN Evidence(p) ELSE <<>>]
             ELSE Refused
    /\ UNCHANGED <<inputs, at, seen, files, reserved, overlapped>>

Over ==
    /\ \A a \in Attempts : at[a] \in {"done", "failed", "dead"}
    /\ handed # Null \/ docs["plan"] = Null
    /\ UNCHANGED vars

Attempt(a) ==
    \/ Start(a) \/ Select(a) \/ Generate(a) \/ WriteTexts(a) \/ SetUp(a) \/ Commit(a) \/ ReadBack(a)
    \/ Look(a) \/ Put(a) \/ Classify(a) \/ WriteDataset(a) \/ Verify(a) \/ Die(a)

Next ==
    \/ \E a \in Attempts : Attempt(a)
    \/ ReplaceRaw \/ Reserve \/ Materialize \/ Over

Spec == Init /\ [][Next]_vars

-----------------------------------------------------------------------------
(* Properties.                                                              *)

\* A materialization that goes on works on what one attempt planned: its
\* texts and no other's, the roots and counts its keys were reserved for, no
\* repeated key to nullify, and a class for every copy of every root.
HandoffIsSealed ==
    handed # Null /\ handed.accepted =>
        LET p == handed.plan
            planned == raws[seen[p]]
            taken == [i \in DOMAIN handed.datasets |-> raws[handed.datasets[i]]]
        IN  /\ reserved = p
            /\ handed.texts = IF job.genai THEN {p} ELSE {}
            /\ taken[1].roots = planned.roots
            /\ \A i \in DOMAIN Tables : taken[i].counts[Tables[i]] = planned.counts[Tables[i]]
            /\ job.ccb => /\ {c[1] : c \in DOMAIN handed.evidence} = taken[1].roots
                          /\ \A c \in DOMAIN handed.evidence : handed.evidence[c] # Null

\* Without overlapping attempts, what a plan that was put says is accepted,
\* whatever died before it and however RAW changed.
RefusedForAReason == handed = Refused => overlapped
=============================================================================
