------------------------------ MODULE BatchJobs -----------------------------
(***************************************************************************)
(* Programs that move tables around the generator: the Oracle loader and    *)
(* its rollback (TableLoad), the publication of an output                   *)
(* (StagingPromotion), the repair of OPERACAO (OperationRepair), the        *)
(* extraction fan-out (ParallelExtract), the ROWID migration                *)
(* (RowidMigration), the OCI session they are submitted under (SessionAuth) *)
(* and what runs of the pipeline hand to later ones (PipelineLineage); and  *)
(* what a plan hands to its materialization: the generated texts            *)
(* (GenAiRewrite), the rest of its artifacts (PlanHandoff) and what the two *)
(* commands ask for (EngordaCommands). They share nothing here, so that one *)
(* specification is about each of them: `program` says which, and only its  *)
(* variables are in use. Variables of the same name serve whichever program *)
(* has them.                                                                *)
(***************************************************************************)
EXTENDS Naturals, Sequences, FiniteSets

CONSTANTS
    \* TableLoad
    Inventory, Foreign, Guards, OwnKeys, OtherKeys, ChunkSize, MaxTaskFailures, MaxJobs,
    \* StagingPromotion and OperationRepair: attempts or runs, and faults
    Parts, RunIds, MaxRuns, MaxBreaks,
    \* ParallelExtract
    NumTables, ExtractRequests, SizeTiers, NumBuckets, MaxConcurrentRuns, MaxRetries,
    \* RowidMigration
    Blocks, TargetBlocks, MaxGrowth,
    \* SessionAuth
    Requests, Managed, Main, Nobody, MaxLapses,
    \* PipelineLineage
    Registry, Validator, CdbProducts, Configs, Commands, Adoptions, External, MaxPipelines, MaxAdoptions,
    MaxOverlap, MaxFaulty,
    \* GenAiRewrite
    TextJobs, LogicalAttempts, TransportAttempts,
    \* PlanHandoff
    PlanAttempts, HandoffJobs, Raws, Allowlist,
    \* EngordaCommands
    EngordaProducts, EngordaSpecs, RawRows, RawMax, RootTypes, Orphans, Env, Uris, Orders,
    HandCommands, DefaultPrefix, Moves,
    MaxFaults,   \* bound on the faults of a load or a migration
    MaxLosses,   \* bound on those of an extraction or a session
    Unused       \* the value of a variable its program does not have

VARIABLES
    program,
    outcome, faults, pc, turn, keepGoing, runs,
    foreign, guarded, constrained, oracle, manifest, job, stage, open, tries, chunks,
    failures, jobs,
    tree, attempt, found,
    exact, had,
    runId,
    keys, weights, buckets, pending, inFlight, round, retries, results, exit,
    extents, promised, objects, recorded, torn, tail, plan, done, failed, growth,
    prompting, proactive, valid, due, refreshed, owner, at, observed, lapses, justified,
    relapsed,
    adopted, launched, node, status, drafts, synthetics, reports, claims, loaded,
    sampled, work, frozen, texts,
    raws, raw, seen, touched, replacements, docs, classified, snapshot, reserved, handed,
    overlapped,
    planned, commanded, reservations, free, published, world

ofLoad == <<foreign, guarded, constrained, oracle, manifest, open, tries, chunks, failures,
            jobs>>
ofFiles == <<tree, attempt, found>>
ofPromotion == <<exact, had>>
ofExtract == <<keys, weights, buckets, pending, inFlight, round, retries, results, exit>>
ofMigration == <<extents, promised, objects, recorded, torn, tail, plan, done, failed, growth>>
ofSession == <<prompting, proactive, valid, due, refreshed, owner, observed, lapses,
               justified, relapsed>>
ofLineage == <<adopted, launched, node, status, drafts, synthetics, reports, claims, loaded>>
ofRewrite == <<sampled, work, frozen, texts>>
ofHandoff == <<raws, raw, seen, touched, replacements, docs, classified, snapshot, reserved,
               handed, overlapped>>
ofCommands == <<planned, commanded, reservations, free, published, world>>

vars == <<program, outcome, faults, pc, turn, keepGoing, runs, runId, job, stage, at,
          ofLoad, ofFiles, ofPromotion, ofExtract, ofMigration, ofSession, ofLineage,
          ofRewrite, ofHandoff, ofCommands>>

NoLoad ==
    /\ foreign = Unused /\ guarded = Unused /\ constrained = Unused /\ oracle = Unused
    /\ manifest = Unused /\ open = Unused /\ tries = Unused /\ chunks = Unused
    /\ failures = Unused /\ jobs = Unused

NoFiles ==
    /\ tree = Unused /\ attempt = Unused /\ found = Unused

NoPromotion ==
    /\ exact = Unused /\ had = Unused

NoExtract ==
    /\ keys = Unused /\ weights = Unused /\ buckets = Unused /\ pending = Unused
    /\ inFlight = Unused /\ round = Unused /\ retries = Unused /\ results = Unused
    /\ exit = Unused

NoMigration ==
    /\ extents = Unused /\ promised = Unused /\ objects = Unused /\ recorded = Unused
    /\ torn = Unused /\ tail = Unused /\ plan = Unused /\ done = Unused
    /\ failed = Unused /\ growth = Unused

NoSession ==
    /\ prompting = Unused /\ proactive = Unused /\ valid = Unused /\ due = Unused
    /\ refreshed = Unused /\ owner = Unused /\ observed = Unused
    /\ lapses = Unused /\ justified = Unused /\ relapsed = Unused

NoLineage ==
    /\ adopted = Unused /\ launched = Unused /\ node = Unused /\ status = Unused
    /\ drafts = Unused /\ synthetics = Unused /\ reports = Unused /\ claims = Unused
    /\ loaded = Unused

NoRewrite ==
    /\ sampled = Unused /\ work = Unused /\ frozen = Unused /\ texts = Unused

NoHandoff ==
    /\ raws = Unused /\ raw = Unused /\ seen = Unused /\ touched = Unused
    /\ replacements = Unused /\ docs = Unused /\ classified = Unused /\ snapshot = Unused
    /\ reserved = Unused /\ handed = Unused /\ overlapped = Unused

NoCommands ==
    /\ planned = Unused /\ commanded = Unused /\ reservations = Unused
    /\ free = Unused /\ published = Unused /\ world = Unused

-----------------------------------------------------------------------------
Load == INSTANCE TableLoad

Promotion == INSTANCE StagingPromotion WITH Attempts <- MaxRuns, MaxFaults <- MaxBreaks

Repair == INSTANCE OperationRepair WITH MaxFaults <- MaxBreaks

Extract == INSTANCE ParallelExtract WITH
    Requests <- ExtractRequests, MaxFaults <- MaxLosses

Migration == INSTANCE RowidMigration

Session == INSTANCE SessionAuth WITH MaxFaults <- MaxLosses

Lineage == INSTANCE PipelineLineage WITH Requests <- Commands, MaxRuns <- MaxPipelines

Rewrite == INSTANCE GenAiRewrite WITH Jobs <- TextJobs, Null <- Unused

Handoff == INSTANCE PlanHandoff WITH
    Attempts <- PlanAttempts, Jobs <- HandoffJobs, Null <- Unused

Engorda == INSTANCE EngordaCommands WITH
    Products <- EngordaProducts, Specs <- EngordaSpecs, TypeOf <- RootTypes, Missing <- Orphans,
    Commands <- HandCommands, Null <- Unused

ASSUME ConstantsArePossible ==
    /\ Load!InputIsPossible /\ Promotion!AttemptsAreCounted /\ Extract!ArgumentsAreNumbers
    /\ Migration!SizesAreKnown /\ Session!ThreadsAreTold /\ Lineage!ProductsAreKnown
    /\ Rewrite!JobsArePossible /\ Handoff!AttemptsAreTold /\ Engorda!CommandsArePossible

OnPlans == {"rewrite", "handoff", "commands"}

Programs ==
    {"load", "promotion", "repair", "extract", "migration", "session", "lineage"} \cup OnPlans

Idle ==
    /\ program # "load" => NoLoad
    /\ program \notin {"load", "migration"} => turn = Unused /\ keepGoing = Unused
    /\ program \notin {"promotion", "repair"} => NoFiles
    /\ program # "promotion" => NoPromotion
    /\ program # "repair" => runId = Unused
    /\ program # "extract" => NoExtract
    /\ program # "migration" => NoMigration
    /\ program # "session" => NoSession
    /\ program # "lineage" => NoLineage
    /\ program # "rewrite" => NoRewrite
    /\ program # "handoff" => NoHandoff
    /\ program # "commands" => NoCommands
    /\ program \notin {"load", "rewrite", "handoff"} => job = Unused
    /\ program \notin {"load", "rewrite"} => stage = Unused
    /\ program \notin {"session", "handoff"} => at = Unused
    /\ program \notin {"extract", "migration"} => runs = Unused
    /\ program \notin {"promotion", "repair", "extract", "migration"} => pc = Unused
    /\ program \notin {"load", "promotion", "repair", "migration"} => outcome = Unused
    /\ program \notin Programs \ ({"lineage"} \cup OnPlans) => faults = Unused

Init ==
    /\ program \in Programs
    /\ program = "load" => Load!Init
    /\ program = "promotion" => Promotion!Init
    /\ program = "repair" => Repair!Init
    /\ program = "extract" => Extract!Init
    /\ program = "migration" => Migration!Init
    /\ program = "session" => Session!Init
    /\ program = "lineage" => Lineage!Init
    /\ program = "rewrite" => Rewrite!Init
    /\ program = "handoff" => Handoff!Init
    /\ program = "commands" => Engorda!Init
    /\ Idle

\* A step of p leaves the variables alone that p does not have.
Rest(p) ==
    /\ UNCHANGED program
    /\ p # "load" => UNCHANGED ofLoad
    /\ p \notin {"load", "migration"} => UNCHANGED <<turn, keepGoing>>
    /\ p \notin {"promotion", "repair"} => UNCHANGED ofFiles
    /\ p # "promotion" => UNCHANGED ofPromotion
    /\ p # "repair" => UNCHANGED runId
    /\ p # "extract" => UNCHANGED ofExtract
    /\ p # "migration" => UNCHANGED ofMigration
    /\ p # "session" => UNCHANGED ofSession
    /\ p # "lineage" => UNCHANGED ofLineage
    /\ p # "rewrite" => UNCHANGED ofRewrite
    /\ p # "handoff" => UNCHANGED ofHandoff
    /\ p # "commands" => UNCHANGED ofCommands
    /\ p \notin {"load", "rewrite", "handoff"} => UNCHANGED job
    /\ p \notin {"load", "rewrite"} => UNCHANGED stage
    /\ p \notin {"session", "handoff"} => UNCHANGED at
    /\ p \in {"lineage"} \cup OnPlans => UNCHANGED faults
    /\ p \notin {"extract", "migration"} => UNCHANGED runs
    /\ p \notin {"promotion", "repair", "extract", "migration"} => UNCHANGED pc
    /\ p \notin {"load", "promotion", "repair", "migration"} => UNCHANGED outcome

LoadStep == program = "load" /\ Load!Next /\ Rest("load")
PromotionStep == program = "promotion" /\ Promotion!Next /\ Rest("promotion")
RepairStep == program = "repair" /\ Repair!Next /\ Rest("repair")
ExtractStep == program = "extract" /\ Extract!Next /\ Rest("extract")
MigrationStep == program = "migration" /\ Migration!Next /\ Rest("migration")
SessionStep == program = "session" /\ Session!Next /\ Rest("session")
LineageStep == program = "lineage" /\ Lineage!Next /\ Rest("lineage")
RewriteStep == program = "rewrite" /\ Rewrite!Next /\ Rest("rewrite")
HandoffStep == program = "handoff" /\ Handoff!Next /\ Rest("handoff")
CommandsStep == program = "commands" /\ Engorda!Next /\ Rest("commands")

Next ==
    \/ LoadStep \/ PromotionStep \/ RepairStep \/ ExtractStep \/ MigrationStep
    \/ SessionStep \/ LineageStep
    \/ RewriteStep \/ HandoffStep \/ CommandsStep

Spec == Init /\ [][Next]_vars

-----------------------------------------------------------------------------
(* The properties of the modules, each of the program it is about.          *)

\* When a task inserts a row, the rows it references are in Oracle, unless
\* their table failed and the load went on (topo_sort_for_load).
ParentsAreLoaded == program = "load" => Load!ParentsAreLoaded

\* A rollback that reports success left no row of the input where it can,
\* and none deletes a row that is not of its input.
RollbackIsExact == program = "load" => Load!RollbackIsExact

\* "The guard makes reruns duplicate-free", while an append is at least once
\* within a run: a key a guarded table already has is only ever inserted again
\* by a task that was reported failed in the same load.
RerunsAddNoDuplicate ==
    [][ program = "load" =>
            \A t \in guarded, k \in OwnKeys :
                (oracle[t][k] > 0 /\ oracle'[t][k] > oracle[t][k]) => tries[<<t, k>>] > 0 ]_vars

\* Neither publishing an output nor repairing one ever loses a part of the
\* table, whatever fails or dies (_promote_staging_paths, run_repair).
NothingLost ==
    /\ program = "promotion" => Promotion!NothingLost
    /\ program = "repair" => Repair!NothingLost

\* A load that reports success has every row of the input in Oracle, and what
\* a publication or a repair reports about the final path is so.
OutcomesAreTrue ==
    /\ program = "load" => Load!LoadedMeansComplete
    /\ program = "promotion" => Promotion!OutcomesAreTrue
    /\ program = "repair" => Repair!OutcomesAreTrue

\* A migration that succeeds has copied what there was, once; an extraction
\* that exits with success has extracted every table, no two runs of it write
\* one table, and the packing is balanced.
EachTableOnce ==
    /\ program = "migration" => Migration!CopiedOnce
    /\ program = "extract" => Extract!EveryTableExtracted /\ Extract!OneWriterPerTable

\* The workers of a runner renew their session for a reason, once for all,
\* and their requests survive its end.
SessionIsShared == program = "session" => Session!SessionIsShared

\* What a run of the pipeline states of its artifacts is so, and what was made
\* or validated without Oracle is not loaded by any chain of runs.
LineageIsSound ==
    program = "lineage" => Lineage!LineageIsTrue /\ Lineage!LoadsAreSound

\* The texts of a plan are accounted for and reach the clones they are for, a
\* materialization goes on with one attempt's plan or not at all, and what it
\* publishes is what the command that planned it asked for.
HandoffIsSealed ==
    /\ program = "rewrite" => Rewrite!ReplacementsMatch
    /\ program = "handoff" => Handoff!HandoffIsSealed /\ Handoff!RefusedForAReason
    /\ program = "commands" => Engorda!CommandsAreKept
=============================================================================
