# Formal models of the synthetic-data pipeline

TLA+ modules, TLC configurations and TLAPS proofs for the Eudalia synthetic data
pipeline. The pipeline extracts banking tables from Oracle, clones instruments
into synthetic volumes ("engorda"), validates them per product and appends them
to an Oracle environment. Most steps are Spark applications on OCI Data Flow;
`scripts/run_pipeline.py` orchestrates them. Line numbers below are of that file
unless another is named.

## 1. The system

### Components

| Component | State it keeps | Operations | Here |
|---|---|---|---|
| Reservation ledger (`_allocate_artifact`, `_reserve_cdb_codes`, 1288-1868) | one JSON object per environment: next primary key per table, meu-number marks per prefix (`legacy_prefixes`) and per date, prefix and group (`groups`), history of reservations | allocate a plan of schema 2 or 3, migrate a schema-1 ledger | `LedgerAllocation`, `PersistedLedger`, `RangeLedger`; `LedgerLemmas`, `RangeLedgerProofs` |
| Reservation protocol (`reserve_ranges`, 1956-2010; `OciCliStorage`, 1025-1133) | lease object, ledger object, immutable reservation objects | acquire, take over, renew and release the lease; compare-and-swap; publish | `Reservation`; `ReservationProofs` |
| Oracle load protocol (3052-3150, 3406-3446, the `oracle-load` lane of 3474-3737) | environment load lease with quarantine mark, create-once claims, load manifests, pipeline manifests | acquire, renew, quarantine, release; claim, resume, submit, poll, gate | `LoadProtocol`; `LoadProofs` |
| Scheduler (`execute_plan`, 3474-3737; `_execute_remote_node`, 3225-3403) | node states in the manifest, futures, dictionary of active runs, stop event | visit nodes, start, collect, retry, cancel, interrupt | `Scheduler`; `SchedulerProofs` |
| Pipeline planning (`build_pipeline_plan`, 2490-2848) | the plan: nodes, lanes, dependencies, retry budgets, options, descriptors of artifacts | merge options, take up an upstream manifest, refuse | `PipelineLineage`; `BatchProofs`; the nodes' order is the parameter `Chain` and the operators `Lane`, `Dependencies`, `Attempts` of `Scheduler` |
| Manifests between runs (`adopt_inputs_command`, `run_command`) | manifests of runs and of adopted inputs | adopt, run, hand over | `PipelineLineage`; `BatchProofs` |
| Session authentication (`ModuleAdapter`, 600-726) | time of the last renewal, lock | probe, refresh, log in, repeat a request | `SessionAuth`; `BatchProofs` |
| Oracle loader (`datagen/load_tables.py`, `OracleAuditJdbcWriter.java`) | Oracle tables, load manifest | check the input against the target, order tables, guard duplicates, append by partition | `LoadPreflight`, `TableLoad`; `BatchProofs` |
| Load rollback (`scripts/rollback_load.py`) | Oracle tables | delete by chunk, children first | `TableLoad`; `BatchProofs` |
| Engorda, clones (`datagen/engorda_tables.py`) | plan, snapshot of the selected rows, key maps, final Parquet | select and admit roots, freeze, map keys, remap references, code, check, publish | `CloneGraph`, `BusinessKeys`, `EngordaJob`; `EngordaProofs` |
| Engorda, generated texts (`collect_genai_instruments`, `generate_genai_replacements`, `_aplica_genai_replacements`) | batches of copies, replacements artifact | sample, ask the endpoint, freeze, apply | `GenAiRewrite`; `HandoffProofs` |
| Engorda, hand-over of a plan (`executar_job`, phases `plan` and `materialize`) | plan, texts, classification, snapshot of the selected rows | write each once, read back, compare | `PlanHandoff`; `HandoffProofs` |
| Engorda, commands (`parse_arguments`, `executar_job`, `executa_clonagem`) | plan, reservation, output, all named by URI | plan, materialize, do all at once; compare arguments with the plan and the plan with the world | `EngordaCommands`; `HandoffProofs` |
| Engorda, outputs (`_promote_staging_paths`) | staging, backup and final directories | stage, move aside, promote, restore, clean up | `StagingPromotion`, `ObjectTree`; `BatchProofs` |
| Extraction fan-out (`scripts/parallel_extract.py`) | buckets, Data Flow runs | find parents, weigh, pack, submit, poll, retry | `ParallelExtract`; `BatchProofs` |
| Extraction of a table (`datagen/save_tables.py`) | Parquet | read by rowid or date, write | not modelled |
| Rowid migration (`scripts/migrate_rowid_to_oci.py`) | checkpoint file, object parts | plan chunks, upload, append to the checkpoint, resume | `RowidMigration`; `BatchProofs` |
| Repair (`scripts/repair_operacao_ctx_msg_p2.py`) | staging, backup and final directories | repair, verify, promote, restore | `OperationRepair`, `ObjectTree`; `BatchProofs` |
| Key shifting, structural validation (`datagen/shift_keys.py`, `validate_tables.py`) | none | pure over tables | not modelled |
| Selection of a product (`queries_produtos.sql`, `_dominio_instrumentos_elegiveis`, `seleciona_instrumentos`) | none | query the domain, prune it, draw a batch | `ProductDomain`, for CDB and RDB |
| Product validation (`scripts/validate_products.py`) | report | checks of business rules over the output, verdict | `ProductValidation`, for CDB and RDB; its gate in `Scheduler` |
| Reports, specification builders, SQL and notebooks | none | read-only or by hand | not modelled |

### How they interact

- `run_command` builds the plan and calls `execute_plan`, whose main thread
  visits nodes and hands them to a thread pool. Workers talk to the main thread
  through futures, the stop event and the dictionary of active runs, and to the
  world through OCI CLI processes.
- A product's chain is `plan -> reserve -> materialize -> validate -> load`.
  `reserve` runs `reserve_ranges` in a worker; the others are Data Flow runs that
  leave JSON objects (plan, reservation, report, load manifest) the next ones read.
- Runners of different operators share nothing but the object store: ledger,
  leases, claims, manifests.
- Oracle is written by load runs only. The load manifest written before the first
  insert is what a later resume and the rollback go by.

### What is hard

Two leases by wall clock that are not fencing tokens; conditional writes that may
land late or be answered with the wrong code; three kinds of key drawn from one
JSON document under two plan schemas; a remote run whose state is unknown after
an error and must be neither retried nor ignored; a main thread, workers and a
Ctrl-C that share one event and one dictionary; promotions, uploads and deletes
that fail half way. `PROJECT.json` lists each hazard at its line with the
properties that would catch it.

### What makes each component correct

- Ledger: nothing handed out is handed out again; nothing leaves its number space.
- Reservation protocol: published reservations never clash, whatever is lost,
  late or crashed; a published range was burned first; every call ends.
- Load protocol: one load at a time; an ambiguous load blocks the later ones until
  an operator looks; each input is loaded by one claim and its resumes.
- Scheduler: loads in order and under the lease; independent products stay
  independent; never two runs of one node; every run ends.
- Loader and rollback: a rerun of a guarded table adds no duplicate; a rollback
  removes the rows of its load only, and can be repeated.
- Clones: a clone refers to the clones of its own family and to rows that exist;
  it takes the keys and codes reserved for it, all of them and no others, and
  meets no other job's and nothing in Oracle; it follows the plan, not what RAW
  has become.
- Generated texts and hand-over: every copy gets one text that is its own, or keeps
  its source's; a materialization works on what one attempt planned or refuses.
- Runs that build on runs: a manifest says truly how its artifacts were made, and
  what was made or validated without Oracle is never loaded.
- Session: one renewal serves all who need it, and a request outlives the session.
- Pre-flight: what it passes loads at the first try.
- Promotion and repair: no part of a table that was whole is lost, and what is
  reported about the final path is so.
- Rowid migration: what a successful run was to copy is copied, and once.
- Extraction: no two runs write one table, and success means every table.
- Selection and validation: what the domain, the prunes and the date rules let
  through is what the validator accepts; a PASS is true of the whole output.

## 2. Modules

### LedgerAllocation, PersistedLedger and RangeLedger

`LedgerAllocation` holds the relations between a ledger, a plan and the artifact
the code builds from them; it has no variables, so that `RangeLedger` (one
allocation at a time) and `Reservation` (concurrent callers) share it. A ledger
is a record of `pks`, `legacy`, `groups` and `history`. Groups are members of a
set instead of SHA-256 digests; code suffixes are integers instead of base-36
strings. `Artifacts(ledger, plan)` is empty when the code raises because a space
is exhausted, and otherwise holds one artifact.

`PersistedLedger` is the ledger as an object: its structure (`LedgerShape`), the new
ledger and the migrated schema-1 ones it may start from (`InitialLedgers`), and how
its marks stand to its history (`MarksCover`). The primary key marks of a schema-1
ledger, which migration keeps unchanged, are left out.

`RangeLedger` is the abstract specification: `Allocate` moves `ledger` to
`LedgerAfter`.

### Reservation

One process per call of `reserve_ranges`. `pc` names the request the call is
about to send: `start` (an already published reservation), `acquire`, `inspect`
and `takeover` (the lease loop of `_acquire_lease`), `read` and `write` (the
ledger loop), `renew`, `publish`, `recheck`, `release`. A conditional request is
a record of the object, the etag it must match (`Absent` for no-overwrite) and
what to put; `Accepted` is the object store's test. `Succeed` and `Refuse` are
the two answers; `OnSuccess` and `OnPreconditionFailed` are what the caller then
does. Where the CLI's responses carry no etag the
code asks with a HEAD, a step of its own (`HeadLedger`, `HeadHeldLease`,
`leasehead`).

What the environment may do is a `regime`, one of the constant `Regimes`, chosen
in `Init` and never changed: `calls` (which are made), `etags` (responses carry one),
`expire` (leases may look expired under their holder) and `faults` (how many). The faults are `Echo`
(the write landed, the answer is 412), `TimeOut` (the caller raises, the request
stays on the `wire` and `LandLate` may land it at any later time), `FailRead` and
`Crash`. Whether a lease looks expired to its reader is a free choice: slow
holders and skewed clocks are both covered, and no clock is needed.

`Ledger == INSTANCE RangeLedger WITH ledger <- LedgerContent` is the refinement.

### LoadProtocol

Several runs of the pipeline on one environment, each reduced to its load nodes:
the main loop of `execute_plan` (`Manage`), the worker that executes a load
(`Work`), and the Data Flow run it submitted (`RemoteRun`). `lease` has an owner
and a quarantine mark; a runner's etag is `current` or `stale`, as a change by
another makes it. The `regime` says which loads there are, which kinds of faults
and how many, and whether renewals may be late. `MayLapse` says when a lease that
is not quarantined may be taken over: its owner is not in its main loop any more,
or renews late. `claims`, `written` (load manifests) and `uploaded` (pipeline
manifests) are the objects a resume is checked against. `Attempts` are pairs of a
run and a position; `Loads` gives each its input and the attempt it resumes.
`Lineage` is an attempt with those it resumes, directly or not: the least set that
is closed under `Previous`.

### Scheduler

One run: phases of the main thread (`renew`, `scan`, `wait`, `collect`, `cancel`,
`closing`, `join`, `exited`), the executor's FIFO `queue`, per node a `thread`
label, its attempt, its result, the dictionary `active`, the Data Flow runs and
the cancellations they were sent. A pass over the nodes is one step per node that
is blocked or started, in plan order, since a visit sees what earlier ones did;
nodes that are only passed over take no step. An interrupt or a main-thread
exception may come before any step of the loop. What the lease and a reservation
do inside is in the two modules above; here they succeed or fail.

### TableLoad

One input and the Oracle tables it goes to, through a sequence of loads and
rollbacks, one at a time. `oracle[t][k]` counts the rows of key `k` in table `t`:
the input's keys (`OwnKeys`), and keys of others below and above them. The foreign
key graph, the tables with a single numeric primary key (`guarded`) and whether
constraints are enabled are chosen in `Init`. `turn` and `stage` are the place of
the job: `Guard` is what `load_table` does up to the write, whose partitions are
tasks in `open`, each with one row and one transaction (`Commit`, `TaskFails`).
A failed task is tried again up to `MaxTaskFailures`; then its table fails and its
other tasks, if the load goes on (`keepGoing`), commit or end under the tables
after it. `manifest` is the load manifest as the sequence of its tables, from which
`RollbackOrder` takes the turns of a rollback; `Sorts` are the orders that take the
first table whose parents are through at every turn, of which there is one
(`LoadOrder`) or, on a cycle, none (`Loadable`). Spark's driver is external, so whether and when it kills these tasks is
left open. `DeleteChunk` is one statement of a rollback, which commits by itself.
A fault fails a guard, a task or a delete, the last two before or after their
commit, or kills the driver. `StartLoad` covers `main` up to the manifest;
a failure before it changes nothing. `StartRollback` wants a table to roll back:
without one `main` does nothing.

### CloneGraph, BusinessKeys and EngordaJob

A database is a function from tables to sets of rows, a row a record; the schema
(primary keys, foreign keys, required columns) and the products (tables, type of
their roots, lateral seeds, columns to null) are constants. Columns have the
names of the code, and texts are left out.

`CloneGraph` holds what the code computes from them. `Closure` follows
`calcula_lotes`: from the roots down the foreign keys, by passes up to
`max_passadas`, with the capped credits behind a lot and their histories, and
then the prunes of the closure. It keeps for each row the roots it is there for
(the provenance), which `Dangling` and `Rejected` (`_target_fk_rejections`) use to
admit roots one by one and `Restricted` to keep the rows of those chosen.
`KeyMap` and `CloneTable` are `clona_tabela`: keys of the table's own in the order
of source key and copy, keys that are references, references within the
selection, and selective and full nulling; `CloneAll` goes through the tables in
topological order and `TableErrors` is `valida_tabela`. What the code does in a loop
(the passes of the closure, the order of the tables, the clones of one table after
another, the codes drawn one by one) is a recursive function here.

`BusinessKeys` holds the codes of instruments and operations, the two ways of
numbering the sides of an operation, the final check and the credit codes.

`EngordaJob` makes jobs of them: `Plan` (select, admit, freeze), `Reserve`,
`Clone`, `Publish` and `Load`, one step each, for several jobs that share RAW,
Oracle and the ledger. The ledger starts as any of `InitialLedgers`, and `Reserve` uses
`LedgerAllocation`. `Reread` replaces RAW
by a new extraction, `Insert` is another writer of Oracle, and `Crash` loses what
a run has made, which is then materialized again from plan and reservation.
`seen` is Oracle as a job read it, which is what its checks can vouch for.

### StagingPromotion, OperationRepair and ObjectTree

`ObjectTree` is a file tree on an object store: a directory is the set of the
objects in it, a rename copies and deletes them one by one, and one that fails
has done any part of it. `StagingPromotion` and `OperationRepair` are the two
programs that replace a directory so: one step per rename or delete with the
check after it, each of which may fail or be the last of the process. A file
carries the attempt that wrote it, so that mixtures show.

### ParallelExtract

`keys`, `weights` and `buckets` are what `main` computes (`WithParents`,
`MergeSizeTiers`, `BinPack`). Tables are numbers in the order of their names, which is
the order of `sorted`; weights are doubled, so that a median between two is a number
too. The packing (`Filled`) takes the tables one by one as a recursive function, and
`Ranked` is their order by weight. `Submit`, `Poll` and the rounds between them are
`run_buckets`, over Data Flow runs that go on by themselves. A call that raises
ends the driver, whether or not its run was created.

### RowidMigration

A table is a set of extents at positions in ROWID order, with their blocks.
`Chunks` is the plan a run makes of them, a recursive function that takes the extents
one by one (`WithExtent`); a chunk is its number with its first
and last extent, as in the key of the checkpoint. `Upload` and `Record` are the
two halves of a chunk; `TearLine` leaves a broken last line, which swallows the
line appended to it. The table may grow between steps.

### ProductDomain, CloneDates, ProductValidation and ProductPipeline

An instrument is one record of all the rows that hang on it: conditions with the
subtype tables that hold them and their schedules, events, operations, wallets,
accounts. Accounts and routes of operations are classes of what the rules tell
apart.

`ProductDomain` is the selection: the queries of the five CDB and RDB products
(`InDomain`), the prunes (`Removed`) with the switches that turn them off and the
tables they cannot read, and `Selections`, which is empty when the program aborts.
`CloneDates` is what the closure keeps of an instrument (`Closure`) and the date
rules (`Clone`). `ProductValidation` turns an output and the tables that could be
read into findings, verdict and exit code, for a command line. `ProductPipeline`
puts them in a row: `Select`, `Generate`, `Validate`; `Adopt` is a validation of
tables that no selection vouches for. `ProductSamples` holds the instruments,
experiments and command lines for TLC.

The selection and the validator say the same rules twice, over different rows, in
Spark and in SQL. `SelectedOutputsValidate`, a part of `ChecksAgree`, is the agreement; `Promised` lists
which checks the selection answers for, and its conditions are where it does not:

- the subtype prune looks for a row of the subtype, excluded or not (5185 of
  `engorda_tables.py`), while the closure drops excluded rows of RESGATE: a
  condition whose only row is excluded passes the prune and dangles in the clone;
- the account prune asks whether an account is eligible, the validator also
  whether it is so in its role;
- an operation of registry with a foreign service or flag passes the RDB queries,
  whose comment (`queries_produtos.sql:41-44`) says that for RDB the validator
  only warns; `check_required_lookup_frames` raises an ERROR for RDB as well
  (11523-11525, 11830-11973 of `validate_products.py`);
- each prune can be switched off, and those that cannot read a table are skipped.

`VerdictIsTrue`, a part of `ChecksAgree`, is about what a PASS stands for when
tables could not be read. It says nothing of tables no modelled check reads: an
unreadable wallet table, for example, is logged and left out, although the comment
at 16231 reads "every required check ran and passed".

### SessionAuth

The threads of one runner and the OCI session they share. `at` is the command each
thread is about: its own request, or one of those of `ensure_auth` (probe, refresh,
probe again, login). Renewals hold `_auth_lock`; a request that waited for it
compares `_last_auth_refresh`, here a counter, with what it observed before. The
session may lapse and the refresh interval pass at any time, within a bound, and a
command may fail. Security tokens are assumed: for API keys nothing is renewed.

### GenAiRewrite and PlanHandoff

`GenAiRewrite` is the planning of texts: `Sample` picks the instruments and their
cells, `CallFails` and `EndpointAnswers` are one request of an instrument's batch,
which may be answered in part or for copies nobody asked for; the next attempt asks
for what is missing, then for halves. `Freeze` writes the replacements and `Clone`
applies them by copy. A text is the triple it was given for, so that one in the
wrong place shows. The policy's targets are compared with the reviewed ones as sets
(1096 of `engorda_tables.py`), while `docs/plans/2026-09-01-oracle-genai-text-enrichment-design.md`
asks for "exactly the three pilot targets": a policy that names one twice passes,
and the table check then fails the materialization, as it does when two sampled
instruments share a row.

`PlanHandoff` has two attempts at one `plan_uri`, step by step: every object is
looked for and put in two steps, a directory of texts is joined and read back, the
datasets of the snapshot are computed from RAW as it is when they are written.
RAW is known by its version and may be replaced, the reservation made and the
materialization begun between any two steps. `Materialize` repeats the comparisons
of the code; they are of counts and roots, so that a table computed from a newer
RAW with as many rows is taken. `PlanSamples` has the inputs of both modules.

### EngordaCommands

`PlanHandoff` asks whether what a plan names is still what was planned;
`EngordaCommands` asks what the *arguments* of the two commands may change. `Plan`,
`Materialize` and `All` are the phases, of any command in `Issued`: the pairs that the
runner builds from its configuration (`PlanArgv`, `MaterializeArgv`), and commands
typed by hand that forget, repeat or change an option or name the reservation of
another plan. A refused command writes nothing, so a refusal is an action that is not
enabled. `Frozen` is the plan; it stands for its own hash. A materialization takes most
options from the plan and ignores what its own command says of them (factor, step,
offset, term, nullified columns, timestamp), repeats some and is compared
(`Rebuilt`, `AgreesWithPlan`), and takes its keys from the reservation (`Fits`). Between
two commands the day passes, Oracle fills or `specs.json` changes. `commanded` keeps,
for the properties, which command made a plan and what world it met:

- `MadeAsPlanned`: an output is what the planning command asked for in the world it
  met, whichever command published it and when;
- `OutputsApart`: outputs that may be loaded share no key and no meu-number;
- `PairGoesThrough`: the runner's second command is accepted as long as the specs
  are the same, Oracle has not reached the reserved keys and the destination is free.

The last excepts a bad destination because `plan` does not look at it: an output URI
inside RAW is refused by `_valida_destino` only when all clones are made. Bands and
offsets other than `--offset-num-if` are in `CloneGraph`, texts in `GenAiRewrite`; plans
of schema 2 are left out here, and so are the switches of the prunes.
`CommandSamples` has the commands.

### PipelineLineage

What one run hands to another. `Adopt` registers outputs that are there; `Start` is
`build_pipeline_plan`: from a configuration, a command line and an upstream manifest
to the nodes' options and the descriptors in the run's own manifest, or a refusal.
`Node` runs a product's next node (plan, materialize, publish, validate, load) and
`Finish` settles the manifest. `synthetics` are the outputs with what is in the
object store of them: whether they are whole, their offline marker, and, which no
program can read, how they were made. A publication may die between its steps.
`LineageIsTrue` is about manifests, `LoadsAreSound` about every chain of command
lines. The latter excepts outputs that were not published whole: a publication that
dies before the marker is written (`_prepare_outputs`) leaves an output that looks
live, and an operator who adopts it can have it validated and loaded. Run ids are
distinct, there is one environment, and the inventory that `describe_uri` samples
is left out, since nothing compares it later.

### LoadPreflight

One load by hand, from `main`'s gates to the last insert: `Resolve` (static tables
and the product's overrides), `CheckTable` (one table of `validate_load`), `Decide`
(violations, `--dry-run`, the bounds and the manifest), `OpenTable` (the duplicate
guard), `Insert` (one row, with its nulled and audit columns), `CloseTable`. A row is
a function on its columns that are not NULL. `Accepted` is what Oracle does with
a row whose constraints are enabled, written from Oracle's rules, not from the
code's; `PassedLoadsFirstTry`, a part of `ChecksAgree`, compares the two. They agree but for what `Unseen`
names, each clause of which is needed:

- an empty string, which is NULL in Oracle, in a NOT NULL column;
- a self-reference the loader sets to NULL where Oracle wants a value;
- a key of several columns of which some are NULL: the pre-flight counts it as free,
  as its comment says (206-214 of `load_tables.py`), while Oracle compares the
  columns that are not NULL;
- a parent that is neither static, nor in the input, nor in Oracle;
- keys with decimals that Oracle rounds away.

Others' inserts after the check, `--limit`, whose sample is drawn anew for the check,
the manifest and the load, and a guard on a key the target does not declare are
excluded as well. Under `--limit` the manifest's bounds need not cover the rows that
were inserted. The runner passes `--skip-validation` (2460). `LoadSamples` holds the
inputs: one good instrument, and one that departs from it in one way.

### BatchJobs and MCBatchJobs

`TableLoad`, `StagingPromotion`, `OperationRepair`, `ParallelExtract`,
`RowidMigration`, `SessionAuth`, `PipelineLineage`, `GenAiRewrite`, `PlanHandoff` and
`EngordaCommands` share nothing here. `BatchJobs` instantiates all of them, with its own
constants for theirs; the variable `program` says which of them a behaviour is about, and the
variables of the others hold a constant. Its properties join those of the programs: `RollbackIsExact` is `RolledBackMeansGone` and
`RollbackSparesOthers` of `TableLoad`; `OutcomesAreTrue` is what loads
(`LoadedMeansComplete`), promotions and repairs report; `EachTableOnce` is
`CopiedOnce` of the migration and `EveryTableExtracted` and `OneWriterPerTable` of the
extraction; `LineageIsSound` is the two properties of `PipelineLineage`; `HandoffIsSealed` is
`ReplacementsMatch` of the texts, `HandoffIsSealed` and `RefusedForAReason` of the hand-over,
and `CommandsAreKept` of the commands.

`MCBatchJobs` gives the constants and adds the two programs that are comparisons over
samples of rows: `ProductPipeline` and `LoadPreflight`. `ChecksAgree` is what the selection,
the validator and the pre-flight say of each other's work.

The other `MC*` modules give the constants of a run: plans, rows, chains, loads.

Operators marked "Faulty variant" are wrong versions of the operator after them.
No specification uses them; each says which mistake in the code a property would
reveal (`mutants` in `PROJECT.json`).

## 3. Runs

| Run | Asks | Bounds |
|---|---|---|
| `range_ledger` | does sequential allocation ever reuse a key, leave its space or lower a mark? | one table; two dates, groups, prefixes and code prefixes; five ordinals and codes; eleven plans; histories of four |
| `reservation_cas` | do concurrent calls keep published ranges disjoint by compare-and-swap alone; does an unexpired lease alone serialize them? | three calls, two for one URI; two CAS attempts; leases that expire at will and one fault, or etags from a HEAD, leases that hold and two faults |
| `reservation_fair` | does the ledger object implement `RangeLedger`; do calls end, can contention fail them all? | two calls and two faults, or three calls and none, of two CAS attempts |
| `reservation_lost_update` | finding 1 | three calls, no fault |
| `load` | one load at a time, quarantine on ambiguity; lineage, quarantine and termination under everything? | runs r1 (x1, then x2) and r2 (resumes x1, then x2); two faults of seven kinds, or one of twelve with late renewals |
| `load_interrupted` | finding 2 | two runs, polling error and interrupt |
| `load_repeated` | finding 3 | three runs, no fault |
| `scheduler` | order, isolation, lease, no overlap, termination? | two products of three nodes, two workers, one retry, two faults of eleven kinds |
| `scheduler_interrupt` | finding 4 | the same, one interrupt |
| `engorda` | do clones keep families and references, use their reservation exactly, meet nothing, follow their plan? | six jobs of three products over fifteen tables, run in four pairs; K of 1 or 2, schemas 2 and 3; two crashes, extractions or inserts |
| `credit_codes` | finding 5 | the same jobs, no event |
| `batch_jobs` | do loads follow the foreign keys, add no duplicate and report rightly; do rollbacks remove the input's rows and no others; is nothing lost by a promotion or a repair; is all copied once; is all extracted, by one writer; does what is selected validate, and is a PASS true; does a load that passed its pre-flight go through; is the session shared well; do texts and plans arrive whole, and is what is published what was planned; does nothing made without Oracle get loaded? | loads: three tables listed children first, a chain, a shared parent or a cycle, all guarded or all but one, two keys, chunks of two, two tries, four jobs, two faults; promotion and repair: two parts, three faults, three attempts or two runs; extraction: five tables, three buckets, two runs at once, one retry; migration: five extents, three runs, growth by two; products: some hundred sources of one or two instruments for each of five products, twelve to fourteen experiments, a dozen command lines; session: three threads and the main one, three lapses, one fault; texts: selections of up to three instruments, two attempts of two transports; hand-over: two attempts, two versions of RAW; commands: two plan URIs, five orders of the runner, thirty commands by hand, one change of the world between them; lineage: two products, two configurations, 29 command lines, three runs of which the first two overlap, two adoptions, one run with faults; pre-flight: two tables, five catalogues, some thirty inputs, three populations, five command lines, one rival insert |

Why the bounds are enough. An allocation looks at the marks and, for codes, at
all of the history; four reservations are enough for one old, two interleaved
schemas and one new, and five ordinals with two prefixes fill a prefix and spill
into the next. Reservations interact pairwise, over one lease and one ledger: two
calls race and the third is the one that the loser of a race meets (a takeover of
a takeover); two attempts reach both the retry and its exhaustion. Loads interact
through a lease with one owner, so a run whose lease lapses and one that takes it
are enough; a third run is needed only for the forked resume chain. The scheduler
couples products through two serial lanes and the order of loads, which two
products show; a chain of `reserve`, `validate` and `load` has a node of every
lane and every gate, `plan` and `materialize` behave as `validate` without its
gate. Loads and rollbacks of
one input leave nothing but rows behind, so four jobs show a load, a rerun over
its half-finished rows, a rollback that stops half way and its repetition; two
keys with a gap between them end the second chunk on the upper bound.
The rows of `MCEngordaJob` hold each case of the clone rules once or twice: a root
rejected for each reason, a lot with more credits than the cap, a lot two
instruments share, an operation with both sides in one account, a shared-key
child, a composite key, a reference to another instrument that only one of the
targets holds; the pairs of jobs are those that share a product, a ledger mark or
a table. Promotions meet at most the backup of the attempt before, so three
attempts show what a third does with what two left. Three buckets over two slots
keep one waiting, and a retried one behind it. Five extents make two or three
chunks, and growth moves an end between them.
The rules of a product look at one instrument at a time, but for those that look at
all of the output (identity, the types of events, the tables that are there), for
which two are enough. Each source differs from one that qualifies in the rows of
one rule, so that every conjunct of a query, a prune or a check decides somewhere.
Three threads are one that renews, one that waits for it and one that comes later;
three lapses end the session before, during and after a renewal. What a chain of
runs hands on goes through one upstream manifest at a time, so three runs with two
adoptions show an output planned by one, validated by another and loaded by a third,
and a second claim on it. Commands meet through one plan, its reservation and another plan's,
so two URIs are enough; each command by hand differs from one that fits in the options
of one check. The checks of the pre-flight are per table and column, and
per pair of rows for keys: two rows in the input and one in Oracle meet all of them.
`MaxCasAttempts` is 2 instead of the code's 5, so that three calls are one more than a
ledger write has attempts, as six are in the code; larger values add turns of the same loop.

What contention can do is the point of `SomeCallSucceeds`. Without faults, and however
leases are taken over, the call that took the lease last renews it and publishes, unless it
gives up on the ledger before; and each refused write is owed to a burn by another call,
of which a call makes one. So as long as there are no more calls than attempts, one
succeeds. With one more, all may fail: the first calls each burn a range and are refused
when they renew the lease that the next one took, and the last is refused as often as it
may try ("ledger CAS retries exhausted", 1868). The three calls of `reservation_fair` do
that, and without the second alternative of the property (`OutOfAttempts`) TLC refutes it
there. Burned ranges are lost then, never given twice.

`CHECK_DEADLOCK FALSE` stands in `RangeLedger.cfg` only, where the bounded history
ends the behaviour. Elsewhere a stuttering `Done`, `Over` or `Finished` marks the proper ends
and TLC would report any other stop.

What the runs exclude on purpose. `OneLoadAtATime` is about regimes without late or
failed renewals, failed quarantines, interrupts and crashes (`Orderly`): after one of
these the code releases or loses the lease without waiting for the Data Flow run (a
stop makes workers return `CANCELLED` at once, 3346-3367), so two loads can overlap,
and finding 2 and the hazard at 3525 speak of it. A renewal that fails is such a case
as well: the runner stops, asks its Data Flow run to end and does not wait for it. The
other regime of `load` allows them all and checks what must hold even so.
`AmbiguityQuarantines` excludes a failed quarantine request: the code can only record
it (3675-3685). `SerializedByLease` is about leases that do not expire. `EngordaJob`
takes a reservation, a publication and a load as one step each: their own runs show
what that abstracts.

### Findings

1. `reservation_lost_update`: `OciCliStorage.get` (1084-1088) takes a missing
   etag from a later HEAD, so that a stale ledger can pass `if-match`; with a
   lease that expired under its holder two reservations overlap, against
   `docs/synthetic-cdb-codes.md:72-73`.
2. `load_interrupted`: a Ctrl-C drops an ambiguous result that is ready but not
   yet collected (3695-3716), and the lease is released instead of quarantined,
   against `docs/adr/0001-safe-oracle-load-protocol.md:7`.
3. `load_repeated`: an old failed attempt can be resumed again after another
   resume of it has succeeded (3019-3049), against ADR 0001 line 5.
4. `scheduler_interrupt`: the interrupt handler sets `stop` before it copies the
   active runs (3697-3699), so a worker can take its run off the dictionary
   first; the run is not cancelled, against `tests/test_run_pipeline.py:2686`.
5. `credit_codes`: credits get their new codes before the rows are multiplied by
   K, and from the planned start of the keys rather than the reserved one
   (`datagen/engorda_tables.py:11049`), so that the K copies of a credit carry one
   code, against the comments at 306 and 327 of that file.

## 4. Fairness

- `Reservation`: weak fairness of each call's `Step`. A call is a straight-line
  program around subprocesses with timeouts; nothing but a fault, which is a step
  too, keeps it from its next request. `EveryCallEnds` needs no fairness of late
  landings. `SomeCallSucceeds` is about behaviours without faults.
- `LoadProtocol`: weak fairness of each run's main loop (it wakes every 0.1 s) and
  load thread, and of the Data Flow runs, which OCI ends. None for `RenewLease`,
  which changes nothing but time, nor for `OperatorClears`: nobody is obliged to
  lift a quarantine.
- `Scheduler`: weak fairness of the main loop, of idle workers taking work, of
  each node's worker and of each Data Flow run. Faults, interrupts and exceptions
  have none.

## 5. Proofs

TLC looks at small instances; the theorems below hold for every value of the
constants. Each proof module starts with the inductive invariant, in named parts,
then has the lemmas about operators, one lemma per part (that every step keeps it),
and the theorems.

### The ledger: `LedgerLemmas`, `RangeLedgerProofs`

For all tables, groups, prefixes, number spaces and sets of valid plans:
`NoKeyTwice`, `NoNumberTwice` and `NoCodeTwice` (`NoPkReuse`, `NoMeuReuse`,
`NoCdbReuse`), `IntervalsFit` (`WithinCapacity`), `LedgerIsWellFormed` (`TypeOK`) and
`MarksNeverFall` (`MarksOnlyRise`). The bound on the history is not used, so the
theorems hold without it.

The reuse properties are not inductive: from a ledger with a mark below its
history the next allocation may repeat a range. `IInv` therefore adds
`MarksCover`: every range of the history ends below its table's mark
(`PkCovered`); every ordinal interval ends below `legacy` of its prefix if it was
of schema 2, below every group mark it covers if of schema 3 (`MeuCovered`); a
code interval has the length its count says (`CdbMeasured`), which is what makes
the history its own mark. `FreshPk`, `FreshMeu` and `FreshCdb` derive from this
that a new artifact meets no old one, in either order; `CoverPk`, `CoverMeu` and
`MeasureCdb` that the new marks cover the new artifact as well. The schema mix is
the interesting case: a schema-2 plan is drawn above all marks of its prefix, a
schema-3 plan above `legacy` and its own groups' marks only, and two intervals
that could meet always have a mark in common. These lemmas are about ledgers and
plans, not about a behaviour, and serve the next module too.

### Concurrent reservations: `ReservationProofs`

For every number of calls, URIs and plans, and any number of timeouts, echoed
writes, failed reads, crashes and late landings:

- `LeaseSerializes` (`SerializedByLease`) and `DoneIsPublished` (`DoneMeansPublished`)
  in every regime;
- `PublishedApart` (`PublishedNeverClash`), `PublishedIsBurned`
  (`BurnedBeforePublished`) and `ReleasesAreOwn` (`NoForeignRelease`) under `Guarded`;
- `CasImplementsLedger` (`ImplementsLedger`) under `Etagged`.

`Guarded` says that etags come with the answers or that leases do not expire under
their holders, `Etagged` the first of these. The hypotheses are needed: without
either, a stale ledger passes `if-match` and reservations overlap, which is finding 1.
Without etags a late write may, under an unexpired lease, undo a burn nobody has
published, so that the ledger does not implement `RangeLedger` there.

The invariant has three parts. `TypeOK` also says that every ledger, stored, read or
on the wire, satisfies `MarksCover`. `LeaseInv` is about the lease: tags only grow, the
tag a call keeps names a lease of its own, and what a caller left on the wire can only
renew or delete that. `LedgerInv` is about *claims*: what is published at a URI, what a
call has burned for it and may still publish, and what a late request will publish.
Claims are recorded in the ledger (`ClaimsIn`), those of two URIs do not clash
(`ClaimsApart`), and whatever may still replace the ledger, a call that is about to
write or a request on the wire, records them too and, with etags, extends the present
content (`ReadsAreCurrent`, `LateLedgers`). `NobodyElseIsAccepted` is the step on which the case of leases without
etags rests: no request but the holder's own passes the lease's `if-match`.
The refinement maps every step to an allocation on the stored ledger
(`AllocationIsStep`) or to none.

### One run: `SchedulerProofs`

For every number of products, every chain, pool and retry budget, and all faults:
`ScanMakesProgress` (`NeverStuck`), `LoadsAreLeased` (`LoadsUnderLease`),
`AttemptsAreApart` (`NoOverlappingAttempts`), `BranchesStandAlone`
(`BranchesAreIsolated`), `LoadsKeepOrder` (`LoadsInProductOrder`).

`FuturesOK` ties the manifest to the futures: a node is `RUNNING` in the one if and only
if it is among the others, as long as the loop runs. With it, `LoadsOK` (one load
among the futures, earlier loads settled, the lease held while a worker is at it) and
`RunsOK` (the only run that may be active is that of the current attempt) are
inductive. For `NeverStuck` the invariant remembers what the scan has passed over
(`ScanOK`): such a node waits for a future or for an unsettled node before it, and the
first unsettled node waits for nothing; so a pass without futures that started
nothing leaves nothing. `StopOK` and `BlockedOK` say what a stop and a block may be
blamed on.

### Loads of several runs: `LoadProofs`

For every number of runs, their loads and resumes, and every regime:
`QuarantineStays` (`QuarantineSticks`) and `LoadsAreClaimed` (`ClaimedLineage`)
without further hypotheses; `LoadsAreSerialized` (`OneLoadAtATime`) and
`AmbiguousIsQuarantined` (`AmbiguityQuarantines`) where renewals and quarantines come in
time and succeed and nobody is interrupted (`Orderly`; for the first, nobody is
killed either, which is a part of the property).

The first two need that a current etag is the owner's, who knows of a quarantine
(`LeaseOK`), and that the claim and the manifests an attempt can be traced by stay
(`LineageOK`, `TracesStay`; manifests are written once and claims never change). The
other two need to say who looks after a Data Flow run that may still insert
(`LookedAfter`): the thread of its own runner, under a current lease, or whoever
is to lift the quarantine. The attempt to prove them for failed renewals failed, and
rightly: a runner whose renewal fails stops without waiting for its Data Flow run, and
its lease lapses. `OneLoadAtATime` now says so.

### Publication, repair and session: `BatchProofs`

For every set of parts, number of attempts or runs, and a failure or a death at every
rename, delete and check: `PublishingLosesNothing` (`NothingLost`), for both programs.
`NothingLost` alone is not inductive: once the new table is being moved to the final path
and may be erased from it, it does not help that the final path has the missing part. The
invariant therefore says that from the rename of the old table to the end the
backups alone cover every part (`PromotionKept`, `RepairKept`), and what each call leaves
where (`PromotionPlaces`, `RepairPlaces`). A repair may meet what an earlier run of
the same id left. The lemmas about partial renames (`Moving`, `MovingKeeps`) serve both
programs. `StepsAreApart` is what makes theorems about `BatchJobs` of invariants of one of
its programs.

For any number of requests, lapses, refresh intervals and faults: `SessionsAreShared`
(`SessionIsShared`). That a request on its way to renew has a reason is not inductive: the
reason must be there when it finds the lock free, and by then another thread may
have renewed the session and used the reason up. `RequestOK` says what keeps that from
going wrong: an expired request that saw the last renewal has a reason whenever the
lock is free, and a session it has not seen renewed is valid or has ended since. A
renewal uses reasons up under the lock only, and before the lock is free again it has
either been counted, so that the request has no longer seen the last one, or failed,
which is a reason of its own. TLC found this invariant to hold for two requests and
a cancellation before it was proved.

### Loader and rollback: `BatchProofs`

For every inventory, foreign key graph, key set, chunk size and number of jobs and faults:
`ParentsComeFirst` (`ParentsAreLoaded`), `RollbacksAreExact` (`RollbackIsExact`),
`RerunsAreGuarded` (`RerunsAddNoDuplicate`) and, together with the invariants of
publication and repair, `ReportsAreTrue` (`OutcomesAreTrue`). `LoadOrderIsOrdered` is the
correctness of the topological sort: every table once, its parents before it.
`ChunksAreExact` is that of the chunks: between them they have every key of the
input and none beyond its bounds. `LoadedSoFar` and `RolledSoFar` say how far a job has
got, table by table and, for the table at its turn, task by task and chunk by chunk.

### Migration and extraction: `BatchProofs`

`EachTableIsHandledOnce` (`EachTableOnce`), for every table, chunk size and growth, every
graph of references, set of weights, number of buckets, slots and retries, and a failure
at every step.

- Migration (`MigrationInv`). The checkpoint of a run that died names chunks of the table
  as it was then, and the next run plans chunks of the table as it is now; both are numbered
  and share the object of their number. `KeysHeld` says what saves that: the chunk of a
  number only moves back as the table grows (`ChunksMoveBack`), so a key of the checkpoint that is
  in the plan of a later run is the same chunk, and one whose object was overwritten has
  been outgrown and will never be planned again. `TurnHeld` is how far a run has got,
  `ObjectsHeld` that, while the table does not grow, no two objects share an extent. That the
  greedy chunks divide the table is `ChunksDivide`.
- Extraction (`ExtractInv`). `PlanPacked` is what the greedy packing computes: every table
  in one bucket, and no bucket heavier than the lightest by more than the heaviest table.
  `BucketsHeld` ties the queues of the driver to the results, so that a bucket with tables
  waits, is run or has a result. For `OneWriterPerTable` the run that the driver asked
  for with the call that raised is the difficulty: nobody polls it. `RunsHeld` says that
  it is the only such run and that the driver was counting a free slot for it, so that the
  limit on concurrent runs holds even then.

### Runs that build on runs: `BatchProofs`

For every set of products, configurations and command lines, any number of runs and
adoptions, and a publication that dies between any two of its steps: `LineagesAreSound`
(`LineageIsSound`). What is stated about artifacts is inductive only with what the
plan of a run relies on: `PlanHeld` and `NodeHeld` say, node by node, that a descriptor
the plan took from upstream was true when it was taken and, since the store only grows
(`StoreGrows`), still is; and that one for an artifact of its own is what its node is told
to make (`Told`). `StoreHeld` is about the outputs with no owner to ask: one that is whole
and has no offline marker was made with Oracle. `ClaimsHeld` is why an output is loaded
once: who is about to insert has the claim alone, and the claim of what was inserted is
never given back.

### From the plan to the clones: `HandoffProofs`

`HandoffsAreSealed` (`HandoffIsSealed`), of three programs, each with an invariant of its
own, for every schema, RAW, policy, catalogue and command line:

- Hand-over (`HandoffInv`, `HandoffInvariant`), for any number of attempts at a plan that
  overlap, die anywhere and find RAW replaced between any two of their reads.
  `HandoffIsSealed` looks at what a materialization took; what makes it true happened while
  the plan was made. `FrozenHeld` says what an attempt holds at each of its steps: once it has
  verified its snapshot, the datasets have the roots and counts it selected, whichever RAW they
  were read from, and the classification covers the same roots. `PlanHeldBy` says that the
  plan in the store is that of an attempt that ended well, so that what it describes no longer
  changes. Neither needs the attempts to be alone. That nothing is then refused
  (`RefusedForAReason`) does: `AloneHeld` adds whose texts are in place at each step
  (`TextsHeld`), and holds until two attempts are at work at once.
- Commands (`CommandsInv`, `CommandsInvariant`), for any number of orders, of commands by hand,
  of days, inserts and edits of the specifications. `PlanMade` says of a stored plan that it is
  what its command asked for in the world it met; `ReservedHeld` that a reservation fits its
  plan and ends below what is free; two reservations `Precede` one another, table by table, which
  is what keeps outputs of a live plan apart; `Made` that an output is made of its plan and its
  reservation. That the runner's second command goes through is a matter of comparing the two
  argument lists, option by option, with what `AgreesWithPlan` compares.
- Texts (`RewriteInv`, `RewriteInvariant`), for any number of instruments, rows, copies,
  attempts and failing or strange answers. `Accounts` says that the rows worked out so far
  have each target of each copy up to the batch at hand once; `DividedUp` that within a batch
  every target has an answer or is left to ask for; and the calls made so far are counted
  against those the copies done allow. Batches, retries and fallbacks all keep
  this, so a frozen row is there for every target of every copy and is the clone's own.
  `CellsAreFound` says that the numbering of the targets by table, key and column gives
  each one number.

### Engorda: `EngordaProofs`

For every schema, set of products, extraction, set of jobs and plan, and any crashes, new
extractions and rival inserts: `JobsKeepWhatTheyHold` (the invariant),
`OutputsFollowPlans` (`OutputFollowsPlan`), `OutputsStayWithinReservations`
(`OutputWithinReservation`), `NothingEverCollides` (`NothingCollides`),
`FamiliesAlwaysStayTogether` (`FamiliesStayTogether`), `ReferencesAlwaysResolve`
(`ReferencesResolve`).

None of the five is inductive: each looks at outputs, and an output is made of what was
held long before. `JobsInv` has three parts. `WorldHeld`: RAW is keyed, Oracle's codes are
those handed out, the ledger's marks cover its history. `JobHeld`: by phase, a job holds
a snapshot every reference of which leads to the snapshot or to Oracle, or is one
the clone will null (`PlanHeld`); a reservation of the size of that snapshot that the
ledger records (`ReservationHeld`); clones of exactly that snapshot under the keys of
exactly that reservation (`ClonesHeld`); codes and control numbers that are reserved
and were not in Oracle when the job read it (`OutputHeld`). `Apart`: no two jobs hold
reservations that clash, nor a code in common. The ledger's `FreshPk`, `FreshMeu` and
`FreshCdb` keep `Apart`; that a row put into Oracle by others takes no reference away keeps
the rest while others move.

Beneath it are the lemmas on `CloneGraph`, for any schema: the topological order names
every table once (`OrderNamesEachOnce`), the closure stays within the extraction
(`ClosureStaysInExtract`), the tables are cloned one after another and each sees the
finished maps of its parents (`AllAreMade`), the copies of a table take exactly the slots of
its range, each once (`OffsetsFillTheRange`), and a reference of a clone is its copy's if the source's
target was cloned and its source's if not (`ReferencesFollow`). Those on `BusinessKeys` say that the codes of a
job are distinct and within what it reserved, and the same of the two sides of an operation.

### What the proofs rest on

- Ledger and reservations: prefixes are integers, bounds are naturals, `Absent` is no
  integer and no object, every plan is valid as `_validate_plan` has it, and there is a
  date.
- Scheduler: at least one product, a chain of at least one of the five operations, at
  least one worker, and `load` among the operations that are not retried (3242).
- Loads: `Loads` gives every run a sequence of inputs with the attempt each resumes, if
  any; `Absent` is neither an attempt nor a lease.
- Publication: the number of attempts is a natural number.
- Migration: blocks and the chunk size are natural numbers. Extraction: the seeds and edges
  of a request are of the tables there are, bounds are numbers, and there is a slot.
- Lineage: each registered product has stages of the chain and a validator; an output
  from elsewhere that is whole and has no offline marker was made with Oracle.
- Engorda: `ProductsArePlannable` is about the schema of what a product clones. A
  primary key is required and has no generated column; a foreign key has as many columns
  as its parent's key, has none in common with another, does not refer to its own table from
  the primary key, and is one column if it is nulled selectively; the references that
  are followed have no cycle. The code checks the lengths (`_fks_para_pais_clonados`,
  4729-4752 of `engorda_tables.py`) and the selective columns
  (`_valida_contrato_nulificacao_seletiva`, 5061-5097); the rest, the cycles included,
  which its topological sort would break, holds for all tables of the fifteen products
  that `specs.json` describes. It describes 26 of their 47; the specifications of the others
  are made from Oracle's catalogue at the site. `RawIsKeyed` and `OracleIsKeyed`: an
  extraction and Oracle satisfy the primary keys, keys that are renewed by counting are
  numbers, and the codes of others are of other prefixes or were handed out before.
  `JobsArePossible`: K is positive. `PassesAreBounded`: the closure has a bound on its passes.
  `AbsentIsNoRange`: no request or range is the value for none.
- Hand-over: K is positive, and the value for none is neither an attempt nor a refusal
  (`AttemptsAreTold`).
- Texts (`JobsArePossible` of `GenAiRewrite`): at least one attempt and one call in each, K
  is positive, targets have a width, and rows are finitely many, with a table and a number
  for a key, which no two share.
- Commands (`CommandsArePossible`): roots are finitely many; RAW has the tables the products
  and the specifications name, with rows; a product clones its root table; numbers given on
  the command line are positive (11693 of `engorda_tables.py`).
- Loader: the inventory is a list without repetitions and not empty (`parse_tables`);
  keys are naturals, those of the input have a least and a greatest; other rows' keys are not
  between them; chunk size and tries are positive.

These are the `ASSUME`s of the models; that of `BatchJobs`, `ConstantsArePossible`, joins
named conditions of its programs (`InputIsPossible`, `AttemptsAreCounted` and others). TLC
evaluates them on every run.

The provers have no induction over data. What the proofs need of loops comes from one
fact, that a set of naturals which is not empty has a least number (`LeastNumber`, at the head
of each proof module that needs it): what holds at zero and is kept by every step holds at every number
(`CountingUp`, `StepsUp`, by the least counterexample); a step that always has a
result can be repeated any number of times, so the recursive functions of the models are
functions (`IterationExists`, by the greatest number up to which one exists); a finite set
of numbers has a greatest, and ranking it is a bijection (`GreatestNumber`,
`RanksAreABijection`); positions in a table of cells are ordered (`CellsAreOrdered`).

### What is only model-checked

- Liveness (`EveryCallEnds`, `SomeCallSucceeds`, `EveryRunEnds`, `EveryPipelineEnds`
  and the others): fairness is out of the prover's reach.
- `ChecksAgree` (`ProductPipeline`, `LoadPreflight`): its parts compare two statements of the
  same rules over samples of rows; there is no invariant to find, only cases to compare.

## 6. Not modelled

- Runner: a second Ctrl-C during the clean-up; failures of manifest writes in
  worker threads (hazard at 3340); the classification of quota errors by their
  text (3299); a quarantine request that fails (3668); parsing, rendering and URI
  layout; several environments in one chain of runs; two hosts that start one run id
  before either has written anything.
- Loader: CHECK constraints, which its pre-flight does not look at; names of schemas,
  identifiers and connection options.
- Engorda: the domains of the products other than CDB and RDB, the prune of missing
  keys (`--faltantes`), `--sem-filtro-ativos`, the dates of other tables than those
  of the instrument, its conditions and schedules; `phase all` is in `EngordaCommands` only,
  which has its keys but not its rows. Keys
  are numbers; `OFFSET_PROPRIO` keys are numbered over all rows at once instead of
  over the partitions of the snapshot, whose offsets are running counts.
- `save_tables.py`, `shift_keys.py`, `validate_tables.py`: a query, a renumbering
  and a report, over data frames and without a protocol.
- `validate_products.py`: the checks against Oracle's catalogue (keys, NOT NULL,
  capacity), baselines of shapes, the registration profile, pendencies, the rate
  columns of an escalation's segments, and the profiles of LCI, LCA, CCB, DICRE,
  credits and liens. `ProductPipeline` clones each instrument once and takes the
  route a product's query asks for as one of registry.
- Reports, specification builders, SQL scripts, notebooks and deployment.

Payloads are members of small sets; hashes are identities.

## 7. Plan

Done, checked and proved: `LedgerAllocation`, `PersistedLedger`, `RangeLedger`,
`Reservation`, `LoadProtocol`, `Scheduler`, `TableLoad`, `StagingPromotion`,
`OperationRepair`, `ParallelExtract`, `RowidMigration`, `SessionAuth`, `PipelineLineage`,
`GenAiRewrite`, `PlanHandoff`, `EngordaCommands`, and `EngordaJob` with its two libraries.
Done, with TLC: `ProductPipeline` and its three libraries, `LoadPreflight`.

To model: the other products' profiles in `ProductValidation`; the query of
`save_tables.py` by ROWID ranges; key shifting; `SessionAuth` under the workers of
`Scheduler`, where a failed cancellation meets a session that has ended.
