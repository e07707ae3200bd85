------------------------------ MODULE TableLoad ------------------------------
(***************************************************************************)
(* One synthetic input and the Oracle tables it is appended to, by loads   *)
(* (datagen/load_tables.py, with the partition writer of                   *)
(* OracleAuditJdbcWriter.java) and removed from, by rollbacks              *)
(* (scripts/rollback_load.py), one job at a time: LoadProtocol has what    *)
(* serializes them.                                                        *)
(*                                                                         *)
(* A row is its key, and every row is a Spark partition, that is, one      *)
(* transaction of a task. A child's row of key k references the rows of    *)
(* key k of its parents. Without constraints (disable_load_constraints.sql)*)
(* Oracle accepts repeated keys and missing parents.                       *)
(***************************************************************************)
EXTENDS Naturals, Sequences, FiniteSets

CONSTANTS
    Inventory,        \* the tables of the validation report, in its order
    Foreign,          \* the foreign key graphs: sets of <<child, parent>>
    Guards,           \* the sets of tables with a single numeric primary key
    OwnKeys,          \* keys of the input's rows, the same in every table
    OtherKeys,        \* keys of rows loaded before, or after, by others
    ChunkSize,        \* --chunk-size
    MaxTaskFailures,  \* spark.task.maxFailures
    MaxJobs,          \* bound on loads and rollbacks
    MaxFaults         \* bound on lost answers, connection errors and crashes

Tables == { Inventory[i] : i \in DOMAIN Inventory }

\* Assumed of the constants: the inventory repeats no table and is not empty
\* (parse_tables), and the other rows' keys are outside of the input's.
InputIsPossible ==
    /\ Inventory \in Seq(Tables) /\ Inventory # << >>
    /\ \A i, j \in DOMAIN Inventory : Inventory[i] = Inventory[j] => i = j
    /\ Foreign \subseteq SUBSET (Tables \X Tables) /\ Guards \subseteq SUBSET Tables
    /\ OwnKeys \subseteq Nat /\ OtherKeys \subseteq Nat
    /\ \E high \in OwnKeys : \A k \in OwnKeys : k <= high
    /\ \A k \in OtherKeys : (\A o \in OwnKeys : k < o) \/ (\A o \in OwnKeys : k > o)
    /\ ChunkSize \in Nat \ {0} /\ MaxTaskFailures \in Nat \ {0}

Keys == OwnKeys \cup OtherKeys
Tasks == Tables \X OwnKeys

VARIABLES
    foreign, guarded, constrained,   \* the schema, chosen once
    oracle,     \* per table and key, how many such rows it has
    manifest,   \* the tables of the last load manifest in their order, none: << >>
    job,        \* none, load or rollback
    keepGoing,  \* --continue-on-error of the job
    turn,       \* position of the table the job is at
    stage,      \* of that table: guard, write or delete
    open,       \* tasks of the job that have not ended
    tries,      \* per task, how often it was reported failed
    chunks,     \* key ranges still to be deleted from the table
    failures,   \* tables that failed in the job
    outcome,    \* of the last job
    jobs, faults

schema == << foreign, guarded, constrained >>
place == << job, keepGoing, turn, stage >>
vars == << schema, oracle, manifest, place, open, tries, chunks, failures, outcome,
           jobs, faults >>

Parents(t) == { u \in Tables : <<t, u>> \in foreign }
Children(t) == { c \in Tables : <<c, t>> \in foreign }

-----------------------------------------------------------------------------
(* topo_sort_for_load: the first remaining table none of whose parents      *)
(* remains, and so on; no order if what remains is a cycle.                 *)

\* Faulty variant: the inventory's own order.
InventoryOrder == Inventory

First(positions) == CHOOSE i \in positions : \A j \in positions : i <= j

Ready(rest) == { i \in rest : \A j \in rest : Inventory[j] \notin Parents(Inventory[i]) }

\* The orders of positions that take the first ready one at every turn.
Sorts ==
    { s \in [DOMAIN Inventory -> DOMAIN Inventory] :
        \A i \in DOMAIN Inventory :
            LET ready == Ready(DOMAIN Inventory \ { s[j] : j \in 1 .. (i - 1) })
            IN  ready # {} /\ s[i] = First(ready) }

Loadable == Sorts # {}

LoadOrder ==
    LET s == CHOOSE s \in Sorts : TRUE
    IN  [i \in DOMAIN Inventory |-> Inventory[s[i]]]

\* rollback_order, of which the entries with "rollbackable" are gone through.
RollbackOrder == [i \in DOMAIN manifest |-> manifest[Len(manifest) + 1 - i]]
RollbackTurns == { i \in DOMAIN RollbackOrder : RollbackOrder[i] \in guarded }

JobOrder == IF job = "load" THEN manifest ELSE RollbackOrder
Turns == IF job = "load" THEN DOMAIN manifest ELSE RollbackTurns
Table == JobOrder[turn]

Low == CHOOSE k \in OwnKeys : \A o \in OwnKeys : k <= o
High == CHOOSE k \in OwnKeys : \A o \in OwnKeys : o <= k

\* Faulty variant: whole chunks, past the upper bound.
WholeChunks ==
    [ i \in 1 .. (High - Low + ChunkSize) \div ChunkSize |->
        << Low + (i - 1) * ChunkSize, Low + i * ChunkSize - 1 >> ]

\* Faulty variant: the range begins after its exclusive lower bound.
ChunksAfterLow ==
    [ i \in 1 .. (High - Low + ChunkSize - 1) \div ChunkSize |->
        << Low + (i - 1) * ChunkSize + 1,
           IF Low + i * ChunkSize < High THEN Low + i * ChunkSize ELSE High >> ]

\* pk_chunk_ranges: the manifest's exact key range in chunks.
PkChunkRanges ==
    [ i \in 1 .. (High - Low + ChunkSize) \div ChunkSize |->
        << Low + (i - 1) * ChunkSize,
           IF Low + i * ChunkSize - 1 < High THEN Low + i * ChunkSize - 1 ELSE High >> ]

-----------------------------------------------------------------------------
Init ==
    /\ foreign \in Foreign /\ guarded \in Guards /\ constrained \in BOOLEAN
    /\ oracle = [t \in Tables |-> [k \in Keys |-> IF k \in OtherKeys THEN 1 ELSE 0]]
    /\ manifest = << >>
    /\ job = "none" /\ keepGoing = FALSE /\ turn = 0 /\ stage = "none"
    /\ open = {} /\ tries = [x \in Tasks |-> 0]
    /\ chunks = << >> /\ failures = {}
    /\ outcome = "none"
    /\ jobs = 0 /\ faults = 0

Fault == faults < MaxFaults /\ faults' = faults + 1

\* The job is over, and spark.stop() ends its tasks.
End(result) ==
    /\ job' = "none" /\ keepGoing' = FALSE /\ turn' = 0 /\ stage' = "none"
    /\ open' = {} /\ tries' = [x \in Tasks |-> 0]
    /\ chunks' = << >> /\ failures' = {}
    /\ outcome' = result

\* On to the next table, with these tasks still open, or to the end.
NextTable(failed, left) ==
    LET later == { i \in Turns : i > turn }
    IN  \/ /\ later = {} /\ failed # {}
           /\ End("failed")
        \/ /\ later = {} /\ failed = {}
           /\ End(IF job = "load" THEN "loaded" ELSE "rolled back")
        \/ /\ later # {}
           /\ turn' = First(later)
           /\ stage' = IF job = "load" THEN "guard" ELSE "delete"
           /\ chunks' = IF job = "load" THEN << >> ELSE PkChunkRanges
           /\ failures' = failed /\ open' = left
           /\ UNCHANGED << job, keepGoing, tries, outcome >>

\* The table failed: without --continue-on-error the job raises.
FailTable(left) ==
    IF keepGoing THEN NextTable(failures \cup {Table}, left) ELSE End("failed")

-----------------------------------------------------------------------------
(* A load: main writes the manifest, then load_tables goes by table.        *)

StartLoad ==
    /\ job = "none" /\ jobs < MaxJobs
    /\ jobs' = jobs + 1
    /\ \/ /\ ~Loadable
          /\ outcome' = "refused"
          /\ UNCHANGED << manifest, place >>
       \/ /\ Loadable
          /\ manifest' = LoadOrder
          /\ job' = "load" /\ turn' = 1 /\ stage' = "guard"
          /\ keepGoing' \in BOOLEAN
          /\ outcome' = "none"
    /\ UNCHANGED << schema, oracle, open, tries, chunks, failures, faults >>

\* Faulty variant: keys on the bounds are not read.
SkippedInside(t) ==
    { k \in OwnKeys : t \in guarded /\ Low < k /\ k < High /\ oracle[t][k] > 0 }

\* apply_pk_guard: keys between the least and the greatest that Oracle has.
Skipped(t) ==
    { k \in OwnKeys : t \in guarded /\ Low <= k /\ k <= High /\ oracle[t][k] > 0 }

\* load_table: the guard, then one task for each row to append. Rows already
\* there in a table without a guard are appended again.
Guard ==
    /\ job = "load" /\ stage = "guard"
    /\ \/ /\ open' = open \cup { <<Table, k>> : k \in OwnKeys \ Skipped(Table) }
          /\ stage' = "write"
          /\ UNCHANGED << job, keepGoing, turn, tries, chunks, failures, outcome, faults >>
       \/ Fault /\ FailTable(open)
    /\ UNCHANGED << schema, oracle, manifest, jobs >>

\* Does Oracle accept the transaction of task x?
Admitted(x) == constrained => /\ oracle[x[1]][x[2]] = 0
                              /\ \A u \in Parents(x[1]) : oracle[u][x[2]] > 0

Insert(x) == oracle' = [oracle EXCEPT ![x[1]][x[2]] = @ + 1]

\* Faulty variant: the last failure of a task is not its table's.
RetryOrForget(x) ==
    /\ tries' = [tries EXCEPT ![x] = @ + 1]
    /\ open' = IF tries[x] + 1 < MaxTaskFailures THEN open ELSE open \ {x}
    /\ UNCHANGED << place, chunks, failures, outcome >>

\* A failed task is tried again, until it has failed too often: its table
\* then fails, and its other tasks end when they end. Tasks of a table that
\* has failed are not tried again.
Retry(x) ==
    \/ /\ x[1] # Table
       /\ open' = open \ {x}
       /\ UNCHANGED << place, tries, chunks, failures, outcome >>
    \/ /\ x[1] = Table /\ tries[x] + 1 < MaxTaskFailures
       /\ tries' = [tries EXCEPT ![x] = @ + 1]
       /\ UNCHANGED << place, open, chunks, failures, outcome >>
    \/ /\ x[1] = Table /\ tries[x] + 1 = MaxTaskFailures
       /\ FailTable(open \ {x})

Commit(x) ==
    /\ x \in open /\ Admitted(x)
    /\ Insert(x)
    /\ open' = open \ {x}
    /\ UNCHANGED << schema, manifest, place, tries, chunks, failures, outcome, jobs, faults >>

\* The transaction is refused, fails, or commits and is reported failed.
TaskFails(x) ==
    /\ x \in open
    /\ \/ ~Admitted(x) /\ UNCHANGED << oracle, faults >>
       \/ Fault /\ UNCHANGED oracle
       \/ Admitted(x) /\ Fault /\ Insert(x)
    /\ Retry(x)
    /\ UNCHANGED << schema, manifest, jobs >>

FinishTable ==
    /\ job = "load" /\ stage = "write"
    /\ \A x \in open : x[1] # Table
    /\ NextTable(failures, open)
    /\ UNCHANGED << schema, oracle, manifest, jobs, faults >>

-----------------------------------------------------------------------------
(* A rollback by the input's manifest.                                      *)

StartRollback ==
    /\ job = "none" /\ jobs < MaxJobs /\ RollbackTurns # {}
    /\ jobs' = jobs + 1
    /\ job' = "rollback" /\ turn' = First(RollbackTurns) /\ stage' = "delete"
    /\ keepGoing' \in BOOLEAN
    /\ chunks' = PkChunkRanges
    /\ outcome' = "none"
    /\ UNCHANGED << schema, oracle, manifest, open, tries, failures, faults >>

Within(range, k) == range[1] <= k /\ k <= range[2]

\* A row that a child's row references cannot be deleted.
Deletable(t, range) ==
    constrained => \A c \in Children(t), k \in Keys : Within(range, k) => oracle[c][k] = 0

Delete(t, range) ==
    oracle' = [oracle EXCEPT ![t] = [k \in Keys |-> IF Within(range, k) THEN 0 ELSE @[k]]]

\* Each chunk is a statement that commits by itself.
DeleteChunk ==
    /\ job = "rollback" /\ chunks # << >>
    /\ \/ /\ Deletable(Table, Head(chunks))
          /\ Delete(Table, Head(chunks))
          /\ chunks' = Tail(chunks)
          /\ UNCHANGED << place, open, tries, failures, outcome, faults >>
       \/ /\ ~Deletable(Table, Head(chunks))
          /\ FailTable(open)
          /\ UNCHANGED << oracle, faults >>
       \/ /\ Fault
          /\ \/ UNCHANGED oracle
             \/ Deletable(Table, Head(chunks)) /\ Delete(Table, Head(chunks))
          /\ FailTable(open)
    /\ UNCHANGED << schema, manifest, jobs >>

FinishRollback ==
    /\ job = "rollback" /\ chunks = << >>
    /\ NextTable(failures, open)
    /\ UNCHANGED << schema, oracle, manifest, jobs, faults >>

-----------------------------------------------------------------------------
\* The driver of the job is killed.
Crash ==
    /\ job # "none" /\ Fault
    /\ End("failed")
    /\ UNCHANGED << schema, oracle, manifest, jobs >>

Over == job = "none" /\ jobs = MaxJobs /\ UNCHANGED vars

Next ==
    \/ StartLoad \/ Guard \/ FinishTable
    \/ \E x \in Tasks : Commit(x) \/ TaskFails(x)
    \/ StartRollback \/ DeleteChunk \/ FinishRollback
    \/ Crash \/ Over

Spec == Init /\ [][Next]_vars

-----------------------------------------------------------------------------
(* Properties. RerunsAddNoDuplicate is in BatchJobs.                        *)

(* Parents are loaded first: when a task runs, the rows it references are   *)
(* there, unless the parent's table failed and the load went on.            *)
ParentsAreLoaded ==
    \A x \in open : \A u \in Parents(x[1]) : oracle[u][x[2]] > 0 \/ u \in failures

(* A load that reports success has every row of the input in Oracle, also   *)
(* when earlier loads, rollbacks and retries got half way.                  *)
LoadedMeansComplete ==
    outcome = "loaded" => \A t \in Tables, k \in OwnKeys : oracle[t][k] > 0

(* After a rollback that reports success no row of the input is left in the *)
(* tables it can roll back, whatever load the manifest was of.              *)
RolledBackMeansGone ==
    outcome = "rolled back" => \A t \in guarded, k \in OwnKeys : oracle[t][k] = 0

(* "A manual rollback cannot delete rows loaded by later products", nor     *)
(* those that were there before.                                            *)
RollbackSparesOthers ==
    \A t \in Tables, k \in OtherKeys : oracle[t][k] = 1

(* The two together: a rollback deletes the rows of the input, and no other.*)
RollbackIsExact == RolledBackMeansGone /\ RollbackSparesOthers
=============================================================================
