---------------------------- MODULE LoadPreflight ----------------------------
(***************************************************************************)
(* What the loader (datagen/load_tables.py) looks at before the first       *)
(* insert, and what Oracle then makes of the rows: the product's overrides  *)
(* of static tables, validate_load against the catalogue, the rows and the  *)
(* reference tables of the target, --dry-run, the record of the load        *)
(* manifest, and the inserts with their nulled and audit columns.           *)
(*                                                                         *)
(* A row is a function on its columns that are not NULL. Numbers are tenths *)
(* and a string is its length in bytes, so that strings of a length are     *)
(* equal. Oracle's constraints are enabled, and its foreign keys are those  *)
(* of the specs. Tasks, their retries, --continue-on-error and rollbacks    *)
(* are in module TableLoad, the report and the marker in PipelineLineage.   *)
(***************************************************************************)
EXTENDS Integers, Sequences, FiniteSets

CONSTANTS
    Inventory,     \* the tables of the report, parents first
    Specs,         \* [table -> pk columns, static, foreign keys]
    Generated,     \* ENGORDA_LOAD_TABLES, for some products
    Targets,       \* catalogues: [table -> columns with their types, P and U keys]
    Inputs,        \* [table -> columns, those that are numeric, rows]
    Populations,   \* what Oracle has at first: [table -> rows]
    Rivals,        \* <<table, row>> that others may insert meanwhile
    NullOnInsert,  \* [table -> self-references]
    AuditColumns,  \* [table -> columns Oracle fills]
    Now,           \* what it fills them with
    Flags         \* skip_validation, dry_run, limit (0 is none), is the manifest there?

TablesExist ==
    \A i \in DOMAIN Inventory : Inventory[i] \in DOMAIN NullOnInsert \cap DOMAIN AuditColumns

VARIABLES
    generated, flags, catalogue, batchRows,   \* of this job
    stored,    \* per table, the rows Oracle has
    phase, place,
    flagged,   \* violations so far
    record,    \* the load manifest, once it is written: per table with a key,
               \* its bounds, and per table the columns the loader changes
    waiting,   \* rows of the table that are not inserted yet
    verdict,
    rivalled   \* did others insert since the job began?

inputs == <<generated, flags, catalogue, batchRows>>
vars == <<inputs, stored, phase, place, flagged, record, waiting, verdict, rivalled>>

Table == Inventory[place]
TableSet == { Inventory[i] : i \in DOMAIN Inventory }
Known(t) == IF t \in DOMAIN catalogue THEN catalogue[t].columns ELSE << >>
UniqueKeys(t) == IF t \in DOMAIN catalogue THEN catalogue[t].keys ELSE {}
InputColumns(t) == batchRows[t].columns
Row(t, i) == batchRows[t].rows[i]

\* df.limit takes any rows, and others each time it is evaluated.
Samples(t) ==
    LET all == DOMAIN batchRows[t].rows
    IN  IF flags.limit = 0 THEN {all}
        ELSE { s \in SUBSET all :
                 Cardinality(s) = IF Cardinality(all) < flags.limit
                                  THEN Cardinality(all) ELSE flags.limit }

\* specs_for_engorda_inventory: what the product generates is not static.
IsStatic(t) == t \in DOMAIN Specs /\ Specs[t].static /\ ~(t \in generated /\ t \in TableSet)

-----------------------------------------------------------------------------
(* validate_table: violations are <<table, check, columns>>.                *)

\* Is the number over capacity_from_precision_scale? Precision 0 is NULL.
Exceeds(number, type) ==
    LET capacity == (10 ^ type.precision - 1) * 10
        scaled == number * 10 ^ type.scale
    IN  type.precision # 0 /\ (scaled > capacity \/ scaled < - capacity)

\* Columns the target does not have, and those it needs and is not given.
ColumnAlignment(t) ==
    LET required == { c \in DOMAIN Known(t) : ~Known(t)[c].nullable /\ ~Known(t)[c].has_default }
    IN  { <<t, "column_alignment", {c}>> :
            c \in (InputColumns(t) \ DOMAIN Known(t)) \cup (required \ InputColumns(t)) }

Profiled(t) == InputColumns(t) \cap DOMAIN Known(t)

NumericDomain(t, sample) ==
    { <<t, "numeric_domain", {c}>> : c \in
        { c \in Profiled(t) : Known(t)[c].kind = "number"
            /\ \E i \in sample : c \in DOMAIN Row(t, i) /\ Exceeds(Row(t, i)[c], Known(t)[c]) } }

StringLength(t, sample) ==
    { <<t, "string_length", {c}>> : c \in
        { c \in Profiled(t) : Known(t)[c].kind = "string"
            /\ \E i \in sample : c \in DOMAIN Row(t, i) /\ Row(t, i)[c] > Known(t)[c].data_length } }

NotNull(t, sample) ==
    { <<t, "not_null", {c}>> : c \in
        { c \in Profiled(t) : ~Known(t)[c].nullable
            /\ \E i \in sample : c \notin DOMAIN Row(t, i) } }

Key(row, columns) == [c \in columns |-> row[c]]

\* The keys without a NULL, of the rows that have one.
Whole(t, sample, columns) == { i \in sample : columns \subseteq DOMAIN Row(t, i) }

\* Faulty variant: only keys of one column are looked for twice.
SingleKeyTwice(t, sample, columns) ==
    LET keyed == Whole(t, sample, columns)
    IN  /\ Cardinality(columns) = 1
        /\ Cardinality({ Key(Row(t, i), columns) : i \in keyed }) < Cardinality(keyed)

\* uniqueness_internal: fewer keys than rows with a key.
KeyTwice(t, sample, columns) ==
    LET keyed == Whole(t, sample, columns)
    IN  Cardinality({ Key(Row(t, i), columns) : i \in keyed }) < Cardinality(keyed)

\* count_prod_collisions: of one numeric column, the keys between the least
\* and the greatest are read, and otherwise all.
KeyInProduction(t, sample, columns) ==
    \E i \in Whole(t, sample, columns), j \in DOMAIN stored[t] :
        /\ columns \subseteq DOMAIN stored[t][j]
        /\ Key(stored[t][j], columns) = Key(Row(t, i), columns)

Uniqueness(t, sample) ==
    LET keys == { k \in UniqueKeys(t) : k \subseteq InputColumns(t) }
    IN  { <<t, "uniqueness_internal", k>> : k \in { k \in keys : KeyTwice(t, sample, k) } }
        \cup { <<t, "uniqueness_vs_production", k>> :
                 k \in { k \in keys : KeyInProduction(t, sample, k) } }

\* A foreign key maps its columns to those of its parent.
References(row, fk, parent) == \A c \in DOMAIN fk.columns :
    fk.columns[c] \in DOMAIN parent /\ parent[fk.columns[c]] = row[c]

Orphan(row, fk) ==
    /\ DOMAIN fk.columns \subseteq DOMAIN row
    /\ \A j \in DOMAIN stored[fk.parent] : ~References(row, fk, stored[fk.parent][j])

\* count_fk_static_orphans: parents that are static, and no others.
FkToStatic(t, sample) ==
    { <<t, "fk_to_static", DOMAIN fk.columns>> : fk \in
        { fk \in Specs[t].foreign :
            /\ IsStatic(fk.parent) /\ DOMAIN fk.columns \subseteq InputColumns(t)
            /\ \E i \in sample : Orphan(Row(t, i), fk) } }

Violations(t, sample) ==
    ColumnAlignment(t) \cup NumericDomain(t, sample) \cup StringLength(t, sample)
        \cup NotNull(t, sample) \cup Uniqueness(t, sample) \cup FkToStatic(t, sample)

-----------------------------------------------------------------------------
(* Oracle.                                                                  *)

\* ROUND of a number of tenths to the column's scale.
Rounded(number, type) ==
    LET unit == IF type.scale = 0 THEN 10 ELSE 1
        size == IF number < 0 THEN - number ELSE number
        up == ((size + unit \div 2) \div unit) * unit
    IN  IF number < 0 THEN - up ELSE up

\* oracle_audit_columns of the table, as far as the input has them.
Audited(t) == AuditColumns[t] \cap InputColumns(t)

\* The row an INSERT makes: null_self_ref_columns and the audit columns of
\* write_jdbc_append, the empty string as NULL, numbers rounded to their scale.
Inserted(t, row) ==
    LET empty == { c \in DOMAIN row \cap DOMAIN Known(t) :
                     Known(t)[c].kind = "string" /\ row[c] = 0 }
    IN  [ c \in ((DOMAIN row \ NullOnInsert[t]) \ empty) \cup Audited(t) |->
            IF c \in Audited(t) THEN Now
            ELSE IF c \in DOMAIN Known(t) /\ Known(t)[c].kind = "number"
                 THEN Rounded(row[c], Known(t)[c]) ELSE row[c] ]

\* NULLs beside something that is not NULL count as equal in a unique key.
SameKey(r, s, columns) ==
    /\ columns \cap DOMAIN r # {}
    /\ \A c \in columns : (c \in DOMAIN r <=> c \in DOMAIN s)
                          /\ (c \in DOMAIN r => r[c] = s[c])

Fits(c, row, type) ==
    IF c \notin DOMAIN row THEN TRUE
    ELSE CASE type.kind = "number" -> ~Exceeds(row[c], type)
           [] type.kind = "string" -> row[c] <= type.data_length
           [] OTHER -> TRUE

Accepted(t, row) ==
    /\ InputColumns(t) \subseteq DOMAIN Known(t)
    /\ \A c \in DOMAIN Known(t) :
         /\ Fits(c, row, Known(t)[c])
         /\ c \notin DOMAIN row =>
              (Known(t)[c].nullable \/ (Known(t)[c].has_default /\ c \notin InputColumns(t)))
    /\ \A k \in UniqueKeys(t), j \in DOMAIN stored[t] : ~SameKey(row, stored[t][j], k)
    /\ \A fk \in Specs[t].foreign : ~Orphan(row, fk)

-----------------------------------------------------------------------------
Init ==
    /\ generated \in Generated /\ flags \in Flags
    /\ catalogue \in Targets /\ batchRows \in Inputs /\ stored \in Populations
    /\ phase = "resolve" /\ place = 1
    /\ flagged = {} /\ record = <<>> /\ waiting = {}
    /\ verdict = "none" /\ rivalled = FALSE

End(result) ==
    /\ phase' = "over" /\ verdict' = result
    /\ UNCHANGED <<place, waiting>>

\* resolve_load_tables, and what the flags ask for next.
Resolve ==
    /\ phase = "resolve"
    /\ IF \E t \in TableSet : t \notin DOMAIN Specs \/ IsStatic(t)
       THEN End("refused")
       ELSE /\ phase' = IF flags.skip_validation THEN "decide" ELSE "check"
            /\ UNCHANGED <<place, waiting, verdict>>
    /\ UNCHANGED <<inputs, stored, flagged, record, rivalled>>

\* One table of validate_load.
CheckTable ==
    /\ phase = "check"
    /\ \/ /\ Table \notin DOMAIN catalogue
          /\ flagged' = flagged \cup {<<Table, "column_alignment", {"*"}>>}
       \/ /\ Table \in DOMAIN catalogue
          /\ \E sample \in Samples(Table) :
                flagged' = flagged \cup Violations(Table, sample)
    /\ IF place = Len(Inventory)
       THEN phase' = "decide" /\ place' = 1
       ELSE place' = place + 1 /\ UNCHANGED phase
    /\ UNCHANGED <<inputs, stored, record, waiting, verdict, rivalled>>

\* The table's key in the specs, if it is one number that the input has.
GuardColumn(t) ==
    { c \in InputColumns(t) : Specs[t].pk = <<c>>
        /\ c \in batchRows[t].numeric }

Keyed(t, sample) == { i \in sample : GuardColumn(t) \subseteq DOMAIN Row(t, i) }
KeysOf(t, sample) == UNION { { Row(t, i)[c] : i \in Keyed(t, sample) } : c \in GuardColumn(t) }

\* capture_manifest_entries: the bounds of a numeric key must be whole numbers.
Bounds(keys) == {CHOOSE k \in keys : \A x \in keys : k <= x,
                 CHOOSE k \in keys : \A x \in keys : x <= k}
Profilable(t, sample) ==
    (GuardColumn(t) # {} /\ sample # {}) =>
        LET keys == KeysOf(t, sample)
        IN  keys # {} /\ \A bound \in Bounds(keys) : bound % 10 = 0

\* Faulty variant: only the audit columns are recorded.
AuditOnly(t) == Audited(t)

\* manifest_transformations.
Transformations(t) == (NullOnInsert[t] \cap InputColumns(t)) \cup Audited(t)

Manifest(sample) ==
    [bounds |-> [t \in { t \in TableSet : GuardColumn(t) # {} /\ sample[t] # {} } |->
                    Bounds(KeysOf(t, sample[t]))],
     transformed |-> [t \in TableSet |-> Transformations(t)]]

\* write_manifest creates its object and never replaces one.
ManifestExists == flags.taken

\* Violations refuse the load, --dry-run stops, and else the manifest is
\* written before the first insert.
Decide ==
    /\ phase = "decide"
    /\ \E sample \in [TableSet -> SUBSET (UNION { DOMAIN batchRows[t].rows : t \in TableSet })] :
         /\ \A t \in TableSet : sample[t] \in Samples(t)
         /\ IF flagged # {} THEN End("refused") /\ UNCHANGED record
            ELSE IF flags.dry_run THEN End("checked") /\ UNCHANGED record
            ELSE IF ManifestExists \/ \E t \in TableSet : ~Profilable(t, sample[t])
            THEN End("failed") /\ UNCHANGED record
            ELSE /\ phase' = "open"
                 /\ record' = Manifest(sample)
                 /\ UNCHANGED <<place, waiting, verdict>>
    /\ UNCHANGED <<inputs, stored, flagged, rivalled>>

\* load_table up to the insert: apply_pk_guard leaves out the rows whose key
\* Oracle has.
OpenTable ==
    /\ phase = "open"
    /\ \E sample \in Samples(Table) :
         waiting' = { i \in sample : \A c \in GuardColumn(Table), j \in DOMAIN stored[Table] :
                        c \in DOMAIN Row(Table, i) /\ c \in DOMAIN stored[Table][j]
                            => stored[Table][j][c] # Row(Table, i)[c] }
    /\ phase' = "insert"
    /\ UNCHANGED <<inputs, stored, place, flagged, record, verdict, rivalled>>

\* Rows are inserted in any order; one that Oracle does not take ends the load.
Insert ==
    /\ phase = "insert" /\ waiting # {}
    /\ \E i \in waiting :
         LET row == Inserted(Table, Row(Table, i))
         IN  IF Accepted(Table, row)
             THEN /\ stored' = [stored EXCEPT ![Table] = Append(@, row)]
                  /\ waiting' = waiting \ {i}
                  /\ UNCHANGED <<phase, place, verdict>>
             ELSE End("failed") /\ UNCHANGED stored
    /\ UNCHANGED <<inputs, flagged, record, rivalled>>

CloseTable ==
    /\ phase = "insert" /\ waiting = {}
    /\ IF place = Len(Inventory) THEN End("loaded")
       ELSE place' = place + 1 /\ phase' = "open" /\ UNCHANGED <<waiting, verdict>>
    /\ UNCHANGED <<inputs, stored, flagged, record, rivalled>>

\* Another session of the target inserts a row.
Rival ==
    /\ phase \notin {"resolve", "over"} /\ ~rivalled
    /\ \E r \in Rivals : stored' = [stored EXCEPT ![r[1]] = Append(@, r[2])]
    /\ rivalled' = TRUE
    /\ UNCHANGED <<inputs, phase, place, flagged, record, waiting, verdict>>

Over == phase = "over" /\ UNCHANGED vars

Next ==
    \/ Resolve \/ CheckTable \/ Decide \/ OpenTable \/ Insert \/ CloseTable
    \/ Rival \/ Over

Spec == Init /\ [][Next]_vars

-----------------------------------------------------------------------------
(* What validate_load does not look at, per table: empty strings, which are *)
(* NULL in Oracle; a column the loader itself sets to NULL; keys in part    *)
(* NULL, which it takes for free; parents that are not static and neither   *)
(* in Oracle nor in the input; and keys that change when they are rounded.  *)
Unseen(t) ==
    \E i \in DOMAIN batchRows[t].rows :
        LET raw == Row(t, i) row == Inserted(t, raw)
            bound == UNION UniqueKeys(t) \cup UNION { DOMAIN fk.columns : fk \in Specs[t].foreign }
        IN  \/ \E c \in DOMAIN raw \ DOMAIN row : c \in DOMAIN Known(t) /\ ~Known(t)[c].nullable
            \/ \E k \in UniqueKeys(t) :
                 k \cap DOMAIN row # {} /\ ~(k \subseteq DOMAIN row)
            \/ \E fk \in Specs[t].foreign :
                 /\ ~IsStatic(fk.parent) /\ Orphan(row, fk)
                 /\ \A p \in DOMAIN batchRows[fk.parent].rows :
                      ~References(row, fk, Inserted(fk.parent, Row(fk.parent, p)))
            \/ \E c \in DOMAIN raw \cap DOMAIN row \cap bound : raw[c] # row[c]

\* The guard goes by a key of the specs that the target does not have.
GuardUnkept(t) == GuardColumn(t) # {} /\ GuardColumn(t) \notin UniqueKeys(t)

Unchanging == ~rivalled /\ flags.limit = 0 /\ ~flags.skip_validation /\ ~flags.taken

(* The pre-flight is there for the load to "work first try": a load that    *)
(* passed it meets no row Oracle refuses, and no row the guard leaves out,  *)
(* unless others write to the target or the input has what it cannot see.   *)
PassedLoadsFirstTry ==
    Unchanging =>
        /\ verdict = "failed" => \E t \in TableSet : Unseen(t) \/ GuardUnkept(t)
        /\ (verdict = "loaded" /\ \A t \in TableSet : ~GuardUnkept(t)) =>
             \A t \in TableSet : \A i \in DOMAIN batchRows[t].rows :
                \E j \in DOMAIN stored[t] : stored[t][j] = Inserted(t, Row(t, i))

(* The manifest tells of the rows: a table it can roll back has its new    *)
(* rows within the manifest's bounds, also when Oracle has rounded their    *)
(* keys, and a column whose values Oracle and the input do not share is     *)
(* listed, unless Oracle made NULL of '' or rounded a number.                *)
ManifestTellsOfRows ==
    (verdict = "loaded" /\ flags.limit = 0) =>
        \A t \in TableSet : \A i \in DOMAIN batchRows[t].rows :
            LET raw == Row(t, i) row == Inserted(t, raw)
            IN  /\ t \in DOMAIN record.bounds => \A c \in GuardColumn(t) \cap DOMAIN row :
                     \E lo, hi \in record.bounds[t] : lo <= row[c] /\ row[c] <= hi
                /\ \A c \in DOMAIN raw \ DOMAIN row :
                     c \in record.transformed[t] \/ raw[c] = 0
                /\ \A c \in DOMAIN row \ record.transformed[t] :
                     c \in DOMAIN raw /\ raw[c] \in row[c] - 5 .. row[c] + 5
=============================================================================
