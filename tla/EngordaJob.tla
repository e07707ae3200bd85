------------------------------ MODULE EngordaJob -----------------------------
(***************************************************************************)
(* Jobs of datagen/engorda_tables.py against one RAW extract, one Oracle    *)
(* environment and one reservation ledger. A job plans (selects and admits  *)
(* instruments, freezes their rows in a snapshot), has key ranges reserved, *)
(* materializes the clones in them, publishes and is loaded. Meanwhile RAW  *)
(* may be extracted again, others may insert into Oracle, and a job may die *)
(* and be materialized again from its plan and its reservation.             *)
(*                                                                         *)
(* Reservation (how the ledger survives concurrent calls), StagingPromotion *)
(* (how a directory is replaced), TableLoad (how tables are loaded) are     *)
(* modules of their own; here each is one step.                             *)
(***************************************************************************)
EXTENDS BusinessKeys, PersistedLedger

CONSTANTS
    Jobs,
    JobOf,       \* job -> [product, roots (Absent: sampled), n, k, adjust, schema, date,
                 \*         requested]
    Beginnings,  \* the initial [jobs, raw, oracle]: jobs that run together, and on what
    Rereads,     \* what a later extraction may replace RAW by
    Inserts,     \* rows [table, row] that others insert into Oracle
    Step,        \* pk_passo
    SafetyBand,  \* pk_safety_band
    PkOffset,    \* pk_offset
    CodePrefix,  \* _cdb_code_prefix of the operational month
    MaxEvents

VARIABLES
    raw, oracle, ledger,
    phase,       \* new, planned, reserved, cloned, published, loaded, failed
    plan,        \* the plan artifact with its snapshot, or Absent
    reservation, \* the reservation artifact, or Absent
    clones,      \* the clones under way or published, or Absent
    seen,        \* Oracle as the job read it when it began to clone
    allocated,   \* codes Oracle's package has handed out
    events       \* crashes, extractions and inserts so far

vars == <<raw, oracle, ledger, phase, plan, reservation, clones, seen, allocated, events>>

Product(j) == JobOf[j].product

-----------------------------------------------------------------------------
(* What the code and its metadata guarantee of the constants.               *)

\* Columns that publication or the recoding of credits rewrites.
Generated ==
    { "COD_IF", "COD_OPERACAO", "DAT_OPERACAO", "COD_CREDITO_SCR", "COD_CREDITO_DC",
      "NUM_CONTROLE_LANCAMENTO_P1", "NUM_CONTROLE_LANCAMENTO_P2" }

\* The columns of the operations and roots that publication reads or writes by
\* name, beside the keys and references of every table.
Columns(t) ==
    PkColumns(t) \cup ColumnsOf(Schema[t].fks)
    \cup IF t = OPERACAO_TABELA
         THEN { "COD_IF", "COD_OPERACAO", "DAT_OPERACAO",
                "NUM_CONTA_PARTICIPANTE_P1", "NUM_CONTA_PARTICIPANTE_P2",
                "NUM_ID_TIPO_OPER_OBJETO_SERV",
                "NUM_CONTROLE_LANCAMENTO_P1", "NUM_CONTROLE_LANCAMENTO_P2" }
         ELSE IF t = TABELA_RAIZ THEN {"COD_IF"} ELSE {}

\* Columns in the order of a key or a reference, none twice.
ColumnList(cols) == cols \in Seq(STRING) /\ \A i, j \in DOMAIN cols : cols[i] = cols[j] => i = j

\* What monta_plano and specs.json make true of a table of a product: its key
\* is required; what is nulled for a missing parent is a reference and not
\* required; keys and references are disjoint from the generated columns; no
\* column belongs to two references, a reference of the table to itself is no
\* part of its key, and other cloned parents come before it.
TableIsPlannable(product, t) ==
    /\ ColumnList(Schema[t].pk)
    /\ PkColumns(t) \subseteq Schema[t].required
    /\ \A x \in Products[product].selective :
          x[1] = t => x[2] \in ColumnsOf(Schema[t].fks) \ Schema[t].required
    /\ (PkColumns(t) \cup ColumnsOf(Schema[t].fks)) \cap Generated = {}
    /\ \A fk \in Schema[t].fks :
          /\ ColumnList(fk.cols)
          /\ DOMAIN fk.cols # {} /\ DOMAIN fk.cols = DOMAIN fk.pcols
          /\ fk.parent = t => Range(fk.cols) \cap PkColumns(t) = {}
          /\ Selective(product, t, fk) => Len(fk.cols) = 1
          /\ \A other \in Schema[t].fks :
                other # fk => Range(other.cols) \cap Range(fk.cols) = {}
    /\ \A fk \in Remaps(product, t) :
          fk.parent = t \/ Before(Order(product), fk.parent, t)

ASSUME ProductsArePlannable ==
    \A product \in DOMAIN Products :
        /\ IsFiniteSet(Cloned(product))
        /\ TABELA_RAIZ \in OwnKeyed(product) /\ Schema[TABELA_RAIZ].pk = <<"NUM_IF">>
        /\ Products[product].operations =>
              /\ OPERACAO_TABELA \in OwnKeyed(product)
              /\ Schema[OPERACAO_TABELA].pk = <<"NUM_ID_OPERACAO">>
        /\ OwnKeyed(product) \subseteq Tables
        /\ \A t \in Cloned(product) : TableIsPlannable(product, t)

\* A table with its columns, a primary key that is unique and not null, and
\* numbers for the keys that are renewed by counting.
TableIsKeyed(product, t, rows) ==
    /\ IsFiniteSet(rows)
    /\ \A r \in rows : Columns(t) \subseteq DOMAIN r
    /\ \A r \in rows : \A c \in PkColumns(t) : r[c] # Null
    /\ \A r, s \in rows : RowKey(t, r) = RowKey(t, s) => r = s
    /\ t \in OwnKeyed(product) => \A r \in rows : r[Schema[t].pk[1]] \in Int

ASSUME RawIsKeyed ==
    \A extract \in {b.raw : b \in Beginnings} \cup Rereads :
        \A product \in DOMAIN Products : \A t \in Cloned(product) :
            TableIsKeyed(product, t, extract[t])

\* Oracle's package hands out the codes with its prefix; others hold those it
\* handed out before, numbered up to 0. Codes of the month have a suffix.
PackagePrefix == "IF21"

RowIsForeign(product, t, r) ==
    /\ t \in OwnKeyed(product) => r[Schema[t].pk[1]] \in Int
    /\ t = TABELA_RAIZ =>
          /\ r["COD_IF"][1] = PackagePrefix => r["COD_IF"][2] \in Int /\ r["COD_IF"][2] <= 0
          /\ r["COD_IF"][1] = CodePrefix => r["COD_IF"][2] \in Nat

ASSUME OracleIsKeyed ==
    \A product \in DOMAIN Products : \A t \in Cloned(product) :
        /\ \A b \in Beginnings :
              /\ t \in DOMAIN b.oracle
              /\ IsFiniteSet(b.oracle[t])
              /\ \A r \in b.oracle[t] : RowIsForeign(product, t, r)
              /\ \A fk \in Schema[t].fks : fk.parent \in DOMAIN b.oracle
        /\ \A i \in Inserts : i.table = t => RowIsForeign(product, t, i.row)

ASSUME JobsArePossible ==
    /\ CodePrefix # PackagePrefix
    /\ \A j \in Jobs : /\ Product(j) \in DOMAIN Products
                       /\ JobOf[j].k \in Nat \ {0}
                       /\ JobOf[j].n \in Nat

\* None is neither a range nor a request for one.
ASSUME AbsentIsNoRange ==
    /\ Absent \notin [start : Int, end : Int, step : Nat \ {0}]
    /\ Absent \notin [ schema : {2, 3}, date : Dates, groups : SUBSET Groups,
                       prefix : Prefixes, start : Int, end : Int ]
    /\ Absent \notin [prefix : CdbPrefixes, count : Nat, start : Int, end : Int]
    /\ Absent \notin [prefix : CdbPrefixes \cup {CodePrefix}, count : Nat, minimum : Int]

-----------------------------------------------------------------------------
(* Planning.                                                                *)

\* The product's SQL selects roots by their type.
Domain(j) ==
    {r["NUM_IF"] : r \in {x \in raw[TABELA_RAIZ] : x["NUM_TIPO_IF"] = Products[Product(j)].type}}

Page(j) == IF JobOf[j].roots = Absent THEN Domain(j) ELSE JobOf[j].roots

Admitted(j, shares) == Page(j) \ Rejected(Product(j), shares, oracle)

\* An explicit list is taken whole or not at all. A sample takes the first n
\* admitted in the order of a hash; a smaller domain is made up for by K.
Selections(j, admitted) ==
    IF JobOf[j].roots # Absent
    THEN {admitted} \cap {JobOf[j].roots}
    ELSE IF Cardinality(admitted) >= JobOf[j].n
         THEN kSubset(JobOf[j].n, admitted)
         ELSE {admitted} \cap {a \in {admitted} : JobOf[j].adjust /\ a # {}}

FactorFor(j, chosen) ==
    IF JobOf[j].roots = Absent /\ JobOf[j].adjust
    THEN AdjustedK(JobOf[j].k, JobOf[j].n, Cardinality(chosen))
    ELSE JobOf[j].k

\* The first key of every own-keyed table, above RAW and above Oracle.
Starts(j) ==
    [ t \in OwnKeyed(Product(j)) |->
        LiveStart(oracle, t, MinimumStart(raw, t, SafetyBand, PkOffset)) ]

PkDemand(j, lotes, k) ==
    [ t \in Tables |->
        IF t \in OwnKeyed(Product(j))
        THEN [count |-> Cardinality(lotes[t]) * k, step |-> Step, minimum |-> Starts(j)[t]]
        ELSE [count |-> 0, step |-> 1, minimum |-> 0] ]

\* The CDB codes of an environment, as suffixes of the month's prefix.
LiveSuffixes(database) ==
    {r["COD_IF"][2] : r \in {x \in database[TABELA_RAIZ] : x["COD_IF"][1] = CodePrefix}}

CdbDemand(lotes, k) ==
    [ prefix |-> CodePrefix, count |-> Cardinality(lotes[TABELA_RAIZ]) * k,
      minimum |-> Max({CdbMin} \cup {s + 1 : s \in LiveSuffixes(oracle)}) ]

Operations(lotes) ==
    IF OPERACAO_TABELA \in DOMAIN lotes THEN lotes[OPERACAO_TABELA] ELSE {}

\* _build_engorda_plan
Request(j, lotes, k) ==
    LET product == Products[Product(j)]
        operations == IF product.operations THEN Operations(lotes) ELSE {}
    IN  [ schema    |-> JobOf[j].schema,
          pk        |-> PkDemand(j, lotes, k),
          date      |-> JobOf[j].date,
          groups    |-> IF JobOf[j].schema = 3 THEN MeuGroups(operations) ELSE {},
          ordinals  |-> IF JobOf[j].schema = 3 THEN GroupedDemand(operations, k)
                                               ELSE LegacyDemand(operations, k),
          requested |-> JobOf[j].requested,
          cdb       |-> IF product.cdb THEN CdbDemand(lotes, k) ELSE Absent ]

\* What aborts a plan once the instruments are chosen.
Plannable(j, lotes, request) ==
    /\ Cardinality({r["NUM_TIPO_IF"] : r \in lotes[TABELA_RAIZ]}) = 1
    /\ CreditCodesFound(Product(j), lotes)
    /\ Products[Product(j)].operations => MeuGroupsOK(Operations(lotes))
    /\ ValidPlan(request)

Fail(j) ==
    /\ phase' = [phase EXCEPT ![j] = "failed"]
    /\ UNCHANGED <<raw, oracle, ledger, plan, reservation, clones, seen, allocated, events>>

\* The snapshot is written after the credits have got their new codes.
Freeze(j, shares, chosen) ==
    LET product == Product(j)
        kept == Restricted(shares, chosen)
        lotes == [t \in DOMAIN kept |-> RowsOf(kept[t])]
        k == FactorFor(j, chosen)
        request == Request(j, lotes, k)
    IN  IF Plannable(j, lotes, request)
        THEN /\ plan' = [plan EXCEPT ![j] =
                   [ request |-> request, k |-> k,
                     lotes   |-> WithCreditCodes(product, lotes, Starts(j)),
                     missing |-> MissingKeys(product, shares, oracle, chosen) ]]
             /\ phase' = [phase EXCEPT ![j] = "planned"]
             /\ UNCHANGED <<raw, oracle, ledger, reservation, clones, seen, allocated, events>>
        ELSE Fail(j)

Plan(j) ==
    /\ phase[j] = "new"
    /\ IF /\ Unplannable(Product(j)) = {}
          /\ Page(j) \subseteq Domain(j)
          /\ ClosureOK(Product(j), raw, Page(j))
       THEN LET shares == Closure(Product(j), raw, Page(j))
                selections == Selections(j, Admitted(j, shares))
            IN  \/ selections = {} /\ Fail(j)
                \/ \E chosen \in selections : Freeze(j, shares, chosen)
       ELSE Fail(j)

-----------------------------------------------------------------------------
(* Reserving: one call of reserve_ranges.                                   *)

Reserve(j) ==
    /\ phase[j] = "planned"
    /\ IF Artifacts(ledger, plan[j].request) = {}
       THEN Fail(j)
       ELSE \E artifact \in Artifacts(ledger, plan[j].request) :
              /\ ledger' = LedgerAfter(ledger, artifact)
              /\ reservation' = [reservation EXCEPT ![j] = artifact]
              /\ phase' = [phase EXCEPT ![j] = "reserved"]
              /\ UNCHANGED <<raw, oracle, plan, clones, seen, allocated, events>>

-----------------------------------------------------------------------------
(* Materializing: everything comes from the plan, its snapshot and the      *)
(* reservation; of Oracle only the floors are read again.                   *)

LiveStarts(j) ==
    [t \in OwnKeyed(Product(j)) |-> LiveStart(oracle, t, plan[j].request.pk[t].minimum)]

Reserved(j) == {t \in OwnKeyed(Product(j)) : reservation[j].pk[t] # Absent}

\* Faulty variant: the floors of the plan are enough.
AbovePlannedFloors(j) ==
    \A t \in Reserved(j) : reservation[j].pk[t].start >= plan[j].request.pk[t].minimum

\* _validate_reservation_live_pk_floors
AboveLiveFloors(j) == \A t \in Reserved(j) : reservation[j].pk[t].start >= LiveStarts(j)[t]

\* Faulty variant: the reserved starts are not injected.
PlannedStarts(j) ==
    [t \in Cloned(Product(j)) |-> IF t \in OwnKeyed(Product(j)) THEN LiveStarts(j)[t] ELSE 0]

\* _inject_reserved_pk_starts
ReservedStarts(j) ==
    [ t \in Cloned(Product(j)) |->
        CASE t \in Reserved(j) -> reservation[j].pk[t].start
          [] t \in OwnKeyed(Product(j)) \ Reserved(j) -> LiveStarts(j)[t]
          [] OTHER -> 0 ]

\* Faulty variant: the closure is computed again from RAW.
LotesFromRaw(j) ==
    LET roots == {r["NUM_IF"] : r \in plan[j].lotes[TABELA_RAIZ]}
        shares == Closure(Product(j), raw, roots)
    IN  WithCreditCodes(Product(j), [t \in DOMAIN shares |-> RowsOf(shares[t])], LiveStarts(j))

FrozenLotes(j) == WithCreditCodes(Product(j), plan[j].lotes, LiveStarts(j))

Made(j) ==
    CloneAll(Product(j), FrozenLotes(j), plan[j].k, ReservedStarts(j),
             [t \in Cloned(Product(j)) |-> Step], plan[j].missing).clones

\* Nothing is written when a table is wrong, or when operations would keep
\* the business keys of their source.
Writable(j, made, starts) ==
    /\ \A t \in DOMAIN made : ~TableErrors(Product(j), t, made[t], starts[t])
    /\ Products[Product(j)].operations \/ Operations(plan[j].lotes) = {}

Clone(j) ==
    LET made == Made(j)
    IN  /\ phase[j] = "reserved"
        /\ IF AboveLiveFloors(j) /\ Writable(j, made, ReservedStarts(j))
           THEN /\ clones' = [clones EXCEPT ![j] = made]
                /\ seen' = [seen EXCEPT ![j] = oracle]
                /\ phase' = [phase EXCEPT ![j] = "cloned"]
                /\ UNCHANGED <<raw, oracle, ledger, plan, reservation, allocated, events>>
           ELSE Fail(j)

RowsMade(j, t) == {c.row : c \in clones[j][t]}

\* The clones of a table with other rows, matched by their keys.
WithRows(j, t, rows) ==
    { [c EXCEPT !.row = CHOOSE r \in rows : RowKey(t, r) = RowKey(t, c.row)] :
      c \in clones[j][t] }

\* Codes of the reservation for CDBs, of Oracle's package for the others.
CodedRoots(j) ==
    LET roots == RowsMade(j, TABELA_RAIZ)
    IN  IF Products[Product(j)].cdb
        THEN Coded(roots, "NUM_IF", "COD_IF", CodePrefix, reservation[j].cdb.start)
        ELSE Coded(roots, "NUM_IF", "COD_IF", PackagePrefix, allocated + 1)

CodesTaken(j) ==
    IF Products[Product(j)].cdb THEN 0 ELSE Cardinality(clones[j][TABELA_RAIZ])

CodedOperations(j, roots) ==
    LET operations == { c.row : c \in clones[j][OPERACAO_TABELA] }
        own == Coded(Propagated(roots, operations), "NUM_ID_OPERACAO", "COD_OPERACAO", "OPER",
                     allocated + CodesTaken(j) + 1)
    IN  IF reservation[j].meu = Absent THEN own ELSE Numbered(own, reservation[j].meu)

\* _validate_cdb_code_range and _assert_cdb_range_available
CdbRangeFree(j) ==
    Products[Product(j)].cdb =>
        LET codes == reservation[j].cdb.start .. reservation[j].cdb.end
        IN  Cardinality(codes) = Cardinality(clones[j][TABELA_RAIZ]) /\ LiveSuffixes(oracle) \cap codes = {}

\* _assert_no_meu_collisions
NoMeuCollision(operations) ==
    MeuTuples(operations) \cap MeuTuples(oracle[OPERACAO_TABELA]) = {}

\* _prepare_outputs, and the promotion of what it wrote.
Publish(j) ==
    LET roots == CodedRoots(j)
        operations == IF Products[Product(j)].operations THEN CodedOperations(j, roots) ELSE {}
    IN  /\ phase[j] = "cloned"
        /\ IF /\ CdbRangeFree(j)
              /\ Products[Product(j)].operations =>
                    Propagates(roots, RowsMade(j, OPERACAO_TABELA))
              /\ BusinessKeysOK(roots, operations, operations # {})
              /\ reservation[j].meu # Absent =>
                    /\ IntervalFits(operations, plan[j].request, reservation[j].meu)
                    /\ NoMeuCollision(operations)
           THEN /\ clones' = [clones EXCEPT ![j] =
                      [ t \in DOMAIN clones[j] |->
                          CASE t = TABELA_RAIZ -> WithRows(j, t, roots)
                            [] t = OPERACAO_TABELA -> WithRows(j, t, operations)
                            [] OTHER -> clones[j][t] ]]
                /\ allocated' = allocated + CodesTaken(j) + Cardinality(operations)
                /\ phase' = [phase EXCEPT ![j] = "published"]
                /\ UNCHANGED <<raw, oracle, ledger, plan, reservation, seen, events>>
           ELSE Fail(j)

-----------------------------------------------------------------------------
(* The load, and what happens around a job.                                 *)

KeysIn(database, t) == {RowKey(t, r) : r \in database[t]}

Load(j) ==
    /\ phase[j] = "published"
    /\ IF \A t \in DOMAIN clones[j] :
              {RowKey(t, r) : r \in RowsMade(j, t)} \cap KeysIn(oracle, t) = {}
       THEN /\ oracle' = [ t \in DOMAIN oracle |->
                  IF t \in DOMAIN clones[j] THEN oracle[t] \cup RowsMade(j, t) ELSE oracle[t] ]
            /\ phase' = [phase EXCEPT ![j] = "loaded"]
            /\ UNCHANGED <<raw, ledger, plan, reservation, clones, seen, allocated, events>>
       ELSE Fail(j)

\* The run dies, or an OCI call fails, before the output is in place; the
\* node is retried from its plan and reservation.
Crash(j) ==
    /\ events < MaxEvents
    /\ phase[j] = "cloned"
    /\ phase' = [phase EXCEPT ![j] = "reserved"]
    /\ clones' = [clones EXCEPT ![j] = Absent]
    /\ events' = events + 1
    /\ UNCHANGED <<raw, oracle, ledger, plan, reservation, seen, allocated>>

\* Bound: an event happens while a plan waits to be materialized.
Eventful ==
    /\ events < MaxEvents
    /\ \E j \in Jobs : phase[j] \in {"planned", "reserved", "cloned"}

Reread ==
    /\ Eventful
    /\ events' = events + 1
    /\ \E other \in Rereads : raw # other /\ raw' = other
    /\ UNCHANGED <<oracle, ledger, phase, plan, reservation, clones, seen, allocated>>

Insert ==
    /\ Eventful
    /\ events' = events + 1
    /\ \E i \in Inserts :
          /\ RowKey(i.table, i.row) \notin KeysIn(oracle, i.table)
          /\ oracle' = [oracle EXCEPT ![i.table] = @ \cup {i.row}]
    /\ UNCHANGED <<raw, ledger, phase, plan, reservation, clones, seen, allocated>>

Finished ==
    /\ \A j \in Jobs : phase[j] \in {"loaded", "failed"}
    /\ UNCHANGED vars

Init ==
    /\ \E b \in Beginnings :
          /\ raw = b.raw
          /\ oracle = b.oracle
          /\ phase = [j \in Jobs |-> IF j \in b.jobs THEN "new" ELSE "failed"]
    /\ ledger \in InitialLedgers
    /\ plan = [j \in Jobs |-> Absent]
    /\ reservation = [j \in Jobs |-> Absent]
    /\ clones = [j \in Jobs |-> Absent]
    /\ seen = [j \in Jobs |-> Absent]
    /\ allocated = 0
    /\ events = 0

Next ==
    \/ \E j \in Jobs : \/ Plan(j) \/ Reserve(j) \/ Clone(j)
                       \/ Publish(j) \/ Load(j) \/ Crash(j)
    \/ Reread
    \/ Insert
    \/ Finished

Spec == Init /\ [][Next]_vars

-----------------------------------------------------------------------------
(* Properties.                                                              *)

\* Columns of a row that no rule of a product rewrites in its clones.
Content(product, t, row) ==
    DOMAIN row
        \ ( PkColumns(t) \cup ColumnsOf(Schema[t].fks) \cup Generated
             \cup {x[2] : x \in { y \in Products[product].nullify : y[1] = t }} )

HasOutput == {j \in Jobs : phase[j] \in {"published", "loaded"}}

OutputOf(t) == {j \in HasOutput : t \in DOMAIN clones[j]}

RowMade(j, t, src, k) ==
    (CHOOSE c \in clones[j][t] : c.src = src /\ c.k = k).row

\* A clone belongs to the family of its copy: where its source refers to a
\* row of the snapshot, the clone refers to the clone of that row made for
\* the same copy, and to what its source refers to everywhere else (the
\* remapping of clona_tabela, over the snapshot and the topological order).
FamiliesStayTogether ==
    \A j \in HasOutput : \A t \in DOMAIN clones[j] : \A c \in clones[j][t] :
        \A fk \in Emitted(Product(j), t, c.row) :
            LET source == CHOOSE r \in plan[j].lotes[t] : RowKey(t, r) = c.src
                parents == IF fk \in Remaps(Product(j), t)
                           THEN {p \in plan[j].lotes[fk.parent] : Refers(source, fk, p)}
                           ELSE {}
            IN  IF parents = {}
                THEN Key(c.row, fk.cols) = Key(source, fk.cols)
                ELSE \A p \in parents :
                        Refers(c.row, fk, RowMade(j, fk.parent, RowKey(fk.parent, p), c.k))

\* Every foreign key an output carries resolves in the output itself or in
\* Oracle: what the admission of roots by _target_fk_rejections is for, given
\* that Oracle may since have gained rows.
ReferencesResolve ==
    \A j \in HasOutput : \A t \in DOMAIN clones[j] : \A r \in RowsMade(j, t) :
        \A fk \in Emitted(Product(j), t, r) :
            \/ \E p \in oracle[fk.parent] : Refers(r, fk, p)
            \/ /\ fk.parent \in DOMAIN clones[j]
               /\ \E p \in RowsMade(j, fk.parent) : Refers(r, fk, p)

\* The keys and codes an output uses are those its reservation holds, no
\* more and no fewer keys: the ledger, the plan's counts and the clones agree.
OutputWithinReservation ==
    \A j \in HasOutput :
        /\ \A t \in Reserved(j) :
              {r[Schema[t].pk[1]] : r \in RowsMade(j, t)} = PkSlots(reservation[j].pk[t])
        /\ reservation[j].cdb # Absent =>
              {r["COD_IF"][2] : r \in RowsMade(j, TABELA_RAIZ)}
                  = reservation[j].cdb.start .. reservation[j].cdb.end
        /\ reservation[j].meu # Absent =>
              \A s \in Sides(RowsMade(j, OPERACAO_TABELA)) :
                  MeuTuple(s)[3][2] \in reservation[j].meu.start .. reservation[j].meu.end

\* No two outputs share a key, an instrument code or a control number of one
\* account, operation type and date, and none shares one with the rows Oracle
\* held when the output was materialized, however the jobs interleave.
NothingCollides ==
    /\ \A t \in Tables : \A i, j \in OutputOf(t) : t \in OwnKeyed(Product(i)) \cap OwnKeyed(Product(j)) =>
          LET keys(job) == {RowKey(t, r) : r \in RowsMade(job, t)}
          IN  /\ i # j => keys(i) \cap keys(j) = {}
              /\ keys(i) \cap KeysIn(seen[i], t) = {}
    /\ \A i, j \in OutputOf(TABELA_RAIZ) :
          LET codes(rows) == {r["COD_IF"] : r \in rows}
          IN  /\ i # j => codes(RowsMade(i, TABELA_RAIZ)) \cap codes(RowsMade(j, TABELA_RAIZ)) = {}
              /\ codes(RowsMade(i, TABELA_RAIZ)) \cap codes(seen[i][TABELA_RAIZ]) = {}
    /\ \A i, j \in OutputOf(OPERACAO_TABELA) :
          /\ i # j => MeuTuples(RowsMade(i, OPERACAO_TABELA))
                          \cap MeuTuples(RowsMade(j, OPERACAO_TABELA)) = {}
          /\ MeuTuples(RowsMade(i, OPERACAO_TABELA))
                \cap MeuTuples(seen[i][OPERACAO_TABELA]) = {}

\* An output holds K clones of each row that was selected when the job was
\* planned, of their content then, although RAW may have been extracted again
\* (the snapshot of _create_selected_lote_snapshot).
OutputFollowsPlan ==
    \A j \in HasOutput : \A t \in DOMAIN clones[j] :
        /\ {<<c.src, c.k>> : c \in clones[j][t]} = Copies(plan[j].lotes[t], t, plan[j].k)
        /\ Cardinality(clones[j][t]) = Cardinality(plan[j].lotes[t]) * plan[j].k
        /\ \A c \in clones[j][t] : \E r \in plan[j].lotes[t] :
              /\ RowKey(t, r) = c.src
              /\ DOMAIN c.row = DOMAIN r
              /\ \A col \in Content(Product(j), t, r) : c.row[col] = r[col]

\* The codes of the credits behind LCIs and LCAs are unique in the target, as
\* the comments on COD_CREDITO_POR_TABELA promise for every run.
CreditCodesAreUnique ==
    \A t \in {"CREDITO_SCR", "CREDITO_DC"} \cap DOMAIN oracle :
        \A a, b \in oracle[t] : a # b => a[CodeColumn(t)] # b[CodeColumn(t)]
=============================================================================
