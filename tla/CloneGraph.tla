------------------------------ MODULE CloneGraph ------------------------------
(***************************************************************************)
(* The relational core of datagen/engorda_tables.py: which rows of the RAW  *)
(* extract belong to an instrument, which instruments the target database   *)
(* can take, and how their rows are cloned with fresh keys.                 *)
(*                                                                         *)
(* A row is a function from column names to values, a database a function   *)
(* from table names to sets of rows. The operators are pure; EngordaJob     *)
(* gives them a plan, a snapshot, a reservation and crashes.                *)
(*                                                                         *)
(* A table's share of a selection (its "lote") is kept as its members:      *)
(* pairs of a row and the root instrument it was reached from, which stand  *)
(* for the frame of rows and the frame of provenances of the code.          *)
(***************************************************************************)
EXTENDS Integers, FiniteSets, Sequences, FiniteSetsExt

CONSTANTS
    Null,             \* SQL NULL; it joins with nothing
    Schema,           \* table -> [pk, fks, required]: specs.json
    Products,         \* product -> [type, tables, seeds, histories, carriers,
                      \*   onePuCurve, selective, nullify, operations, cdb]:
                      \*   REGRAS_SCHEMA_CETIP and the tables beside it
    MaxPassadas,      \* max_passadas
    LastrosPorLote    \* LASTROS_POR_LOTE_PADRAO

ASSUME PassesAreBounded == MaxPassadas \in Nat

TABELA_RAIZ == "INSTRUMENTO_FINANCEIRO"

-----------------------------------------------------------------------------
(* Keys and joins.                                                          *)

Key(row, cols) == [i \in DOMAIN cols |-> row[cols[i]]]

\* Spark's equality: a tuple with a null component matches nothing.
Refers(row, fk, parentRow) ==
    \A i \in DOMAIN fk.cols :
        /\ row[fk.cols[i]] # Null
        /\ row[fk.cols[i]] = parentRow[fk.pcols[i]]

PkColumns(table) == Range(Schema[table].pk)

RowKey(table, row) == Key(row, Schema[table].pk)

RowsOf(members) == {m.row : m \in members}

-----------------------------------------------------------------------------
(* monta_plano: what is cloned, and by which rule its key is renewed.       *)

Cloned(product) == Products[product].tables

\* _fks_para_pais_clonados: the foreign keys that follow their parent.
FksToCloned(product, table) ==
    { fk \in Schema[table].fks :
        fk.parent \in Cloned(product) /\ fk.pcols = Schema[fk.parent].pk }

Principal(table, fk) == fk.cols = fk.pcols /\ fk.parent # table

\* TABELAS_SEMEADAS_LATERALMENTE
SeededByLot(product) ==
    Products[product].seeds \cup
    UNION {Products[product].histories[c] : c \in Products[product].seeds}

ColumnsOf(fks) == UNION {Range(fk.cols) : fk \in fks}

RuleOf(table, remaps) ==
    CASE PkColumns(table) \cap ColumnsOf(remaps) # {} -> "VIA_PAI"
      [] /\ PkColumns(table) \cap ColumnsOf(Schema[table].fks) = {}
         /\ Len(Schema[table].pk) = 1 -> "OFFSET_PROPRIO"
      [] OTHER -> "NONE"

\* The plan of every table: PlanoTabela.
Planos ==
    [ product \in DOMAIN Products |->
        [ t \in Cloned(product) |->
            [ remaps |-> FksToCloned(product, t), rule |-> RuleOf(t, FksToCloned(product, t)) ] ] ]

Remaps(product, table) == Planos[product][table].remaps

PkRule(product, table) == Planos[product][table].rule

\* Tables the plan refuses: no safe key rule, or no way back to the root.
Unplannable(product) ==
    { t \in Cloned(product) :
        \/ PkRule(product, t) = "NONE"
        \/ /\ t # TABELA_RAIZ
           /\ t \notin SeededByLot(product)
           /\ ~ \E fk \in Remaps(product, t) : Principal(t, fk) }

OwnKeyed(product) ==
    {t \in Cloned(product) : PkRule(product, t) = "OFFSET_PROPRIO"}

\* _read_pk_max over the whole table.
MaxKey(rows, column) ==
    LET keys == {r[column] : r \in rows} \cup {0}
    IN  CHOOSE k \in keys : \A other \in keys : other <= k

\* The first new key of a table: above RAW by the safety band, never below
\* the configured floor.
MinimumStart(raw, table, band, floor) ==
    LET top == MaxKey(raw[table], Schema[table].pk[1]) + band
    IN  (IF top > floor THEN top ELSE floor) + 1

\* _apply_oracle_pk_floors
LiveStart(oracle, table, start) ==
    LET live == MaxKey(oracle[table], Schema[table].pk[1]) + 1
    IN  IF oracle[table] # {} /\ live > start THEN live ELSE start

-----------------------------------------------------------------------------
(* ordem_topologica: parents before children, in layers; a cycle is broken  *)
(* at a table with the fewest pending parents.                              *)

\* The parents of every table of a product's plan.
Parents(planos) ==
    [t \in DOMAIN planos |-> {fk.parent : fk \in planos[t].remaps} \ {t}]

NextLayer(parents, done) ==
    LET left == DOMAIN parents \ done
        ready == {t \in left : parents[t] \subseteq done}
        pending(t) == Cardinality(parents[t] \ done)
    IN  IF ready # {}
        THEN ready
        ELSE {CHOOSE t \in left : \A u \in left : pending(t) <= pending(u)}

\* The tables of a layer, each once.
InSomeOrder(layer) == CHOOSE s \in Bijection(1 .. Cardinality(layer), layer) : TRUE

OneMoreLayer(parents, order) ==
    IF Range(order) = DOMAIN parents
    THEN order
    ELSE order \o InSomeOrder(NextLayer(parents, Range(order)))

\* As many layers as there are tables are enough.
OrderOf(parents) ==
    LET tables == Cardinality(DOMAIN parents)
        after[n \in 0 .. tables] ==
            IF n = 0 THEN << >> ELSE OneMoreLayer(parents, after[n - 1])
    IN  after[tables]

Orders == [product \in DOMAIN Products |-> OrderOf(Parents(Planos[product]))]

Order(product) == Orders[product]

Before(order, t, u) ==
    \E i, j \in DOMAIN order : order[i] = t /\ order[j] = u /\ i < j

-----------------------------------------------------------------------------
(* The closure of a set of instruments: _calcula_lotes_com_proveniencia.    *)

Excluded(row) == row["DAT_EXCLUSAO"] # Null

\* FECHO_COLUNA_EXCLUSAO_POR_TABELA and _filtra_ativos.
ActiveRows(raw, table) ==
    CASE table \in {"CONDICAO_IF", "RESGATE"} -> {r \in raw[table] : ~Excluded(r)}
      [] table = "CONDICAO_RESGATE" -> {r \in raw[table] : r["IND_EXCLUIDO"] # "S"}
      [] OTHER -> raw[table]

RootMembers(raw, roots) ==
    { [row |-> r, root |-> r["NUM_IF"]] :
        r \in {x \in raw[TABELA_RAIZ] : x["NUM_IF"] \in roots} }

\* The rows of a table that its parents' shares lead to, each with the root
\* its parent was reached from.
Reached(product, raw, table, shares) ==
    UNION { { [row |-> x[1], root |-> x[2].root] :
                x \in { y \in ActiveRows(raw, table) \X shares[fk.parent] :
                            Refers(y[1], fk, y[2].row) } } :
            fk \in { f \in Remaps(product, table) :
                        Principal(table, f) /\ f.parent \in DOMAIN shares } }

Reachable(product, table, shares) ==
    \E fk \in Remaps(product, table) : Principal(table, fk) /\ fk.parent \in DOMAIN shares

\* A table gets the share its parents lead to; seeded shares are left alone.
Visit(product, raw, t, shares) ==
    IF t = TABELA_RAIZ \/ t \in SeededByLot(product) \/ ~Reachable(product, t, shares)
    THEN shares
    ELSE [ u \in DOMAIN shares \cup {t} |->
             IF u = t THEN Reached(product, raw, t, shares) ELSE shares[u] ]

\* One pass over the tables, in their order.
Pass(product, raw, shares) ==
    LET order == Order(product)
        after[n \in 0 .. Len(order)] ==
            IF n = 0 THEN shares ELSE Visit(product, raw, order[n], after[n - 1])
    IN  after[Len(order)]

-----------------------------------------------------------------------------
(* _semente_lateral_por_lote: the credits behind an instrument hang from    *)
(* its lot (NUM_ID_LOTE), not from the instrument.                          *)

LotRows(rows, lot) == {r \in rows : r["NUM_ID_LOTE"] = lot}

\* A credit is a candidate when it is active and, where its history hangs
\* from it by a foreign key, has at least one history row.
SeedCandidates(product, raw, credit) ==
    { r \in raw[credit] :
        /\ ~Excluded(r)
        /\ \A h \in Cloned(product) :
              \A fk \in Remaps(product, h) :
                 fk.parent = credit => \E x \in raw[h] : Refers(x, fk, r) }

\* The first LastrosPorLote candidates of a lot, by primary key.
CappedSeed(product, raw, credit, lot) ==
    LET candidates == LotRows(SeedCandidates(product, raw, credit), lot)
        pk == Schema[credit].pk[1]
    IN  { r \in candidates :
            Cardinality({q \in candidates : q[pk] <= r[pk]}) <= LastrosPorLote }

CodeColumn(credit) == IF credit = "CREDITO_SCR" THEN "COD_CREDITO_SCR" ELSE "COD_CREDITO_DC"

SeedMembers(product, raw, credit, roots) ==
    UNION { { [row |-> r, root |-> m.row["NUM_IF"]] :
                r \in CappedSeed(product, raw, credit, m.row["NUM_ID_LOTE"]) } :
            m \in {x \in roots : x.row["NUM_ID_LOTE"] # Null} }

\* A history without a foreign key follows the code of the seeded credits.
HistoryMembers(raw, history, credit, seeded, roots) ==
    { [row |-> x[1], root |-> x[2].root] :
        x \in { y \in raw[history] \X roots :
                  /\ y[1]["NUM_ID_LOTE"] = y[2].row["NUM_ID_LOTE"]
                  /\ \E s \in seeded : s.row[CodeColumn(credit)] = y[1][CodeColumn(credit)] } }

SeedShares(product, raw, roots) ==
    [ t \in SeededByLot(product) |->
        IF t \in Products[product].seeds
        THEN SeedMembers(product, raw, t, roots)
        ELSE LET credit == CHOOSE c \in Products[product].seeds : t \in Products[product].histories[c]
             IN  HistoryMembers(raw, t, credit, SeedMembers(product, raw, credit, roots), roots) ]

\* No lot at all, or a seed without rows, aborts the job.
SeedsFound(product, raw, roots) ==
    \A credit \in Products[product].seeds : SeedMembers(product, raw, credit, roots) # {}

-----------------------------------------------------------------------------
(* The prunes that follow the closure.                                      *)

\* _poda_historico_pu_curva: the earliest dated history of each instrument.
OneCurve(shares) ==
    LET dated == {m \in shares["HISTORICO_PU_CURVA"] : m.row["DAT_HISTORICO_VALORES"] # Null}
        earlier(m, n) ==
            /\ m.row["NUM_IF"] = n.row["NUM_IF"]
            /\ \/ m.row["DAT_HISTORICO_VALORES"] < n.row["DAT_HISTORICO_VALORES"]
               \/ /\ m.row["DAT_HISTORICO_VALORES"] = n.row["DAT_HISTORICO_VALORES"]
                  /\ m.row["NUM_HISTORICO_PU_CURVA"] < n.row["NUM_HISTORICO_PU_CURVA"]
    IN  {n \in dated : ~ \E m \in dated : earlier(m, n)}

EveryRootHasCurve(shares) ==
    \A r \in shares[TABELA_RAIZ] :
        \E m \in shares["HISTORICO_PU_CURVA"] :
            m.row["NUM_IF"] = r.row["NUM_IF"] /\ m.row["DAT_HISTORICO_VALORES"] # Null

\* _poda_cronograma_sem_tabela: schedules hang from an active type-20
\* condition redeemed COM TABELA.
TabledSchedules(shares) ==
    { m \in shares["CONDICAO_RESGATE"] :
        \E c \in shares["CONDICAO_IF"], r \in shares["RESGATE"] :
            /\ c.row["NUM_CONDICAO_IF"] = m.row["NUM_CONDICAO_IF"]
            /\ r.row["NUM_CONDICAO_IF"] = m.row["NUM_CONDICAO_IF"]
            /\ c.row["COD_TIPO_CONDICAO_IF"] = 20
            /\ r.row["COD_COND_RESGATE"] = "COM TABELA" }

Pruned(product, shares) ==
    [ t \in DOMAIN shares |->
        CASE t = "HISTORICO_PU_CURVA" /\ Products[product].onePuCurve -> OneCurve(shares)
          [] t = "CONDICAO_RESGATE" -> TabledSchedules(shares)
          [] OTHER -> shares[t] ]

-----------------------------------------------------------------------------
(* The whole closure. The code repeats the pass until nothing changes and   *)
(* aborts when MaxPassadas passes were not enough.                          *)

PassAgain(product, raw, shares, times) ==
    LET after[n \in 0 .. times] ==
            IF n = 0 THEN shares ELSE Pass(product, raw, after[n - 1])
    IN  after[times]

Unpruned(product, raw, roots) ==
    LET members == RootMembers(raw, roots)
        start == [ t \in {TABELA_RAIZ} \cup SeededByLot(product) |->
                     IF t = TABELA_RAIZ THEN members
                                        ELSE SeedShares(product, raw, members)[t] ]
    IN  PassAgain(product, raw, start, MaxPassadas)

ClosureOK(product, raw, roots) ==
    LET shares == Unpruned(product, raw, roots)
    IN  /\ Cardinality(RootMembers(raw, roots)) = Cardinality(roots)
        /\ SeedsFound(product, raw, RootMembers(raw, roots))
        /\ DOMAIN shares = Cloned(product)
        /\ Pass(product, raw, shares) = shares
        /\ Products[product].onePuCurve => EveryRootHasCurve(shares)

Closure(product, raw, roots) == Pruned(product, Unpruned(product, raw, roots))

-----------------------------------------------------------------------------
(* _target_fk_rejections: a root is admitted when every foreign key its     *)
(* rows will carry resolves, in the clone of the same root or in Oracle.    *)

Emitted(product, table, row) ==
    { fk \in Schema[table].fks :
        /\ \A i \in DOMAIN fk.cols : row[fk.cols[i]] # Null
        /\ ~ \E c \in Range(fk.cols) \ Schema[table].required :
                <<table, c>> \in Products[product].nullify }

ResolvesInside(product, shares, order, table, fk, m) ==
    /\ fk \in Remaps(product, table)
    /\ fk.parent = table \/ Before(order, fk.parent, table)
    /\ \E p \in shares[fk.parent] : p.root = m.root /\ Refers(m.row, fk, p.row)

ResolvesLive(oracle, fk, row) == \E p \in oracle[fk.parent] : Refers(row, fk, p)

Selective(product, table, fk) ==
    \E c \in Range(fk.cols) : <<table, c>> \in Products[product].selective

\* Faulty variant: the parent may belong to any root of the page.
DanglingOnPage(product, shares, oracle, table, m) ==
    { fk \in Emitted(product, table, m.row) :
        /\ fk.parent \in DOMAIN shares => \A p \in shares[fk.parent] : ~Refers(m.row, fk, p.row)
        /\ ~ResolvesLive(oracle, fk, m.row) }

\* The foreign keys of a member that resolve nowhere.
Dangling(product, shares, oracle, table, m) ==
    { fk \in Emitted(product, table, m.row) :
        /\ ~ResolvesInside(product, shares, Order(product), table, fk, m)
        /\ ~ResolvesLive(oracle, fk, m.row) }

Rejected(product, shares, oracle) ==
    UNION { { m.root : m \in { x \in shares[t] :
                \E fk \in Dangling(product, shares, oracle, t, x) : ~Selective(product, t, fk) } } :
            t \in DOMAIN shares }

\* The missing keys of nullable columns, to be nulled in the clones.
MissingKeys(product, shares, oracle, admitted) ==
    UNION { UNION { { <<t, fk.cols[1], m.row[fk.cols[1]]>> :
                        fk \in { f \in Dangling(product, shares, oracle, t, m) :
                                   Selective(product, t, f) } } :
                    m \in {x \in shares[t] : x.root \in admitted} } :
            t \in DOMAIN shares }

\* seleciona_instrumentos_destino keeps the rows of the admitted roots.
Restricted(shares, admitted) ==
    [t \in DOMAIN shares |-> {m \in shares[t] : m.root \in admitted}]

\* _ajusta_fator_k_por_dominio: ceil(requested * K / obtained).
AdjustedK(k, requested, obtained) ==
    IF obtained >= requested THEN k ELSE (requested * k + obtained - 1) \div obtained

-----------------------------------------------------------------------------
(* clona_tabela: K copies of every row, with a map from old to new keys.    *)
(* A clone is [src, k, row]: the key it was made from, its copy, its row.   *)

Copies(rows, table, k) == {RowKey(table, r) : r \in rows} \X (1 .. k)

\* OFFSET_PROPRIO: the copies in (key, copy) order, start and step apart.
OffsetMap(table, rows, k, start, step) ==
    LET copies == Copies(rows, table, k)
        before(a, b) == a[1][1] < b[1][1] \/ (a[1][1] = b[1][1] /\ a[2] < b[2])
        rank(c) == Cardinality({d \in copies : before(d, c)})
    IN  [c \in copies |-> << start + rank(c) * step >>]

\* Faulty variant: a reference follows the first copy of its parent.
RemapTargetsFirst(fk, row, i, maps) ==
    IF fk.parent \in DOMAIN maps /\ <<Key(row, fk.cols), 1>> \in DOMAIN maps[fk.parent]
    THEN {maps[fk.parent][<<Key(row, fk.cols), 1>>]}
    ELSE {}

\* The new value a foreign key gives to one of its columns, for copy i of
\* a row: nothing when its parent is not in the lot.
RemapTargets(fk, row, i, maps) ==
    IF fk.parent \in DOMAIN maps /\ <<Key(row, fk.cols), i>> \in DOMAIN maps[fk.parent]
    THEN {maps[fk.parent][<<Key(row, fk.cols), i>>]}
    ELSE {}

\* A column under the foreign keys of a set: remapped when a parent is in
\* the lot, else unchanged.
Remapped(fks, row, i, column, maps) ==
    LET hits == {f \in fks : column \in Range(f.cols) /\ RemapTargets(f, row, i, maps) # {}}
        hit == CHOOSE f \in hits : TRUE
        new == CHOOSE key \in RemapTargets(hit, row, i, maps) : TRUE
    IN  IF hits = {}
        THEN row[column]
        ELSE new[CHOOSE n \in DOMAIN hit.cols : hit.cols[n] = column]

\* VIA_PAI: the key follows the parents.
FollowMap(product, table, rows, k, maps) ==
    [ c \in Copies(rows, table, k) |->
        LET row == CHOOSE r \in rows : RowKey(table, r) = c[1]
            pk == Schema[table].pk
        IN  [ n \in DOMAIN pk |-> Remapped(Remaps(product, table), row, c[2], pk[n], maps) ] ]

KeyMap(product, table, rows, k, start, step, maps) ==
    IF PkRule(product, table) = "OFFSET_PROPRIO"
    THEN OffsetMap(table, rows, k, start, step)
    ELSE FollowMap(product, table, rows, k, maps)

ClonedRow(product, table, row, i, own, maps) ==
    LET pk == Schema[table].pk
        all == [t \in DOMAIN maps \cup {table} |-> IF t = table THEN own ELSE maps[t]]
    IN  [ c \in DOMAIN row |->
            IF c \in Range(pk)
            THEN own[<<RowKey(table, row), i>>][CHOOSE n \in DOMAIN pk : pk[n] = c]
            ELSE Remapped(Remaps(product, table), row, i, c, all) ]

\* aplica_nulificacao_faltantes and aplica_nulificacao, after the remap.
Nullified(product, table, row, missing) ==
    [ c \in DOMAIN row |->
        IF \/ <<table, c>> \in Products[product].nullify /\ c \notin Schema[table].required
           \/ <<table, c>> \in Products[product].selective /\ <<table, c, row[c]>> \in missing
        THEN Null
        ELSE row[c] ]

CloneTable(product, table, rows, k, own, maps, missing) ==
    { [ src |-> RowKey(table, x[1]), k |-> x[2],
        row |-> Nullified(product, table, ClonedRow(product, table, x[1], x[2], own, maps), missing) ] :
      x \in rows \X (1 .. k) }

\* The key maps and the clones of the tables so far, and of one more.
NothingMade == [maps |-> << >>, clones |-> << >>]

WithTable(product, t, lotes, k, starts, steps, missing, made) ==
    LET own == KeyMap(product, t, lotes[t], k, starts[t], steps[t], made.maps)
    IN  [ maps   |-> [ u \in DOMAIN made.maps \cup {t} |-> IF u = t THEN own ELSE made.maps[u] ],
          clones |-> [ u \in DOMAIN made.clones \cup {t} |->
                         IF u = t
                         THEN CloneTable(product, t, lotes[t], k, own, made.maps, missing)
                         ELSE made.clones[u] ] ]

\* The clone loop of executa_clonagem: tables in order, each with the maps
\* of those before it. starts and steps are the plan's, missing the keys to
\* null.
CloneAll(product, lotes, k, starts, steps, missing) ==
    LET order == Order(product)
        made[n \in 0 .. Len(order)] ==
            IF n = 0
            THEN NothingMade
            ELSE WithTable(product, order[n], lotes, k, starts, steps, missing, made[n - 1])
    IN  made[Len(order)]

\* valida_tabela: fresh, distinct keys and no null where one is required.
TableErrors(product, table, clones, start) ==
    \/ \E a, b \in clones : a # b /\ RowKey(table, a.row) = RowKey(table, b.row)
    \/ /\ PkRule(product, table) = "OFFSET_PROPRIO"
       /\ \E a \in clones : a.row[Schema[table].pk[1]] < start
    \/ \E a \in clones : \E c \in Schema[table].required : a.row[c] = Null
=============================================================================
