---------------------------- MODULE ProductSamples ----------------------------
(***************************************************************************)
(* The sources, experiments and calls of ProductPipeline that TLC checks:   *)
(* for each product an instrument that qualifies, and those that differ     *)
(* from it in the rows that one rule looks at, one area at a time; each     *)
(* alone and beside one of a few others.                                    *)
(***************************************************************************)
EXTENDS ProductDomain, Sequences

-----------------------------------------------------------------------------
(* Rows.                                                                    *)

Schedule(id, date, percent) == [id |-> id, date |-> date, percent |-> percent, excluded |-> FALSE]

Condition(id, type, tables, mode) ==
    [id |-> id, type |-> type, excluded |-> FALSE, start |-> 3, end |-> 8, tables |-> tables,
     gone |-> {}, mode |-> mode, redemption |-> 8, schedules |-> {}]

Schedules == {Schedule(1, 4, 50), Schedule(2, 6, 90)}

Redemption(mode) ==
    [Condition(1, "20", {"RESGATE"}, mode)
        EXCEPT !.schedules = IF mode = "COM TABELA" THEN Schedules ELSE {}]

Interest == Condition(2, "2", {"JUROS_FIXO"}, Null)

Segment(id, start) ==
    [Condition(id, "3", {"JUROS_FLUTUANTE"}, Null) EXCEPT !.start = start]

Operation(id, route, dados) ==
    [id |-> id, route |-> route, settled |-> TRUE, p1 |-> "eligible", p2 |-> "eligible",
     dados |-> dados, booked |-> TRUE]

ModeOf(product) == IF product \in WithRedemption THEN "COM TABELA" ELSE "SEM TABELA"

Good(product) ==
    [type |-> IF product \in Cdb THEN 49 ELSE 50,
     emission |-> 3, maturity |-> 8,
     escalation |-> IF product = "cdb_escalonamento" THEN "EMISSAO" ELSE Null,
     redeemed |-> 0, title |-> "eligible", deposit |-> "eligible",
     wallets |-> {[table |-> "CARTEIRA_PARTICIPANTE", balance |-> 5]},
     curve |-> TRUE,
     conditions |-> {Redemption(ModeOf(product)), Interest} \cup
                    (IF product = "cdb_escalonamento" THEN {Segment(3, 3), Segment(4, 5)} ELSE {}),
     events |-> {[type |-> 85, excluded |-> FALSE]},
     operations |-> {Operation(1, "own", 2)}]

-----------------------------------------------------------------------------
(* What differs.                                                            *)

With(product, condition) ==
    [Good(product) EXCEPT
        !.conditions = {c \in @ : c.id # condition.id} \cup {condition}]

\* The redemption: its table, its mode and its schedule.
OfRedemption(product) ==
    LET r == Redemption(ModeOf(product))
        table == Redemption("COM TABELA")
    IN  {With(product, c) : c \in
            {[r EXCEPT !.excluded = TRUE], [r EXCEPT !.gone = {"RESGATE"}],
             [r EXCEPT !.tables = {}], [r EXCEPT !.type = "8"]}
            \cup {[table EXCEPT !.mode = mode] :
                     mode \in {"SEM TABELA", "MERCADO", "ESPECIFICA", "COM TABELA"}}
            \cup {[table EXCEPT !.schedules = schedules] : schedules \in
                     {{}, {[Schedule(1, 4, 50) EXCEPT !.excluded = TRUE]},
                      {Schedule(1, Null, 50)}, {Schedule(1, 4, Null)},
                      {[Schedule(1, Null, 50) EXCEPT !.excluded = TRUE], Schedule(2, 6, 90)},
                      {Schedule(1, 4, 50), Schedule(2, 4, 90)},
                      {Schedule(1, 4, 50), Schedule(2, 6, 50)},
                      {Schedule(1, 2, 50)}, {Schedule(1, 9, 50)}}}}

\* The other condition: its type and the tables that hold it.
OfInterest(product) ==
    {With(product, c) : c \in
        {[Interest EXCEPT !.type = type, !.tables = tables] :
            type \in {"2", "3", "8"},
            tables \in {{}, {"JUROS_FIXO"}, {"JUROS_FLUTUANTE"},
                        {"JUROS_FIXO", "JUROS_FLUTUANTE"}}}
        \cup {[Interest EXCEPT !.excluded = TRUE],
              [Interest EXCEPT !.gone = {"JUROS_FIXO"}],
              [Interest EXCEPT !.type = "20"]}}

\* A third condition, of a redemption or under the redemption's key.
OfExtra(product) ==
    {With(product, [c EXCEPT !.id = 5]) : c \in
        {Redemption("COM TABELA"), Redemption("SEM TABELA"),
         [Redemption("COM TABELA") EXCEPT !.gone = {"RESGATE"}],
         [Redemption("COM TABELA") EXCEPT !.excluded = TRUE],
         [Redemption("COM TABELA") EXCEPT !.type = "2", !.tables = {"JUROS_FIXO", "RESGATE"}],
         [Redemption("SEM TABELA") EXCEPT !.schedules = Schedules],
         Segment(5, 3)}}

OfDates(product) ==
    {[Good(product) EXCEPT !.emission = emission, !.maturity = maturity] :
        emission \in {Null, 3, 5}, maturity \in {Null, 4, 8}}
    \cup {With(product, [Interest EXCEPT !.start = start, !.end = end]) :
            start \in {Null, 3, 9}, end \in {Null, 8}}
    \cup {With(product, [Redemption("COM TABELA") EXCEPT !.redemption = date]) :
            date \in {Null, 5}}

OfEscalation(product) ==
    {[Good(product) EXCEPT !.escalation = e] : e \in {Null, "EMISSAO", "other"}}
    \cup {With(product, Segment(3, start)) : start \in {Null, 2, 4, 5, 9}}
    \cup {With(product, [Segment(3, 2) EXCEPT !.gone = {"JUROS_FLUTUANTE"}]),
          With(product, [Segment(3, 3) EXCEPT !.tables = {}])}

OfEvents(product) ==
    {[i EXCEPT !.events = {[type |-> type, excluded |-> excluded]}] :
        i \in {Good(product), With(product, Segment(5, 4)),
               With(product, [Segment(5, 4) EXCEPT !.gone = {"JUROS_FLUTUANTE"}])},
        type \in {83, 85}, excluded \in BOOLEAN}

OfOperations(product) ==
    LET good == Operation(1, "own", 2)
    IN  {[Good(product) EXCEPT !.operations = operations] : operations \in
            {{}, {[good EXCEPT !.settled = FALSE]}, {[good EXCEPT !.booked = FALSE]}}
            \cup {{good, Operation(2, route, 0)} : route \in {"registry", "foreign", "other"}}
            \cup {{[good EXCEPT !.dados = dados]} : dados \in {0, 1, 3}}
            \cup {{[good EXCEPT !.p1 = account]} :
                     account \in {"misused", "outside", "second", "blank", Null}}}

OfAccounts(product) ==
    {[Good(product) EXCEPT !.title = account] : account \in {"misused", "outside", "second", Null}}
    \cup {[Good(product) EXCEPT !.deposit = account] : account \in {"none", "second", Null}}
    \cup {[Good(product) EXCEPT !.wallets = {[table |-> "CARTEIRA_PARTICIPANTE", balance |-> 0]}],
          [Good(product) EXCEPT !.redeemed = 1], [Good(product) EXCEPT !.curve = FALSE]}

Variants(product) ==
    OfRedemption(product) \cup OfInterest(product) \cup OfExtra(product) \cup OfDates(product)
    \cup OfEscalation(product) \cup OfEvents(product) \cup OfOperations(product)
    \cup OfAccounts(product)

\* An instrument of another product, one with a floating rate and an event of
\* it, and one without interest.
Companions(product) ==
    {Good(IF product \in Cdb THEN "rdb_inclusao" ELSE "cdb_simplificado"),
     [With(product, Segment(5, 4)) EXCEPT !.events = {[type |-> 83, excluded |-> FALSE]}],
     With(product, [Interest EXCEPT !.excluded = TRUE])}

SampleSources(product) ==
    {<<i>> : i \in Variants(product)}
    \cup ((OfRedemption(product) \cup OfEvents(product) \cup OfInterest(product))
             \X Companions(product))

-----------------------------------------------------------------------------
Request(list, size, fewer) == [list |-> list, size |-> size, fewer |-> fewer]

Plainly(request) == [off |-> {}, unread |-> {}, request |-> request, term |-> Null]

First == Plainly(Request({1}, 0, FALSE))

Prunes == {"poda_subtipo", "poda_cronograma_resgate", "poda_conta", "politica_estrita_operacao"}

SampleExperiments(sources) ==
    IF Len(sources) > 1
    THEN {Plainly(Request(list, 0, FALSE)) : list \in {{1}, {1, 2}}}
         \cup {Plainly(Request({}, size, fewer)) : size \in {1, 2}, fewer \in BOOLEAN}
    ELSE {First, Plainly(Request({}, 2, TRUE))}
         \cup {[First EXCEPT !.off = off] : off \in {{p} : p \in Prunes} \cup {Prunes}}
         \cup {[First EXCEPT !.unread = {table}] : table \in
                 {"CONTA_PARTICIPANTE", "V_FAMILIA_CONTAS", "JUROS_FIXO", "CONDICAO_RESGATE",
                  "CARTEIRA_PARTICIPANTE"}}
         \cup {[First EXCEPT !.term = term] : term \in {-1, 2, 20}}

\* The validator's command lines, given the product's own profile.
SampleCalls(profile) ==
    LET plain == [profile |-> profile, only |-> FALSE, missing |-> {}, skip |-> {},
                  noOracle |-> FALSE, allowPartial |-> FALSE, failAt |-> "ERROR"]
    IN  {[plain EXCEPT !.profile = p, !.allowPartial = TRUE] :
            p \in {profile, IF profile \in Rdb THEN "cdb_simplificado" ELSE "rdb_inclusao", "cdb"}}
        \cup {[plain EXCEPT !.missing = {table}] : table \in
                {"JUROS_FLUTUANTE", "EVENTO", "LANCAMENTO"}}
        \cup {[plain EXCEPT !.failAt = "WARN"],
              [plain EXCEPT !.only = TRUE, !.missing = {"EVENTO", "OPERACAO"}],
              [plain EXCEPT !.noOracle = TRUE, !.skip = {"6.required", "1"}, !.allowPartial = TRUE],
              [plain EXCEPT !.skip = {"0.identity"}]}
=============================================================================
