----------------------------- MODULE LoadSamples -----------------------------
(***************************************************************************)
(* Small jobs for LoadPreflight: instruments and their conditions, which    *)
(* the product generates although the specs call the instruments static,    *)
(* and the reference table of instrument types. One instrument departs from *)
(* a good one in one way, alone or beside a good one.                       *)
(***************************************************************************)
EXTENDS Naturals, Sequences, TLC

LoadInventory == <<"INSTRUMENTO_FINANCEIRO", "CONDICAO_IF">>
LoadNulled == "INSTRUMENTO_FINANCEIRO" :> {"NUM_IF_ORIGEM"} @@ "CONDICAO_IF" :> {}
LoadAudit == "INSTRUMENTO_FINANCEIRO" :> {"DAT_INCLUSAO"} @@ "CONDICAO_IF" :> {}

LoadSpecs ==
    "INSTRUMENTO_FINANCEIRO" :>
        [pk |-> <<"NUM_IF">>, static |-> TRUE,
         foreign |-> {[parent |-> "TIPO_IF", columns |-> "NUM_TIPO_IF" :> "NUM_TIPO_IF"]}]
    @@ "CONDICAO_IF" :>
        [pk |-> <<"NUM_CONDICAO_IF">>, static |-> FALSE,
         foreign |-> {[parent |-> "INSTRUMENTO_FINANCEIRO", columns |-> "NUM_IF" :> "NUM_IF"]}]
    @@ "TIPO_IF" :> [pk |-> <<"NUM_TIPO_IF">>, static |-> TRUE, foreign |-> {}]

Number(nullable) == [kind |-> "number", precision |-> 2, scale |-> 0, nullable |-> nullable,
                     has_default |-> FALSE]
Text(nullable) == [kind |-> "string", data_length |-> 2, nullable |-> nullable,
                   has_default |-> FALSE]
Date == [kind |-> "date", nullable |-> FALSE, has_default |-> FALSE]

Catalogue(origin, code, keys) ==
    "INSTRUMENTO_FINANCEIRO" :>
        [columns |-> [NUM_IF |-> Number(FALSE), COD_IF |-> Text(code), NUM_TIPO_IF |-> Number(TRUE),
                      NUM_IF_ORIGEM |-> Number(origin), DAT_INCLUSAO |-> Date],
         keys |-> keys]
    @@ "CONDICAO_IF" :>
        [columns |-> [NUM_CONDICAO_IF |-> [Number(FALSE) EXCEPT !.precision = 0],
                      NUM_IF |-> Number(FALSE),
                      IND |-> [Text(FALSE) EXCEPT !.has_default = TRUE]],
         keys |-> {{"NUM_CONDICAO_IF"}}]

\* Two keys; a key of two columns; no keys; a self-reference that Oracle
\* wants, and a table that it does not have.
LoadTargets ==
    {Catalogue(TRUE, TRUE, {{"NUM_IF"}, {"COD_IF"}}),
     Catalogue(TRUE, FALSE, {{"NUM_IF"}, {"COD_IF", "NUM_TIPO_IF"}}),
     Catalogue(TRUE, TRUE, {}),
     Catalogue(FALSE, TRUE, {{"NUM_IF"}, {"COD_IF", "NUM_TIPO_IF"}}),
     "CONDICAO_IF" :> Catalogue(TRUE, TRUE, {})["CONDICAO_IF"]}

Without(row, column) == [c \in DOMAIN row \ {column} |-> row[c]]

GoodRow == [NUM_IF |-> 10, COD_IF |-> 1, NUM_TIPO_IF |-> 10, NUM_IF_ORIGEM |-> 10,
            DAT_INCLUSAO |-> 1]
OtherRow == [GoodRow EXCEPT !.NUM_IF = 20, !.COD_IF = 2]

OddRows ==
    {OtherRow} \cup { [OtherRow EXCEPT !.NUM_IF = n] : n \in {10, 14, 990, 1000} }
    \cup { [OtherRow EXCEPT !.COD_IF = n] : n \in {0, 1, 3} }
    \cup { [OtherRow EXCEPT !.NUM_TIPO_IF = 90] }
    \cup { Without(OtherRow, c) : c \in {"NUM_IF", "COD_IF", "NUM_TIPO_IF"} }
    \cup { Without([OtherRow EXCEPT !.COD_IF = 1], "NUM_TIPO_IF") }

Instruments(columns, rows) ==
    [columns |-> columns, numeric |-> {"NUM_IF", "NUM_TIPO_IF", "NUM_IF_ORIGEM"} \cap columns,
     rows |-> rows]
Conditions(of) ==
    [columns |-> {"NUM_CONDICAO_IF", "NUM_IF"}, numeric |-> {"NUM_CONDICAO_IF", "NUM_IF"},
     rows |-> <<[NUM_CONDICAO_IF |-> 30, NUM_IF |-> of]>>]
Batch(instruments, conditions) ==
    "INSTRUMENTO_FINANCEIRO" :> instruments @@ "CONDICAO_IF" :> conditions

LoadInputs ==
    { Batch(Instruments(DOMAIN GoodRow, rows), Conditions(10)) :
        rows \in { <<GoodRow, r>> : r \in OddRows } \cup { <<r>> : r \in OddRows }
                 \cup {<<>>, <<Without(GoodRow, "NUM_TIPO_IF"),
                              Without([OtherRow EXCEPT !.COD_IF = 1], "NUM_TIPO_IF")>>} }
    \cup
    { Batch(Instruments(columns, <<GoodRow>>), Conditions(20)) :
        columns \in {DOMAIN GoodRow, DOMAIN GoodRow \cup {"NUM_ID"}} }
    \cup
    { Batch(Instruments(DOMAIN GoodRow \ {c}, <<Without(GoodRow, c)>>), Conditions(10)) :
        c \in {"COD_IF", "DAT_INCLUSAO"} }

Population(instruments) ==
    "TIPO_IF" :> <<[NUM_TIPO_IF |-> 10]>> @@ "CONDICAO_IF" :> <<>>
    @@ "INSTRUMENTO_FINANCEIRO" :> instruments
LoadPopulations ==
    {Population(<<>>), Population(<<[GoodRow EXCEPT !.COD_IF = 2]>>),
     Population(<<[GoodRow EXCEPT !.NUM_IF = 50]>>)}

LoadRivals == {<<"INSTRUMENTO_FINANCEIRO", [OtherRow EXCEPT !.NUM_IF = 30]>>}

Asked(skip, dry, limit, taken) ==
    [skip_validation |-> skip, dry_run |-> dry, limit |-> limit, taken |-> taken]
LoadFlags == {Asked(FALSE, FALSE, 0, FALSE), Asked(TRUE, FALSE, 0, FALSE),
              Asked(FALSE, TRUE, 0, FALSE), Asked(FALSE, FALSE, 1, FALSE),
              Asked(TRUE, FALSE, 0, TRUE)}
LoadGenerated == {{}, {"INSTRUMENTO_FINANCEIRO", "CONDICAO_IF"}}
=============================================================================
