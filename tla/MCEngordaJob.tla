----------------------------- MODULE MCEngordaJob ----------------------------
(* Three products over a dozen tables, with two or three rows where it       *)
(* matters: a root rejected for each reason, a credit beyond the cap, a lot  *)
(* two instruments share, an operation with both sides in one account.       *)
EXTENDS EngordaJob

CONSTANTS d1

\* The primary keys, and the foreign keys as child, column, parent and column.
Keys ==
    [ INSTRUMENTO_FINANCEIRO |-> <<"NUM_IF">>, TITULO |-> <<"NUM_IF">>,
      OPERACAO |-> <<"NUM_ID_OPERACAO">>,
      DADO_OPERACAO |-> <<"NUM_ID_OPERACAO", "NUM_ID_TIPO_DADO_OPERACAO">>,
      CREDITO_SCR |-> <<"NUM_ID_CREDITO_SCR">>, HISTORICO_CREDITO_SCR |-> <<"NUM_ID_HISTORICO">>,
      CREDITO_DC |-> <<"NUM_ID_CREDITO_DC">>, HISTORICO_CREDITO_DC |-> <<"NUM_ID_HISTORICO">>,
      CONDICAO_IF |-> <<"NUM_CONDICAO_IF">>, RESGATE |-> <<"NUM_CONDICAO_IF">>,
      CONDICAO_RESGATE |-> <<"NUM_CONDICAO_RESGATE">>,
      HISTORICO_PU_CURVA |-> <<"NUM_HISTORICO_PU_CURVA">>, LOTE |-> <<"NUM_ID_LOTE">>,
      CONTA_PARTICIPANTE |-> <<"NUM_CONTA_PARTICIPANTE">>,
      CONTEXTO_MENSAGEM |-> <<"NUM_ID_CTX_MSG">> ]

References ==
    { <<"INSTRUMENTO_FINANCEIRO", "NUM_IF_ORIGEM", "INSTRUMENTO_FINANCEIRO", "NUM_IF">>,
      <<"INSTRUMENTO_FINANCEIRO", "NUM_ID_LOTE", "LOTE", "NUM_ID_LOTE">>,
      <<"INSTRUMENTO_FINANCEIRO", "NUM_CONTA_PARTICIPANTE",
        "CONTA_PARTICIPANTE", "NUM_CONTA_PARTICIPANTE">>,
      <<"TITULO", "NUM_IF", "INSTRUMENTO_FINANCEIRO", "NUM_IF">>,
      <<"OPERACAO", "NUM_IF", "INSTRUMENTO_FINANCEIRO", "NUM_IF">>,
      <<"OPERACAO", "NUM_CONTA_PARTICIPANTE_P1", "CONTA_PARTICIPANTE", "NUM_CONTA_PARTICIPANTE">>,
      <<"OPERACAO", "NUM_CONTA_PARTICIPANTE_P2", "CONTA_PARTICIPANTE", "NUM_CONTA_PARTICIPANTE">>,
      <<"OPERACAO", "NUM_ID_CTX_MSG_P1", "CONTEXTO_MENSAGEM", "NUM_ID_CTX_MSG">>,
      <<"DADO_OPERACAO", "NUM_ID_OPERACAO", "OPERACAO", "NUM_ID_OPERACAO">>,
      <<"CREDITO_SCR", "NUM_ID_LOTE", "LOTE", "NUM_ID_LOTE">>,
      <<"HISTORICO_CREDITO_SCR", "NUM_ID_CREDITO_SCR", "CREDITO_SCR", "NUM_ID_CREDITO_SCR">>,
      <<"CREDITO_DC", "NUM_ID_LOTE", "LOTE", "NUM_ID_LOTE">>,
      <<"CONDICAO_IF", "NUM_IF", "INSTRUMENTO_FINANCEIRO", "NUM_IF">>,
      <<"RESGATE", "NUM_CONDICAO_IF", "CONDICAO_IF", "NUM_CONDICAO_IF">>,
      <<"CONDICAO_RESGATE", "NUM_CONDICAO_IF", "CONDICAO_IF", "NUM_CONDICAO_IF">>,
      <<"HISTORICO_PU_CURVA", "NUM_IF", "INSTRUMENTO_FINANCEIRO", "NUM_IF">> }

MCSchema ==
    [ t \in DOMAIN Keys |->
        [ pk |-> Keys[t],
          fks |-> { [cols |-> <<r[2]>>, parent |-> r[3], pcols |-> <<r[4]>>] :
                      r \in {x \in References : x[1] = t} },
          required |-> Range(Keys[t]) ] ]

NoCredits == [c \in {} |-> {}]

Product0(type, tables) ==
    [ type |-> type, tables |-> {"INSTRUMENTO_FINANCEIRO", "OPERACAO"} \cup tables,
      seeds |-> {}, histories |-> NoCredits, carriers |-> NoCredits, onePuCurve |-> FALSE,
      selective |-> {<<"OPERACAO", "NUM_ID_CTX_MSG_P1">>}, nullify |-> {},
      operations |-> TRUE, cdb |-> FALSE ]

MCProducts ==
    [ lci |-> [Product0(3, {"TITULO", "DADO_OPERACAO", "CREDITO_SCR", "HISTORICO_CREDITO_SCR"})
                 EXCEPT !.seeds = {"CREDITO_SCR"},
                        !.histories = [CREDITO_SCR |-> {}],
                        !.carriers = [CREDITO_SCR |-> {"HISTORICO_CREDITO_SCR"}]],
      lca |-> [Product0(2, {"CREDITO_DC", "HISTORICO_CREDITO_DC"})
                 EXCEPT !.seeds = {"CREDITO_DC"},
                        !.histories = [CREDITO_DC |-> {"HISTORICO_CREDITO_DC"}],
                        !.carriers = [CREDITO_DC |-> {"HISTORICO_CREDITO_DC"}]],
      cdb |-> [Product0(49, {"CONDICAO_IF", "RESGATE", "CONDICAO_RESGATE", "HISTORICO_PU_CURVA"})
                 EXCEPT !.onePuCurve = TRUE, !.cdb = TRUE] ]

-----------------------------------------------------------------------------
(* Rows.                                                                    *)

If(n, type, lot, origin, account) ==
    [ NUM_IF |-> n, NUM_TIPO_IF |-> type, NUM_ID_LOTE |-> lot, NUM_IF_ORIGEM |-> origin,
      NUM_CONTA_PARTICIPANTE |-> account, COD_IF |-> <<"RAW", n>> ]

Operacao(n, if, p1, p2, message) ==
    [ NUM_ID_OPERACAO |-> n, NUM_IF |-> if, COD_IF |-> <<"RAW", if>>, COD_OPERACAO |-> <<"RAW", n>>,
      NUM_CONTA_PARTICIPANTE_P1 |-> p1, NUM_CONTA_PARTICIPANTE_P2 |-> p2,
      NUM_ID_TIPO_OPER_OBJETO_SERV |-> 1, NUM_ID_CTX_MSG_P1 |-> message, DAT_OPERACAO |-> Null,
      NUM_CONTROLE_LANCAMENTO_P1 |-> Null, NUM_CONTROLE_LANCAMENTO_P2 |-> Null ]

Scr(n, lot, code, excluded) ==
    [NUM_ID_CREDITO_SCR |-> n, NUM_ID_LOTE |-> lot, COD_CREDITO_SCR |-> code, DAT_EXCLUSAO |-> excluded]

ScrHistory(n, credit, code) ==
    [NUM_ID_HISTORICO |-> n, NUM_ID_CREDITO_SCR |-> credit, COD_CREDITO_SCR |-> code]

Condicao(n, type, excluded) ==
    [NUM_CONDICAO_IF |-> n, NUM_IF |-> 4, COD_TIPO_CONDICAO_IF |-> type, DAT_EXCLUSAO |-> excluded]

Cronograma(n, condition, excluded) ==
    [NUM_CONDICAO_RESGATE |-> n, NUM_CONDICAO_IF |-> condition, IND_EXCLUIDO |-> excluded]

Curva(n, date) == [NUM_HISTORICO_PU_CURVA |-> n, NUM_IF |-> 4, DAT_HISTORICO_VALORES |-> date]

MCRaw ==
    [ INSTRUMENTO_FINANCEIRO |->
          {If(1, 3, 91, Null, 71), If(2, 3, 92, 1, 71), If(3, 3, 92, Null, 71),
           If(4, 49, Null, Null, 71), If(5, 49, Null, Null, 79), If(6, 2, 93, Null, 71)},
      TITULO |-> {[NUM_IF |-> n, TXT |-> "a"] : n \in {1, 2, 3}},
      OPERACAO |-> {Operacao(11, 1, 71, 71, 81), Operacao(12, 3, 71, 72, 82),
                    Operacao(13, 4, 72, 71, Null), Operacao(14, 6, 72, 72, Null)},
      DADO_OPERACAO |-> {[NUM_ID_OPERACAO |-> o, NUM_ID_TIPO_DADO_OPERACAO |-> d] :
                            <<o, d>> \in {<<11, 1>>, <<11, 2>>, <<12, 1>>}},
      CREDITO_SCR |-> {Scr(21, 91, -5, Null), Scr(22, 91, -3, Null), Scr(23, 92, -7, Null),
                       Scr(24, 91, -8, 1), Scr(25, 91, -2, Null)},
      HISTORICO_CREDITO_SCR |-> {ScrHistory(31, 21, -5), ScrHistory(32, 22, -3),
                                 ScrHistory(33, 23, -7), ScrHistory(34, 25, -2)},
      CREDITO_DC |-> {[NUM_ID_CREDITO_DC |-> 41, NUM_ID_LOTE |-> 93, COD_CREDITO_DC |-> -4,
                       DAT_EXCLUSAO |-> Null]},
      HISTORICO_CREDITO_DC |-> {[NUM_ID_HISTORICO |-> 42, NUM_ID_LOTE |-> 93, COD_CREDITO_DC |-> -4]},
      CONDICAO_IF |-> {Condicao(51, 20, Null), Condicao(52, 1, Null), Condicao(53, 20, 1)},
      RESGATE |-> {[NUM_CONDICAO_IF |-> 51, COD_COND_RESGATE |-> "COM TABELA", DAT_EXCLUSAO |-> Null]},
      CONDICAO_RESGATE |-> {Cronograma(61, 51, "N"), Cronograma(62, 51, "S"), Cronograma(63, 52, "N")},
      HISTORICO_PU_CURVA |-> {Curva(64, 2), Curva(65, 1), Curva(66, Null)} ]

\* A later extraction: another title text, an operation gone.
MCReread ==
    [ MCRaw EXCEPT !.TITULO = {[r EXCEPT !.TXT = "b"] : r \in @},
                   !.OPERACAO = {o \in @ : o.NUM_ID_OPERACAO # 13} ]

\* What the target holds: the parents, an instrument above pk_offset and an
\* operation.
MCOracle ==
    [ t \in DOMAIN MCSchema |->
        CASE t = "LOTE" -> {[NUM_ID_LOTE |-> n] : n \in {91, 92, 93}}
          [] t = "CONTA_PARTICIPANTE" -> {[NUM_CONTA_PARTICIPANTE |-> n] : n \in {71, 72}}
          [] t = "CONTEXTO_MENSAGEM" -> {[NUM_ID_CTX_MSG |-> 81]}
          [] t = "INSTRUMENTO_FINANCEIRO" ->
                {[If(33, 49, Null, Null, 71) EXCEPT !.COD_IF = <<"CDB7", 2>>]}
          [] t = "OPERACAO" -> {Operacao(7, 33, 71, 71, Null)}
          [] OTHER -> {} ]

\* The same target with instrument 1 in it, so that 2 may refer to it.
MCOracleWithOrigin ==
    [MCOracle EXCEPT !.INSTRUMENTO_FINANCEIRO = @ \cup {If(1, 3, 91, Null, 71)}]

MCRereads == {MCReread}

\* Others take a key of the next range, a code of the month, a control number.
MCInserts ==
    { [table |-> "INSTRUMENTO_FINANCEIRO", row |-> If(35, 3, Null, Null, 71)],
      [table |-> "INSTRUMENTO_FINANCEIRO",
       row |-> [If(9, 49, Null, Null, 71) EXCEPT !.COD_IF = <<"CDB7", 4>>]],
      [table |-> "OPERACAO",
       row |-> [Operacao(8, 33, 71, 72, Null) EXCEPT !.DAT_OPERACAO = d1,
                    !.NUM_CONTROLE_LANCAMENTO_P1 = <<100, 2>>,
                    !.NUM_CONTROLE_LANCAMENTO_P2 = <<100, 2>>]] }

-----------------------------------------------------------------------------
(* Jobs.                                                                    *)

Sampled(product, n, k, adjust) ==
    [ product |-> product, roots |-> Absent, n |-> n, k |-> k, adjust |-> adjust,
      schema |-> 3, date |-> d1, requested |-> Absent ]

Listed(product, roots, k, schema) ==
    [Sampled(product, 0, k, FALSE) EXCEPT !.roots = roots, !.schema = schema]

MCJobOf ==
    [ lci  |-> Sampled("lci", 1, 2, FALSE),
      short  |-> Sampled("lci", 4, 1, TRUE),
      cdb   |-> Listed("cdb", {4}, 2, 3),
      old   |-> Listed("cdb", {4}, 1, 2),
      wrong |-> Listed("cdb", {4, 5}, 1, 3),
      lca   |-> Listed("lca", {6}, 2, 3) ]

Run(jobs, oracle0) == [jobs |-> jobs, raw |-> MCRaw, oracle |-> oracle0]

MCBeginnings ==
    { Run({"lci", "cdb"}, MCOracle), Run({"short", "lci"}, MCOracleWithOrigin),
      Run({"cdb", "old"}, MCOracle), Run({"lca", "wrong"}, MCOracle) }

\* The tables a product gives keys of their own.
MCTables ==
    { "INSTRUMENTO_FINANCEIRO", "OPERACAO", "CREDITO_SCR", "HISTORICO_CREDITO_SCR", "CREDITO_DC",
      "HISTORICO_CREDITO_DC", "CONDICAO_IF", "CONDICAO_RESGATE", "HISTORICO_PU_CURVA" }

ASSUME MCTables = UNION {OwnKeyed(product) : product \in DOMAIN MCProducts}

MCGroups == {71, 72} \X {1}
=============================================================================
