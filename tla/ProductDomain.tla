---------------------------- MODULE ProductDomain ----------------------------
(***************************************************************************)
(* Which instruments a product may clone: the domain queries of             *)
(* datagen/queries_produtos.sql for CDB and RDB, the prunes engorda applies *)
(* to the domain before it draws (_dominio_instrumentos_elegiveis), and the *)
(* selection itself (seleciona_instrumentos).                               *)
(*                                                                         *)
(* An instrument is a record of what the queries, the prunes and the        *)
(* validator tell apart:                                                    *)
(*   type, emission, maturity, escalation, redeemed    of the root, TITULO  *)
(*   conditions: [id, type, excluded, start, end, tables, gone, mode,       *)
(*     redemption, schedules]    CONDICAO_IF, the subtype tables that hold  *)
(*     a row of it (`gone`: logically excluded), and what RESGATE and       *)
(*     CONDICAO_RESGATE ([id, date, percent, excluded]) say                 *)
(*   events: [type, excluded]    operations: [id, route, settled, p1, p2,   *)
(*     dados, booked]    wallets: [table, balance]                          *)
(*   curve: is there a usable HISTORICO_PU_CURVA                            *)
(*   title, deposit, p1, p2: the accounts referred to                       *)
(* Roots and titles are active. An account is "eligible", "misused" (it is  *)
(* eligible, in the other party's role), "outside" (the area or access),    *)
(* "second" (in situation 2), "blank" or Null; a deposit may be "none".     *)
(***************************************************************************)
EXTENDS Integers, FiniteSets
LOCAL INSTANCE FiniteSetsExt

CONSTANT Null        \* SQL NULL

Cdb == {"cdb_simplificado", "cdb_resgate", "cdb_escalonamento"}
Rdb == {"rdb_inclusao", "rdb_resgate"}
WithRedemption == {"cdb_resgate", "rdb_resgate"}

\* The subtype table of a condition's type (integridade.subtipo).
SubtypeTable == [type \in {"2", "3", "20"} |->
    CASE type = "2" -> "JUROS_FIXO" [] type = "3" -> "JUROS_FLUTUANTE" [] type = "20" -> "RESGATE"]

Active(i) == {c \in i.conditions : ~c.excluded}
ActiveIn(c, table) == table \in c.tables \ c.gone
ActiveSchedules(c) == {s \in c.schedules : ~s.excluded}
ActiveEvents(i) == {e \in i.events : ~e.excluded}

-----------------------------------------------------------------------------
(* The domain queries.                                                      *)

Modes(product) ==
    IF product \in WithRedemption THEN {"MERCADO", "COM TABELA", "ESPECIFICA"} ELSE {"SEM TABELA"}

FiltroBase(product, i) ==
    /\ i.type = IF product \in Cdb THEN 49 ELSE 50
    /\ \E c \in Active(i) : ActiveIn(c, "RESGATE") /\ c.mode \in Modes(product)
    /\ (i.escalation # Null) = (product = "cdb_escalonamento")
    /\ product # "cdb_simplificado" =>
        /\ i.redeemed = 0
        /\ \E o \in i.operations : o.route = "own" /\ o.settled

\* OPERACAO_FORA_ROTA: no operation by another route, where it is asked for.
OnlyOwnRoute(product, i) ==
    product \in {"cdb_resgate", "cdb_escalonamento", "rdb_resgate"} =>
        \A o \in i.operations : o.route = "own"

\* OPER_REGISTRO: an operation of registry. CDB asks for its own service,
\* which its own route belongs to; RDB does not.
Registered(o) == o.route \in {"own", "registry"}
OperRegistro(product, o) == Registered(o) \/ (product \in Rdb /\ o.route = "foreign")

InDomain(product, i) ==
    /\ FiltroBase(product, i)
    /\ OnlyOwnRoute(product, i)
    /\ \E c \in Active(i) : c.type # "20"
    /\ i.deposit # "none"
    /\ \E o \in i.operations : OperRegistro(product, o)
    /\ \E o \in i.operations : o.dados > 0 /\ o.booked

-----------------------------------------------------------------------------
(* The prunes: each names the instruments of the domain it removes, given   *)
(* the RAW tables that cannot be read.                                      *)

\* Faulty variant: the key may be in any subtype's table.
SemSubtipoPelaChave(i, unread) ==
    \E c \in Active(i) : c.tables \ unread = {}

\* _num_if_inconsistentes_subtipo: the pair of type and key must be in the
\* type's table; a table that cannot be read has no key.
SemSubtipo(i, unread) ==
    \E c \in Active(i) :
        ~(c.type \in DOMAIN SubtypeTable /\ SubtypeTable[c.type] \in c.tables \ unread)

Redemptions(i) == {c \in Active(i) : c.type = "20" /\ ActiveIn(c, "RESGATE")}
ComTabela(i) == {c \in Redemptions(i) : c.mode = "COM TABELA"}
Valued(s) == s.date # Null /\ s.percent # Null

\* _num_if_cronograma_resgate_invalido
CronogramaInvalido(product, i) ==
    \/ \E c \in ComTabela(i) :
          ActiveSchedules(c) = {} \/ \E s \in ActiveSchedules(c) : ~Valued(s)
    \/ /\ product = "rdb_resgate"
       /\ ~ /\ Cardinality({c \in Active(i) : c.type = "20"}) = 1
            /\ Cardinality(ComTabela(i)) = 1

\* _contas_elegiveis: without V_FAMILIA_CONTAS the predicate is partial.
EligibleAccount(account, unread) ==
    \/ account \in {"eligible", "misused"}
    \/ account = "outside" /\ "V_FAMILIA_CONTAS" \in unread

AccountRefs(i) ==
    ({i.title, i.deposit} \cup UNION {{o.p1, o.p2} : o \in i.operations}) \ {Null, "none"}

\* _num_if_conta_nao_elegivel: fails open without CONTA_PARTICIPANTE.
ContaNaoElegivel(i, unread) ==
    /\ "CONTA_PARTICIPANTE" \notin unread
    /\ \E account \in AccountRefs(i) : ~EligibleAccount(account, unread)

\* FAMILIA_EVENTO_CONDICAO
FamilyOf(event) == IF event = 83 THEN "3" ELSE "20"

HasFamily(i, event) ==
    \E c \in Active(i) :
        c.type = FamilyOf(event) /\ ActiveIn(c, SubtypeTable[FamilyOf(event)])

\* _num_if_evento_sem_familia
EventoSemFamilia(i) == \E e \in ActiveEvents(i) : ~HasFamily(i, e.type)

\* _num_if_operacao_nao_registro: no party is null, and the area is not asked.
OperacaoNaoRegistro(i, unread) ==
    /\ "CONTA_PARTICIPANTE" \notin unread
    /\ \E o \in i.operations :
          ~(Registered(o) /\ {o.p1, o.p2} \subseteq {"eligible", "misused", "outside"})

\* _num_if_carteira_sem_saldo: each table that can be read.
CarteiraSemSaldo(i, unread) ==
    \E w \in i.wallets : w.table \notin unread /\ w.balance <= 0

\* _num_if_dado_operacao_fora_do_par: two rows of DADO_OPERACAO in all.
DadosForaDoPar(i) == MapThenSumSet(LAMBDA o : o.dados, i.operations) # 2

-----------------------------------------------------------------------------
(* _dominio_instrumentos_elegiveis: every prune looks at the whole domain.  *)

\* `off` are the prunes the command line switches off.
Removed(product, i, off, unread) ==
    \/ product \in Cdb /\ "poda_subtipo" \notin off /\ SemSubtipo(i, unread)
    \/ /\ product \in WithRedemption /\ "poda_cronograma_resgate" \notin off
       /\ CronogramaInvalido(product, i)
    \/ product \in Cdb /\ "poda_conta" \notin off /\ ContaNaoElegivel(i, unread)
    \/ EventoSemFamilia(i)
    \/ /\ "politica_estrita_operacao" \notin off
       /\ \/ CarteiraSemSaldo(i, unread)
          \/ /\ product = "cdb_simplificado"
             /\ OperacaoNaoRegistro(i, unread) \/ DadosForaDoPar(i)
    \/ product \in Rdb /\ ~i.curve

\* The tables a selection cannot do without: those of the query, those of
\* the prunes that abort, and those of the families that events name.
QueryTables == {"INSTRUMENTO_FINANCEIRO", "TITULO", "CONDICAO_IF", "RESGATE",
                "DEPOSITO_AUTOMATICO_IF", "OPERACAO", "DADO_OPERACAO", "LANCAMENTO",
                "ESPECIFICACAO", "ESPECIFICACAO_COMITENTE"}

MustRead(product, domain, off) ==
    QueryTables \cup {"EVENTO", "TIPO_OPER_OBJETO_SERV", "TIPO_OPERACAO"}
    \cup {SubtypeTable[FamilyOf(e.type)] : e \in UNION {ActiveEvents(i) : i \in domain}}
    \cup (IF product \in WithRedemption /\ "poda_cronograma_resgate" \notin off
          THEN {"CONDICAO_RESGATE"} ELSE {})
    \cup (IF product \in Rdb THEN {"HISTORICO_PU_CURVA"} ELSE {})

\* seleciona_instrumentos: the selections it may return, none when it aborts.
\* A list is taken whole or not at all; a sample may be short only where that
\* is allowed and something is left.
Selections(product, instruments, off, unread, request) ==
    LET domain == {n \in DOMAIN instruments : InDomain(product, instruments[n])}
        valid == {n \in domain : ~Removed(product, instruments[n], off, unread)}
        size == IF request.fewer /\ Cardinality(valid) < request.size
                THEN Cardinality(valid) ELSE request.size
        chosen == IF request.list # {} THEN {request.list} \cap SUBSET valid
                  ELSE kSubset(size, valid) \ {{}}
    IN  IF MustRead(product, {instruments[n] : n \in domain}, off) \cap unread = {}
        THEN chosen ELSE {}
=============================================================================
