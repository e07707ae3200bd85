------------------------------ MODULE CloneDates ------------------------------
(***************************************************************************)
(* What the clone of an instrument of ProductDomain is, in                  *)
(* datagen/engorda_tables.py: the rows the closure leaves out because they  *)
(* are logically excluded or have no redemption table to belong to, and the *)
(* date rules: aplica_regras_engorda and the adjustments that follow it.    *)
(* Dates are numbers of days; keys are EngordaJob's business.               *)
(***************************************************************************)
EXTENDS ProductDomain

CONSTANTS
    Today,           \* the operational date (DAT_CTL_OPER)
    DefaultTerm      \* DEFAULT_DT_VENCIMENTO_PRAZO_DIAS

DatesAreNumbers == Today \in Int /\ DefaultTerm \in Nat \ {0} /\ Null \notin Int

-----------------------------------------------------------------------------
(* The closure.                                                             *)

\* TABELAS_ENGORDA_POR_PRODUTO, as far as the tables matter here.
Cloned(product) ==
    QueryTables \cup {SubtypeTable[type] : type \in DOMAIN SubtypeTable}
    \cup {"EVENTO", "CARTEIRA_COMITENTE", "CARTEIRA_PARTICIPANTE"}
    \cup (IF product = "cdb_simplificado" THEN {} ELSE {"CONDICAO_RESGATE"})
    \cup (IF product \in Rdb THEN {"HISTORICO_PU_CURVA"} ELSE {})

\* _poda_cronograma_sem_tabela: schedules stay under an active type-20
\* COM TABELA redemption.
HasTable(c) == c.type = "20" /\ ActiveIn(c, "RESGATE") /\ c.mode = "COM TABELA"

\* _filtra_ativos: the rows of the other subtype tables stay, excluded or not.
Kept(product, c) ==
    [c EXCEPT !.tables = @ \ ({"RESGATE"} \cap c.gone),
              !.gone = @ \ {"RESGATE"},
              !.schedules = IF HasTable(c) /\ "CONDICAO_RESGATE" \in Cloned(product)
                            THEN ActiveSchedules(c) ELSE {}]

Closure(product, i) == [i EXCEPT !.conditions = {Kept(product, c) : c \in Active(i)}]

-----------------------------------------------------------------------------
(* The dates.                                                               *)

\* The days from the emission to the maturity, or an override of them; what
\* is unknown or not positive becomes the default.
Term(i, override) ==
    LET days == IF override # Null THEN override
                ELSE IF i.emission = Null \/ i.maturity = Null THEN DefaultTerm
                ELSE i.maturity - i.emission
    IN  IF days < 1 THEN DefaultTerm ELSE days

\* The new emission minus the old one; without one nothing moves.
Shift(i) == IF i.emission = Null THEN 0 ELSE Today - i.emission

Moved(date, days) == IF date = Null THEN Null ELSE date + days

\* ajusta_datas_condicao_if and ajusta_datas_resgate
Shifted(c, days) ==
    [c EXCEPT !.start = Moved(@, days), !.end = Moved(@, days),
              !.redemption = Moved(@, days),
              !.schedules = {[s EXCEPT !.date = Moved(@, days)] : s \in c.schedules}]

\* The dated floating conditions that start first. An excluded row of
\* JUROS_FLUTUANTE counts.
FirstSegments(conditions) ==
    LET floating == {c \in conditions :
                        c.type = "3" /\ "JUROS_FLUTUANTE" \in c.tables /\ c.start # Null}
    IN  {c \in floating : \A d \in floating : c.start <= d.start}

\* ajusta_inicio_escalonamento_emissao: the first segment of an escalation
\* starts at the emission; a tie is left for the validator to reject.
Anchored(conditions) ==
    LET first == FirstSegments(conditions)
    IN  IF Cardinality(first) = 1
        THEN {IF c \in first THEN [c EXCEPT !.start = Today] ELSE c : c \in conditions}
        ELSE conditions

Clone(product, i, override) ==
    LET kept == Closure(product, i)
        shifted == {Shifted(c, Shift(i)) : c \in kept.conditions}
    IN  [kept EXCEPT
            !.emission = Today,
            !.maturity = Today + Term(i, override),
            !.conditions = IF product = "cdb_escalonamento" /\ i.escalation = "EMISSAO"
                           THEN Anchored(shifted) ELSE shifted]
=============================================================================
