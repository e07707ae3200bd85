----------------------------- MODULE BusinessKeys ----------------------------
(***************************************************************************)
(* The business keys of a clone in datagen/engorda_tables.py: instrument    *)
(* and operation codes, the control numbers ("meu número") of the two sides *)
(* of an operation, and the codes of the credits behind an LCI or LCA.      *)
(*                                                                         *)
(* A generated code is a pair of its prefix and its number, a control       *)
(* number likewise; how they are padded and joined is left out. The source  *)
(* codes of credits are negative numbers, the synthetic ones natural.       *)
(***************************************************************************)
EXTENDS CloneGraph

OPERACAO_TABELA == "OPERACAO"

-----------------------------------------------------------------------------
(* The sides of operations and their control numbers.                       *)

Sides(operations) == operations \X {1, 2}

Account(side) ==
    IF side[2] = 1 THEN side[1]["NUM_CONTA_PARTICIPANTE_P1"]
                   ELSE side[1]["NUM_CONTA_PARTICIPANTE_P2"]

\* Account and operation type (TOS), hashed by _meu_group_id.
MeuGroup(side) == << Account(side), side[1]["NUM_ID_TIPO_OPER_OBJETO_SERV"] >>

MeuGroups(operations) == {MeuGroup(s) : s \in Sides(operations)}

\* A side without account or type aborts the job.
MeuGroupsOK(operations) ==
    \A s \in Sides(operations) : MeuGroup(s)[1] # Null /\ MeuGroup(s)[2] # Null

SidesOf(operations, group) == {s \in Sides(operations) : MeuGroup(s) = group}

\* _grouped_meu_numero_descriptor: groups share one interval, as long as the
\* largest of them needs.
GroupedDemand(operations, k) ==
    Max({0} \cup {Cardinality(SidesOf(operations, g)) * k : g \in MeuGroups(operations)})

SameAccount(operation) ==
    operation["NUM_CONTA_PARTICIPANTE_P1"] = operation["NUM_CONTA_PARTICIPANTE_P2"]

\* _meu_numero_ordinal_demand of schema-2 plans: one number for an
\* operation, two when both its sides are of one account.
LegacyDemand(operations, k) ==
    (Cardinality(operations) + Cardinality({o \in operations : SameAccount(o)})) * k

SideBefore(s, t) ==
    \/ s[1]["NUM_ID_OPERACAO"] < t[1]["NUM_ID_OPERACAO"]
    \/ s[1]["NUM_ID_OPERACAO"] = t[1]["NUM_ID_OPERACAO"] /\ s[2] < t[2]

\* _generate_grouped_meu_numeros: numbered within the group.
GroupedOrdinal(operations, start, side) ==
    start + Cardinality({s \in SidesOf(operations, MeuGroup(side)) : SideBefore(s, side)})

\* _generate_meu_numeros: numbered over all operations.
LegacyOrdinal(operations, start, side) ==
    LET numbered == {s \in Sides(operations) : s[2] = 1 \/ SameAccount(s[1])}
        own == IF side \in numbered THEN side ELSE <<side[1], 1>>
    IN  start + Cardinality({s \in numbered : SideBefore(s, own)})

Ordinal(schema, operations, start, side) ==
    IF schema = 3 THEN GroupedOrdinal(operations, start, side)
                  ELSE LegacyOrdinal(operations, start, side)

\* Both generators refuse an interval that is not as long as they need, and
\* the grouped one other groups than the plan's.
IntervalFits(operations, request, meu) ==
    /\ meu.end - meu.start + 1 = IF meu.schema = 3 THEN GroupedDemand(operations, 1)
                                                   ELSE LegacyDemand(operations, 1)
    /\ meu.schema = 3 => MeuGroups(operations) = request.groups

\* The operations with the control numbers of an interval, on its date.
Numbered(operations, meu) ==
    { [ o EXCEPT !.DAT_OPERACAO = meu.date,
                 !.NUM_CONTROLE_LANCAMENTO_P1 =
                     <<meu.prefix, Ordinal(meu.schema, operations, meu.start, <<o, 1>>)>>,
                 !.NUM_CONTROLE_LANCAMENTO_P2 =
                     <<meu.prefix, Ordinal(meu.schema, operations, meu.start, <<o, 2>>)>> ] :
      o \in operations }

\* _flatten_meu_tuples: what Oracle holds unique per side.
MeuTuple(side) ==
    << side[1]["DAT_OPERACAO"], Account(side),
       IF side[2] = 1 THEN side[1]["NUM_CONTROLE_LANCAMENTO_P1"]
                      ELSE side[1]["NUM_CONTROLE_LANCAMENTO_P2"],
       side[1]["NUM_ID_TIPO_OPER_OBJETO_SERV"] >>

MeuTuples(operations) == {MeuTuple(s) : s \in Sides(operations)}

MeuComplete(side) ==
    \A i \in {1, 2, 3, 4} : MeuTuple(side)[i] # Null

-----------------------------------------------------------------------------
(* Codes of instruments and operations, one per row in the order of its     *)
(* new key: _code_slots, _materialize_code_map and _attach_generated_code.  *)

Slot(rows, pk, row) == Cardinality({r \in rows : r[pk] <= row[pk]})

Coded(rows, pk, column, prefix, start) ==
    {[r EXCEPT ![column] = <<prefix, start + Slot(rows, pk, r) - 1>>] : r \in rows}

\* _propagate_root_cod_if: the operations carry the code of their instrument.
RootOf(instruments, operation) ==
    {i \in instruments : i["NUM_IF"] = operation["NUM_IF"]}

Propagates(instruments, operations) ==
    \A o \in operations : RootOf(instruments, o) # {}

Propagated(instruments, operations) ==
    { [o EXCEPT !.COD_IF = (CHOOSE i \in RootOf(instruments, o) : TRUE)["COD_IF"]] :
      o \in operations }

\* _validate_business_keys
Distinct(rows, column) ==
    \A a, b \in rows : a # b => a[column] # Null /\ a[column] # b[column]

BusinessKeysOK(instruments, operations, numbers) ==
    /\ Distinct(instruments, "COD_IF")
    /\ Distinct(operations, "COD_OPERACAO")
    /\ \A o \in operations : \E i \in RootOf(instruments, o) : i["COD_IF"] = o["COD_IF"]
    /\ numbers => \A s, t \in Sides(operations) :
                     MeuComplete(s) /\ (s # t => MeuTuple(s) # MeuTuple(t))

-----------------------------------------------------------------------------
(* _aplica_cod_credito_sintetico: the credits of a share get new codes, in  *)
(* the order of the old ones, from the first new key of their table on.     *)

CreditCodes(rows, column) == {r[column] : r \in rows}

NewCreditCode(codes, base, code) == base + Cardinality({c \in codes : c < code})

Recoded(rows, column, codes, base) ==
    {[r EXCEPT ![column] = NewCreditCode(codes, base, r[column])] : r \in rows}

CarriersOf(product, credit) == {credit} \cup Products[product].carriers[credit]

\* A history row whose code is no credit's aborts the job.
CreditCodesFound(product, lotes) ==
    \A credit \in Products[product].seeds : \A t \in CarriersOf(product, credit) :
        CreditCodes(lotes[t], CodeColumn(credit))
            \subseteq CreditCodes(lotes[credit], CodeColumn(credit))

WithCreditCodes(product, lotes, starts) ==
    [ t \in DOMAIN lotes |->
        IF \E credit \in Products[product].seeds : t \in CarriersOf(product, credit)
        THEN LET credit == CHOOSE c \in Products[product].seeds : t \in CarriersOf(product, c)
             IN  Recoded(lotes[t], CodeColumn(credit),
                         CreditCodes(lotes[credit], CodeColumn(credit)), starts[credit])
        ELSE lotes[t] ]
=============================================================================
