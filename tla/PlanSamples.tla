------------------------------ MODULE PlanSamples -----------------------------
(***************************************************************************)
(* Inputs for the modules about planning: the selections whose texts        *)
(* GenAiRewrite asks for, and what PlanHandoff finds in RAW.                *)
(***************************************************************************)
EXTENDS Naturals, Sequences, FiniteSets

CONSTANT Null

Instrument == [table |-> "INSTRUMENTO_FINANCEIRO", column |-> "TXT_CARACT_COMPLEMENTARES", max |-> 772]
Event == [table |-> "EVENTO", column |-> "TXT_OBSERVACAO", max |-> 60]
Operation == [table |-> "OPERACAO", column |-> "TXT_HISTORICO", max |-> 138]
Reviewed == <<Instrument, Event, Operation>>

Policy(targets, tokens) ==
    [version |-> 1, maxTokens |-> tokens,
     products |-> [cdb |-> [targets |-> targets,
                            exclusions |-> {<<"LANCAMENTO", "TXT_XML_LANCAMENTO">>}]]]

Schema == [static |-> {}, nullified |-> {}, protected |-> {<<"EVENTO", "NUM_ID_EVENTO">>},
           textual |-> {<<t.table, t.column>> : t \in {Instrument, Event, Operation}}]

\* A row with the column of its target; its own text is known by its key.
RowOf(target, key, roots) ==
    [table |-> target.table, key |-> key, values |-> [c \in {target.column} |-> <<key>>],
     roots |-> roots]

Job(policy, rows, limit, K, bulky) ==
    [product |-> "cdb", policy |-> policy, rows |-> rows, roots |-> UNION {r.roots : r \in rows},
     limit |-> limit, factor |-> K, schema |-> Schema, bulky |-> bulky]

One == RowOf(Operation, 1, {1})

\* Two instruments apart, and with a row in common that doubles its clones;
\* one that needs several requests; one too large to ask for, one without a
\* target; and policies that repeat, lack or nullify a target.
RewriteJobs ==
    { Job(Policy(Reviewed, 80), {One, RowOf(Operation, 2, {2})}, 2, 2, {}),
      Job(Policy(Reviewed, 80), {One, RowOf(Operation, 2, {1, 2})}, 2, 1, {}),
      Job(Policy(Reviewed, 160),
          {RowOf(Event, 1, {1}), RowOf(Operation, 2, {1, 2}), RowOf(Event, 2, {2})}, 1, 3, {}),
      Job(Policy(Reviewed, 200),
          {RowOf(Instrument, 1, {1}), RowOf(Event, 2, {2}), RowOf(Operation, 3, {3})}, 3, 2, {3}),
      Job(Policy(Append(Reviewed, Operation), 300), {One}, 1, 2, {}),
      Job(Policy(<<Instrument, Event>>, 300), {One}, 1, 2, {}),
      [Job(Policy(Reviewed, 300), {One}, 1, 2, {}) EXCEPT
          !.schema.nullified = {<<"OPERACAO", "TXT_HISTORICO">>}] }

-----------------------------------------------------------------------------
Version(roots, operations, unclassified, missing) ==
    [roots |-> roots,
     counts |-> [INSTRUMENTO_FINANCEIRO |-> Cardinality(roots), OPERACAO |-> operations],
     classes |-> [r \in roots |-> IF r \in unclassified THEN Null ELSE r],
     missing |-> missing]

ToNullify(key, value) == [key |-> key, value |-> value]

First == Version({1, 2}, 3, {}, <<ToNullify("a", 1), ToNullify("b", 1)>>)

\* RAW is replaced by one with as many rows and another root, or with other
\* counts, a root without its class and a key twice.
RawVersions ==
    { <<First, Version({1, 3}, 3, {}, <<ToNullify("a", 2)>>)>>,
      <<First, Version({1, 2}, 4, {2}, <<ToNullify("a", 1), ToNullify("a", 1)>>)>> }

PlanJobs == [genai : BOOLEAN, ccb : BOOLEAN, K : {2}]
=============================================================================
