------------------------------ MODULE GenAiRewrite ----------------------------
(***************************************************************************)
(* The generated texts of datagen/engorda_tables.py. Planning asks an       *)
(* Oracle GenAI endpoint, instrument by instrument in a thread pool and in  *)
(* batches of copies, for the three reviewed text columns of every copy,   *)
(* and freezes what it accepted; the clones then get exactly those texts.   *)
(* Nothing the endpoint does stops a plan: a copy that gets no valid text   *)
(* keeps that of its source.                                                *)
(*                                                                         *)
(* A generated text is known by the instrument, copy and target it was      *)
(* given for. PlanHandoff is about the artifacts that hold them.            *)
(***************************************************************************)
EXTENDS Integers, Sequences, FiniteSets

CONSTANTS
    Jobs,              \* [product, policy, rows, roots, limit, factor, schema, bulky]
    LogicalAttempts,   \* GENAI_LOGICAL_ATTEMPTS
    TransportAttempts, \* GENAI_TRANSPORT_ATTEMPTS
    Null

ReviewedTargets ==
    { [table |-> "INSTRUMENTO_FINANCEIRO", column |-> "TXT_CARACT_COMPLEMENTARES", max |-> 772],
      [table |-> "EVENTO", column |-> "TXT_OBSERVACAO", max |-> 60],
      [table |-> "OPERACAO", column |-> "TXT_HISTORICO", max |-> 138] }

ReviewedExclusions == {<<"LANCAMENTO", "TXT_XML_LANCAMENTO">>}

\* Tables and rows in the order their names and keys sort in.
Rank == [EVENTO |-> 1, INSTRUMENTO_FINANCEIRO |-> 2, LANCAMENTO |-> 3, OPERACAO |-> 4]

\* What the arguments and the policy may be (1083, 1132, 1484); rows are known
\* by their table and key.
JobsArePossible ==
    /\ LogicalAttempts \in Nat \ {0} /\ TransportAttempts \in Nat \ {0}
    /\ \A j \in Jobs :
        /\ j.factor \in Nat \ {0}
        /\ j.policy.maxTokens \in Nat
        /\ \A p \in DOMAIN j.policy.products :
              j.policy.products[p].targets \in Seq([table : STRING, column : STRING, max : Nat])
        /\ IsFiniteSet(j.rows)
        /\ \A r \in j.rows : r.key \in Nat
        /\ \A r, s \in j.rows : r.table = s.table /\ r.key = s.key => r = s

VARIABLES
    job,
    stage,     \* planning, generating, frozen, made, or failed
    sampled,   \* the instruments whose texts are asked for
    work,      \* per sampled instrument, how far its batch is
    frozen,    \* the rows of the replacements artifact
    texts      \* the clones: <<row, copy>> -> its text columns, or Null

vars == <<job, stage, sampled, work, frozen, texts>>

Min2(a, b) == IF a < b THEN a ELSE b

-----------------------------------------------------------------------------
(* The policy.                                                              *)

\* The targets are compared as a set.
ResolvePolicy(policy, product) ==
    /\ policy.version = 1
    /\ product \in DOMAIN policy.products
    /\ LET config == policy.products[product]
       IN  /\ {config.targets[i] : i \in DOMAIN config.targets} = ReviewedTargets
           /\ config.exclusions = ReviewedExclusions
    /\ policy.maxTokens >= 1

Targets == job.policy.products[job.product].targets
Excluded == job.policy.products[job.product].exclusions

\* schema: columns in use [table, column] that are keys, references or NOT
\* NULL, those nullified, those of text; and the static tables.
PolicyFitsSchema(targets, schema) ==
    \A i \in DOMAIN targets :
        LET cell == <<targets[i].table, targets[i].column>>
        IN  /\ targets[i].table \notin schema.static
            /\ cell \notin schema.nullified /\ cell \notin schema.protected
            /\ cell \in schema.textual

-----------------------------------------------------------------------------
(* The request of one instrument.                                           *)

Aggregate(root) == {r \in job.rows : root \in r.roots}

\* A cell for every target there is in a row.
Found(root) ==
    {c \in [row : Aggregate(root), nth : DOMAIN Targets] :
        /\ Targets[c.nth].table = c.row.table
        /\ Targets[c.nth].column \in DOMAIN c.row.values
        /\ <<c.row.table, Targets[c.nth].column>> \notin Excluded}

\* The order of table, key and column.
Key(c) == <<Rank[c.row.table], c.row.key, c.nth>>

Before(a, b) ==
    LET x == Key(a)
        y == Key(b)
    IN  \E i \in 1 .. 3 : x[i] < y[i] /\ \A j \in 1 .. i - 1 : x[j] = y[j]

\* The cells in this order: a cell's place is its target_id, in this request
\* only.
Cells(root) ==
    LET found == Found(root)
        place == [c \in found |-> 1 + Cardinality({d \in found : Before(d, c)})]
    IN  [id \in 1 .. Cardinality(found) |-> CHOOSE c \in found : place[c] = id]

ColumnOf(cell) == Targets[cell.nth].column

\* How wide the texts of a copy may get together.
Width(root) ==
    LET cells == Cells(root)
        upTo[id \in 0 .. Len(cells)] ==
            IF id = 0 THEN 0 ELSE upTo[id - 1] + Targets[cells[id].nth].max
    IN  upTo[Len(cells)]

\* Copies per request, by what the widest answer takes of the token budget;
\* the punctuation of the answer is left out.
BatchSize(root) == (2 * job.policy.maxTokens + 1) \div (Width(root) + 1)

Replacement(root, k, id, value, attempts) ==
    LET cell == Cells(root)[id]
    IN  [root |-> root, table |-> cell.row.table, key |-> cell.row.key, copy |-> k,
         column |-> ColumnOf(cell), target |-> id, value |-> value,
         action |-> IF value = Null THEN "KEEP_SOURCE" ELSE "REPLACE", attempts |-> attempts]

\* _fallback_genai_rows
Fallback(root) ==
    {Replacement(root, k, id, Null, 0) : k \in 1 .. job.factor, id \in DOMAIN Cells(root)}

Batch(root, start) ==
    start .. Min2(start + BatchSize(root) - 1, job.factor)

Open(root, start, rows, successes, calls) ==
    [start |-> start, attempt |-> 1, tries |-> 0, over |-> FALSE,
     unresolved |-> Batch(root, start) \X DOMAIN Cells(root),
     generated |-> {}, rows |-> rows, successes |-> successes, calls |-> calls]

Closed(rows, successes, calls) ==
    [over |-> TRUE, rows |-> rows, successes |-> successes, calls |-> calls]

\* _generate_one_instrument
Begun(root) ==
    IF root \in job.bulky THEN Closed(Fallback(root), 0, 0)
    ELSE IF Cells(root) = <<>> THEN Closed({}, 0, 0)
    ELSE IF BatchSize(root) < 1 THEN Closed(Fallback(root), 0, 0)
    ELSE Open(root, 1, {}, 0, 0)

-----------------------------------------------------------------------------
\* The instruments come first by a hash of seed and number.
Samples ==
    IF job.limit >= Cardinality(job.roots) THEN {job.roots}
    ELSE {S \in SUBSET job.roots : Cardinality(S) = job.limit}

Init ==
    /\ job \in Jobs
    /\ stage = "planning"
    /\ sampled = {} /\ work = <<>> /\ frozen = {} /\ texts = <<>>

Sample ==
    /\ stage = "planning"
    /\ IF ResolvePolicy(job.policy, job.product) /\ PolicyFitsSchema(Targets, job.schema)
       THEN \E chosen \in Samples :
               /\ sampled' = chosen
               /\ work' = [root \in chosen |-> Begun(root)]
               /\ stage' = "generating"
       ELSE stage' = "failed" /\ UNCHANGED <<sampled, work>>
    /\ UNCHANGED <<job, frozen, texts>>

Busy(root) == stage = "generating" /\ root \in sampled /\ ~work[root].over

\* What is left of a batch after an attempt that resolved `accepted`; the
\* last attempt, or one that leaves nothing, closes the batch.
After(root, accepted, answered) ==
    LET w == work[root]
        unresolved == w.unresolved \ accepted
        generated == w.generated \cup {[at |-> i, attempt |-> w.attempt] : i \in accepted}
        successes == w.successes + answered
        calls == w.calls + 1
        rows == w.rows
            \cup {Replacement(root, g.at[1], g.at[2], <<root, g.at[1], g.at[2]>>, g.attempt) : g \in generated}
            \cup {Replacement(root, i[1], i[2], Null, w.attempt) : i \in unresolved}
        next == w.start + BatchSize(root)
    IN  IF unresolved # {} /\ w.attempt < LogicalAttempts
        THEN [w EXCEPT !.attempt = @ + 1, !.tries = 0, !.unresolved = unresolved,
                       !.generated = generated, !.successes = successes, !.calls = calls]
        ELSE IF next <= job.factor THEN Open(root, next, rows, successes, calls)
        ELSE Closed(rows, successes, calls)

\* The call raises: it is repeated, and the attempt given up after the last.
CallFails(root) ==
    /\ Busy(root)
    /\ LET w == work[root]
       IN  work' = [work EXCEPT ![root] =
               IF w.tries + 1 < TransportAttempts
               THEN [w EXCEPT !.tries = w.tries + 1, !.calls = w.calls + 1]
               ELSE After(root, {}, 0)]
    /\ UNCHANGED <<job, stage, sampled, frozen, texts>>

\* The endpoint answers a text for some identities, which may be too long or
\* not be encodable, or were not asked for.
Answers(root) ==
    LET asked == work[root].unresolved
        stray == {<<job.factor + 1, 1>>}
    IN  UNION {[given -> {"fits", "refused"}] : given \in SUBSET (asked \cup stray)}

\* _parse_genai_response: one identity that was not asked for voids it all.
Accepted(root, answer) ==
    IF DOMAIN answer \subseteq work[root].unresolved
    THEN {i \in DOMAIN answer : answer[i] = "fits"}
    ELSE {}

\* Mutant: an identity that was not asked for is passed over.
AcceptedUnasked(root, answer) ==
    {i \in DOMAIN answer : answer[i] = "fits" /\ i[1] <= job.factor + 1}

EndpointAnswers(root) ==
    /\ Busy(root)
    /\ \E answer \in Answers(root) :
          work' = [work EXCEPT ![root] = After(root, Accepted(root, answer), 1)]
    /\ UNCHANGED <<job, stage, sampled, frozen, texts>>

\* generate_genai_replacements, when every future has ended.
Freeze ==
    /\ stage = "generating" /\ \A root \in sampled : work[root].over
    /\ frozen' = UNION {work[root].rows : root \in sampled}
    /\ stage' = "frozen"
    /\ UNCHANGED <<job, sampled, work, texts>>

\* _aplica_genai_replacements: a left join on source key and copy, column by
\* column, so that two replacements of one cell double the clone.
Matches(row, k, column) ==
    {f \in frozen : /\ f.action = "REPLACE" /\ f.table = row.table
                    /\ f.key = row.key /\ f.copy = k /\ f.column = column}

\* valida_tabela counts the clones.
NoneDoubled ==
    \A row \in job.rows, k \in 1 .. job.factor : \A column \in DOMAIN row.values :
        Cardinality(Matches(row, k, column)) <= 1

TextOf(row, k, column) ==
    LET found == Matches(row, k, column)
    IN  IF found = {} THEN row.values[column] ELSE (CHOOSE f \in found : TRUE).value

Clone ==
    /\ stage = "frozen"
    /\ IF NoneDoubled
       THEN /\ texts' = [at \in job.rows \X (1 .. job.factor) |->
                            [column \in DOMAIN at[1].values |-> TextOf(at[1], at[2], column)]]
            /\ stage' = "made"
       ELSE stage' = "failed" /\ UNCHANGED texts
    /\ UNCHANGED <<job, sampled, work, frozen>>

Over == stage \in {"made", "failed"} /\ UNCHANGED vars

Next ==
    \/ Sample \/ Freeze \/ Clone \/ Over
    \/ \E root \in sampled : CallFails(root)
    \/ \E root \in sampled : EndpointAnswers(root)

Spec == Init /\ [][Next]_vars

-----------------------------------------------------------------------------
(* Properties.                                                              *)

\* Every target of every copy of the sampled instruments is frozen once, with
\* a text the endpoint gave for it or none; no instrument costs more calls
\* than its attempts allow.
EveryTargetAccounted ==
    stage \in {"frozen", "made"} =>
        \A root \in sampled :
            LET targets == DOMAIN Cells(root)
            IN  /\ \A k \in 1 .. job.factor, id \in targets :
                      Cardinality({f \in frozen : f.root = root /\ f.copy = k /\ f.target = id}) = 1
                /\ \A f \in frozen : f.root = root =>
                      f.copy \in 1 .. job.factor /\ f.target \in targets
                /\ work[root].calls <= job.factor * LogicalAttempts * TransportAttempts

\* A clone differs from its source only in columns of the policy, which no
\* key, reference or nullification uses, and by a text that was given for
\* this copy of this row, through an instrument the row belongs to.
TextsBelong ==
    stage = "made" =>
        \A row \in job.rows, k \in 1 .. job.factor : \A column \in DOMAIN row.values :
            LET text == texts[<<row, k>>][column]
            IN  \/ text = row.values[column]
                \/ /\ <<row.table, column>> \notin job.schema.protected \cup job.schema.nullified
                   /\ \E root \in row.roots \cap sampled : \E id \in DOMAIN Cells(root) :
                         /\ text = <<root, k, id>>
                         /\ Cells(root)[id].row = row /\ ColumnOf(Cells(root)[id]) = column

ReplacementsMatch == EveryTargetAccounted /\ TextsBelong
=============================================================================
