---------------------------- MODULE EngordaCommands ---------------------------
(***************************************************************************)
(* The commands of datagen/engorda_tables.py: what each phase asks of its   *)
(* arguments, what a plan freezes, what a materialization takes from its    *)
(* plan, from its reservation and from its own arguments, and which of      *)
(* these it compares. Commands come from the runner, in pairs, or from a    *)
(* hand that may name another plan or repeat, change or forget an option;   *)
(* between two commands the day changes, Oracle fills and specs.json is     *)
(* edited. How keys are made and rows cloned is in EngordaJob, how a        *)
(* selection and a snapshot hold in PlanHandoff. A refused command changes  *)
(* nothing.                                                                 *)
(***************************************************************************)
EXTENDS Integers, FiniteSets, Sequences

CONSTANTS
    Null,
    Products,     \* name -> [tables, static, nullified, cdb]
    Specs,        \* the versions of specs.json: table -> is it static?
    RawRows,      \* table -> rows per root in RAW
    RawMax,       \* table -> its last key in RAW
    TypeOf,       \* root of RAW -> NUM_TIPO_IF
    Missing,      \* roots that Oracle lacks a parent of
    Env,          \* the DATAGEN_ variables: [raw, base, synthetic, prefix]
    Uris,         \* where plans and their reservations are written
    Orders,       \* what the runner is configured to make of a product
    Commands,     \* commands typed by hand, with the options they give
    DefaultPrefix,
    Moves         \* how often the day changes, Oracle fills or specs.json is edited

VARIABLES
    planned,      \* uri -> the plan artifact there, or Null
    commanded,    \* uri -> the command that planned it and the world it met
    reservations, \* uri -> the reservation for that plan, or Null
    free,         \* the first key, per table, and the first ordinal never reserved
    published,    \* the outputs in the object store, by their path
    world         \* [day, spec, top: table -> last key in Oracle, code, moves]

vars == <<planned, commanded, reservations, free, published, world>>

Root == "INSTRUMENTO_FINANCEIRO"
Operation == "OPERACAO"

-----------------------------------------------------------------------------
(* The arguments.                                                           *)

Live(c) == ~c.dry_run /\ ~c.no_oracle

\* parse_arguments, and _validate_engorda_job again.
NamesItsInputs(c) ==
    /\ Cardinality({f \in {"num_ifs", "n"} : c[f] # Null}) = IF c.phase = "materialize" THEN 0 ELSE 1
    /\ c.phase # "all" => Null \notin {c.plan_uri, c.raw, c.output}
    /\ c.phase = "materialize" => c.reservation_uri # Null

\* _validate_engorda_job. Every product of the catalogue makes meu-numeros.
Valid(c) ==
    /\ NamesItsInputs(c)
    /\ c.allocator = "synthetic_cdb" =>
           Products[c.product].cdb /\ c.phase # "all" /\ Live(c)
    /\ {Root, Operation} \cap c.static = {}
    /\ c.date # Null => ~Live(c) \/ c.phase = "materialize"
    /\ c.phase = "all" => ~Live(c) /\ c.prefix # Null

\* get_engorda_env with the overrides, and clone_base_path.
Raw(c) == IF c.raw # Null THEN c.raw ELSE Env.raw

Output(c) ==
    IF c.output # Null THEN c.output
    ELSE Env.base \o (IF c.clone_prefix # Null THEN c.clone_prefix
                      ELSE IF Env.prefix # Null THEN Env.prefix
                      ELSE <<"sintetizacao", c.product>>)

\* _valida_destino, and _assert_exact_output_absent.
DestinationOK(c) ==
    LET out == Output(c)
        Covers(a, b) == Len(a) <= Len(b) /\ \A i \in DOMAIN a : a[i] = b[i]
    IN  /\ ~Covers(out, Raw(c)) /\ ~Covers(Raw(c), out)
        /\ IF c.output = Null THEN ~Covers(out, Env.synthetic)
                              ELSE out \notin DOMAIN published

\* executa_clonagem: the tables to clone are the product's and those the specs
\* leave free, but for what the profile or the command makes static.
TablesKnown(c) == Products[c.product].tables \subseteq DOMAIN Specs[world.spec]

TablesOf(c) ==
    (Products[c.product].tables \cup {t \in DOMAIN Specs[world.spec] : ~Specs[world.spec][t]})
        \ (Products[c.product].static \cup c.static)

-----------------------------------------------------------------------------
(* Planning.                                                                *)

\* Only with Oracle are roots turned away whose parents are missing there.
Pool(c) == IF Live(c) THEN DOMAIN TypeOf \ Missing ELSE DOMAIN TypeOf

Selections(c) ==
    IF c.num_ifs # Null THEN {c.num_ifs} \cap SUBSET Pool(c)
    ELSE IF Cardinality(Pool(c)) >= c.n THEN {S \in SUBSET Pool(c) : Cardinality(S) = c.n}
         ELSE {S \in {Pool(c)} : c.adjust /\ S # {}}

\* _ajusta_fator_k_por_dominio
Factor(c, S) ==
    IF c.n # Null /\ c.adjust /\ Cardinality(S) < c.n
    THEN (c.n * c.k + Cardinality(S) - 1) \div Cardinality(S) ELSE c.k

\* _deriva_tipo_oracle_do_lote: the type of all roots, or the one that is
\* expected of roots of several types.
Derived(S, expected) ==
    LET types == {TypeOf[r] : r \in S}
    IN  IF Cardinality(types) > 1 THEN {expected} \ {Null}
        ELSE {type \in types : expected \in {Null, type}}

Allocator(c) == IF c.allocator = Null THEN "oracle_if21" ELSE c.allocator

\* With synthetic codes no type is expected, and CDB's is the only one.
TypesFor(c, S) ==
    IF Allocator(c) = "synthetic_cdb"
    THEN {type \in Derived(S, Null) : type = 49 /\ c.tipo \in {Null, type}}
    ELSE Derived(S, c.tipo)

\* The date of all rows: Oracle's, or without Oracle the given one or the
\* run's own.
DateOf(c) ==
    IF Live(c) THEN world.day
    ELSE IF c.date # Null THEN c.date
    ELSE IF c.ts # Null THEN c.ts ELSE world.day

Greater(a, b) == IF a > b THEN a ELSE b

\* monta_plano without a band (CloneGraph has it), and _apply_oracle_pk_floors.
FirstKey(c, t) ==
    LET above == IF t = Root /\ c.offset # Null THEN c.offset ELSE RawMax[t] + 1
    IN  IF Live(c) THEN Greater(above, world.top[t] + 1) ELSE above

OffsetOK(c) == c.offset # Null => c.offset > RawMax[Root]

\* _build_engorda_plan. Its body is what plan_id hashes.
Frozen(c, S, type) ==
    LET k == Factor(c, S)
    IN  [ product |-> c.product, roots |-> S, k |-> k, date |-> DateOf(c),
          ts |-> IF c.ts # Null THEN c.ts ELSE world.day,
          raw |-> Raw(c), output |-> Output(c), specs |-> c.specs, spec |-> world.spec,
          faltantes |-> c.faltantes, query |-> c.query,
          term |-> c.term, nullified |-> Products[c.product].nullified \cup c.nullified,
          tables |-> [t \in TablesOf(c) |->
                        [count |-> Cardinality(S) * RawRows[t] * k, step |-> c.step,
                         minimum |-> FirstKey(c, t)]],
          cod_if |-> [strategy |-> Allocator(c), type |-> type, count |-> Cardinality(S) * k,
                      minimum |-> IF Allocator(c) = "synthetic_cdb" THEN world.code + 1 ELSE 0],
          meu |-> [requested |-> c.prefix, date |-> DateOf(c),
                   count |-> Cardinality(S) * RawRows[Operation] * k],
          oracle_access |-> IF c.no_oracle THEN "disabled" ELSE "live" ]

\* executar_job and executa_clonagem with phase "plan".
Plan(c) ==
    /\ c.phase = "plan" /\ Valid(c) /\ ~c.dry_run
    /\ planned[c.plan_uri] = Null
    /\ TablesKnown(c) /\ OffsetOK(c)
    /\ \E S \in Selections(c) : \E type \in TypesFor(c, S) :
           planned' = [planned EXCEPT ![c.plan_uri] = Frozen(c, S, type)]
    /\ commanded' = [commanded EXCEPT ![c.plan_uri] = [command |-> c, world |-> world]]
    /\ UNCHANGED <<reservations, free, published, world>>

-----------------------------------------------------------------------------
(* Reserving: LedgerAllocation in a step. The minimum of a plan made without *)
(* Oracle is above RAW only.                                                *)

Reserve(u) ==
    /\ planned[u] # Null /\ reservations[u] = Null
    /\ LET p == planned[u]
           start == [t \in DOMAIN p.tables |-> Greater(free.keys[t], p.tables[t].minimum)]
           end(t) == start[t] + (p.tables[t].count - 1) * p.tables[t].step
           next(t) == end(t) + p.tables[t].step
           code == Greater(free.code, p.cod_if.minimum)
           synthetic == p.cod_if.strategy = "synthetic_cdb"
       IN  /\ reservations' = [reservations EXCEPT ![u] =
                [ plan |-> p, product |-> p.product,
                  tables |-> [t \in DOMAIN p.tables |->
                                [start |-> start[t], end |-> end(t), step |-> p.tables[t].step,
                                 count |-> p.tables[t].count]],
                  cod_if |-> IF synthetic THEN [start |-> code, count |-> p.cod_if.count] ELSE Null,
                  meu |-> [prefix |-> IF p.meu.requested = Null THEN DefaultPrefix
                                                                 ELSE p.meu.requested,
                           date |-> p.meu.date, count |-> p.meu.count,
                           start |-> free.ordinal, end |-> free.ordinal + p.meu.count - 1] ]]
           /\ free' = [ keys |-> [t \in DOMAIN free.keys |->
                                    IF t \in DOMAIN p.tables THEN next(t) ELSE free.keys[t]],
                        code |-> IF synthetic THEN code + p.cod_if.count ELSE free.code,
                        ordinal |-> free.ordinal + p.meu.count ]
    /\ UNCHANGED <<planned, commanded, published, world>>

-----------------------------------------------------------------------------
(* Materializing.                                                           *)

\* What the job repeats of its plan, it must repeat as it is there; what it
\* only says again without need is ignored: the factor, the step, the offset,
\* the term, the columns to nullify and the timestamp are the plan's.
Rebuilt(c, p) ==
    [p EXCEPT !.product = c.product, !.raw = Raw(c), !.output = Output(c), !.specs = c.specs,
              !.spec = world.spec, !.faltantes = c.faltantes, !.query = c.query,
              !.nullified = Products[c.product].nullified \cup p.nullified,
              !.oracle_access = IF c.no_oracle THEN "disabled" ELSE "live"]

AgreesWithPlan(c, p) ==
    /\ Rebuilt(c, p) = p
    /\ c.allocator \in {Null, p.cod_if.strategy}
    /\ c.date \in {Null, p.date}
    /\ c.tipo \in {Null, p.cod_if.type}
    /\ TablesOf(c) = DOMAIN p.tables

\* _validate_cod_if_plan
CodesOK(p) ==
    p.cod_if.strategy = "synthetic_cdb" =>
        /\ Products[p.product].cdb /\ p.oracle_access = "live" /\ p.cod_if.type = 49
        /\ p.cod_if.count = p.tables[Root].count

\* _validate_reservation_artifact
Fits(r, p) ==
    /\ r.plan = p /\ r.product = p.product /\ CodesOK(p)
    /\ IF p.cod_if.strategy = "synthetic_cdb"
       THEN r.cod_if # Null /\ r.cod_if.count = p.cod_if.count /\ r.cod_if.start >= p.cod_if.minimum
       ELSE r.cod_if = Null
    /\ DOMAIN r.tables = DOMAIN p.tables
    /\ \A t \in DOMAIN p.tables :
           LET own == r.tables[t]
           IN  /\ own.step = p.tables[t].step /\ own.count = p.tables[t].count
               /\ own.start >= p.tables[t].minimum
               /\ own.end = own.start + (own.count - 1) * own.step
    /\ r.meu.date = p.meu.date /\ r.meu.count = p.meu.count
    /\ p.meu.requested \in {Null, r.meu.prefix}
    /\ r.meu.start >= 1 /\ r.meu.end = r.meu.start + r.meu.count - 1

\* _validate_reservation_live_pk_floors, and _assert_cdb_range_available
StillFree(r) ==
    /\ \A t \in DOMAIN r.tables : r.tables[t].start > world.top[t]
    /\ r.cod_if # Null => r.cod_if.start > world.code

Accepts(c, p, r) ==
    /\ Valid(c) /\ TablesKnown(c)
    /\ AgreesWithPlan(c, p) /\ Fits(r, p)
    /\ Live(c) => StillFree(r)
    /\ DestinationOK(c)

Publish(path, output) ==
    published' = [other \in DOMAIN published \cup {path} |->
                     IF other = path THEN output ELSE published[other]]

\* The clones: tables as the specs and the command have them, everything else
\* from the plan and the reservation. A dry run writes nothing.
Materialize(c) ==
    /\ c.phase = "materialize" /\ ~c.dry_run
    /\ LET p == planned[c.plan_uri]
           r == reservations[c.reservation_uri]
       IN  /\ p # Null /\ r # Null
           /\ Accepts(c, p, r)
           /\ Publish(Output(c),
                [ plan |-> c.plan_uri, live |-> Live(c), roots |-> p.roots, k |-> p.k,
                  date |-> p.date, term |-> p.term, nullified |-> p.nullified,
                  tables |-> [t \in TablesOf(c) |-> [start |-> r.tables[t].start,
                                                     step |-> p.tables[t].step,
                                                     count |-> p.tables[t].count]],
                  prefix |-> r.meu.prefix, ordinals |-> r.meu.start .. r.meu.end,
                  top |-> world.top ])
    /\ UNCHANGED <<planned, commanded, reservations, free, world>>

\* Phase "all", which Oracle's keys and codes are out of reach of.
All(c) ==
    /\ c.phase = "all" /\ Valid(c) /\ ~c.dry_run
    /\ TablesKnown(c) /\ OffsetOK(c) /\ DestinationOK(c)
    /\ \E S \in Selections(c) : \E type \in TypesFor(c, S) :
           LET p == Frozen(c, S, type)
           IN  Publish(Output(c),
                [ plan |-> Null, live |-> FALSE, roots |-> S, k |-> p.k, date |-> p.date,
                  term |-> p.term, nullified |-> p.nullified,
                  tables |-> [t \in DOMAIN p.tables |->
                                [start |-> p.tables[t].minimum, step |-> c.step,
                                 count |-> p.tables[t].count]],
                  prefix |-> c.prefix, ordinals |-> 1 .. p.meu.count, top |-> world.top ])
    /\ UNCHANGED <<planned, commanded, reservations, free, world>>

-----------------------------------------------------------------------------
(* The runner's commands (build_engorda_plan_argv and                        *)
(* build_engorda_materialize_argv), and the rest of the world.               *)

\* parse_arguments: what an option is that a command leaves out.
Defaults ==
    [ num_ifs |-> Null, n |-> Null, k |-> 1, prefix |-> Null, step |-> 1, offset |-> Null,
      static |-> {}, date |-> Null, ts |-> Null, term |-> Null, nullified |-> {}, tipo |-> Null,
      allocator |-> Null, query |-> Null, adjust |-> TRUE, dry_run |-> FALSE, no_oracle |-> FALSE,
      specs |-> Null, clone_prefix |-> Null, faltantes |-> Null, plan_uri |-> Null,
      reservation_uri |-> Null, raw |-> Null, output |-> Null ]

Parsed(given) ==
    [option \in DOMAIN Defaults \cup DOMAIN given |->
        IF option \in DOMAIN given THEN given[option] ELSE Defaults[option]]

PlanArgv(o) ==
    Parsed([phase |-> "plan", product |-> o.product, raw |-> o.raw, output |-> o.output,
            faltantes |-> o.faltantes, plan_uri |-> o.uri, specs |-> o.specs, query |-> o.query,
            allocator |-> o.allocator, no_oracle |-> o.no_oracle,
            n |-> o.n, k |-> o.k, prefix |-> o.prefix, date |-> o.date])

MaterializeArgv(o) ==
    Parsed([phase |-> "materialize", product |-> o.product, raw |-> o.raw, output |-> o.output,
            faltantes |-> o.faltantes, plan_uri |-> o.uri, specs |-> o.specs, query |-> o.query,
            allocator |-> o.allocator, no_oracle |-> o.no_oracle, reservation_uri |-> o.uri])

Issued ==
    {Parsed(c) : c \in Commands}
        \cup {PlanArgv(o) : o \in Orders} \cup {MaterializeArgv(o) : o \in Orders}

\* What parsing and validation let through of the numbers (11693), and what
\* the catalogue and RAW are. A table without rows needs no keys, and is left
\* out.
CommandsArePossible ==
    /\ Null \notin [start : Nat, count : Nat]
    /\ IsFiniteSet(DOMAIN TypeOf) /\ 1 \in DOMAIN Specs
    /\ RawMax \in [DOMAIN RawMax -> Nat] /\ \A t \in DOMAIN RawMax : RawRows[t] \in Nat \ {0}
    /\ {Root, Operation} \subseteq DOMAIN RawMax /\ RawRows[Root] = 1
    /\ \A v \in DOMAIN Specs : DOMAIN Specs[v] \subseteq DOMAIN RawMax
    /\ \A name \in DOMAIN Products :
          /\ Products[name].tables \subseteq DOMAIN RawMax
          /\ Root \in Products[name].tables \ Products[name].static
    /\ \A o \in Orders : o.uri \in Uris
    /\ \A c \in Issued :
          /\ c.product \in DOMAIN Products
          /\ c.no_oracle \in BOOLEAN /\ c.dry_run \in BOOLEAN
          /\ {c.plan_uri, c.reservation_uri} \subseteq Uris \cup {Null}
          /\ {c.k, c.step} \subseteq Nat \ {0}
          /\ {c.n, c.offset} \subseteq (Nat \ {0}) \cup {Null}

NextDay == world' = [world EXCEPT !.day = @ + 1, !.moves = @ + 1]

\* Others insert past the last keys and codes.
Insert ==
    world' = [world EXCEPT !.top = [t \in DOMAIN @ |-> @[t] + 5], !.code = @ + 5, !.moves = @ + 1]

EditSpecs == \E v \in DOMAIN Specs : world' = [world EXCEPT !.spec = v, !.moves = @ + 1]

Move ==
    /\ world.moves < Moves
    /\ NextDay \/ Insert \/ EditSpecs
    /\ UNCHANGED <<planned, commanded, reservations, free, published>>

Init ==
    /\ planned = [u \in Uris |-> Null] /\ commanded = planned /\ reservations = planned
    /\ free = [keys |-> [t \in DOMAIN RawMax |-> 1], code |-> 1, ordinal |-> 1]
    /\ published = <<>>
    /\ world = [day |-> 1, spec |-> 1, top |-> RawMax, code |-> 3, moves |-> 0]

\* Nobody has to ask for more.
Rest == UNCHANGED vars

Next ==
    \/ \E c \in Issued : Plan(c) \/ Materialize(c) \/ All(c)
    \/ \E u \in Uris : Reserve(u)
    \/ Move \/ Rest

Spec == Init /\ [][Next]_vars

-----------------------------------------------------------------------------
(* Properties.                                                              *)

KeysOf(range) == {range.start + i * range.step : i \in 0 .. range.count - 1}

\* What was published from a plan is what the command that made the plan asked
\* for, in the world it met, whichever command published it and when: the
\* tables, the volume, the date, the term, the step and the prefix. Its keys are
\* above RAW's and, if it may be loaded, above Oracle's when it was made.
MadeAsPlanned ==
    \A path \in DOMAIN published :
        LET o == published[path]
        IN  o.plan # Null =>
              LET c == commanded[o.plan].command
                  met == commanded[o.plan].world
              IN  /\ o.live = Live(c)
                  /\ path = c.output
                  /\ IF c.num_ifs # Null THEN o.roots = c.num_ifs /\ o.k = c.k
                     ELSE Cardinality(o.roots) * o.k >= c.n * c.k
                  /\ o.date = IF Live(c) THEN met.day
                              ELSE IF c.date # Null THEN c.date
                              ELSE IF c.ts # Null THEN c.ts ELSE met.day
                  /\ o.term = c.term /\ c.nullified \subseteq o.nullified
                  /\ o.prefix = IF c.prefix # Null THEN c.prefix ELSE DefaultPrefix
                  /\ c.static \cap DOMAIN o.tables = {}
                  /\ \A t \in DOMAIN o.tables :
                        /\ ~Specs[met.spec][t] \/ t \in Products[c.product].tables
                        /\ o.tables[t].step = c.step
                        /\ o.tables[t].count = Cardinality(o.roots) * RawRows[t] * o.k
                        /\ o.tables[t].start > RawMax[t]
                        /\ o.live => o.tables[t].start > o.top[t]

\* Outputs that may be loaded share no key and no meu-numero of one prefix.
\* What is made without a plan may not be loaded.
OutputsApart ==
    \A a, b \in DOMAIN published :
        a # b /\ published[a].live /\ published[b].live =>
            LET x == published[a]
                y == published[b]
            IN  /\ \A t \in DOMAIN x.tables \cap DOMAIN y.tables :
                      KeysOf(x.tables[t]) \cap KeysOf(y.tables[t]) = {}
                /\ x.prefix = y.prefix => x.ordinals \cap y.ordinals = {}

\* The second command of the runner's pair is accepted as long as the specs
\* are the same, Oracle has not reached the reserved keys, and the destination
\* is one that may be written.
PairGoesThrough ==
    \A o \in Orders :
        LET c == MaterializeArgv(o)
            p == planned[o.uri]
            r == reservations[o.uri]
        IN  r # Null /\ commanded[o.uri].command = PlanArgv(o)
            /\ p.spec = world.spec /\ (p.oracle_access = "live" => StillFree(r)) /\ DestinationOK(c)
            => Accepts(c, p, r)

CommandsAreKept == MadeAsPlanned /\ OutputsApart /\ PairGoesThrough
=============================================================================
