--------------------------- MODULE ProductValidation ---------------------------
(***************************************************************************)
(* scripts/validate_products.py on the output of one CDB or RDB product:    *)
(* the findings of the checks that look at the structure of the output, and *)
(* the verdict. An output is a set of instruments of ProductDomain and the  *)
(* tables that could be read; a missing table is a warning, an error or     *)
(* nothing, check by check.                                                 *)
(*                                                                         *)
(* A finding that does not pass is [check |-> <<group, name>>, severity];   *)
(* --skip-check takes groups. Metadata, capacity, foreign keys, shapes and  *)
(* the registration profile are not modelled: they need Oracle's catalogue  *)
(* or a baseline.                                                           *)
(***************************************************************************)
EXTENDS ProductDomain

Subtypes == {"JUROS_FIXO", "JUROS_FLUTUANTE", "RESGATE"}

Tables == QueryTables \cup Subtypes \cup {"CONDICAO_RESGATE", "EVENTO", "MAPA_CLONE_NUM_IF"}

Finding(severity, group, name, bad) ==
    IF bad THEN {[check |-> <<group, name>>, severity |-> severity]} ELSE {}

Error(group, name, bad) == Finding("ERROR", group, name, bad)
Warn(group, name, bad) == Finding("WARN", group, name, bad)

-----------------------------------------------------------------------------
(* The profiles.                                                            *)

\* PRODUCTS of scripts/run_pipeline.py
ProfileOf(product) ==
    IF product \in {"cdb_resgate", "cdb_escalonamento"} THEN "cdb" ELSE product

TypeOf(profile) == IF profile \in Rdb THEN 50 ELSE 49

Unsupported(profile) ==
    CASE profile = "cdb" -> {"polymorphism"}
      [] profile \in Rdb -> {"polymorphism", "lookup_tos", "platform", "modalidade",
                             "cod_if_format", "shape", "registration_profile"}
      [] OTHER -> {}

-----------------------------------------------------------------------------
(* Identity and capabilities; neither can be skipped.                       *)

CheckProductIdentity(profile, out, tables) ==
    LET root == "INSTRUMENTO_FINANCEIRO" \in tables
    IN  Error("0.identity", "absent", ~root)
        \cup Error("0.identity", "type", root /\ \A i \in out : i.type # TypeOf(profile))
        \cup Error("0.identity", "mixed", root /\ \E i \in out : i.type # TypeOf(profile))

CapabilityFindings(profile) ==
    UNION {Warn("0.capability", capability, TRUE) : capability \in Unsupported(profile)}

-----------------------------------------------------------------------------
(* check_polymorphism: which subtype tables hold a row of a condition.      *)

CheckPolymorphism(out, tables) ==
    LET conditions == UNION {i.conditions : i \in out}
        In(c) == c.tables \cap tables
        known(c) == c.type \in DOMAIN SubtypeTable
    IN  IF "CONDICAO_IF" \notin tables THEN Warn("1", "polymorphism", TRUE)
        ELSE IF Subtypes \cap tables = {} THEN Error("1", "no_subtype_rows", TRUE)
        ELSE Error("1", "dangling_condicao_if", \E c \in conditions : In(c) = {})
             \cup Error("1", "ambiguous_subtype", \E c \in conditions : Cardinality(In(c)) > 1)
             \cup Error("1", "subtype_mismatch",
                        \E c \in conditions :
                            Cardinality(In(c)) = 1 /\ known(c) /\ In(c) # {SubtypeTable[c.type]})
             \cup Warn("1", "unknown_tipo", \E c \in conditions : ~known(c))

-----------------------------------------------------------------------------
(* build_eligible_num_ifs and check_domain.                                 *)

RootsOf(profile, out) == {i \in out : i.type = TypeOf(profile)}

Eligible(profile, i) ==
    LET simplified == profile = "cdb_simplificado"
    IN  /\ simplified => i.escalation = Null
        /\ \E c \in Active(i) :
              ActiveIn(c, "RESGATE") /\ (simplified => c.mode = "SEM TABELA")
        /\ \E c \in Active(i) : c.type # "20"
        /\ i.deposit # "none"
        /\ \E o \in i.operations : o.dados > 0 /\ o.booked

CheckDomain(profile, out, tables) ==
    IF "INSTRUMENTO_FINANCEIRO" \notin tables THEN Error("2.domain", "domain", TRUE)
    ELSE IF ~(QueryTables \subseteq tables) THEN Warn("2.domain", "availability", TRUE)
    ELSE Error("2.domain", "domain", \E i \in RootsOf(profile, out) : ~Eligible(profile, i))

-----------------------------------------------------------------------------
(* The redemption schedules, of CDB and of RDB. The schedules of an output  *)
(* are looked at whoever their condition belongs to.                        *)

\* Active conditions of type 20 with an active RESGATE: the parents, and those
\* of them with a table.
ComTabelaOf(profile, out) == UNION {ComTabela(i) : i \in RootsOf(profile, out)}

Coverage(profile, out, tables) ==
    \E c \in ComTabelaOf(profile, out) :
        "CONDICAO_RESGATE" \notin tables \/ ActiveSchedules(c) = {}

Orphaned(profile, out) ==
    \E i \in out : \E c \in i.conditions :
        ActiveSchedules(c) # {} /\ c \notin ComTabelaOf(profile, out)

\* Each schedule with its instrument and its condition.
SchedulesOf(out) ==
    UNION {UNION {{<<i, c, s>> : s \in ActiveSchedules(c)} : c \in i.conditions} : i \in out}

SameDate(c, s) == \E r \in ActiveSchedules(c) : r # s /\ r.date = s.date /\ s.date # Null

\* Before the emission, or after the maturity or the redemption.
OutOfBounds(i, c, s) ==
    /\ c \in ComTabela(i) /\ s.date # Null
    /\ \/ i.emission # Null /\ s.date < i.emission
       \/ i.maturity # Null /\ s.date > i.maturity
       \/ c.redemption # Null /\ s.date > c.redemption

\* The percentages of consecutive dates must grow.
NotGrowing(c, s) ==
    \E r \in ActiveSchedules(c) :
        /\ Valued(r) /\ Valued(s) /\ r.date < s.date /\ s.percent <= r.percent
        /\ \A q \in ActiveSchedules(c) :
              ~(Valued(q) /\ r.date < q.date /\ q.date < s.date)

\* How grave a wrong date is, is for the family to say.
ScheduleFindings(dates, group, profile, out, tables) ==
    LET present == "CONDICAO_RESGATE" \in tables
        schedules == IF present THEN SchedulesOf(out) ELSE {}
        bounded == IF present THEN SchedulesOf(RootsOf(profile, out)) ELSE {}
    IN  Error(group, "schedule_coverage", Coverage(profile, out, tables))
        \cup Error(group, "schedule_parent", present /\ Orphaned(profile, out))
        \cup Error(group, "schedule_values", \E x \in schedules : ~Valued(x[3]))
        \cup Finding(dates, group, "schedule_unique_dates",
                     \E x \in schedules : SameDate(x[2], x[3]))
        \cup Finding(dates, group, "schedule_dates",
                     \E x \in bounded : OutOfBounds(x[1], x[2], x[3]))

-----------------------------------------------------------------------------
(* check_cdb_variant_rules: only under the profile "cdb".                   *)

Core == {"INSTRUMENTO_FINANCEIRO", "TITULO", "CONDICAO_IF", "RESGATE"}

Segments(i) == {c \in Active(i) : c.type = "3"}

\* The segments that have their interest row, excluded or not.
Floating(i) == {c \in Segments(i) : "JUROS_FLUTUANTE" \in c.tables}

SegmentOutOfBounds(i) ==
    \E c \in Floating(i) :
        \/ c.start = Null
        \/ i.emission # Null /\ c.start < i.emission
        \/ i.maturity # Null /\ c.start > i.maturity

FirstNotAtEmission(i) ==
    LET starts == {c.start : c \in Floating(i)} \ {Null}
    IN  /\ Floating(i) # {}
        /\ starts = {} \/ i.emission = Null \/ i.emission \notin starts
              \/ \E start \in starts : start < i.emission

EscalationFindings(profile, out, tables) ==
    LET titles == {i \in RootsOf(profile, out) : i.escalation = "EMISSAO"}
        present == "JUROS_FLUTUANTE" \in tables
    IN  Error("2b.", "escalonamento_coverage",
              \E i \in titles : ~present \/ Segments(i) = {} \/ Floating(i) # Segments(i))
        \cup Error("2b.", "escalonamento_dates",
                   present /\ \E i \in titles : SegmentOutOfBounds(i) \/ FirstNotAtEmission(i))
        \cup Error("2b.", "escalonamento_unique_dates",
                   present /\ \E i \in titles : \E c, d \in Floating(i) :
                       c # d /\ c.start = d.start /\ c.start # Null)

CheckCdbVariantRules(profile, out, tables) ==
    IF profile # "cdb" THEN {}
    ELSE IF ~(Core \subseteq tables) THEN Warn("2b.", "availability", TRUE)
    ELSE ScheduleFindings("ERROR", "2b.", profile, out, tables)
         \cup EscalationFindings(profile, out, tables)

-----------------------------------------------------------------------------
(* check_rdb_resgate_schedule_rules: only of the two RDB profiles.          *)

ExpectedMode(profile) == IF profile = "rdb_inclusao" THEN "SEM TABELA" ELSE "COM TABELA"

OneRedemption(profile, i) ==
    /\ Cardinality({c \in Active(i) : c.type = "20"}) = 1
    /\ \E c \in Redemptions(i) : c.mode = ExpectedMode(profile)

RdbFindings(profile, out, tables) ==
    LET roots == RootsOf(profile, out)
        inclusion == profile = "rdb_inclusao"
    IN  Error("2c.", "variant_resgate_mode", \E i \in roots : ~OneRedemption(profile, i))
        \cup Error("2c.", "redeemed_quantity",
                   inclusion /\ ("TITULO" \notin tables \/ \E i \in roots : i.redeemed # 0))
        \cup Warn("2c.", "schedule_percentages",
                  "CONDICAO_RESGATE" \in tables
                      /\ \E x \in SchedulesOf(out) : NotGrowing(x[2], x[3]))

CheckRdbScheduleRules(profile, out, tables) ==
    IF profile \notin Rdb THEN {}
    ELSE IF ~(Core \ {"TITULO"} \subseteq tables) THEN Error("2c.", "availability", TRUE)
    ELSE RdbFindings(profile, out, tables)
         \cup ScheduleFindings("WARN", "2c.", profile, out, tables)

-----------------------------------------------------------------------------
(* check_event_condition_families: the types of events present, over the    *)
(* whole output, say which tables must be there.                            *)

CheckEventFamilies(out, tables) ==
    LET types == {e.type : e \in UNION {ActiveEvents(i) : i \in out}}
        needed == {"CONDICAO_IF"} \cup {SubtypeTable[FamilyOf(t)] : t \in types}
    IN  IF "EVENTO" \notin tables THEN Warn("8", "event_condition_family", TRUE)
        ELSE IF types = {} THEN {}
        ELSE Error("8", "event_condition_family",
                   ~(needed \subseteq tables) \/ \E i \in out : EventoSemFamilia(i))

-----------------------------------------------------------------------------
(* check_dates, check_primary_keys and check_clone_map, as far as they are  *)
(* about these rows: a table that is not there is passed over.              *)

After(left, right) == left # Null /\ right # Null /\ left > right

CheckDates(out, tables) ==
    Error("5.", "date_order",
          \/ "INSTRUMENTO_FINANCEIRO" \in tables /\ \E i \in out : After(i.emission, i.maturity)
          \/ "CONDICAO_IF" \in tables /\ \E i \in out : \E c \in i.conditions : After(c.start, c.end))

CheckKeysAndMap(tables, noOracle) ==
    Warn("3b.", "pk_unsupported", noOracle)
    \cup Warn("3c.", "clone_map", "MAPA_CLONE_NUM_IF" \notin tables)

-----------------------------------------------------------------------------
(* check_required_lookup_frames: the accounts of the title, the deposit and *)
(* the operations of registry, and the operations themselves.               *)

RefsOf(i, operations) ==
    ({i.title, i.deposit} \cup UNION {{o.p1, o.p2} : o \in operations}) \ {Null, "none"}

RegistryRefs(i) == RefsOf(i, {o \in i.operations : Registered(o)})

AcceptedAccounts(profile) == {"eligible"} \cup (IF profile \in Rdb THEN {"second"} ELSE {})

\* Without Oracle no operation can be told to be of registry.
BadAccount(profile, i, noOracle) ==
    IF noOracle THEN RefsOf(i, i.operations) \ {"blank"} # {}
    ELSE ~(RegistryRefs(i) \subseteq AcceptedAccounts(profile))

BadOperations(i) ==
    \/ \A o \in i.operations : ~Registered(o)
    \/ \E o \in i.operations : o.route = "foreign"

CheckLookups(profile, out, tables, noOracle) ==
    Error("6.required", "active_account",
          \/ ~({"TITULO", "DEPOSITO_AUTOMATICO_IF", "OPERACAO"} \subseteq tables)
          \/ \E i \in out : BadAccount(profile, i, noOracle))
    \cup Error("6.required", "operation_tos",
               \/ noOracle \/ ~({"OPERACAO", "INSTRUMENTO_FINANCEIRO"} \subseteq tables)
               \/ \E i \in out : BadOperations(i))
    \cup Warn("6.combo", "no_jdbc", noOracle /\ "OPERACAO" \in tables)

-----------------------------------------------------------------------------
(* main and emit_report.                                                    *)

AlwaysReported(profile, out, tables) ==
    CheckProductIdentity(profile, out, tables) \cup CapabilityFindings(profile)

Skippable(profile, out, tables, noOracle) ==
    CheckPolymorphism(out, tables)
    \cup CheckDomain(profile, out, tables)
    \cup CheckCdbVariantRules(profile, out, tables)
    \cup CheckRdbScheduleRules(profile, out, tables)
    \cup CheckKeysAndMap(tables, noOracle)
    \cup CheckDates(out, tables)
    \cup CheckLookups(profile, out, tables, noOracle)
    \cup CheckEventFamilies(out, tables)

\* `only`: --tables was given. `tables`: what of the output could be read.
Findings(call, out, tables) ==
    AlwaysReported(call.profile, out, tables)
    \cup {f \in Skippable(call.profile, out, tables, call.noOracle) : f.check[1] \notin call.skip}

Failing(findings, failAt) == {f \in findings : f.severity = "ERROR" \/ failAt = "WARN"}

\* What keeps a validation without failures from being a PASS.
Incomplete(call, findings) ==
    \/ call.only \/ call.noOracle \/ call.skip # {}
    \/ Unsupported(call.profile) # {}
    \/ \E f \in findings : f.severity = "WARN"

Verdict(call, findings) ==
    IF Failing(findings, call.failAt) # {} THEN "FAIL"
    ELSE IF Incomplete(call, findings) THEN "PARTIAL" ELSE "PASS"

ExitCode(call, verdict) ==
    IF verdict = "PASS" \/ (call.allowPartial /\ verdict = "PARTIAL") THEN 0 ELSE 1
=============================================================================
