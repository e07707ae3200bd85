--------------------------- MODULE PipelineLineage ---------------------------
(***************************************************************************)
(* The way of one synthetic output through several runs of the pipeline     *)
(* (scripts/run_pipeline.py): adopt-inputs registers what there is, a run    *)
(* plans an interval of stages on what an upstream manifest names and on    *)
(* what it is going to write itself (build_pipeline_plan), and its own      *)
(* manifest is the upstream of later runs. What was made without Oracle may *)
(* never be loaded; the mark of it is in the options, in the descriptors of *)
(* the manifests, in the plan, in a file of the output and in the report.   *)
(*                                                                         *)
(* The paths of a product follow from its run, so that <<run, product>>     *)
(* stands for each of its artifacts, and <<0, product>> for an output that  *)
(* no run made. Runs have different ids and one          *)
(* environment. How nodes are scheduled is in module Scheduler, the lease,  *)
(* resuming and unknown states of a load in LoadProtocol, the reservation   *)
(* between a plan and its materialization in Reservation.                   *)
(***************************************************************************)
EXTENDS Naturals, Sequences, FiniteSets

LOCAL INSTANCE TLC

CONSTANTS
    Registry,     \* PRODUCTS: [product -> capabilities]
    Validator,    \* [product -> validator_product]
    CdbProducts,  \* CDB_PRODUCTS
    Configs,      \* config files, see ConfigIsValid
    Requests,     \* command lines of run, see Plannable
    Adoptions,    \* the products of command lines of adopt-inputs
    External,     \* what lies at <<0, product>>, see synthetics
    MaxRuns, MaxAdoptions,
    MaxOverlap,   \* the first runs, which may overlap; a later one runs alone
    MaxFaulty     \* runs in which something fails by itself

PublicStages ==      \* and their order
    [extract |-> 1, faltantes |-> 2, engorda |-> 3, validate |-> 4, load |-> 5, verify |-> 6]
TracerStages == {"engorda", "validate", "load"}
OverrideKeys == {"engorda", "validate"}      \* the stages that know no_oracle

Access(noOracle) == IF noOracle THEN "disabled" ELSE "live"

Outputs ==
    [whole : BOOLEAN, marker : BOOLEAN, oracle_access : {"live", "disabled"}]

\* Assumed of the constants. An output from elsewhere has the marker of one that
\* was made without Oracle, as engorda leaves it.
ProductsAreKnown ==
    /\ DOMAIN Validator = DOMAIN Registry /\ CdbProducts \subseteq DOMAIN Registry
    /\ \A p \in DOMAIN Registry : Registry[p] \subseteq TracerStages
    /\ \A outputs \in External : \A uri \in DOMAIN outputs :
        /\ outputs[uri] \in Outputs
        /\ outputs[uri].whole /\ ~outputs[uri].marker => outputs[uri].oracle_access = "live"

VARIABLES
    adopted,     \* the manifests of adopt-inputs
    launched,    \* the plans of the runs so far
    node,        \* per run and product, its next node, "succeeded" or "failed"
    status,      \* per run, the status of its manifest
    drafts,      \* selection plans: their oracle_access
    synthetics,  \* outputs: whole, the offline marker, how they were made
    reports,     \* validation reports
    claims,      \* outputs with a load claim
    loaded       \* what loaders inserted

vars == <<adopted, launched, node, status, drafts, synthetics, reports, claims, loaded>>

-----------------------------------------------------------------------------
(* Planning.                                                                *)

\* load_config. A config has the capabilities of its products, the no_oracle
\* of the stage defaults, the no_oracle options of products, the products
\* with cod_if_allocator synthetic_cdb, and perhaps a load section.
ConfigIsValid(c) ==
    /\ DOMAIN c.capabilities # {} /\ DOMAIN c.capabilities \subseteq DOMAIN Registry
    /\ \A p \in DOMAIN c.capabilities : c.capabilities[p] \subseteq Registry[p]
    /\ DOMAIN c.options \subseteq (DOMAIN c.capabilities) \X OverrideKeys
    /\ (\E p \in DOMAIN c.capabilities : "load" \in c.capabilities[p]) => c.load

StagesOf(q) ==
    { stage \in DOMAIN PublicStages :
        PublicStages[stage] \in PublicStages[q.from] .. PublicStages[q.to] }

\* _product_paths.
Own(r, p) == <<r, p>>

Artifacts == (0 .. MaxRuns) \X DOMAIN Registry

\* Every descriptor names its artifact and what it states of Oracle's access.
Unstated(uri) == [uri |-> uri, oracle_access |-> "unstated"]

\* --no-oracle, else --set, else the product's option, else the stage default.
Asked(c, q, p, stage) ==
    LET stated == q.set @@ c.options
    IN  \/ q.no_oracle /\ stage \in StagesOf(q)
        \/ IF <<p, stage>> \in DOMAIN stated THEN stated[<<p, stage>>] ELSE c.defaults[stage]

EngordaNoOracle(c, q, p) == Asked(c, q, p, "engorda")

\* Mutant: the state of the upstream output is not propagated.
ValidateNoOracleAsAsked(c, q, up, p) ==
    \/ Asked(c, q, p, "validate")
    \/ {"engorda", "validate"} \subseteq StagesOf(q) /\ EngordaNoOracle(c, q, p)

ValidateNoOracle(c, q, up, p) ==
    \/ Asked(c, q, p, "validate")
    \/ /\ "validate" \in StagesOf(q)
       /\ IF "engorda" \in StagesOf(q) THEN EngordaNoOracle(c, q, p)
                                       ELSE up.synthetic[p].oracle_access = "disabled"

SyntheticOf(r, c, q, up, p) ==
    IF "engorda" \in StagesOf(q)
    THEN [uri |-> Own(r, p), oracle_access |-> Access(EngordaNoOracle(c, q, p))]
    ELSE up.synthetic[p]

ReportOf(r, c, q, up, p) ==
    IF "validate" \in StagesOf(q)
    THEN [uri |-> Own(r, p), oracle_access |-> Access(ValidateNoOracle(c, q, up, p))]
    ELSE up.report[p]

\* parse_products, require_configured_products, selected_stages and what
\* build_pipeline_plan asks of the request before it looks at a product.
Answerable(c, q, up) ==
    LET stages == StagesOf(q)
    IN  /\ q.from \in DOMAIN PublicStages /\ q.to \in DOMAIN PublicStages
        /\ q.products # {} /\ q.products \subseteq DOMAIN c.capabilities
        /\ q.products \subseteq up.products
        /\ stages # {} /\ stages \subseteq TracerStages
        /\ q.no_oracle => stages \cap {"engorda", "validate"} # {}
        /\ \A p \in q.products : stages \subseteq c.capabilities[p]
        /\ DOMAIN q.set \subseteq (DOMAIN Registry) \X OverrideKeys
        /\ "engorda" \in stages => up.inputs

\* _artifact_descriptor: what the plan needs of earlier runs is in the lineage.
HasLineage(q, up, p) ==
    /\ "engorda" \notin StagesOf(q) => p \in DOMAIN up.synthetic
    /\ StagesOf(q) = {"load"} => p \in DOMAIN up.report

\* The options fit together. q.date: --data-controle-operacional is given.
\* q.genai: genai_rows is positive (resolve_genai_config, and the preflight of
\* run_command on the policy).
OptionsFit(c, q, p) ==
    /\ q.genai /\ "engorda" \in StagesOf(q) => p \in c.genai
    /\ p \in c.codes => p \in CdbProducts /\ ~EngordaNoOracle(c, q, p)
    /\ q.date => "engorda" \in StagesOf(q) /\ EngordaNoOracle(c, q, p)

LoadEligible(r, c, q, up, p) ==
    LET stages == StagesOf(q)
    IN  /\ ~("engorda" \in stages /\ EngordaNoOracle(c, q, p))
        /\ ~("validate" \in stages /\ ValidateNoOracle(c, q, up, p))
        /\ SyntheticOf(r, c, q, up, p).oracle_access # "disabled"
        /\ ReportOf(r, c, q, up, p).oracle_access # "disabled"

Plannable(r, c, q, up) ==
    /\ ConfigIsValid(c) /\ Answerable(c, q, up)
    /\ \A p \in q.products :
        /\ HasLineage(q, up, p) /\ OptionsFit(c, q, p)
        /\ "load" \in StagesOf(q) => LoadEligible(r, c, q, up, p)

Plan(r, c, q, up) ==
    LET stages == StagesOf(q)
    IN  [products |-> q.products, stages |-> stages, inputs |-> "engorda" \in stages,
         offline |-> { p \in q.products : "engorda" \in stages /\ EngordaNoOracle(c, q, p) },
         unverified |->
            { p \in q.products : "validate" \in stages /\ ValidateNoOracle(c, q, up, p) },
         synthetic |-> [p \in q.products |-> SyntheticOf(r, c, q, up, p)],
         report |-> [p \in { p \in q.products : stages # {"engorda"} } |->
                        ReportOf(r, c, q, up, p)]]

\* What the nodes are told (build_engorda_plan_argv and the others).
EngordaArgv(r, p) == [output_uri |-> Own(r, p), no_oracle |-> p \in launched[r].offline]

MaterializeArgv(r, p) ==
    [plan_uri |-> Own(r, p), output_uri |-> Own(r, p), no_oracle |-> p \in launched[r].offline]

ValidatorArgv(r, p) ==
    [product |-> Validator[p], input_base |-> launched[r].synthetic[p].uri,
     report_path |-> Own(r, p), no_oracle |-> p \in launched[r].unverified]

LoadArgv(r, p) ==
    [validation_product |-> Validator[p], input_base |-> launched[r].synthetic[p].uri,
     validation_report |-> launched[r].report[p].uri]

First(stages) ==
    IF "engorda" \in stages THEN "plan" ELSE IF "validate" \in stages THEN "validate" ELSE "load"

After(stages, stage) ==
    CASE stage = "engorda" /\ "validate" \in stages -> "validate"
      [] stage = "validate" /\ "load" \in stages -> "load"
      [] OTHER -> "succeeded"

\* What a run leaves for later ones: its artifacts and its status.
Manifest(r) ==
    [status |-> status[r], products |-> launched[r].products, inputs |-> launched[r].inputs,
     synthetic |-> launched[r].synthetic, report |-> launched[r].report]

\* read_upstream_manifest.
Upstream == { m \in adopted \cup { Manifest(r) : r \in DOMAIN launched } :
                m.status \in {"ADOPTED", "SUCCEEDED"} }

-----------------------------------------------------------------------------
Init ==
    /\ adopted = {} /\ launched = <<>> /\ node = <<>> /\ status = <<>>
    /\ drafts = <<>> /\ synthetics \in External /\ reports = <<>>
    /\ claims = {} /\ loaded = {}

ofRuns == <<launched, node, status>>
ofStore == <<drafts, synthetics, reports, claims, loaded>>

\* An object is written once.
Written(store, uri, value) ==
    [u \in DOMAIN store \cup {uri} |-> IF u \in DOMAIN store THEN store[u] ELSE value]

\* describe_uri lists an object at most: it finds no marker, and no gap.
Exists(uri) == uri \in DOMAIN synthetics

\* adopt-inputs.
Adopt ==
    /\ Len(launched) < MaxRuns
    /\ \E c \in Configs, products \in Adoptions :
       \E given \in SUBSET products : \E uris \in [given -> Artifacts] :
        /\ ConfigIsValid(c) /\ products \subseteq DOMAIN c.capabilities
        /\ \A p \in products : "engorda" \notin Registry[p] => p \in given
        /\ \A p \in given : uris[p][2] = p /\ Exists(uris[p])
        /\ adopted' = adopted \cup
            {[status |-> "ADOPTED", products |-> products, inputs |-> TRUE,
              synthetic |-> [p \in given |-> Unstated(uris[p])], report |-> <<>>]}
    /\ Cardinality(adopted') <= MaxAdoptions
    /\ UNCHANGED <<ofRuns, ofStore>>

\* run_command up to execute_plan.
Start ==
    /\ Len(launched) < MaxRuns
    /\ Len(launched) < MaxOverlap \/ \A r \in DOMAIN status : status[r] # "RUNNING"
    /\ LET r == Len(launched) + 1
       IN  \E c \in Configs, q \in Requests, up \in Upstream :
            /\ Plannable(r, c, q, up)
            /\ "load" \in StagesOf(q) => q.approve_load
            /\ launched' = Append(launched, Plan(r, c, q, up))
            /\ node' = Append(node, [p \in q.products |-> First(StagesOf(q))])
            /\ status' = Append(status, "RUNNING")
    /\ UNCHANGED <<adopted, ofStore>>

Faulty == { r \in DOMAIN launched :
    status[r] = "FAILED" \/ \E p \in launched[r].products : node[r][p] = "failed" }

MayFail(r) == r \in Faulty \/ Cardinality(Faulty) < MaxFaulty

\* The last status, which the upload of the manifest may still spoil.
Finish(r) ==
    /\ status[r] = "RUNNING"
    /\ \A p \in launched[r].products : node[r][p] \in {"succeeded", "failed"}
    /\ \E uploaded \in BOOLEAN :
        /\ ~uploaded => MayFail(r)
        /\ status' = [status EXCEPT ![r] =
            IF uploaded /\ \A p \in launched[r].products : node[r][p] = "succeeded"
            THEN "SUCCEEDED" ELSE "FAILED"]
    /\ UNCHANGED <<adopted, launched, node, ofStore>>

-----------------------------------------------------------------------------
(* The nodes of one product of a run.                                       *)

At(r, p, n) == node[r][p] = n
Goto(r, p, n) == node' = [node EXCEPT ![r][p] = n]
Done(r, p, stage) == Goto(r, p, After(launched[r].stages, stage))
Keep == UNCHANGED <<adopted, launched, status>>

EngordaPlan(r, p) ==
    /\ At(r, p, "plan")
    /\ LET argv == EngordaArgv(r, p)
       IN  drafts' = Written(drafts, argv.output_uri, Access(argv.no_oracle))
    /\ Goto(r, p, "materialize")
    /\ Keep /\ UNCHANGED <<synthetics, reports, claims, loaded>>

\* The marker is the last thing staged; the publication moves object after
\* object, in an order that is not engorda's.
Materialize(r, p) ==
    /\ At(r, p, "materialize")
    /\ LET argv == MaterializeArgv(r, p)
       IN  /\ Access(argv.no_oracle) = drafts[argv.plan_uri]
           /\ argv.output_uri \notin DOMAIN synthetics
           /\ \E moved \in BOOLEAN :
                synthetics' = Written(synthetics, argv.output_uri,
                    [whole |-> FALSE, marker |-> moved /\ argv.no_oracle,
                     oracle_access |-> drafts[argv.plan_uri]])
    /\ Goto(r, p, "publish")
    /\ Keep /\ UNCHANGED <<drafts, reports, claims, loaded>>

Publish(r, p) ==
    /\ At(r, p, "publish")
    /\ synthetics' = [synthetics EXCEPT ![Own(r, p)] =
            [@ EXCEPT !.whole = TRUE, !.marker = MaterializeArgv(r, p).no_oracle]]
    /\ Done(r, p, "engorda")
    /\ Keep /\ UNCHANGED <<drafts, reports, claims, loaded>>

\* _validation_gate, which the runner asks after a validation and before a load.
Accepts(report, product, input) ==
    report.clean /\ report.product = product /\ report.resolved_input = input

\* The report's verdict is of the data, or of what there is of it by now.
Validate(r, p) ==
    /\ At(r, p, "validate")
    /\ LET argv == ValidatorArgv(r, p)
       IN  /\ argv.input_base \in DOMAIN synthetics
           /\ \E clean \in BOOLEAN :
                /\ ~clean => MayFail(r)
                /\ LET report == [product |-> argv.product, resolved_input |-> argv.input_base,
                                  clean |-> clean, oracle_access |-> Access(argv.no_oracle)]
                   IN  /\ reports' = Written(reports, argv.report_path, report)
                       /\ IF Accepts(report, Validator[p], launched[r].synthetic[p].uri)
                          THEN Done(r, p, "validate") ELSE Goto(r, p, "failed")
    /\ Keep /\ UNCHANGED <<drafts, synthetics, claims, loaded>>

\* reject_offline_input of the loader; _prepare_load_attempt asks the same.
OfflineInput(input) == synthetics[input].marker

\* The report is fit for a load: _prepare_load_attempt on what the gate took.
LoadReportValid(report) == report.clean /\ report.oracle_access # "disabled"

PrepareLoad(r, p) ==
    /\ At(r, p, "load")
    /\ LET argv == LoadArgv(r, p)
           report == reports[argv.validation_report]
       IN  IF /\ argv.input_base \in DOMAIN synthetics /\ ~OfflineInput(argv.input_base)
              /\ Accepts(report, Validator[p], argv.input_base) /\ LoadReportValid(report)
              /\ argv.input_base \notin claims
           THEN claims' = claims \cup {argv.input_base} /\ Goto(r, p, "insert")
           ELSE UNCHANGED claims /\ Goto(r, p, "failed")
    /\ Keep /\ UNCHANGED <<drafts, synthetics, reports, loaded>>

\* The loader's own look at the report (validation_table_inventory).
ReportCovers(report, argv) ==
    /\ report.clean /\ report.oracle_access # "disabled"
    /\ report.product = argv.validation_product /\ report.resolved_input = argv.input_base

\* A load that fails may have inserted.
Insert(r, p) ==
    /\ At(r, p, "insert")
    /\ LET argv == LoadArgv(r, p)
       IN  IF ~OfflineInput(argv.input_base) /\ ReportCovers(reports[argv.validation_report], argv)
           THEN /\ loaded' = loaded \cup
                    {[run |-> r, product |-> p, input |-> argv.input_base,
                      report |-> argv.validation_report,
                      whole |-> synthetics[argv.input_base].whole]}
                /\ \E n \in {"succeeded"} \cup { x \in {"failed"} : MayFail(r) } : Goto(r, p, n)
           ELSE UNCHANGED loaded /\ Goto(r, p, "failed")
    /\ Keep /\ UNCHANGED <<drafts, synthetics, reports, claims>>

\* A node that fails for another reason, or that its product's failure blocks.
Fail(r, p) ==
    /\ node[r][p] \notin {"succeeded", "failed"} /\ MayFail(r)
    /\ Goto(r, p, "failed")
    /\ Keep /\ UNCHANGED ofStore

Over == (\A r \in DOMAIN status : status[r] # "RUNNING") /\ UNCHANGED vars

Node(r, p) ==
    \/ EngordaPlan(r, p) \/ Materialize(r, p) \/ Publish(r, p) \/ Validate(r, p)
    \/ PrepareLoad(r, p) \/ Insert(r, p) \/ Fail(r, p)

Next ==
    \/ Adopt \/ Start \/ Over
    \/ \E r \in DOMAIN launched :
        Finish(r) \/ \E p \in launched[r].products : Node(r, p)

Spec == Init /\ [][Next]_vars

-----------------------------------------------------------------------------
(* Properties.                                                              *)

\* A manifest that later runs build on tells how its artifacts were made:
\* the outputs are there, whole, and with the access it states; its report is
\* of its output, without errors, with the access it states, and live only if
\* the output is live or came in without a statement.
LineageIsTrue ==
    \A r \in DOMAIN launched : status[r] = "SUCCEEDED" =>
        \A p \in launched[r].products :
            LET output == launched[r].synthetic[p]
            IN  /\ output.uri \in DOMAIN synthetics
                /\ output.oracle_access # "unstated" =>
                     /\ synthetics[output.uri].whole
                     /\ output.oracle_access = synthetics[output.uri].oracle_access
                /\ p \in DOMAIN launched[r].report =>
                     LET of == launched[r].report[p]
                     IN  /\ of.uri \in DOMAIN reports
                         /\ reports[of.uri].resolved_input = output.uri
                         /\ reports[of.uri].clean
                         /\ of.oracle_access = reports[of.uri].oracle_access
                         /\ output.oracle_access = "disabled" => of.oracle_access = "disabled"

\* What is loaded was found without errors by a validator with Oracle, for
\* its product; an output published whole is loaded once at most, and only
\* if it was made with Oracle, whatever was adopted in between.
LoadsAreSound ==
    \A l \in loaded :
        /\ reports[l.report].oracle_access = "live" /\ reports[l.report].clean
        /\ reports[l.report].resolved_input = l.input
        /\ reports[l.report].product = Validator[l.product]
        /\ l.whole => synthetics[l.input].oracle_access = "live"
        /\ \A m \in loaded : m.input = l.input => m = l
=============================================================================
