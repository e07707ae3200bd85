----------------------------- MODULE MCBatchJobs -----------------------------
(***************************************************************************)
(* BatchJobs on small instances, and the programs that work on samples: the *)
(* way of a product from its selection to its verdict (ProductPipeline) and *)
(* the loader's pre-flight (LoadPreflight). `program` says which of all     *)
(* these a behaviour is about.                                              *)
(***************************************************************************)
EXTENDS BatchJobs, TLC

CONSTANTS t1, t2, t3, Today, DefaultTerm

VARIABLES
    where, product, source, experiment, batch, output, call, code, judged,
    generated, flags, catalogue, batchRows, stored, phase, place, flagged, record, waiting,
    verdict, rivalled

ofProduct == <<where, product, source, experiment, batch, output, call, code, judged>>
ofPreflight == <<generated, flags, catalogue, batchRows, stored, phase, place, flagged, record,
                 waiting, verdict, rivalled>>

onSamples == <<ofProduct, ofPreflight>>

NoProduct ==
    /\ where = Unused /\ product = Unused /\ source = Unused /\ experiment = Unused /\ batch = Unused
    /\ output = Unused /\ call = Unused /\ code = Unused /\ judged = Unused

NoPreflight ==
    /\ generated = Unused /\ flags = Unused /\ catalogue = Unused /\ batchRows = Unused
    /\ stored = Unused /\ phase = Unused /\ place = Unused /\ flagged = Unused
    /\ record = Unused /\ waiting = Unused /\ verdict = Unused /\ rivalled = Unused

-----------------------------------------------------------------------------
(* Three tables for TableLoad, listed with children before their parents,   *)
(* under three graphs: a chain, a parent of two, and a cycle.               *)

MCInventory == <<t1, t2, t3>>
MCForeign ==
    {{<<t1, t2>>, <<t2, t3>>}, {<<t1, t3>>, <<t2, t3>>}, {<<t1, t2>>, <<t2, t1>>}}
MCGuards == {{t1, t2, t3}, {t2, t3}}

\* Five tables; 3 and 4 are parents of the seeds, and 5 of a parent.
MCExtractRequests ==
    {[seeds |-> {1, 2, 3}, edges |-> {<<1, 4>>, <<4, 5>>, <<2, 3>>}],
     [seeds |-> {2}, edges |-> {<<2, 5>>}]}
MCSizeTiers ==
    {<<[t \in 1 .. 5 |-> 0], [t \in 1 .. 5 |-> t % 3]>>,
     <<[t \in 1 .. 5 |-> IF t = 2 THEN 7 ELSE 0], [t \in 1 .. 5 |-> 5 - t]>>}

\* The third extent fills a chunk by itself.
MCBlocks == <<1, 1, 3, 1, 1>>

\* Two requests that renew the session and a cancellation that does not.
MCRequests == {t1, t2, t3}
MCManaged == {t1, t2}

\* A product that engorda makes and one that comes from elsewhere; a live config
\* and one that is not; every interval of stages, as the config has it, with
\* --no-oracle against --set, or with --set against the config.
AllStages == {"engorda", "validate", "load"}

Config(engorda, options, codes, genai) ==
    [capabilities |-> [cdb |-> AllStages, dicre |-> {"validate", "load"}],
     defaults |-> [engorda |-> engorda, validate |-> FALSE],
     options |-> options, codes |-> codes, genai |-> genai, load |-> TRUE]

Ask(p, from, to, no_oracle, set, date) ==
    [products |-> {p}, from |-> from, to |-> to, no_oracle |-> no_oracle, set |-> set,
     date |-> date, genai |-> FALSE, approve_load |-> TRUE]

MCRegistry == [cdb |-> AllStages, dicre |-> {"validate", "load"}]
MCValidator == [cdb |-> "cdb", dicre |-> "dicre"]
MCCdb == {"cdb"}
MCConfigs ==
    {Config(FALSE, <<>>, {"cdb"}, {}), Config(TRUE, <<"cdb", "validate">> :> TRUE, {}, {"cdb"})}
MCCommands ==
    {Ask("cdb", i[1], i[2], asked[1], asked[2], FALSE) :
        i \in {<<"engorda", "engorda">>, <<"engorda", "validate">>, <<"engorda", "load">>,
               <<"validate", "validate">>, <<"validate", "load">>, <<"load", "load">>},
        asked \in {<<FALSE, <<>>>>, <<TRUE, <<"cdb", "engorda">> :> FALSE>>,
                   <<FALSE, <<"cdb", "engorda">> :> FALSE>>,
                   <<FALSE, <<"cdb", "validate">> :> FALSE>>}}
    \cup {Ask("dicre", "validate", "load", FALSE, <<>>, FALSE),
          Ask("cdb", "engorda", "validate", TRUE, <<>>, TRUE),
          Ask("cdb", "load", "verify", FALSE, <<>>, FALSE),
          Ask("cdb", "validate", "engorda", TRUE, <<>>, FALSE),
          [Ask("cdb", "engorda", "engorda", FALSE, <<>>, FALSE) EXCEPT !.genai = TRUE]}
MCAdoptions == {{"cdb"}, {"dicre"}}
MCExternal ==
    {<<0, "dicre">> :> [whole |-> TRUE, marker |-> FALSE, oracle_access |-> "live"]}

\* What is asked for, selected and planned.
Plans == INSTANCE PlanSamples WITH Null <- Unused
MCTextJobs == Plans!RewriteJobs
MCHandoffJobs == Plans!PlanJobs
MCRaws == Plans!RawVersions

\* The commands of a runner and of a hand.
Typed == INSTANCE CommandSamples WITH Null <- Unused
MCProducts == Typed!CommandProducts
MCSpecs == Typed!CommandSpecs
MCRawRows == Typed!CommandRows
MCRawMax == Typed!CommandMax
MCRootTypes == Typed!CommandTypes
MCEnv == Typed!CommandEnv
MCOrders == Typed!CommandOrders
MCHandCommands == Typed!CommandsByHand

-----------------------------------------------------------------------------
(* The programs on samples.                                                 *)

Samples == INSTANCE ProductSamples WITH Null <- Unused

Product == INSTANCE ProductPipeline WITH
    Null <- Unused, pc <- where, outcome <- judged,
    Sources <- Samples!SampleSources,
    Experiments <- Samples!SampleExperiments,
    Calls <- Samples!SampleCalls

Cases == INSTANCE LoadSamples

Preflight == INSTANCE LoadPreflight WITH
    Inventory <- Cases!LoadInventory, Specs <- Cases!LoadSpecs,
    Generated <- Cases!LoadGenerated, Targets <- Cases!LoadTargets,
    Inputs <- Cases!LoadInputs, Populations <- Cases!LoadPopulations,
    Rivals <- Cases!LoadRivals, NullOnInsert <- Cases!LoadNulled,
    AuditColumns <- Cases!LoadAudit, Now <- 70, Flags <- Cases!LoadFlags

ASSUME SamplesArePossible ==
    Product!DatesAreNumbers /\ Preflight!TablesExist

MCInit ==
    /\ program \in Programs \cup {"product", "preflight"}
    /\ program \in Programs => Init
    /\ program \notin Programs => Idle
    /\ program = "product" => Product!Init
    /\ program = "preflight" => Preflight!Init
    /\ program # "product" => NoProduct
    /\ program # "preflight" => NoPreflight

\* A step of a program on samples leaves the variables of the others alone.
ProductStep == program = "product" /\ Product!Next /\ UNCHANGED <<vars, ofPreflight>>
PreflightStep == program = "preflight" /\ Preflight!Next /\ UNCHANGED <<vars, ofProduct>>

MCNext ==
    \/ Next /\ UNCHANGED onSamples
    \/ ProductStep \/ PreflightStep

MCSpec == MCInit /\ [][MCNext]_<<vars, onSamples>>

-----------------------------------------------------------------------------
(* The properties of the programs on samples.                               *)

\* What one check lets through, the next one accepts: what the prunes let
\* engorda select and clone draws no complaint of the validator's checks they
\* answer for, a PASS of the validator is true of the output, and what the
\* loader's pre-flight passes loads at the first try, with the rows its
\* manifest tells of.
ChecksAgree ==
    /\ program = "product" => Product!SelectedOutputsValidate /\ Product!VerdictIsTrue
    /\ program = "preflight" => Preflight!PassedLoadsFirstTry /\ Preflight!ManifestTellsOfRows
=============================================================================
