---------------------------- MODULE ProductPipeline ----------------------------
(***************************************************************************)
(* One product from its selection to its verdict: seleciona_instrumentos    *)
(* draws a batch of the source's instruments, engorda clones it, and        *)
(* validate_products.py judges the output. The prunes and the validator     *)
(* state the same rules twice, over different rows, in different programs.  *)
(*                                                                         *)
(* A source is a sequence of instruments of ProductDomain. An experiment is *)
(* [off, unread, request, term]: the prunes the command line switches off,  *)
(* the RAW tables that cannot be read while the instruments are selected,   *)
(* the batch asked for and --prazo-vencimento. A call is a command line of  *)
(* the validator and the tables of the output it gets to read.              *)
(***************************************************************************)
EXTENDS CloneDates, ProductValidation

CONSTANTS
    Sources(_),      \* of a product
    Experiments(_),  \* with a source
    Calls(_)         \* given a profile

VARIABLES product, source, experiment, batch, output, pc, call, outcome, code

vars == <<product, source, experiment, batch, output, pc, call, outcome, code>>

Init ==
    /\ product \in Cdb \cup Rdb
    /\ source \in Sources(product)
    /\ experiment = Null /\ batch = {} /\ output = {}
    /\ pc = "start"
    /\ call = Null /\ outcome = "none" /\ code = Null

Select ==
    /\ pc = "start"
    /\ experiment' \in Experiments(source)
    /\ LET selections == Selections(product, source, experiment'.off, experiment'.unread,
                                    experiment'.request)
       IN  IF selections = {} THEN pc' = "failed" /\ UNCHANGED batch
           ELSE batch' \in selections /\ pc' = "selected"
    /\ UNCHANGED <<product, source, output, call, outcome, code>>

\* The closure reads its tables with no excuse for one it cannot read; one
\* that could not be read before may be readable again.
Generate ==
    /\ pc = "selected"
    /\ \/ /\ experiment.unread \cap Cloned(product) # {}
          /\ pc' = "failed" /\ UNCHANGED output
       \/ /\ output' = {Clone(product, source[n], experiment.term) : n \in batch}
          /\ pc' = "generated"
    /\ UNCHANGED <<product, source, experiment, batch, call, outcome, code>>

\* --input-base names any directory: an earlier output, or one changed since.
Adopt ==
    /\ pc = "start"
    /\ output' = {source[n] : n \in DOMAIN source}
    /\ pc' = "adopted"
    /\ UNCHANGED <<product, source, experiment, batch, call, outcome, code>>

\* The tables of the output, and what a validation reads of them.
Written == Tables \cap (Cloned(product) \cup {"MAPA_CLONE_NUM_IF"})

Validate ==
    /\ pc \in {"generated", "adopted"}
    /\ call' \in Calls(ProfileOf(product))
    /\ LET findings == Findings(call', output, Written \ call'.missing)
       IN  IF "0.identity" \in call'.skip
           THEN outcome' = "refused" /\ code' = 1
           ELSE /\ outcome' = Verdict(call', findings)
                /\ code' = ExitCode(call', outcome')
    /\ pc' = "validated"
    /\ UNCHANGED <<product, source, experiment, batch, output>>

Over == pc \in {"failed", "validated"} /\ UNCHANGED vars

Next == Select \/ Generate \/ Adopt \/ Validate \/ Over

Spec == Init /\ [][Next]_vars

-----------------------------------------------------------------------------
(* Properties.                                                              *)

\* The validation the pipeline runs: every check, on all of the output.
Plain(profile) ==
    [profile |-> profile, only |-> FALSE, missing |-> {}, skip |-> {}, noOracle |-> FALSE,
     allowPartial |-> FALSE, failAt |-> "ERROR"]

Complaints(profile, out) == {f.check[2] : f \in Findings(Plain(profile), out, Written)}

Errors(profile, out) ==
    {f.check[2] : f \in Failing(Findings(Plain(profile), out, Written), "ERROR")}

DateChecks == {"date_order", "schedule_dates", "schedule_unique_dates",
               "escalonamento_dates", "escalonamento_unique_dates"}

Conditions == UNION {Active(source[n]) : n \in batch}

KnowsAccounts == "CONTA_PARTICIPANTE" \notin experiment.unread

\* The checks that the domain and the prunes in force answer for.
Promised ==
    {"domain", "event_condition_family", "schedule_parent", "redeemed_quantity"}
    \cup (IF product \in Cdb /\ "poda_subtipo" \notin experiment.off
             /\ \A c \in Conditions : "RESGATE" \notin c.gone
          THEN {"dangling_condicao_if", "subtype_mismatch", "unknown_tipo"} ELSE {})
    \cup (IF product \in WithRedemption /\ "poda_cronograma_resgate" \notin experiment.off
          THEN {"schedule_coverage", "schedule_values", "variant_resgate_mode"} ELSE {})
    \cup (IF product \in Cdb /\ "poda_conta" \notin experiment.off
             /\ KnowsAccounts /\ "V_FAMILIA_CONTAS" \notin experiment.unread
             /\ \A n \in batch : "misused" \notin AccountRefs(source[n])
          THEN {"active_account"} ELSE {})
    \cup (IF \/ product \in {"cdb_resgate", "cdb_escalonamento", "rdb_resgate"}
             \/ /\ product = "cdb_simplificado" /\ KnowsAccounts
                /\ "politica_estrita_operacao" \notin experiment.off
          THEN {"operation_tos"} ELSE {})

\* Every date of the batch moves as far as its emission does.
KeepsDistances ==
    /\ experiment.term = Null
    /\ \A n \in batch : Null \notin {source[n].emission, source[n].maturity}

\* What is selected validates: a generated output draws no complaint of a
\* check that the selection answers for, whichever prunes are off and whichever
\* tables it had to do without, and none about dates unless a row it was
\* cloned from would draw one (seleciona_instrumentos, the date rules and the
\* checks of validate_products.py agree).
SelectedOutputsValidate ==
    pc = "generated" =>
        LET profile == ProfileOf(product)
            cloned == {Closure(product, source[n]) : n \in batch}
        IN  /\ Complaints(profile, output) \cap Promised = {}
            /\ (KeepsDistances /\ Complaints(profile, cloned) \cap DateChecks = {})
                   => Complaints(profile, output) \cap DateChecks = {}

\* A PASS stands for the whole output, even where a table could not be read:
\* no check has an error to report of it, but that a table that was not there
\* may have hidden a second subtype. No output exits 0 under a profile of the
\* other type.
VerdictIsTrue ==
    pc = "validated" =>
        /\ outcome = "PASS" =>
              Errors(call.profile, output) \subseteq
                  IF call.missing \cap Subtypes # {} THEN {"ambiguous_subtype"} ELSE {}
        /\ code = 0 => \A i \in output : i.type = TypeOf(call.profile)
=============================================================================
