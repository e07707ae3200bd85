---------------------------- MODULE CommandSamples ----------------------------
(***************************************************************************)
(* Commands for EngordaCommands: three roots of which one is of another     *)
(* type, two versions of the specs, the orders of a runner and what a hand  *)
(* may type: what it leaves out has its default.                            *)
(***************************************************************************)
EXTENDS Naturals, Sequences, TLC

CONSTANT Null

CommandProducts ==
    [ cdb   |-> [tables |-> {"INSTRUMENTO_FINANCEIRO", "OPERACAO"}, static |-> {},
                 nullified |-> {"DAT_EXCLUSAO"}, cdb |-> TRUE],
      dicre |-> [tables |-> {"INSTRUMENTO_FINANCEIRO", "OPERACAO"}, static |-> {"EVENTO"},
                 nullified |-> {}, cdb |-> FALSE] ]

\* Table -> static. The second version leaves EVENTO alone.
CommandSpecs ==
    LET specs(event) == [INSTRUMENTO_FINANCEIRO |-> FALSE, OPERACAO |-> TRUE, EVENTO |-> event]
    IN  <<specs(FALSE), specs(TRUE)>>

CommandRows == [INSTRUMENTO_FINANCEIRO |-> 1, OPERACAO |-> 2, EVENTO |-> 1]
CommandMax == [INSTRUMENTO_FINANCEIRO |-> 9, OPERACAO |-> 4, EVENTO |-> 4]
CommandTypes == 1 :> 49 @@ 2 :> 49 @@ 3 :> 50

CommandEnv == [raw |-> <<"b", "raw">>, base |-> <<"b", "syn">>, synthetic |-> <<"b", "syn", "old">>,
               prefix |-> Null]

Order(product, uri) ==
    [product |-> product, raw |-> <<"b", "raw">>, output |-> <<"b", "runs", uri>>,
     faltantes |-> "missing", uri |-> uri, specs |-> "specs", query |-> Null, allocator |-> Null,
     no_oracle |-> FALSE, n |-> 2, k |-> 1, prefix |-> Null, date |-> Null]

\* A sample that is too small, synthetic codes, no Oracle; and a second pair.
CommandOrders ==
    { [Order("cdb", "p") EXCEPT !.n = 3, !.k = 3, !.prefix = "MX"],
      [Order("cdb", "p") EXCEPT !.allocator = "synthetic_cdb"],
      [Order("cdb", "p") EXCEPT !.no_oracle = TRUE, !.date = 7],
      Order("cdb", "q"), Order("dicre", "q") }

ByHand ==
    [phase |-> "plan", product |-> "cdb", raw |-> <<"b", "raw">>, output |-> <<"b", "runs", "p">>,
     faltantes |-> "missing", plan_uri |-> "p", specs |-> "specs"]

ByHandPlans ==
    LET listed == [num_ifs |-> {1, 2}] @@ ByHand
    IN  { listed, [step |-> 2, offset |-> 15, term |-> 3, nullified |-> {"TXT"}] @@ listed,
          [static |-> {"EVENTO"}, k |-> 2] @@ listed,
          [static |-> {"OPERACAO"}] @@ listed,
          [num_ifs |-> {1, 3}] @@ listed,
          [num_ifs |-> {1, 3}, tipo |-> 49, no_oracle |-> TRUE, ts |-> 4] @@ listed,
          [offset |-> 5] @@ listed, [n |-> 2] @@ listed, [dry_run |-> TRUE] @@ listed,
          [date |-> 7] @@ listed, [output |-> <<"b", "raw", "p">>] @@ listed }

\* A second command that forgets, adds or changes an option, or names the
\* reservation of another plan.
ByHandMaterializations ==
    LET own == [phase |-> "materialize", reservation_uri |-> "p"] @@ ByHand
    IN  { own, [reservation_uri |-> "q"] @@ own,
          [k |-> 5, step |-> 3, offset |-> 30, term |-> 9, nullified |-> {"COD"}] @@ own,
          [static |-> {"EVENTO"}] @@ own, [no_oracle |-> TRUE] @@ own,
          [no_oracle |-> TRUE, date |-> 7] @@ own, [date |-> 2] @@ own,
          [tipo |-> 50] @@ own, [product |-> "dicre"] @@ own, [specs |-> "other"] @@ own,
          [allocator |-> "oracle_if21"] @@ own, [output |-> <<"b", "runs", "q">>] @@ own,
          [output |-> <<"b", "raw", "p">>] @@ own, [num_ifs |-> {1}] @@ own }

ByHandAll ==
    LET all == [phase |-> "all", product |-> "cdb", num_ifs |-> {1, 3}, tipo |-> 50,
                no_oracle |-> TRUE, specs |-> "specs"]
    IN  { all, [prefix |-> "MZ"] @@ all, [prefix |-> "MZ", no_oracle |-> FALSE] @@ all,
          [prefix |-> "MZ", clone_prefix |-> <<"old">>] @@ all,
          [prefix |-> "MZ", output |-> <<"b", "raw">>] @@ all }

CommandsByHand == ByHandPlans \cup ByHandMaterializations \cup ByHandAll
=============================================================================
