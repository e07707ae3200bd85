---------------------------- MODULE MCRangeLedger ---------------------------
(* A small environment for RangeLedger: one table asked for with two steps  *)
(* and two floors, two prefixes of five ordinals, five CDB codes.           *)
EXTENDS RangeLedger

CONSTANTS t1, d1, d2, g1, g2, c1, c2

NoPk == [t \in Tables |-> [count |-> 0, step |-> 1, minimum |-> 0]]

Pk(n, s, m) == [NoPk EXCEPT ![t1] = [count |-> n, step |-> s, minimum |-> m]]

Grouped(pk, d, gs, n) ==
    [ schema |-> 3, pk |-> pk, date |-> d, groups |-> gs, ordinals |-> n,
      requested |-> Absent, cdb |-> Absent ]

Global(pk, n) == [Grouped(pk, d1, {}, n) EXCEPT !.schema = 2]

Coded(c, n, m) ==
    [Grouped(NoPk, d1, {}, 0) EXCEPT !.cdb = [prefix |-> c, count |-> n, minimum |-> m]]

MCPlans ==
    { Grouped(Pk(2, 1, 0), d1, {g1}, 1),
      Grouped(Pk(1, 3, 5), d1, {g2}, 2),
      Grouped(Pk(2, 2, -1), d2, {g1}, 2),
      Grouped(NoPk, d1, {g1, g2}, 2),
      [Grouped(NoPk, d1, {g1, g2}, 3) EXCEPT !.requested = 101],
      Global(Pk(3, 1, 2), 3),
      [Global(NoPk, 1) EXCEPT !.requested = 101],
      Coded(c1, 2, 10), Coded(c1, 1, 12), Coded(c2, 0, 13), Coded(c2, 3, 11) }

MCPrefixes == {100, 101}
MCLegacyMarks == {0, 2}
=============================================================================
