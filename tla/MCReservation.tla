---------------------------- MODULE MCReservation ---------------------------
(* A small environment for Reservation: three calls, the first two for one  *)
(* reservation URI, on a ledger that may be absent, new or migrated.        *)
EXTENDS Reservation

CONSTANTS t1, d1, g1, x1, k1, k2, k3, u1, u2

MCPlan(count, ordinals, codes) ==
    [ schema    |-> 3,
      pk        |-> [t \in Tables |-> [count |-> count, step |-> 1, minimum |-> 1]],
      date      |-> d1,
      groups    |-> IF ordinals = 0 THEN {} ELSE {g1},
      ordinals  |-> ordinals,
      requested |-> Absent,
      cdb       |-> [prefix |-> x1, count |-> codes, minimum |-> 10] ]

MCPlanOf == [c \in Calls |-> IF c = k3 THEN MCPlan(2, 1, 1) ELSE MCPlan(1, 2, 1)]
MCUriOf == [c \in Calls |-> IF c = k3 THEN u2 ELSE u1]
\* Leases that may expire under their holders, guarded by etags; and etags
\* that come from a second request, guarded by leases that do not expire.
MCExpiring == [calls |-> Calls, etags |-> TRUE, expire |-> TRUE, faults |-> 1]
MCHolding == [calls |-> Calls, etags |-> FALSE, expire |-> FALSE, faults |-> 2]
MCBoth == {MCExpiring, MCHolding}
\* Two calls with faults; and, without, one more call than a ledger write has
\* attempts, so that rivals can use all of them up.
MCFaulty == [MCExpiring EXCEPT !.calls = {k1, k3}, !.faults = 2]
MCContended == [MCExpiring EXCEPT !.faults = 0]
MCFair == {MCFaulty, MCContended}
MCNeither == {[calls |-> Calls, etags |-> FALSE, expire |-> TRUE, faults |-> 0]}

MCPrefixes == {100, 101}
MCLegacyMarks == {0, 3}
=============================================================================
