--------------------------- MODULE MCLoadProtocol ---------------------------
(* Two or three runs and two inputs for LoadProtocol: r1 loads x1 and then  *)
(* x2, r2 resumes r1's load of x1 and also wants x2, r3 resumes it too.     *)
EXTENDS LoadProtocol

CONSTANTS r1, r2, r3, x1, x2

Fresh(x) == [input |-> x, previous |-> Absent]
Resumed(x, a) == [input |-> x, previous |-> a]

MCLoads ==
    [ r \in Runs |-> CASE r = r1 -> << Fresh(x1), Fresh(x2) >>
                       [] r = r2 -> << Resumed(x1, <<r1, 1>>), Fresh(x2) >>
                       [] r = r3 -> << Resumed(x1, <<r1, 1>>) >> ]

\* Renewals in time, no interrupts and no crashes; every fault once; a poll
\* that fails and a Ctrl-C; nothing but two resumes of one attempt.
MCSerialized ==
    [ loads |-> Attempts, late |-> FALSE, faults |-> 2,
      kinds |-> {"acquire", "claim", "submit", "poll", "gate", "release", "upload"} ]
MCFaulty ==
    [ loads |-> Attempts \ {<<r2, 2>>}, late |-> TRUE, faults |-> 1,
      kinds |-> {"acquire", "renew", "claim", "submit", "cancel", "poll", "gate",
                 "quarantine", "release", "upload", "interrupt", "crash"} ]
MCInterrupted ==
    [ loads |-> Attempts \ {<<r2, 2>>}, late |-> FALSE, faults |-> 2, kinds |-> {"poll", "interrupt"} ]
MCRepeated == [ loads |-> Attempts, late |-> FALSE, faults |-> 0, kinds |-> {} ]

MCSafe == {MCSerialized, MCFaulty}
MCInterrupts == {MCInterrupted}
MCRepeats == {MCRepeated}
=============================================================================
