------------------------------ MODULE Scheduler ------------------------------
(***************************************************************************)
(* One pipeline run: the main thread of execute_plan and run_command       *)
(* (scripts/run_pipeline.py) that visits the nodes of the plan, a pool of  *)
(* worker threads (_execute_remote_node, _execute_load_node and            *)
(* _execute_reservation_node), and the Data Flow runs they submit.         *)
(*                                                                         *)
(* Every product has one chain of nodes; the node <<p, k>> is the k-th of  *)
(* the p-th product. What a load's lease and claim protect against other   *)
(* runners is in LoadProtocol, what a reservation does in Reservation;     *)
(* here acquiring the lease and reserving succeed or fail.                 *)
(***************************************************************************)
EXTENDS Naturals, Sequences, FiniteSets

CONSTANTS
    Products,        \* number of products
    Chain,           \* the operations of a product, in order
    MaxConcurrency,  \* --max-concurrency
    MaxRetries,      \* --max-retries
    NoRetry,         \* operations whose node has max_retries 0, load included
    FaultKinds,      \* the kinds of fault that may happen
    MaxFaults        \* bound on their number

ASSUME ChainIsPossible ==
    /\ Products \in Nat \ {0}
    /\ Chain \in Seq({"plan", "reserve", "materialize", "validate", "load"})
    /\ Len(Chain) > 0
ASSUME PoolIsPossible == MaxConcurrency \in Nat \ {0} /\ MaxRetries \in Nat
ASSUME LoadsAreNotRetried == "load" \in NoRetry

Nodes == (1 .. Products) \X DOMAIN Chain
DataFlowRuns == Nodes \X (1 .. MaxRetries + 1)

Operation(n) == Chain[n[2]]

Lane(n) == CASE Operation(n) = "reserve" -> "reservation-cas"
             [] Operation(n) = "load"    -> "oracle-load"
             [] OTHER                    -> "data-flow"

SerialLanes == {"reservation-cas", "oracle-load"}

\* Faulty variant: the nodes are visited by product, the last one first.
LastProductFirst(n) == (Products - n[1]) * Len(Chain) + n[2]

\* The order of the plan's nodes: product by product, along the chain.
Position(n) == (n[1] - 1) * Len(Chain) + n[2]

Dependencies(n) == IF n[2] = 1 THEN {} ELSE {<<n[1], n[2] - 1>>}

EarlierLoads(n) == { m \in Nodes : Operation(m) = "load" /\ m[1] < n[1] }

Attempts(n) == IF Operation(n) \in NoRetry THEN 1 ELSE MaxRetries + 1

VARIABLES
    phase,      \* where the main thread is
    cursor,     \* position of the last node its scan visited
    completed,  \* the finished futures it is about to take
    state,      \* per node, its state in the manifest
    lease, leaseError, leaseQuarantined,   \* load_lease and what befell it
    interrupted, failed,   \* how the loop was left: Ctrl-C, an exception
    stop,       \* the event all threads look at
    queue,      \* submitted futures no worker has taken
    thread,     \* per node, where its worker is; none: not a future
    try,        \* per node, the attempt number
    result,     \* per node, what its worker returned or raised
    active,     \* the dictionary of Data Flow runs to cancel
    run,        \* per Data Flow run, its state
    asked,      \* Data Flow runs that were asked to cancel
    faults

loop == << cursor, completed, state, lease, leaseError, leaseQuarantined >>
ending == << interrupted, failed >>
work == << try, result >>
remote == << run, asked >>
vars == << phase, loop, ending, stop, queue, thread, work, active, remote, faults >>

NodeTerminal == {"SUCCEEDED", "FAILED", "BLOCKED", "CANCELLED"}
Refused == {"FAILED", "BLOCKED", "CANCELLED"}
Busy == {"begin", "submit", "wait", "register", "poll", "gate"}

Futures == { n \in Nodes : thread[n] # "none" }
This(n) == <<n, try[n]>>

Init ==
    /\ phase = "renew" /\ cursor = 0 /\ completed = {}
    /\ state = [n \in Nodes |-> "PENDING"]
    /\ lease = FALSE /\ leaseError = FALSE /\ leaseQuarantined = FALSE
    /\ interrupted = FALSE /\ failed = FALSE /\ stop = FALSE
    /\ queue = << >>
    /\ thread = [n \in Nodes |-> "none"]
    /\ try = [n \in Nodes |-> 1]
    /\ result = [n \in Nodes |-> "none"]
    /\ active = {}
    /\ run = [x \in DataFlowRuns |-> "none"]
    /\ asked = {}
    /\ faults = 0

Fault(kind) == kind \in FaultKinds /\ faults < MaxFaults /\ faults' = faults + 1

-----------------------------------------------------------------------------
(* The top of the loop: the lease is renewed when it is due. A failure      *)
(* stops every thread and asks for the cancellation of the active runs.     *)

Renew ==
    /\ phase = "renew"
    /\ \/ /\ phase' = "scan"
          /\ UNCHANGED << leaseError, stop, faults >>
       \/ /\ lease /\ Fault("renew")
          /\ leaseError' = TRUE /\ stop' = TRUE
          /\ phase' = "cancel"
    /\ UNCHANGED << cursor, completed, state, lease, leaseQuarantined, ending, queue,
                    thread, work, active, remote >>

\* The active runs are asked to cancel, best effort; after an interrupt the
\* futures are cancelled too, which succeeds for those still queued.
CancelActive ==
    /\ phase = "cancel"
    /\ \/ asked' = asked \cup active /\ UNCHANGED faults
       \/ Fault("cancel") /\ \E x \in active : asked' = asked \cup (active \ {x})
    /\ \/ /\ interrupted
          /\ phase' = "closing"
          /\ queue' = << >>
          /\ thread' = [n \in Nodes |-> IF thread[n] = "queued" THEN "none" ELSE thread[n]]
       \/ /\ ~interrupted
          /\ phase' = "scan"
          /\ UNCHANGED << queue, thread >>
    /\ UNCHANGED << loop, ending, stop, work, active, run >>

-----------------------------------------------------------------------------
(* The scan: every node is visited in order; what an earlier visit did is   *)
(* seen by the later ones.                                                  *)

\* Faulty variant: a refused node blocks the later stages of every product.
MustBlockEverywhere(n) == \E d \in Nodes : d[2] < n[2] /\ state[d] \in Refused

MustBlock(n) ==
    \/ Lane(n) = "oracle-load" /\ leaseError
    \/ \E d \in Dependencies(n) : state[d] \in Refused

\* Faulty variant: a load waits for no other.
AnyTurn(n) == TRUE

InTurn(n) == Lane(n) = "oracle-load" =>
                \A m \in EarlierLoads(n) : state[m] \in NodeTerminal

LaneIsFree(n) == Lane(n) \in SerialLanes => \A m \in Futures : Lane(m) # Lane(n)

MayStart(n) ==
    /\ \A d \in Dependencies(n) : state[d] = "SUCCEEDED"
    /\ InTurn(n)
    /\ LaneIsFree(n)

ToVisit == { n \in Nodes : /\ Position(n) > cursor
                           /\ state[n] = "PENDING"
                           /\ MustBlock(n) \/ MayStart(n) }

Visit(n) ==
    /\ phase = "scan" /\ n \in ToVisit
    /\ \A m \in ToVisit : Position(n) <= Position(m)
    /\ cursor' = Position(n)

Mark(n, value) == state' = [state EXCEPT ![n] = value]

Block(n) ==
    /\ Visit(n) /\ MustBlock(n)
    /\ Mark(n, "BLOCKED")
    /\ UNCHANGED << phase, completed, lease, leaseError, leaseQuarantined, ending, stop,
                    queue, thread, work, active, remote, faults >>

Launch(n) ==
    /\ Visit(n) /\ ~MustBlock(n)
    /\ Mark(n, "RUNNING")
    /\ lease' = (lease \/ Lane(n) = "oracle-load")
    /\ queue' = Append(queue, n)
    /\ thread' = [thread EXCEPT ![n] = "queued"]
    /\ UNCHANGED << phase, completed, leaseError, leaseQuarantined, ending, stop, work,
                    active, remote, faults >>

FailToAcquire(n) ==
    /\ Visit(n) /\ ~MustBlock(n) /\ Lane(n) = "oracle-load" /\ ~lease
    /\ Fault("acquire")
    /\ leaseError' = TRUE
    /\ Mark(n, "FAILED")
    /\ UNCHANGED << phase, completed, lease, leaseQuarantined, ending, stop, queue,
                    thread, work, active, remote >>

AllTerminal == \A n \in Nodes : state[n] \in NodeTerminal

Stuck == phase = "scan" /\ ToVisit = {} /\ Futures = {} /\ ~AllTerminal

\* "pipeline scheduler cannot make progress" is an exception like others.
EndScan ==
    /\ phase = "scan" /\ ToVisit = {}
    /\ cursor' = 0
    /\ \/ Futures # {} /\ phase' = "wait" /\ UNCHANGED << failed, stop >>
       \/ Futures = {} /\ phase' = "closing" /\ stop' = TRUE /\ failed' = Stuck
    /\ UNCHANGED << completed, state, lease, leaseError, leaseQuarantined, interrupted,
                    queue, thread, work, active, remote, faults >>

-----------------------------------------------------------------------------
(* wait() returns what has finished, or nothing after 0.1 s.                *)

Wait ==
    /\ phase = "wait"
    /\ completed' = { n \in Nodes : thread[n] = "finished" }
    /\ phase' = IF completed' = {} THEN "renew" ELSE "collect"
    /\ UNCHANGED << cursor, state, lease, leaseError, leaseQuarantined, ending, stop,
                    queue, thread, work, active, remote, faults >>

Collect(n) ==
    /\ phase = "collect" /\ n \in completed
    /\ completed' = completed \ {n}
    /\ phase' = IF completed' = {} THEN "renew" ELSE "collect"
    /\ thread' = [thread EXCEPT ![n] = "none"]
    /\ result' = [result EXCEPT ![n] = "none"]
    /\ \/ /\ result[n] \in NodeTerminal
          /\ Mark(n, result[n])
          /\ UNCHANGED << leaseError, leaseQuarantined >>
       \/ /\ result[n] = "error"
          /\ Mark(n, "FAILED")
          /\ UNCHANGED << leaseError, leaseQuarantined >>
       \/ /\ result[n] = "ambiguous"
          /\ Mark(n, "FAILED")
          /\ leaseError' = TRUE
          /\ leaseQuarantined' = lease
    /\ UNCHANGED << cursor, lease, ending, stop, queue, try, active, remote, faults >>

-----------------------------------------------------------------------------
(* The ways out of the loop, the finally block and what run_command does.   *)

InLoop == phase \in {"renew", "scan", "wait", "collect"} \/ (phase = "cancel" /\ ~interrupted)

Interrupt ==
    /\ InLoop /\ Fault("interrupt")
    /\ phase' = "cancel" /\ interrupted' = TRUE /\ stop' = TRUE
    /\ UNCHANGED << loop, failed, queue, thread, work, active, remote >>

\* An exception in the main thread, as when the manifest cannot be written.
Fail ==
    /\ InLoop /\ Fault("scheduler")
    /\ phase' = "closing" /\ failed' = TRUE /\ stop' = TRUE
    /\ UNCHANGED << loop, interrupted, queue, thread, work, active, remote >>

\* executor.shutdown drops what is queued, then waits.
Shutdown ==
    /\ phase = "closing"
    /\ phase' = "join"
    /\ queue' = << >>
    /\ thread' = [n \in Nodes |-> IF thread[n] = "queued" THEN "none" ELSE thread[n]]
    /\ UNCHANGED << loop, ending, stop, work, active, remote, faults >>

\* Faulty variant: shutdown without waiting.
NobodyQueued == queue = << >>

Joined == \A n \in Nodes : thread[n] \notin Busy

\* What becomes of the nodes left open: CANCELLED after an interrupt, FAILED
\* or BLOCKED after an exception.
Settled(n) ==
    CASE interrupted /\ state[n] \in {"PENDING", "RUNNING"} -> "CANCELLED"
      [] failed /\ state[n] = "RUNNING" -> "FAILED"
      [] failed /\ state[n] = "PENDING" -> "BLOCKED"
      [] OTHER -> state[n]

\* The lease is released unless it was quarantined.
Release ==
    /\ phase = "join" /\ Joined
    /\ phase' = "exited"
    /\ lease' = (lease /\ leaseQuarantined)
    /\ state' = [n \in Nodes |-> Settled(n)]
    /\ UNCHANGED << cursor, completed, leaseError, leaseQuarantined, ending, stop, queue,
                    thread, work, active, remote, faults >>

Main ==
    \/ Renew \/ CancelActive \/ EndScan \/ Wait \/ Shutdown \/ Release
    \/ \E n \in Nodes : Block(n) \/ Launch(n) \/ FailToAcquire(n) \/ Collect(n)

-----------------------------------------------------------------------------
(* The pool and its workers.                                                *)

main == << phase, loop, ending, stop >>

Goto(n, label) == thread' = [thread EXCEPT ![n] = label]

Return(n, value) ==
    /\ Goto(n, "finished")
    /\ result' = [result EXCEPT ![n] = value]
    /\ UNCHANGED try

Advance(n, label) == Goto(n, label) /\ UNCHANGED work

\* An exception; every one after a load's preparation is ambiguous.
Raise(n) == Return(n, IF Operation(n) = "load" THEN "ambiguous" ELSE "error")

Take ==
    /\ queue # << >>
    /\ Cardinality({ n \in Nodes : thread[n] \in Busy }) < MaxConcurrency
    /\ queue' = Tail(queue)
    /\ Goto(Head(queue), "begin")
    /\ UNCHANGED << main, work, active, remote, faults >>

\* _execute_reservation_node; _prepare_load_attempt; or straight to attempt 1.
Begin(n) ==
    /\ thread[n] = "begin"
    /\ \/ /\ Operation(n) = "reserve"
          /\ \/ Return(n, "SUCCEEDED") /\ UNCHANGED faults
             \/ Return(n, "error") /\ Fault("reserve")
       \/ /\ Operation(n) = "load"
          /\ \/ Return(n, "FAILED") /\ UNCHANGED faults
             \/ Return(n, "error") /\ Fault("claim")
             \/ Advance(n, "submit") /\ UNCHANGED faults
       \/ /\ Operation(n) \notin {"reserve", "load"}
          /\ Advance(n, "submit") /\ UNCHANGED faults
    /\ UNCHANGED << main, queue, active, remote >>

(* Submit an attempt. A quota rejection created no run and may be repeated  *)
(* within the budget, which nodes without retries do not have; any other    *)
(* error is final, whether a run was created or not.                        *)
Submit(n) ==
    /\ thread[n] = "submit"
    /\ \/ /\ stop
          /\ Return(n, "CANCELLED")
          /\ UNCHANGED << run, faults >>
       \/ /\ ~stop
          /\ run' = [run EXCEPT ![This(n)] = "active"]
          /\ Advance(n, "register")
          /\ UNCHANGED faults
       \/ /\ ~stop /\ Fault("quota")
          /\ IF Operation(n) \in NoRetry THEN Raise(n) ELSE Advance(n, "wait")
          /\ UNCHANGED run
       \/ /\ ~stop /\ Fault("submit")
          /\ run' \in {run, [run EXCEPT ![This(n)] = "active"]}
          /\ Raise(n)
    /\ UNCHANGED << main, queue, active, asked >>

\* stop.wait(delay), then the submission again or an exhausted budget.
QuotaWait(n) ==
    /\ thread[n] = "wait"
    /\ \/ stop /\ Return(n, "CANCELLED")
       \/ ~stop /\ Advance(n, "submit")
       \/ ~stop /\ Raise(n)
    /\ UNCHANGED << main, queue, active, remote, faults >>

\* Under active_lock: registered, or cancelled at once if stop was set.
Register(n) ==
    /\ thread[n] = "register"
    /\ \/ /\ ~stop
          /\ active' = active \cup {This(n)}
          /\ Advance(n, "poll")
          /\ UNCHANGED << asked, faults >>
       \/ /\ stop
          /\ \/ asked' = asked \cup {This(n)} /\ Return(n, "CANCELLED") /\ UNCHANGED faults
             \/ Fault("cancel") /\ Raise(n) /\ UNCHANGED asked
          /\ UNCHANGED active
    /\ UNCHANGED << main, queue, run >>

\* One more attempt of the node, if it has one left.
NextAttempt(n) ==
    \/ /\ ~stop /\ try[n] < Attempts(n)
       /\ try' = [try EXCEPT ![n] = @ + 1]
       /\ Goto(n, "submit")
       /\ UNCHANGED result
    \/ ~stop /\ try[n] = Attempts(n) /\ Return(n, "FAILED")
    \/ stop /\ Return(n, "CANCELLED")

\* Faulty variant: a polling error counts as the run's failure.
PollErrorFails(n) ==
    /\ thread[n] = "poll"
    /\ active' = active \ {This(n)}
    /\ \/ stop /\ Return(n, "CANCELLED") /\ UNCHANGED faults
       \/ run[This(n)] = "succeeded" /\ Advance(n, "gate") /\ UNCHANGED faults
       \/ run[This(n)] = "failed" /\ NextAttempt(n) /\ UNCHANGED faults
       \/ Fault("poll") /\ NextAttempt(n)
    /\ UNCHANGED << main, queue, remote >>

\* Faulty variant: only success is terminal.
PollForSuccess(n) ==
    /\ thread[n] = "poll"
    /\ active' = active \ {This(n)}
    /\ \/ stop /\ Return(n, "CANCELLED")
       \/ run[This(n)] = "succeeded" /\ Advance(n, "gate")
    /\ UNCHANGED << main, queue, remote, faults >>

\* Every way out of the polling loop takes the run off the dictionary.
Poll(n) ==
    /\ thread[n] = "poll"
    /\ active' = active \ {This(n)}
    /\ \/ stop /\ Return(n, "CANCELLED") /\ UNCHANGED faults
       \/ run[This(n)] = "succeeded" /\ Advance(n, "gate") /\ UNCHANGED faults
       \/ run[This(n)] = "failed" /\ NextAttempt(n) /\ UNCHANGED faults
       \/ Fault("poll") /\ Raise(n)
    /\ UNCHANGED << main, queue, remote >>

\* The validation report or the load manifest is read and may be refused.
Gate(n) ==
    /\ thread[n] = "gate"
    /\ \/ Return(n, "SUCCEEDED") /\ UNCHANGED faults
       \/ /\ Operation(n) \in {"validate", "load"}
          /\ Return(n, "FAILED") /\ UNCHANGED faults
       \/ Fault("gate") /\ Raise(n)
    /\ UNCHANGED << main, queue, active, remote >>

Work(n) == Begin(n) \/ Submit(n) \/ QuotaWait(n) \/ Register(n) \/ Poll(n) \/ Gate(n)

RunEnds(x) ==
    /\ run[x] = "active"
    /\ \E end \in {"succeeded", "failed"} : run' = [run EXCEPT ![x] = end]
    /\ UNCHANGED << main, queue, thread, work, active, asked, faults >>

Over == phase = "exited" /\ UNCHANGED vars

Next ==
    \/ Main \/ Interrupt \/ Fail \/ Take
    \/ \E n \in Nodes : Work(n)
    \/ \E x \in DataFlowRuns : RunEnds(x)
    \/ Over

Spec == Init /\ [][Next]_vars

(* The main loop never blocks for longer than 0.1 s or an OCI timeout, idle *)
(* workers take what is queued, threads go on as their OCI commands return, *)
(* and Data Flow runs end.                                                  *)
FairSpec ==
    /\ Spec
    /\ WF_vars(Main) /\ WF_vars(Take)
    /\ \A n \in Nodes : WF_vars(Work(n))
    /\ \A x \in DataFlowRuns : WF_vars(RunEnds(x))

-----------------------------------------------------------------------------
(* A scan that starts nothing and finds no future leaves no node open: the  *)
(* "pipeline scheduler cannot make progress" error is never raised, because *)
(* nodes are visited with dependencies and earlier loads first.             *)
NeverStuck == ~Stuck

(* Loads run one at a time and only while the lease is held: it is not      *)
(* released before the thread that polls the load has ended.                *)
LoadsUnderLease ==
    LET loads == { n \in Nodes : Operation(n) = "load" /\ thread[n] \in Busy }
    IN  Cardinality(loads) <= 1 /\ (loads # {} => lease)

(* "Timeouts, missing run IDs ... and polling failures do not cause blind   *)
(* resubmission": a node never has two Data Flow runs at once, which would  *)
(* write the same output.                                                   *)
NoOverlappingAttempts ==
    \A n \in Nodes : Cardinality({ x \in DataFlowRuns : x[1] = n /\ run[x] = "active" }) <= 1

(* Products are independent: unless the run is stopped or the lease is in   *)
(* error, what is not done at the end is due to a failure of its own chain. *)
BranchesAreIsolated ==
    (phase = "exited" /\ ~interrupted /\ ~failed /\ ~leaseError) =>
        \A n \in Nodes : state[n] # "SUCCEEDED" =>
            \E k \in 1 .. n[2] : state[<<n[1], k>>] = "FAILED"

(* Loads are submitted in --product order, each after the fate of all the   *)
(* earlier ones is known.                                                   *)
LoadsInProductOrder ==
    [][ \A x \in DataFlowRuns :
            (Operation(x[1]) = "load" /\ run[x] = "none" /\ run'[x] = "active") =>
                \A m \in EarlierLoads(x[1]) : state[m] \in NodeTerminal ]_vars

(* The run ends, with every node in a terminal state.                       *)
EveryPipelineEnds == <>(phase = "exited" /\ AllTerminal)

(* A test promises that a keyboard interrupt "cancels active runs": whoever *)
(* was running when the runner leaves has been asked to end.                *)
InterruptCancelsRuns ==
    (phase = "exited" /\ interrupted) =>
        \A x \in DataFlowRuns : run[x] = "active" => x \in asked
=============================================================================
