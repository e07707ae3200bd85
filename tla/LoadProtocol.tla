---------------------------- MODULE LoadProtocol ----------------------------
(***************************************************************************)
(* The Oracle load stage of several pipeline runs on one environment       *)
(* (scripts/run_pipeline.py): the main loop of execute_plan for the nodes  *)
(* of lane "oracle-load", the worker thread that executes one of them      *)
(* (_execute_load_node: _prepare_load_attempt, then _execute_remote_node   *)
(* with no retry and no quota wait), the environment load lease, the       *)
(* create-once claims, and the remote Data Flow runs that insert.          *)
(*                                                                         *)
(* A load is the attempt <<run, i>>: the i-th product of its run. Only     *)
(* loads are modelled; the other nodes of a run are in module Scheduler.   *)
(* The lease's compare-and-swap loop is in module Reservation; here one    *)
(* step acquires it, and whether an etag still matches is kept as          *)
(* "current" or "stale". A lease that nobody renews may lapse: of a run    *)
(* that crashed, has left its main loop, or whose renewals are late.       *)
(***************************************************************************)
EXTENDS Naturals, Sequences, FiniteSets

CONSTANTS
    Runs,          \* pipeline runs
    Loads,         \* [Runs -> Seq([input, previous])], in --product order
    Inputs,        \* synthetic inputs
    Absent,
    Regimes        \* what may happen, see regime

Attempts == UNION { { <<r, i>> : i \in DOMAIN Loads[r] } : r \in Runs }
Input(a) == Loads[a[1]][a[2]].input
Previous(a) == Loads[a[1]][a[2]].previous     \* --resume-load-manifest

ASSUME LoadsAreResumable ==
    \A r \in Runs : Loads[r] \in Seq([input : Inputs, previous : Attempts \cup {Absent}])
ASSUME AbsentIsNoObject ==
    Absent \notin Attempts \cup [owner : Runs, quarantined : BOOLEAN]

VARIABLES
    regime,       \* chosen once: the loads there are to do (loads), whether a
                  \* main loop may be late to renew at half the TTL (late), the
                  \* kinds of fault that may happen (kinds) and how many (faults)
    lease,        \* the lease object: owner and quarantine mark, or Absent
    claims,       \* per input, the first load manifest its claim names
    remote,       \* per attempt, its Data Flow run
    written,      \* attempts whose load manifest exists
    uploaded,     \* runs whose pipeline manifest is in the object store
    phase,        \* per run, where its main thread is
    state,        \* per attempt, the state of its node
    held,         \* per run, its load_lease: none, or a current or stale etag
    leaseError, leaseQuarantined, stop, interrupted,
    worker,       \* per run, where its load thread is
    result,       \* per run, what its last load thread returned or raised
    faults

shared == << lease, claims, remote, written, uploaded >>
main == << phase, state, held, leaseError, leaseQuarantined, interrupted >>
vars == << shared, main, stop, worker, result, faults >>

NodeTerminal == {"SUCCEEDED", "FAILED", "BLOCKED", "CANCELLED"}
RemoteActive == {"accepted", "inserting"}
RemoteEnded == {"succeeded", "failed"}

AttemptsOf(r) == { a \in Attempts : a[1] = r }
Current(r) == CHOOSE a \in AttemptsOf(r) : state[a] = "RUNNING"

Init ==
    /\ regime \in Regimes
    /\ lease = Absent
    /\ claims = [x \in Inputs |-> Absent]
    /\ remote = [a \in Attempts |-> "none"]
    /\ written = {} /\ uploaded = {}
    /\ phase = [r \in Runs |-> "loop"]
    /\ state = [a \in Attempts |-> IF a \in regime.loads THEN "PENDING" ELSE "CANCELLED"]
    /\ held = [r \in Runs |-> "none"]
    /\ leaseError = [r \in Runs |-> FALSE]
    /\ leaseQuarantined = [r \in Runs |-> FALSE]
    /\ stop = [r \in Runs |-> FALSE]
    /\ interrupted = [r \in Runs |-> FALSE]
    /\ worker = [r \in Runs |-> "none"]
    /\ result = [r \in Runs |-> "none"]
    /\ faults = 0

Fault(kind) == kind \in regime.kinds /\ faults < regime.faults /\ faults' = faults + 1

Set(f, x, value) == [f EXCEPT ![x] = value]

-----------------------------------------------------------------------------
(* The lease object. Whoever changes it makes every etag of it stale but    *)
(* its own.                                                                 *)

HeldAfter(r, mine) == [ q \in Runs |-> IF q = r THEN mine
                                       ELSE IF held[q] = "current" THEN "stale"
                                       ELSE held[q] ]

\* Faulty variants: a lease at work may lapse; a quarantined lease may lapse.
MayLapseAtWork(l) == ~l.quarantined
MayLapseQuarantined(l) == phase[l.owner] # "loop" \/ regime.late

MayLapse(l) == ~l.quarantined /\ (phase[l.owner] # "loop" \/ regime.late)

MayAcquire == lease # Absent => MayLapse(lease)

LeaseOf(r) == [owner |-> r, quarantined |-> FALSE]

-----------------------------------------------------------------------------
(* The main loop: acquire the lease and start the next load.                *)

Pending(r) == { a \in AttemptsOf(r) : state[a] = "PENDING" }

NextPending(r) == CHOOSE a \in Pending(r) : \A b \in Pending(r) : a[2] <= b[2]

Scheduling(r) == phase[r] = "loop" /\ worker[r] = "none" /\ Pending(r) # {}

\* A lease error blocks every load that has not started.
BlockLoads(r) ==
    /\ phase[r] = "loop" /\ leaseError[r] /\ Pending(r) # {}
    /\ state' = [a \in Attempts |-> IF a \in Pending(r) THEN "BLOCKED" ELSE state[a]]
    /\ UNCHANGED << shared, phase, held, leaseError, leaseQuarantined, interrupted,
                    stop, worker, result, faults >>

AcquireLease(r) ==
    /\ Scheduling(r) /\ ~leaseError[r] /\ held[r] = "none"
    /\ MayAcquire
    /\ lease' = LeaseOf(r)
    /\ held' = HeldAfter(r, "current")
    /\ state' = Set(state, NextPending(r), "RUNNING")
    /\ worker' = Set(worker, r, "queued")
    /\ UNCHANGED << claims, remote, written, uploaded, phase, leaseError,
                    leaseQuarantined, interrupted, stop, result, faults >>

\* The lease is another's, or the request for it fails (and may have landed).
FailToAcquire(r) ==
    /\ Scheduling(r) /\ ~leaseError[r] /\ held[r] = "none"
    /\ \/ /\ lease # Absent
          /\ UNCHANGED << lease, held, faults >>
       \/ /\ Fault("acquire")
          /\ UNCHANGED << lease, held >>
       \/ /\ Fault("acquire")
          /\ MayAcquire
          /\ lease' = LeaseOf(r)
          /\ held' = HeldAfter(r, "none")
    /\ leaseError' = Set(leaseError, r, TRUE)
    /\ state' = Set(state, NextPending(r), "FAILED")
    /\ UNCHANGED << claims, remote, written, uploaded, phase, leaseQuarantined,
                    interrupted, stop, worker, result >>

StartLoad(r) ==
    /\ Scheduling(r) /\ ~leaseError[r] /\ held[r] # "none"
    /\ state' = Set(state, NextPending(r), "RUNNING")
    /\ worker' = Set(worker, r, "queued")
    /\ UNCHANGED << shared, phase, held, leaseError, leaseQuarantined, interrupted,
                    stop, result, faults >>

\* Faulty variant: the renewal writes a fresh payload.
RenewAfresh(r) ==
    /\ phase[r] = "loop" /\ held[r] = "current"
    /\ lease' = LeaseOf(r)
    /\ UNCHANGED << claims, remote, written, uploaded, main, stop, worker, result, faults >>

\* _renew_lease writes its own payload, quarantine mark included.
RenewLease(r) ==
    /\ phase[r] = "loop" /\ held[r] = "current"
    /\ lease' = [lease EXCEPT !.owner = r]
    /\ UNCHANGED << claims, remote, written, uploaded, main, stop, worker, result, faults >>

\* The lease is lost, or its renewal fails (and may have landed): the run
\* stops its threads and asks for its Data Flow run to be cancelled.
FailToRenew(r) ==
    /\ phase[r] = "loop"
    /\ \/ held[r] = "stale" /\ ~stop[r] /\ UNCHANGED << held, faults >>
       \/ held[r] = "current" /\ Fault("renew")
             /\ \E etag \in {"current", "stale"} : held' = Set(held, r, etag)
    /\ leaseError' = Set(leaseError, r, TRUE)
    /\ stop' = Set(stop, r, TRUE)
    /\ UNCHANGED << shared, phase, state, leaseQuarantined, interrupted, worker, result >>

-----------------------------------------------------------------------------
(* The load thread.                                                         *)

Return(r, value) ==
    /\ worker' = Set(worker, r, "finished")
    /\ result' = Set(result, r, value)

Advance(r, label) == worker' = Set(worker, r, label) /\ UNCHANGED result

Begin(r) ==
    /\ worker[r] = "queued" /\ phase[r] # "crashed"
    /\ Advance(r, "check")
    /\ UNCHANGED << shared, main, stop, faults >>

(* _validate_resume_chain: from the named manifest back to the claimed one, *)
(* through manifests that exist, are of this input and are not known to     *)
(* belong to a load that succeeded. The chain of an attempt is the smallest *)
(* set that has it and whatever its attempts resume.                        *)
Lineage ==
    [ a \in Attempts |->
        { b \in Attempts : \A chain \in SUBSET Attempts :
            (a \in chain /\ \A c \in chain : Previous(c) \in chain \cup {Absent})
                => b \in chain } ]

KnownSuccess(a) == a[1] \in uploaded /\ state[a] = "SUCCEEDED"

\* Faulty variant: the claim is looked up, the chain's manifests are not read.
ResumeClaimIsValid(a) ==
    \E b \in Lineage[Previous(a)] : Previous(b) = Absent /\ claims[Input(a)] = b

ResumeChainIsValid(a) ==
    /\ \A b \in Lineage[Previous(a)] :
          b \in written /\ Input(b) = Input(a) /\ ~KnownSuccess(b)
    /\ \E b \in Lineage[Previous(a)] : Previous(b) = Absent /\ claims[Input(a)] = b

(* _prepare_load_attempt: the validation gate, then a new claim or the      *)
(* claim and the chain of a resumed load. An exception here is no ambiguity.*)
Check(r) ==
    LET a == Current(r) IN
    /\ worker[r] = "check"
    /\ \/ /\ Return(r, "FAILED")                       \* report or marker refuses
          /\ UNCHANGED << claims, faults >>
       \/ /\ Previous(a) = Absent /\ claims[Input(a)] = Absent
          /\ claims' = Set(claims, Input(a), a)
          /\ \/ Advance(r, "submit") /\ UNCHANGED faults
             \/ Return(r, "error") /\ Fault("claim")
       \/ /\ Previous(a) = Absent /\ claims[Input(a)] # Absent
          /\ Return(r, "error")
          /\ UNCHANGED << claims, faults >>
       \/ /\ Previous(a) # Absent /\ claims[Input(a)] # Absent /\ ResumeChainIsValid(a)
          /\ Advance(r, "submit")
          /\ UNCHANGED << claims, faults >>
       \/ /\ Previous(a) # Absent /\ ~(claims[Input(a)] # Absent /\ ResumeChainIsValid(a))
          /\ Return(r, "error")
          /\ UNCHANGED << claims, faults >>
    /\ UNCHANGED << lease, remote, written, uploaded, main, stop >>

(* Submission: an error, whether the run was created or not, is ambiguous.  *)
Submit(r) ==
    LET a == Current(r) IN
    /\ worker[r] = "submit"
    /\ \/ /\ stop[r]
          /\ Return(r, "CANCELLED")
          /\ UNCHANGED << remote, faults >>
       \/ /\ ~stop[r]
          /\ remote' = Set(remote, a, "accepted")
          /\ Advance(r, "register")
          /\ UNCHANGED faults
       \/ /\ ~stop[r] /\ Fault("submit")
          /\ remote' \in {remote, Set(remote, a, "accepted")}
          /\ Return(r, "ambiguous")
    /\ UNCHANGED << lease, claims, written, uploaded, main, stop >>

\* Under active_lock: a stop that came meanwhile turns into a cancellation,
\* which asks for the run's end and does not wait for it.
Register(r) ==
    /\ worker[r] = "register"
    /\ \/ ~stop[r] /\ Advance(r, "poll") /\ UNCHANGED faults
       \/ stop[r] /\ Return(r, "CANCELLED") /\ UNCHANGED faults
       \/ stop[r] /\ Return(r, "ambiguous") /\ Fault("cancel")
    /\ UNCHANGED << shared, main, stop >>

\* Faulty variant: only a run that succeeded is terminal.
PollForSuccess(r) ==
    /\ worker[r] = "poll"
    /\ \/ stop[r] /\ Return(r, "CANCELLED") /\ UNCHANGED faults
       \/ ~stop[r] /\ remote[Current(r)] = "succeeded" /\ Advance(r, "gate") /\ UNCHANGED faults
       \/ ~stop[r] /\ Return(r, "ambiguous") /\ Fault("poll")
    /\ UNCHANGED << shared, main, stop >>

Poll(r) ==
    LET a == Current(r) IN
    /\ worker[r] = "poll"
    /\ \/ stop[r] /\ Return(r, "CANCELLED") /\ UNCHANGED faults
       \/ ~stop[r] /\ remote[a] = "succeeded" /\ Advance(r, "gate") /\ UNCHANGED faults
       \/ ~stop[r] /\ remote[a] = "failed" /\ Return(r, "FAILED") /\ UNCHANGED faults
       \/ ~stop[r] /\ Return(r, "ambiguous") /\ Fault("poll")
    /\ UNCHANGED << shared, main, stop >>

\* The load manifest of a successful run is read and compared.
Gate(r) ==
    /\ worker[r] = "gate"
    /\ \/ \E value \in {"SUCCEEDED", "FAILED"} : Return(r, value) /\ UNCHANGED faults
       \/ Return(r, "ambiguous") /\ Fault("gate")
    /\ UNCHANGED << shared, main, stop >>

Work(r) == Begin(r) \/ Check(r) \/ Submit(r) \/ Register(r) \/ Poll(r) \/ Gate(r)

-----------------------------------------------------------------------------
(* The main loop takes the result of the finished thread. An ambiguous one  *)
(* is a lease error, and the lease is quarantined: the request succeeds, is *)
(* refused, or fails (and may have landed).                                 *)

Quarantine(r) ==
    \/ /\ held[r] = "current"
       /\ lease' = [owner |-> r, quarantined |-> TRUE]
       /\ UNCHANGED << held, faults >>
    \/ /\ held[r] = "stale"
       /\ UNCHANGED << lease, held, faults >>
    \/ /\ Fault("quarantine")
       /\ UNCHANGED << lease, held >>
    \/ /\ held[r] = "current" /\ Fault("quarantine")
       /\ lease' = [owner |-> r, quarantined |-> TRUE]
       /\ held' = Set(held, r, "stale")

Collect(r) ==
    LET a == Current(r) IN
    /\ phase[r] = "loop" /\ worker[r] = "finished"
    /\ worker' = Set(worker, r, "none")
    /\ \/ /\ result[r] # "ambiguous"
          /\ state' = Set(state, a, IF result[r] = "error" THEN "FAILED" ELSE result[r])
          /\ UNCHANGED << lease, held, leaseError, leaseQuarantined, faults >>
       \/ /\ result[r] = "ambiguous"
          /\ state' = Set(state, a, "FAILED")
          /\ leaseError' = Set(leaseError, r, TRUE)
          /\ leaseQuarantined' = Set(leaseQuarantined, r, TRUE)
          /\ Quarantine(r)
    /\ UNCHANGED << claims, remote, written, uploaded, phase, interrupted, stop, result >>

\* No future is left and every node is terminal.
LeaveLoop(r) ==
    /\ phase[r] = "loop" /\ worker[r] = "none" /\ Pending(r) = {}
    /\ phase' = Set(phase, r, "closing")
    /\ stop' = Set(stop, r, TRUE)
    /\ UNCHANGED << shared, state, held, leaseError, leaseQuarantined, interrupted,
                    worker, result, faults >>

\* KeyboardInterrupt: stop the threads, ask for cancellations, cancel futures.
Interrupt(r) ==
    /\ phase[r] = "loop" /\ Fault("interrupt")
    /\ phase' = Set(phase, r, "closing")
    /\ stop' = Set(stop, r, TRUE)
    /\ interrupted' = Set(interrupted, r, TRUE)
    /\ worker' = IF worker[r] = "queued" THEN Set(worker, r, "none") ELSE worker
    /\ UNCHANGED << shared, state, held, leaseError, leaseQuarantined, result >>

(* The finally block, once the threads have ended: release the lease unless *)
(* it was quarantined; then the nodes an interrupt left open are cancelled. *)
Close(r) ==
    /\ phase[r] = "closing" /\ worker[r] \in {"none", "finished"}
    /\ phase' = Set(phase, r, "uploading")
    /\ \/ /\ held[r] = "current" /\ ~leaseQuarantined[r]
          /\ \/ lease' = Absent /\ UNCHANGED faults
             \/ lease' \in {lease, Absent} /\ Fault("release")
          /\ held' = Set(held, r, "none")
       \/ /\ held[r] # "current" \/ leaseQuarantined[r]
          /\ UNCHANGED << lease, held, faults >>
    /\ state' = IF interrupted[r]
                THEN [a \in Attempts |-> IF a \in AttemptsOf(r) /\ state[a] \notin NodeTerminal
                                         THEN "CANCELLED" ELSE state[a]]
                ELSE state
    /\ UNCHANGED << claims, remote, written, uploaded, leaseError, leaseQuarantined,
                    interrupted, stop, worker, result >>

\* run_command: the pipeline manifest goes to the object store, or fails to.
Upload(r) ==
    /\ phase[r] = "uploading"
    /\ \/ uploaded' = uploaded \cup {r} /\ UNCHANGED faults
       \/ uploaded' = uploaded /\ Fault("upload")
    /\ phase' = Set(phase, r, "exited")
    /\ UNCHANGED << lease, claims, remote, written, state, held, leaseError,
                    leaseQuarantined, interrupted, stop, worker, result >>

Manage(r) ==
    \/ BlockLoads(r) \/ AcquireLease(r) \/ FailToAcquire(r) \/ StartLoad(r)
    \/ FailToRenew(r) \/ Collect(r) \/ LeaveLoop(r) \/ Close(r) \/ Upload(r)

-----------------------------------------------------------------------------
(* The environment.                                                         *)

\* The runner is killed; a submission under way may have been accepted.
Crash(r) ==
    /\ phase[r] \notin {"exited", "crashed"} /\ Fault("crash")
    /\ phase' = Set(phase, r, "crashed")
    /\ worker' = Set(worker, r, "none")
    /\ \/ UNCHANGED remote
       \/ worker[r] = "submit" /\ remote' = Set(remote, Current(r), "accepted")
    /\ UNCHANGED << lease, claims, written, uploaded, state, held, leaseError,
                    leaseQuarantined, interrupted, stop, result >>

\* load_tables.main writes the manifest before the first INSERT. A run may
\* fail, or be cancelled, before or after that.
RemoteRun(a) ==
    /\ \/ /\ remote[a] = "accepted"
          /\ remote' = Set(remote, a, "inserting")
          /\ written' = written \cup {a}
       \/ /\ remote[a] = "inserting"
          /\ remote' = Set(remote, a, "succeeded")
          /\ UNCHANGED written
       \/ /\ remote[a] \in RemoteActive
          /\ remote' = Set(remote, a, "failed")
          /\ UNCHANGED written
    /\ UNCHANGED << lease, claims, uploaded, main, stop, worker, result, faults >>

\* An operator removes a quarantined lease after looking at the owner's runs.
OperatorClears ==
    /\ lease # Absent /\ lease.quarantined
    /\ \A a \in AttemptsOf(lease.owner) : remote[a] \notin RemoteActive
    /\ lease' = Absent
    /\ held' = HeldAfter(lease.owner, IF held[lease.owner] = "current" THEN "stale"
                                      ELSE held[lease.owner])
    /\ UNCHANGED << claims, remote, written, uploaded, phase, state, leaseError,
                    leaseQuarantined, interrupted, stop, worker, result, faults >>

Over == /\ \A r \in Runs : phase[r] \in {"exited", "crashed"}
        /\ \A a \in Attempts : remote[a] \notin RemoteActive
        /\ UNCHANGED vars

Next ==
    /\ \/ \E r \in Runs : Manage(r) \/ RenewLease(r) \/ Work(r) \/ Interrupt(r) \/ Crash(r)
       \/ \E a \in Attempts : RemoteRun(a)
       \/ OperatorClears
       \/ Over
    /\ UNCHANGED regime

Spec == Init /\ [][Next]_<<vars, regime>>

(* The main loop goes round every 0.1 s, a load thread goes on as soon as   *)
(* its OCI command returns, and Data Flow runs end. Nobody is obliged to    *)
(* clear a quarantine.                                                      *)
FairSpec ==
    /\ Spec
    /\ \A r \in Runs : WF_vars(Manage(r)) /\ WF_vars(Work(r))
    /\ \A a \in Attempts : WF_vars(RemoteRun(a))

-----------------------------------------------------------------------------
\* Renewals and quarantines come in time and succeed, and nobody is interrupted.
Orderly == ~regime.late /\ regime.kinds \cap {"renew", "quarantine", "interrupt"} = {}

(* Loads are serialized under the environment lease: never do two Data Flow *)
(* runs insert at once, neither of two runners nor of two products, as long *)
(* as renewals and quarantines come in time and succeed and nobody is       *)
(* interrupted or killed. (A run whose renewal failed asks its Data Flow    *)
(* run to end, does not wait for it, and leaves a lease that lapses.)       *)
OneLoadAtATime ==
    Orderly /\ "crash" \notin regime.kinds
        => Cardinality({ a \in Attempts : remote[a] \in RemoteActive }) <= 1

(* "An OCI submission or polling error leaves the load state ambiguous":    *)
(* once the runner has gone, and while that load may still insert, the      *)
(* environment lease is quarantined (unless that very request fails).       *)
AmbiguityQuarantines ==
    "quarantine" \notin regime.kinds =>
        \A r \in Runs :
            /\ phase[r] \in {"uploading", "exited"}
            /\ result[r] = "ambiguous"
            /\ \E a \in AttemptsOf(r) : remote[a] \in RemoteActive
            => lease # Absent /\ lease.quarantined

(* Only an operator lifts a quarantine: no renewal, release or takeover     *)
(* by a runner does, however they interleave.                               *)
QuarantineSticks ==
    [][ (lease # Absent /\ lease.quarantined)
            => (lease' = lease \/ OperatorClears) ]_vars

(* Every load that was submitted can be traced through existing manifests   *)
(* to the one claim of its input; two unrelated attempts never load it.     *)
ClaimedLineage ==
    \A a \in Attempts : remote[a] # "none" =>
        /\ claims[Input(a)] \in Lineage[a]
        /\ Lineage[a] \ {a} \subseteq written

(* "A create-once claim prevents an unnoticed second attempt": no load is   *)
(* admitted whose input another attempt is already known to have loaded.    *)
NoUnnoticedRepeat ==
    [][ \A r \in Runs : (worker[r] = "check" /\ worker'[r] = "submit") =>
            ~\E b \in Attempts : Input(b) = Input(Current(r)) /\ KnownSuccess(b) ]_vars

(* Every load ends in a terminal state unless its runner is killed, and the *)
(* runner then leaves.                                                      *)
EveryRunEnds ==
    \A r \in Runs : <>( \/ phase[r] = "crashed"
                        \/ /\ phase[r] = "exited"
                           /\ \A a \in AttemptsOf(r) : state[a] \in NodeTerminal )
=============================================================================
