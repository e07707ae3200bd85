----------------------------- MODULE LoadProofs -----------------------------
(***************************************************************************)
(* Proofs about the Oracle load stage of the pipeline runs on one          *)
(* environment, for any number of runs, any lists of loads and any regime: *)
(* only an operator lifts a quarantine, every load can be traced to the    *)
(* one claim of its input, and as long as renewals and quarantines come    *)
(* in time and succeed, loads run one at a time and an ambiguous one keeps *)
(* the environment under quarantine.                                       *)
(***************************************************************************)
EXTENDS LoadProtocol, FiniteSetTheorems, TLAPS

-----------------------------------------------------------------------------
(* The inductive invariant, in named parts.                                 *)

Working == {"check", "submit", "register", "poll", "gate"}

TypeOK ==
    /\ lease \in {Absent} \cup [owner : Runs, quarantined : BOOLEAN]
    /\ claims \in [Inputs -> Attempts \cup {Absent}]
    /\ remote \in [Attempts -> {"none"} \cup RemoteActive \cup RemoteEnded]
    /\ written \subseteq Attempts /\ uploaded \subseteq Runs
    /\ phase \in [Runs -> {"loop", "closing", "uploading", "exited", "crashed"}]
    /\ state \in [Attempts -> {"PENDING", "RUNNING"} \cup NodeTerminal]
    /\ held \in [Runs -> {"none", "current", "stale"}]
    /\ leaseError \in [Runs -> BOOLEAN] /\ leaseQuarantined \in [Runs -> BOOLEAN]
    /\ stop \in [Runs -> BOOLEAN] /\ interrupted \in [Runs -> BOOLEAN]
    /\ worker \in [Runs -> {"none", "queued", "finished"} \cup Working]
    /\ result \in [Runs -> {"none", "error", "ambiguous", "SUCCEEDED", "FAILED", "CANCELLED"}]

HasRunning(r) == \E a \in AttemptsOf(r) : state[a] = "RUNNING"

\* A runner has one load at a time, the one its thread is about.
CurrentOK ==
    /\ \A a, b \in Attempts :
          (a[1] = b[1] /\ state[a] = "RUNNING" /\ state[b] = "RUNNING") => a = b
    /\ \A r \in Runs :
          /\ worker[r] \in {"queued"} \cup Working => phase[r] \in {"loop", "closing"} /\ HasRunning(r)
          /\ phase[r] = "loop" => (worker[r] = "none" <=> ~HasRunning(r))
          /\ worker[r] = "finished" => result[r] # "none"

\* A current etag is the owner's, who knows of a quarantine.
LeaseOK ==
    /\ \A r \in Runs : held[r] = "current" => lease # Absent /\ lease.owner = r
    /\ (lease # Absent /\ lease.quarantined) => leaseQuarantined[lease.owner]

Traced(a) == claims[Input(a)] \in Lineage[a] /\ Lineage[a] \ {a} \subseteq written

LineageOK ==
    \A a \in Attempts :
        (remote[a] # "none" \/ (state[a] = "RUNNING" /\ worker[a[1]] = "submit")) => Traced(a)

\* In an orderly regime a thread at work has the lease, and a lease error is
\* the end of a runner's loads.
OrderOK ==
    /\ \A r \in Runs : (phase[r] = "loop" /\ stop[r]) => leaseError[r]
    /\ Orderly => \A r \in Runs :
          /\ worker[r] # "none" =>
                /\ phase[r] = "loop" /\ held[r] = "current" /\ ~stop[r]
                /\ ~leaseError[r] /\ ~leaseQuarantined[r]
          /\ leaseQuarantined[r] => leaseError[r]
          /\ (phase[r] = "loop" /\ held[r] = "stale") => leaseError[r]

Active(a) == remote[a] \in RemoteActive

\* Somebody looks after the Data Flow run of the attempt: its runner's thread,
\* which has not given it up, or who must lift the quarantine.
LookedAfter(a) ==
    /\ lease # Absent /\ lease.owner = a[1]
    /\ ~lease.quarantined =>
          /\ state[a] = "RUNNING"
          /\ worker[a[1]] \in {"register", "poll", "finished"}
          /\ worker[a[1]] = "finished" => result[a[1]] = "ambiguous"

ActiveOK ==
    Orderly => \A a \in Attempts :
        Active(a) /\ phase[a[1]] # "crashed" => LookedAfter(a)

OneOK ==
    Orderly /\ "crash" \notin regime.kinds =>
        /\ \A r \in Runs : phase[r] # "crashed"
        /\ \A a, b \in Attempts : Active(a) /\ Active(b) => a = b

IInv == TypeOK /\ CurrentOK /\ LeaseOK /\ LineageOK /\ OrderOK /\ ActiveOK /\ OneOK

-----------------------------------------------------------------------------
(* Attempts.                                                                *)

\* An attempt has a run, a number, an input and, if it resumes another, that one.
LEMMA AttemptParts ==
    ASSUME NEW a \in Attempts
    PROVE  /\ a[1] \in Runs /\ a[2] \in Nat /\ a \in AttemptsOf(a[1])
           /\ Input(a) \in Inputs /\ Previous(a) \in Attempts \cup {Absent}
  <1>1. PICK r \in Runs : a \in { <<r, i>> : i \in DOMAIN Loads[r] }
    BY DEF Attempts
  <1>2. PICK i \in DOMAIN Loads[r] : a = <<r, i>>
    BY <1>1
  <1> DEFINE Load == [input : Inputs, previous : Attempts \cup {Absent}]
  <1>3. Loads[r] \in Seq(Load)
    BY LoadsAreResumable
  <1>4. i \in Nat /\ Loads[r][i] \in Load
    <2> HIDE DEF Load
    <2>1. QED
      BY <1>3
  <1>5. QED
    BY <1>2, <1>4 DEF AttemptsOf, Input, Previous

(* A nonempty set of natural numbers has a least one.                       *)
LEMMA LeastNumber ==
    ASSUME NEW S \in SUBSET Nat, S # {}
    PROVE  \E x \in S : \A y \in S : x <= y
  <1> DEFINE R == { p \in Nat \X Nat : p[1] < p[2] }
  <1>1. IsWellFoundedOn(R, Nat)
    BY NatLessThanWellFounded DEF OpToRel
  <1>2. \A x, y \in Nat : y < x => <<y, x>> \in R
    OBVIOUS
  <1> HIDE DEF R
  <1>3. PICK x \in S : \A y \in S : <<y, x>> \notin R
    BY <1>1, WFMin
  <1>4. ASSUME NEW y \in S
        PROVE  x <= y
    <2>1. x \in Nat /\ y \in Nat /\ <<y, x>> \notin R
      BY <1>3
    <2>2. ~(y < x)
      BY <1>2, <2>1
    <2>3. QED
      BY <2>1, <2>2
  <1>5. QED
    BY <1>4

\* The attempt a run launches next is a pending one of its own.
LEMMA NextIsPending ==
    ASSUME NEW r \in Runs, Pending(r) # {}
    PROVE  /\ NextPending(r) \in Attempts /\ NextPending(r)[1] = r
           /\ state[NextPending(r)] = "PENDING"
  <1> DEFINE Places == { a[2] : a \in Pending(r) }
  <1>1. Places \in SUBSET Nat /\ Places # {}
    BY AttemptParts DEF Pending, AttemptsOf
  <1>2. PICK least \in Places : \A i \in Places : least <= i
    <2> HIDE DEF Places
    <2>1. QED
      BY <1>1, LeastNumber
  <1>3. \E a \in Pending(r) : \A b \in Pending(r) : a[2] <= b[2]
    BY <1>2
  <1>4. NextPending(r) \in Pending(r)
    BY <1>3 DEF NextPending
  <1>5. QED
    BY <1>4 DEF Pending, AttemptsOf

\* The attempt a run is at is a running one of its own.
LEMMA CurrentIsRunning ==
    ASSUME NEW r \in Runs, HasRunning(r)
    PROVE  /\ Current(r) \in Attempts /\ Current(r)[1] = r /\ Current(r) \in AttemptsOf(r)
           /\ state[Current(r)] = "RUNNING"
  <1>1. Current(r) \in AttemptsOf(r) /\ state[Current(r)] = "RUNNING"
    BY DEF HasRunning, Current
  <1>2. QED
    BY <1>1 DEF AttemptsOf

(* The chain of an attempt is the attempt and the chain of what it resumes. *)
LEMMA LineageOfFresh ==
    ASSUME NEW a \in Attempts, Previous(a) = Absent
    PROVE  Lineage[a] = {a}
  <1>1. a \in Lineage[a]
    BY DEF Lineage
  <1>2. \A b \in Lineage[a] : b \in {a}
    <2>1. {a} \in SUBSET Attempts /\ \A c \in {a} : Previous(c) \in {a} \cup {Absent}
      OBVIOUS
    <2>2. QED
      BY <2>1 DEF Lineage
  <1>3. QED
    BY <1>1, <1>2

\* An attempt's lineage is itself and that of the attempt it resumes.
LEMMA LineageOfResumed ==
    ASSUME NEW a \in Attempts, Previous(a) # Absent
    PROVE  /\ Previous(a) \in Attempts
           /\ Lineage[a] \subseteq Attempts
           /\ Lineage[Previous(a)] \subseteq Lineage[a]
           /\ Lineage[a] \ {a} \subseteq Lineage[Previous(a)]
  <1>1. Previous(a) \in Attempts
    BY AttemptParts
  <1> DEFINE Closed(chain) == \A c \in chain : Previous(c) \in chain \cup {Absent}
  <1>2. ASSUME NEW b \in Lineage[Previous(a)]
        PROVE  b \in Lineage[a]
    BY <1>1 DEF Lineage
  <1>3. ASSUME NEW b \in Lineage[a], b # a
        PROVE  b \in Lineage[Previous(a)]
    <2>1. SUFFICES ASSUME NEW chain \in SUBSET Attempts, Previous(a) \in chain, Closed(chain)
                   PROVE  b \in chain
      BY <1>1, <1>3 DEF Lineage
    <2>2. chain \cup {a} \in SUBSET Attempts /\ a \in chain \cup {a} /\ Closed(chain \cup {a})
      BY <2>1
    <2>3. b \in chain \cup {a}
      BY <2>2 DEF Lineage
    <2>4. QED
      BY <1>3, <2>3
  <1>4. QED
    BY <1>1, <1>2, <1>3 DEF Lineage

-----------------------------------------------------------------------------
(* Type correctness, and the load a runner is at.                           *)

\* A run that launches an attempt has that one running.
LEMMA RunningMoves ==
    ASSUME TypeOK, CurrentOK, NEW r \in Runs, phase[r] = "loop", worker[r] = "none",
           NEW a \in AttemptsOf(r), state[a] = "PENDING",
           state' = Set(state, a, "RUNNING"), worker' = Set(worker, r, "queued"),
           UNCHANGED << phase, result >>
    PROVE  CurrentOK'
  <1>1. a \in Attempts /\ a[1] = r
    BY DEF AttemptsOf
  <1>2. \A b \in Attempts : state'[b] = "RUNNING" <=> (b = a \/ state[b] = "RUNNING")
    BY <1>1 DEF Set, TypeOK
  <1>3. \A b \in Attempts : b[1] = r => state[b] # "RUNNING"
    BY DEF CurrentOK, HasRunning, AttemptsOf
  <1>4. \A q \in Runs : HasRunning(q)' <=> (q = r \/ HasRunning(q))
    BY <1>1, <1>2 DEF HasRunning, AttemptsOf
  <1>5. \A q \in Runs : worker'[q] = (IF q = r THEN "queued" ELSE worker[q])
    BY DEF Set, TypeOK
  <1>6. QED
    BY <1>1, <1>2, <1>3, <1>4, <1>5 DEF CurrentOK, Working

\* A run that takes the result of its attempt has none running.
LEMMA RunningEnds ==
    ASSUME TypeOK, CurrentOK, NEW r \in Runs, phase[r] = "loop", worker[r] = "finished",
           NEW value \in NodeTerminal,
           state' = Set(state, Current(r), value), worker' = Set(worker, r, "none"),
           UNCHANGED << phase, result >>
    PROVE  CurrentOK'
  <1>1. /\ Current(r) \in Attempts /\ Current(r)[1] = r /\ state[Current(r)] = "RUNNING"
    BY CurrentIsRunning DEF CurrentOK
  <1>2. \A b \in Attempts : state'[b] = "RUNNING" <=> (b # Current(r) /\ state[b] = "RUNNING")
    BY <1>1 DEF Set, TypeOK, NodeTerminal
  <1>3. \A b \in Attempts : b[1] = r => state'[b] # "RUNNING"
    BY <1>1, <1>2 DEF CurrentOK
  <1>4. \A q \in Runs : HasRunning(q)' <=> (q # r /\ HasRunning(q))
    BY <1>1, <1>2, <1>3 DEF HasRunning, AttemptsOf
  <1>5. \A q \in Runs : worker'[q] = (IF q = r THEN "none" ELSE worker[q])
    BY DEF Set, TypeOK
  <1>6. QED
    BY <1>1, <1>2, <1>4, <1>5 DEF CurrentOK, Working

\* A worker that goes on leaves its run with the attempt it has running.
LEMMA ThreadMoves ==
    ASSUME TypeOK, CurrentOK, NEW r \in Runs, worker[r] \in {"queued"} \cup Working,
           NEW label \in Working \cup {"finished"}, worker' = Set(worker, r, label),
           UNCHANGED << state, phase >>,
           \A q \in Runs \ {r} : result'[q] = result[q],
           label = "finished" => result'[r] # "none"
    PROVE  CurrentOK'
  <1>1. \A q \in Runs : worker'[q] = (IF q = r THEN label ELSE worker[q])
    BY DEF Set, TypeOK
  <1>2. \A q \in Runs : HasRunning(q)' <=> HasRunning(q)
    BY DEF HasRunning
  <1>3. HasRunning(r) /\ phase[r] \in {"loop", "closing"}
    BY DEF CurrentOK
  <1>4. QED
    BY <1>1, <1>2, <1>3 DEF CurrentOK, Working

(* What a step of a load thread may do: its own run and claim, nothing of   *)
(* the lease.                                                               *)
WorkMoves(r) ==
    /\ worker[r] \in {"queued"} \cup Working
    /\ \E label \in Working \cup {"finished"} : worker' = Set(worker, r, label)
    /\ UNCHANGED << lease, written, uploaded, main, stop >>
    /\ worker'[r] = "submit" => worker[r] = "check"
    /\ \A q \in Runs \ {r} : result'[q] = result[q]
    /\ worker'[r] = "finished" => result'[r] # "none"

\* A step of a worker is about its own run and keeps the types.
LEMMA WorkIsOwn ==
    ASSUME TypeOK, CurrentOK, NEW r \in Runs, Work(r)
    PROVE  WorkMoves(r) /\ TypeOK' /\ CurrentOK'
  <1>1. WorkMoves(r)
    BY DEF Work, Begin, Check, Submit, Register, Poll, Gate, Return, Advance, WorkMoves,
           Working, shared, main, Set, TypeOK
  <1>2. CurrentOK'
    BY <1>1, ThreadMoves DEF WorkMoves, main, Set, TypeOK
  <1>3. worker' \in [Runs -> {"none", "queued", "finished"} \cup Working]
    BY <1>1 DEF WorkMoves, Set, TypeOK
  <1>4. result' \in [Runs -> {"none", "error", "ambiguous", "SUCCEEDED", "FAILED", "CANCELLED"}]
    BY DEF Work, Begin, Check, Submit, Register, Poll, Gate, Return, Advance, Set, TypeOK
  <1>5. remote' \in [Attempts -> {"none"} \cup RemoteActive \cup RemoteEnded]
    BY DEF Work, Begin, Check, Submit, Register, Poll, Gate, Set, shared, TypeOK, RemoteActive
  <1>6. claims' \in [Inputs -> Attempts \cup {Absent}]
    <2>1. Current(r) \in Attempts
      BY <1>1, CurrentIsRunning DEF WorkMoves, CurrentOK
    <2>2. QED
      BY <2>1 DEF Work, Begin, Check, Submit, Register, Poll, Gate, Set, shared, TypeOK
  <1>7. QED
    BY <1>1, <1>2, <1>3, <1>4, <1>5, <1>6 DEF WorkMoves, TypeOK, main

(* The new lease of a run, which no other run's etag matches any more.      *)
LEMMA LeaseTyping ==
    ASSUME NEW r \in Runs
    PROVE  /\ LeaseOf(r) \in [owner : Runs, quarantined : BOOLEAN] /\ LeaseOf(r) # Absent
           /\ LeaseOf(r).owner = r /\ ~LeaseOf(r).quarantined
           /\ [owner |-> r, quarantined |-> TRUE] \in [owner : Runs, quarantined : BOOLEAN]
           /\ [owner |-> r, quarantined |-> TRUE] # Absent
  <1>1. /\ LeaseOf(r) \in [owner : Runs, quarantined : BOOLEAN]
        /\ [owner |-> r, quarantined |-> TRUE] \in [owner : Runs, quarantined : BOOLEAN]
    BY DEF LeaseOf
  <1>2. \A l \in [owner : Runs, quarantined : BOOLEAN] : l # Absent
    BY AbsentIsNoObject
  <1>3. QED
    BY <1>1, <1>2 DEF LeaseOf

\* Who writes the lease makes the etag of every other run stale.
LEMMA HeldTyping ==
    ASSUME TypeOK, NEW r \in Runs, NEW mine \in {"none", "current", "stale"}
    PROVE  /\ HeldAfter(r, mine) \in [Runs -> {"none", "current", "stale"}]
           /\ HeldAfter(r, mine)[r] = mine
           /\ \A q \in Runs : q # r =>
                 /\ HeldAfter(r, mine)[q] # "current"
                 /\ HeldAfter(r, mine)[q] = held[q]
                    \/ (held[q] = "current" /\ HeldAfter(r, mine)[q] = "stale")
  BY DEF HeldAfter, TypeOK

\* Every step keeps the types and that each run has one attempt running at most.
LEMMA TypeStep ==
    ASSUME TypeOK, CurrentOK, LeaseOK, [Next]_<<vars, regime>>
    PROVE  TypeOK' /\ CurrentOK'
  <1> USE DEF Set, shared, main
  <1>1. ASSUME NEW r \in Runs, BlockLoads(r)
        PROVE  TypeOK' /\ CurrentOK'
    <2>1. \A b \in Attempts : state'[b] = "RUNNING" <=> state[b] = "RUNNING"
      BY <1>1 DEF BlockLoads, Pending
    <2>2. \A q \in Runs : HasRunning(q)' <=> HasRunning(q)
      BY <2>1 DEF HasRunning, AttemptsOf
    <2>3. CurrentOK'
      BY <1>1, <2>1, <2>2 DEF BlockLoads, CurrentOK
    <2>4. QED
      BY <1>1, <2>3 DEF BlockLoads, TypeOK, NodeTerminal
  <1>2. ASSUME NEW r \in Runs, AcquireLease(r) \/ StartLoad(r)
        PROVE  TypeOK' /\ CurrentOK'
    <2>1. /\ NextPending(r) \in AttemptsOf(r) /\ NextPending(r) \in Attempts
          /\ state[NextPending(r)] = "PENDING"
      BY <1>2, NextIsPending DEF AcquireLease, StartLoad, Scheduling, AttemptsOf
    <2>2. CurrentOK'
      BY <1>2, <2>1, RunningMoves DEF AcquireLease, StartLoad, Scheduling
    <2>3. /\ lease' = lease \/ lease' = LeaseOf(r)
          /\ held' = held \/ held' = HeldAfter(r, "current")
      BY <1>2 DEF AcquireLease, StartLoad
    <2>4. lease' \in {Absent} \cup [owner : Runs, quarantined : BOOLEAN]
      BY <2>3, LeaseTyping DEF TypeOK
    <2>5. held' \in [Runs -> {"none", "current", "stale"}]
      BY <2>3, HeldTyping DEF TypeOK
    <2>6. QED
      BY <1>2, <2>1, <2>2, <2>4, <2>5 DEF AcquireLease, StartLoad, TypeOK
  <1>3. ASSUME NEW r \in Runs, FailToAcquire(r)
        PROVE  TypeOK' /\ CurrentOK'
    <2>1. NextPending(r) \in Attempts /\ state[NextPending(r)] = "PENDING"
      BY <1>3, NextIsPending DEF FailToAcquire, Scheduling
    <2>2. \A b \in Attempts : state'[b] = "RUNNING" <=> state[b] = "RUNNING"
      BY <1>3, <2>1 DEF FailToAcquire, TypeOK
    <2>3. \A q \in Runs : HasRunning(q)' <=> HasRunning(q)
      BY <2>2 DEF HasRunning, AttemptsOf
    <2>4. CurrentOK'
      BY <1>3, <2>2, <2>3 DEF FailToAcquire, CurrentOK
    <2>5. /\ lease' = lease \/ lease' = LeaseOf(r)
          /\ held' = held \/ held' = HeldAfter(r, "none")
      BY <1>3 DEF FailToAcquire
    <2>6. lease' \in {Absent} \cup [owner : Runs, quarantined : BOOLEAN]
      BY <2>5, LeaseTyping DEF TypeOK
    <2>7. held' \in [Runs -> {"none", "current", "stale"}]
      BY <2>5, HeldTyping DEF TypeOK
    <2>8. QED
      BY <1>3, <2>4, <2>6, <2>7 DEF FailToAcquire, TypeOK, NodeTerminal
  <1>4. ASSUME NEW r \in Runs, RenewLease(r) \/ FailToRenew(r)
        PROVE  TypeOK' /\ CurrentOK'
    <2>1. \A q \in Runs : HasRunning(q)' <=> HasRunning(q)
      BY <1>4 DEF RenewLease, FailToRenew, HasRunning
    <2>2. CurrentOK'
      BY <1>4, <2>1 DEF RenewLease, FailToRenew, CurrentOK
    <2>3. RenewLease(r) => lease' \in [owner : Runs, quarantined : BOOLEAN]
      BY DEF RenewLease, LeaseOK, TypeOK
    <2>4. held' \in [Runs -> {"none", "current", "stale"}]
      BY <1>4 DEF RenewLease, FailToRenew, TypeOK
    <2>5. QED
      BY <1>4, <2>2, <2>3, <2>4 DEF RenewLease, FailToRenew, TypeOK
  <1>5. ASSUME NEW r \in Runs, Work(r)
        PROVE  TypeOK' /\ CurrentOK'
    BY <1>5, WorkIsOwn
  <1>6. ASSUME NEW r \in Runs, Collect(r)
        PROVE  TypeOK' /\ CurrentOK'
    <2>1. PICK value \in NodeTerminal : state' = Set(state, Current(r), value)
      <3>1. result[r] \in {"SUCCEEDED", "FAILED", "CANCELLED", "error", "ambiguous"}
        BY <1>6 DEF Collect, CurrentOK, TypeOK
      <3>2. QED
        BY <1>6, <3>1 DEF Collect, NodeTerminal
    <2>2. CurrentOK'
      BY <1>6, <2>1, RunningEnds DEF Collect
    <2>3. lease' \in {Absent} \cup [owner : Runs, quarantined : BOOLEAN]
      <3>1. lease' = lease \/ lease' = [owner |-> r, quarantined |-> TRUE]
        BY <1>6 DEF Collect, Quarantine
      <3>2. QED
        BY <3>1, LeaseTyping DEF TypeOK
    <2>4. QED
      BY <1>6, <2>1, <2>2, <2>3 DEF Collect, Quarantine, TypeOK, NodeTerminal
  <1>7. ASSUME NEW r \in Runs, LeaveLoop(r) \/ Interrupt(r)
        PROVE  TypeOK' /\ CurrentOK'
    <2>1. \A q \in Runs : HasRunning(q)' <=> HasRunning(q)
      BY <1>7 DEF LeaveLoop, Interrupt, HasRunning
    <2>2. CurrentOK'
      BY <1>7, <2>1 DEF LeaveLoop, Interrupt, CurrentOK, TypeOK, Working
    <2>3. QED
      BY <1>7, <2>2 DEF LeaveLoop, Interrupt, TypeOK
  <1>8. ASSUME NEW r \in Runs, Close(r)
        PROVE  TypeOK' /\ CurrentOK'
    <2>1. \A b \in Attempts : /\ state'[b] = "RUNNING" => state[b] = "RUNNING"
                              /\ b[1] # r => state'[b] = state[b]
      BY <1>8 DEF Close, AttemptsOf
    <2>2. \A q \in Runs : q # r => (HasRunning(q)' <=> HasRunning(q))
      BY <2>1 DEF HasRunning, AttemptsOf
    <2>3. CurrentOK'
      BY <1>8, <2>1, <2>2 DEF Close, CurrentOK, TypeOK, Working
    <2>4. state' \in [Attempts -> {"PENDING", "RUNNING"} \cup NodeTerminal]
      BY <1>8 DEF Close, TypeOK, NodeTerminal
    <2>5. QED
      BY <1>8, <2>3, <2>4 DEF Close, TypeOK
  <1>9. ASSUME NEW r \in Runs, Upload(r) \/ Crash(r)
        PROVE  TypeOK' /\ CurrentOK'
    <2>1. \A q \in Runs : HasRunning(q)' <=> HasRunning(q)
      BY <1>9 DEF Upload, Crash, HasRunning
    <2>2. CurrentOK'
      BY <1>9, <2>1 DEF Upload, Crash, CurrentOK, TypeOK, Working
    <2>3. remote' \in [Attempts -> {"none"} \cup RemoteActive \cup RemoteEnded]
      BY <1>9 DEF Upload, Crash, TypeOK, RemoteActive
    <2>4. QED
      BY <1>9, <2>2, <2>3 DEF Upload, Crash, TypeOK
  <1>10. ASSUME NEW a \in Attempts, RemoteRun(a)
         PROVE  TypeOK' /\ CurrentOK'
    BY <1>10 DEF RemoteRun, TypeOK, CurrentOK, HasRunning, RemoteActive, RemoteEnded
  <1>11. CASE OperatorClears
    <2>1. lease.owner \in Runs
      BY <1>11 DEF OperatorClears, TypeOK
    <2>2. held' \in [Runs -> {"none", "current", "stale"}]
      BY <1>11, <2>1, HeldTyping DEF OperatorClears, TypeOK
    <2>3. QED
      BY <1>11, <2>2 DEF OperatorClears, TypeOK, CurrentOK, HasRunning
  <1>12. CASE UNCHANGED <<vars, regime>>
    BY <1>12 DEF vars, TypeOK, CurrentOK, HasRunning
  <1>13. QED
    BY <1>1, <1>2, <1>3, <1>4, <1>5, <1>6, <1>7, <1>8, <1>9, <1>10, <1>11, <1>12
       DEF Next, Manage, Over, vars

-----------------------------------------------------------------------------
(* The lease object changes hands only when it is free, and nobody but its  *)
(* owner quarantines it, renews it or gives it back.                        *)

\* Every step keeps that a current etag is its owner's, who knows of a quarantine.
LEMMA LeaseStep ==
    ASSUME TypeOK, TypeOK', LeaseOK, [Next]_<<vars, regime>>
    PROVE  LeaseOK'
  <1> USE DEF Set, shared, main
  <1>1. ASSUME NEW r \in Runs, AcquireLease(r) \/ FailToAcquire(r)
        PROVE  LeaseOK'
    <2>1. CASE UNCHANGED << lease, held, leaseQuarantined >>
      BY <2>1 DEF LeaseOK
    <2>2. CASE /\ lease' = LeaseOf(r) /\ leaseQuarantined' = leaseQuarantined
               /\ \E mine \in {"none", "current"} : held' = HeldAfter(r, mine)
      BY <2>2, LeaseTyping, HeldTyping DEF LeaseOK
    <2>3. QED
      BY <1>1, <2>1, <2>2 DEF AcquireLease, FailToAcquire
  <1>2. ASSUME NEW r \in Runs, RenewLease(r)
        PROVE  LeaseOK'
    <2>1. lease # Absent /\ lease.owner = r
      BY <1>2 DEF RenewLease, LeaseOK
    <2>2. lease' = lease
      BY <1>2, <2>1 DEF RenewLease, TypeOK
    <2>3. QED
      BY <1>2, <2>2 DEF RenewLease, LeaseOK
  <1>3. ASSUME NEW r \in Runs, FailToRenew(r)
        PROVE  LeaseOK'
    BY <1>3 DEF FailToRenew, LeaseOK, TypeOK
  <1>4. ASSUME NEW r \in Runs, Collect(r)
        PROVE  LeaseOK'
    <2>1. \A q \in Runs : leaseQuarantined[q] => leaseQuarantined'[q]
      BY <1>4 DEF Collect, TypeOK
    <2>2. \A q \in Runs : held'[q] = "current" => held[q] = "current"
      BY <1>4 DEF Collect, Quarantine, TypeOK
    <2>3. CASE lease' = lease
      BY <2>1, <2>2, <2>3 DEF LeaseOK, TypeOK
    <2>4. CASE /\ lease' = [owner |-> r, quarantined |-> TRUE]
               /\ held[r] = "current" /\ leaseQuarantined'[r]
      BY <2>2, <2>4, LeaseTyping DEF LeaseOK
    <2>5. QED
      BY <1>4, <2>3, <2>4 DEF Collect, Quarantine, TypeOK
  <1>5. ASSUME NEW r \in Runs, Close(r)
        PROVE  LeaseOK'
    <2>1. CASE UNCHANGED << lease, held >>
      BY <1>5, <2>1 DEF Close, LeaseOK
    <2>2. CASE /\ held[r] = "current" /\ lease' \in {lease, Absent}
               /\ held' = [held EXCEPT ![r] = "none"]
      BY <1>5, <2>2 DEF Close, LeaseOK, TypeOK
    <2>3. QED
      BY <1>5, <2>1, <2>2 DEF Close
  <1>6. CASE OperatorClears
    <2>1. lease.owner \in Runs
      BY <1>6 DEF OperatorClears, TypeOK
    <2>2. \A q \in Runs : held'[q] # "current"
      BY <1>6, <2>1, HeldTyping DEF OperatorClears, TypeOK
    <2>3. QED
      BY <1>6, <2>2 DEF OperatorClears, LeaseOK
  <1>7. ASSUME NEW r \in Runs, Work(r)
        PROVE  UNCHANGED << lease, held, leaseQuarantined >>
    BY <1>7 DEF Work, Begin, Check, Submit, Register, Poll, Gate
  <1>8. ASSUME NEW r \in Runs, BlockLoads(r) \/ StartLoad(r) \/ LeaveLoop(r) \/ Upload(r)
                               \/ Interrupt(r) \/ Crash(r)
        PROVE  UNCHANGED << lease, held, leaseQuarantined >>
    BY <1>8 DEF BlockLoads, StartLoad, LeaveLoop, Upload, Interrupt, Crash
  <1>9. ASSUME NEW a \in Attempts, RemoteRun(a)
        PROVE  UNCHANGED << lease, held, leaseQuarantined >>
    BY <1>9 DEF RemoteRun
  <1>10. CASE UNCHANGED << lease, held, leaseQuarantined >>
    BY <1>10 DEF LeaseOK
  <1>11. QED
    BY <1>1, <1>2, <1>3, <1>4, <1>5, <1>6, <1>7, <1>8, <1>9, <1>10 DEF Next, Manage, Over, vars

-----------------------------------------------------------------------------
(* The claim of a load's input and the manifests of its chain stay.         *)

\* The claim and the manifests that an attempt can be traced by stay.
LEMMA TracesStay ==
    ASSUME TypeOK, CurrentOK, LeaseOK, [Next]_<<vars, regime>>,
           NEW a \in Attempts, Traced(a)
    PROVE  Traced(a)'
  <1> USE DEF Set, shared, main
  <1>1. claims[Input(a)] # Absent
    BY AbsentIsNoObject DEF Traced, Lineage
  <1>2. claims' = claims \/ \E x \in Inputs, b \in Attempts :
                                claims[x] = Absent /\ claims' = [claims EXCEPT ![x] = b]
    <2>1. ASSUME NEW r \in Runs, Work(r)
          PROVE  claims' = claims \/ \E x \in Inputs, b \in Attempts :
                                claims[x] = Absent /\ claims' = [claims EXCEPT ![x] = b]
      <3>1. CASE Check(r)
        <4>1. Current(r) \in Attempts
          BY <3>1, CurrentIsRunning DEF Check, CurrentOK, Working
        <4>2. QED
          BY <3>1, <4>1, AttemptParts DEF Check
      <3>2. QED
        BY <2>1, <3>1 DEF Work, Begin, Submit, Register, Poll, Gate
    <2>2. QED
      BY <2>1 DEF Next, Manage, Over, vars, BlockLoads, AcquireLease, FailToAcquire, StartLoad,
                  RenewLease, FailToRenew, Collect, LeaveLoop, Close, Upload, Interrupt, Crash,
                  RemoteRun, OperatorClears
  <1>3. claims'[Input(a)] = claims[Input(a)]
    BY <1>1, <1>2, AttemptParts DEF TypeOK
  <1>4. written \subseteq written'
    BY DEF Next, Manage, Over, vars, BlockLoads, AcquireLease, FailToAcquire, StartLoad,
           RenewLease, FailToRenew, Collect, LeaveLoop, Close, Upload, Interrupt, Crash,
           RemoteRun, OperatorClears, Work, Begin, Check, Submit, Register, Poll, Gate
  <1>5. QED
    BY <1>3, <1>4 DEF Traced

\* Every step keeps that an attempt submitted, or about to be, can be traced.
LEMMA LineageStep ==
    ASSUME TypeOK, TypeOK', CurrentOK, CurrentOK', LeaseOK, LineageOK, [Next]_<<vars, regime>>
    PROVE  LineageOK'
  <1> USE DEF Set, shared, main
  <1>1. SUFFICES ASSUME NEW a \in Attempts,
                        \/ remote'[a] # "none"
                        \/ state'[a] = "RUNNING" /\ worker'[a[1]] = "submit"
                 PROVE  Traced(a) \/ Traced(a)'
    BY TracesStay DEF LineageOK
  <1>2. SUFFICES ASSUME remote[a] = "none"
                 PROVE  Traced(a) \/ Traced(a)'
    BY DEF LineageOK
  <1>3. a[1] \in Runs /\ a \in AttemptsOf(a[1])
    BY AttemptParts
  <1>4. ASSUME NEW r \in Runs, Work(r)
        PROVE  Traced(a) \/ Traced(a)'
    <2>1. /\ Current(r) \in Attempts /\ Current(r)[1] = r /\ state[Current(r)] = "RUNNING"
          /\ state' = state
      BY <1>4, WorkIsOwn, CurrentIsRunning DEF WorkMoves, CurrentOK
    <2>2. \A b \in Attempts : b[1] = r /\ state[b] = "RUNNING" => b = Current(r)
      BY <2>1 DEF CurrentOK
    <2>3. CASE remote'[a] # "none"
      <3>1. worker[r] = "submit" /\ a = Current(r)
        BY <1>2, <1>4, <2>1, <2>3
           DEF Work, Begin, Check, Submit, Register, Poll, Gate, TypeOK
      <3>2. QED
        BY <2>1, <3>1 DEF LineageOK
    <2>4. CASE state[a] = "RUNNING" /\ worker'[a[1]] = "submit"
      <3>1. CASE a[1] # r
        BY <1>3, <1>4, <2>4, <3>1, WorkIsOwn DEF WorkMoves, LineageOK, TypeOK
      <3>2. CASE a[1] = r
        <4>1. a = Current(r) /\ Check(r)
          BY <1>4, <2>2, <2>4, <3>2, WorkIsOwn
             DEF WorkMoves, Work, Begin, Submit, Register, Poll, Gate, Working
        <4>2. CASE Previous(a) = Absent /\ claims[Input(a)] = Absent
                   /\ claims' = [claims EXCEPT ![Input(a)] = a]
          BY <4>2, LineageOfFresh, AttemptParts DEF Traced, TypeOK
        <4>3. CASE Previous(a) # Absent /\ ResumeChainIsValid(a)
          BY <4>3, LineageOfResumed DEF Traced, ResumeChainIsValid
        <4>4. QED
          BY <2>4, <3>2, <4>1, <4>2, <4>3 DEF Check, Return, Advance, TypeOK
      <3>3. QED
        BY <3>1, <3>2
    <2>5. QED
      BY <1>1, <2>1, <2>3, <2>4
  <1>5. ASSUME NEW r \in Runs, Crash(r)
        PROVE  Traced(a) \/ Traced(a)'
    <2>1. CASE state'[a] = "RUNNING" /\ worker'[a[1]] = "submit"
      BY <1>3, <1>5, <2>1 DEF Crash, LineageOK, TypeOK
    <2>2. CASE remote'[a] # "none"
      <3>1. worker[r] = "submit" /\ a = Current(r)
        BY <1>2, <1>5, <2>2 DEF Crash, TypeOK
      <3>2. state[a] = "RUNNING" /\ a[1] = r
        BY <3>1, CurrentIsRunning DEF CurrentOK, Working
      <3>3. QED
        BY <3>1, <3>2 DEF LineageOK
    <2>3. QED
      BY <1>1, <2>1, <2>2
  <1>6. ASSUME NEW b \in Attempts, RemoteRun(b)
        PROVE  Traced(a) \/ Traced(a)'
    BY <1>1, <1>2, <1>6 DEF RemoteRun, LineageOK, TypeOK, RemoteActive
  <1>7. ASSUME NEW r \in Runs, AcquireLease(r) \/ StartLoad(r)
        PROVE  Traced(a) \/ Traced(a)'
    <2>1. NextPending(r) \in Attempts /\ NextPending(r)[1] = r
      BY <1>7, NextIsPending DEF AcquireLease, StartLoad, Scheduling
    <2>2. worker' = [worker EXCEPT ![r] = "queued"] /\ remote' = remote
          /\ state' = [state EXCEPT ![NextPending(r)] = "RUNNING"]
      BY <1>7 DEF AcquireLease, StartLoad
    <2>3. worker[a[1]] = "submit" /\ state[a] = "RUNNING"
      BY <1>1, <1>2, <1>3, <2>1, <2>2 DEF TypeOK
    <2>4. QED
      BY <2>3 DEF LineageOK
  <1>8. ASSUME remote' = remote, state'[a] = "RUNNING" => state[a] = "RUNNING",
               worker'[a[1]] = "submit" => worker[a[1]] = "submit"
        PROVE  Traced(a)
    BY <1>1, <1>2, <1>8 DEF LineageOK
  <1>9. ASSUME NEW r \in Runs, FailToAcquire(r)
        PROVE  Traced(a)
    BY <1>8, <1>9 DEF FailToAcquire, TypeOK
  <1>10. ASSUME NEW r \in Runs, Collect(r)
         PROVE  Traced(a)
    <2>1. state'[a] = "RUNNING" => state[a] = "RUNNING"
      BY <1>10 DEF Collect, CurrentOK, TypeOK
    <2>2. QED
      BY <1>8, <1>10, <2>1 DEF Collect, TypeOK
  <1>11. ASSUME NEW r \in Runs, BlockLoads(r) \/ LeaveLoop(r) \/ Interrupt(r) \/ Close(r)
                                \/ Upload(r) \/ RenewLease(r) \/ FailToRenew(r)
         PROVE  Traced(a)
    BY <1>3, <1>8, <1>11 DEF BlockLoads, LeaveLoop, Interrupt, Close, Upload, RenewLease,
                             FailToRenew, TypeOK
  <1>12. CASE OperatorClears \/ UNCHANGED <<vars, regime>>
    BY <1>8, <1>12 DEF OperatorClears, vars
  <1>13. QED
    BY <1>4, <1>5, <1>6, <1>7, <1>9, <1>10, <1>11, <1>12 DEF Next, Manage, Over, vars

-----------------------------------------------------------------------------
(* Orderly regimes.                                                         *)

(* The faults that an orderly regime does not have do not happen.           *)
LEMMA NoDisorder ==
    ASSUME Orderly
    PROVE  /\ ~Fault("renew") /\ ~Fault("quarantine") /\ ~Fault("interrupt")
           /\ ~regime.late
  BY DEF Orderly, Fault

(* A lease that may be acquired is nobody's who is at work.                 *)
LEMMA NobodyAtWork ==
    ASSUME TypeOK, LeaseOK, OrderOK, ActiveOK, Orderly, MayAcquire
    PROVE  /\ \A q \in Runs : worker[q] = "none" /\ (held[q] = "current" => phase[q] # "loop")
           /\ \A a \in Attempts : Active(a) => phase[a[1]] = "crashed"
  <1>1. \A q \in Runs : held[q] = "current" => phase[q] # "loop"
    BY NoDisorder DEF LeaseOK, MayAcquire, MayLapse
  <1>2. \A q \in Runs : worker[q] = "none"
    BY <1>1 DEF OrderOK
  <1>3. ASSUME NEW a \in Attempts, Active(a), phase[a[1]] # "crashed"
        PROVE  FALSE
    BY <1>2, <1>3, AttemptParts DEF ActiveOK, LookedAfter, MayAcquire, MayLapse
  <1>4. QED
    BY <1>1, <1>2, <1>3

(* Who is at work has the lease, and no run is active but its own.          *)
LEMMA OwnerAtWork ==
    ASSUME TypeOK, CurrentOK, LeaseOK, OrderOK, ActiveOK, Orderly,
           NEW r \in Runs, worker[r] # "none"
    PROVE  /\ lease # Absent /\ lease.owner = r /\ ~lease.quarantined
           /\ phase[r] = "loop" /\ held[r] = "current" /\ ~stop[r]
           /\ ~leaseError[r] /\ ~leaseQuarantined[r]
           /\ \A q \in Runs : q # r => worker[q] = "none" /\ held[q] # "current"
           /\ Current(r) \in Attempts /\ Current(r)[1] = r /\ state[Current(r)] = "RUNNING"
           /\ \A a \in Attempts : (Active(a) /\ phase[a[1]] # "crashed") =>
                 /\ a = Current(r) /\ LookedAfter(a)
                 /\ worker[r] \in {"register", "poll", "finished"}
                 /\ worker[r] = "finished" => result[r] = "ambiguous"
  <1>1. /\ phase[r] = "loop" /\ held[r] = "current" /\ ~stop[r]
        /\ ~leaseError[r] /\ ~leaseQuarantined[r]
    BY DEF OrderOK
  <1>2. lease # Absent /\ lease.owner = r /\ ~lease.quarantined
    BY <1>1 DEF LeaseOK
  <1>3. \A q \in Runs : q # r => worker[q] = "none" /\ held[q] # "current"
    BY <1>2 DEF OrderOK, LeaseOK
  <1>4. /\ Current(r) \in Attempts /\ Current(r)[1] = r /\ state[Current(r)] = "RUNNING"
    BY <1>1, CurrentIsRunning DEF CurrentOK
  <1>5. ASSUME NEW a \in Attempts, Active(a), phase[a[1]] # "crashed"
        PROVE  /\ a = Current(r) /\ LookedAfter(a)
               /\ worker[r] \in {"register", "poll", "finished"}
               /\ worker[r] = "finished" => result[r] = "ambiguous"
    BY <1>2, <1>4, <1>5 DEF ActiveOK, LookedAfter, CurrentOK
  <1>6. QED
    BY <1>1, <1>2, <1>3, <1>4, <1>5

\* Every step keeps that a thread at work has the lease, in an orderly regime.
LEMMA OrderStep ==
    ASSUME TypeOK, TypeOK', CurrentOK, LeaseOK, OrderOK, ActiveOK, [Next]_<<vars, regime>>
    PROVE  OrderOK'
  <1> USE DEF Set, shared, main
  <1>0. (\A r \in Runs : (phase[r] = "loop" /\ stop[r]) => leaseError[r])'
    BY DEF Next, Manage, Over, vars, BlockLoads, AcquireLease, FailToAcquire, StartLoad,
           RenewLease, FailToRenew, Collect, LeaveLoop, Close, Upload, Interrupt, Crash,
           RemoteRun, OperatorClears, Work, Begin, Check, Submit, Register, Poll, Gate,
           OrderOK, TypeOK
  <1>1. Orderly' <=> Orderly
    BY DEF Next, Orderly
  <1>2. SUFFICES ASSUME Orderly, NEW r \in Runs
                 PROVE  /\ worker'[r] # "none" =>
                              /\ phase'[r] = "loop" /\ held'[r] = "current" /\ ~stop'[r]
                              /\ ~leaseError'[r] /\ ~leaseQuarantined'[r]
                        /\ leaseQuarantined'[r] => leaseError'[r]
                        /\ (phase'[r] = "loop" /\ held'[r] = "stale") => leaseError'[r]
    BY <1>0, <1>1 DEF OrderOK
  <1> DEFINE Good ==
        /\ worker'[r] # "none" =>
              /\ phase'[r] = "loop" /\ held'[r] = "current" /\ ~stop'[r]
              /\ ~leaseError'[r] /\ ~leaseQuarantined'[r]
        /\ leaseQuarantined'[r] => leaseError'[r]
        /\ (phase'[r] = "loop" /\ held'[r] = "stale") => leaseError'[r]
  <1>3. /\ worker[r] # "none" =>
              /\ phase[r] = "loop" /\ held[r] = "current" /\ ~stop[r]
              /\ ~leaseError[r] /\ ~leaseQuarantined[r]
        /\ leaseQuarantined[r] => leaseError[r]
        /\ (phase[r] = "loop" /\ held[r] = "stale") => leaseError[r]
        /\ (phase[r] = "loop" /\ stop[r]) => leaseError[r]
    BY <1>2 DEF OrderOK
  <1>4. ASSUME NEW q \in Runs, AcquireLease(q)
        PROVE  Good
    <2>1. \A p \in Runs : worker[p] = "none" /\ (held[p] = "current" => phase[p] # "loop")
      BY <1>2, <1>4, NobodyAtWork DEF AcquireLease
    <2>2. /\ held'[q] = "current"
          /\ r # q => held'[r] = held[r] \/ held[r] = "current"
      BY <1>4, HeldTyping DEF AcquireLease
    <2>3. QED
      BY <1>3, <1>4, <2>1, <2>2 DEF AcquireLease, Scheduling, TypeOK
  <1>5. ASSUME NEW q \in Runs, FailToAcquire(q)
        PROVE  Good
    <2>1. CASE UNCHANGED << lease, held >>
      BY <1>3, <1>5, <2>1 DEF FailToAcquire, Scheduling, TypeOK
    <2>2. CASE MayAcquire /\ held' = HeldAfter(q, "none")
      <3>1. \A p \in Runs : worker[p] = "none" /\ (held[p] = "current" => phase[p] # "loop")
        BY <1>2, <2>2, NobodyAtWork
      <3>2. /\ held'[q] = "none"
            /\ r # q => held'[r] = held[r] \/ held[r] = "current"
        BY <2>2, HeldTyping
      <3>3. QED
        BY <1>3, <1>5, <3>1, <3>2 DEF FailToAcquire, Scheduling, TypeOK
    <2>3. QED
      BY <1>5, <2>1, <2>2 DEF FailToAcquire
  <1>6. ASSUME NEW q \in Runs, StartLoad(q)
        PROVE  Good
    BY <1>3, <1>6 DEF StartLoad, Scheduling, TypeOK
  <1>7. ASSUME NEW q \in Runs, FailToRenew(q)
        PROVE  Good
    BY <1>2, <1>3, <1>7, NoDisorder DEF FailToRenew, TypeOK
  <1>8. ASSUME NEW q \in Runs, Work(q)
        PROVE  Good
    BY <1>3, <1>8, WorkIsOwn DEF WorkMoves, TypeOK, Working
  <1>9. ASSUME NEW q \in Runs, Collect(q)
        PROVE  Good
    <2>1. held' = held
      BY <1>2, <1>9, NoDisorder DEF Collect, Quarantine
    <2>2. QED
      BY <1>3, <1>9, <2>1 DEF Collect, TypeOK
  <1>10. ASSUME NEW q \in Runs, Close(q)
         PROVE  Good
    BY <1>3, <1>10 DEF Close, TypeOK
  <1>11. CASE OperatorClears
    <2>1. lease.owner \in Runs /\ leaseQuarantined[lease.owner]
      BY <1>11 DEF OperatorClears, TypeOK, LeaseOK
    <2>2. \A q \in Runs : worker[q] = "none"
      BY <1>2, <1>11, OwnerAtWork DEF OperatorClears
    <2>3. held'[r] = held[r] \/ (held[r] = "current" /\ held'[r] = "stale")
      BY <1>11, <2>1, HeldTyping DEF OperatorClears, TypeOK
    <2>4. held[r] = "current" => r = lease.owner
      BY DEF LeaseOK
    <2>5. QED
      BY <1>3, <1>11, <2>1, <2>2, <2>3, <2>4, <1>2 DEF OperatorClears, OrderOK
  <1>12. ASSUME NEW q \in Runs, BlockLoads(q) \/ RenewLease(q) \/ LeaveLoop(q) \/ Upload(q)
                                \/ Crash(q)
         PROVE  Good
    BY <1>3, <1>12 DEF BlockLoads, RenewLease, LeaveLoop, Upload, Crash, TypeOK
  <1>13. ASSUME NEW q \in Runs, Interrupt(q)
         PROVE  Good
    BY <1>2, <1>13, NoDisorder DEF Interrupt
  <1>14. ASSUME NEW a \in Attempts, RemoteRun(a)
         PROVE  Good
    BY <1>3, <1>14 DEF RemoteRun
  <1>15. CASE UNCHANGED <<vars, regime>>
    BY <1>3, <1>15 DEF vars
  <1>16. QED
    BY <1>4, <1>5, <1>6, <1>7, <1>8, <1>9, <1>10, <1>11, <1>12, <1>13, <1>14, <1>15
       DEF Next, Manage, Over, vars

(* A load thread activates its own attempt, and hands it over as ambiguous. *)
LEMMA ThreadAtWork ==
    ASSUME TypeOK, CurrentOK, LeaseOK, OrderOK, ActiveOK, Orderly,
           NEW r \in Runs, Work(r),
           NEW a \in Attempts, Active(a)', phase[a[1]] # "crashed"
    PROVE  /\ a = Current(r) /\ LookedAfter(a)'
           /\ ~Active(a) => worker[r] = "submit"
  <1> USE DEF Set, shared, main
  <1>1. worker[r] \in {"queued"} \cup Working /\ worker[r] # "none"
    BY WorkIsOwn DEF WorkMoves, Working
  <1>2. /\ lease # Absent /\ lease.owner = r /\ ~lease.quarantined /\ ~stop[r]
        /\ Current(r) \in Attempts /\ Current(r)[1] = r /\ state[Current(r)] = "RUNNING"
        /\ UNCHANGED << lease, state >>
    BY <1>1, OwnerAtWork, WorkIsOwn DEF WorkMoves
  <1>3. CASE Active(a)
    <2>1. a = Current(r) /\ worker[r] \in {"register", "poll"}
      BY <1>1, <1>3, OwnerAtWork DEF Working
    <2>2. /\ worker'[r] \in {"poll", "finished"}
          /\ worker'[r] = "finished" => result'[r] = "ambiguous"
      BY <1>2, <1>3, <2>1 DEF Work, Begin, Check, Submit, Register, Poll, Gate, Return, Advance,
                              Active, RemoteActive, TypeOK
    <2>3. QED
      BY <1>2, <1>3, <2>1, <2>2 DEF LookedAfter
  <1>4. CASE ~Active(a)
    <2>1. worker[r] = "submit" /\ a = Current(r) /\ Submit(r)
      BY <1>2, <1>4 DEF Work, Begin, Check, Submit, Register, Poll, Gate, Active, TypeOK
    <2>2. /\ worker'[r] \in {"register", "finished"}
          /\ worker'[r] = "finished" => result'[r] = "ambiguous"
      BY <1>2, <1>4, <2>1 DEF Submit, Return, Advance, Active, TypeOK
    <2>3. QED
      BY <1>2, <2>1, <2>2 DEF LookedAfter
  <1>5. QED
    BY <1>3, <1>4

\* Every step keeps that somebody looks after an active load.
LEMMA ActiveStep ==
    ASSUME TypeOK, TypeOK', CurrentOK, LeaseOK, OrderOK, ActiveOK, [Next]_<<vars, regime>>
    PROVE  ActiveOK'
  <1> USE DEF Set, shared, main
  <1>1. Orderly' <=> Orderly
    BY DEF Next, Orderly
  <1>2. SUFFICES ASSUME Orderly, NEW a \in Attempts, Active(a)', phase'[a[1]] # "crashed"
                 PROVE  LookedAfter(a)'
    BY <1>1 DEF ActiveOK
  <1>3. a[1] \in Runs /\ a \in AttemptsOf(a[1])
    BY AttemptParts
  <1>4. phase[a[1]] # "crashed"
    BY <1>2, <1>3 DEF Next, Manage, Over, vars, BlockLoads, AcquireLease, FailToAcquire, StartLoad,
           RenewLease, FailToRenew, Collect, LeaveLoop, Close, Upload, Interrupt, Crash,
           RemoteRun, OperatorClears, Work, Begin, Check, Submit, Register, Poll, Gate, TypeOK
  <1>5. ASSUME NEW r \in Runs, Work(r)
        PROVE  LookedAfter(a)'
    BY <1>2, <1>4, <1>5, ThreadAtWork
  <1>6. CASE ~\E r \in Runs : Work(r)
    <2>1. Active(a)
      <3>1. remote'[a] = remote[a] \/ \E b \in Attempts : RemoteRun(b)
        BY <1>2, <1>3, <1>6 DEF Next, Manage, Over, vars, BlockLoads, AcquireLease, FailToAcquire,
             StartLoad, RenewLease, FailToRenew, Collect, LeaveLoop, Close, Upload, Interrupt,
             Crash, OperatorClears, TypeOK, CurrentOK, Working, AttemptsOf, Current, HasRunning
      <3>2. QED
        BY <1>2, <3>1 DEF RemoteRun, Active, TypeOK, RemoteActive
    <2>2. LookedAfter(a)
      BY <1>2, <1>4, <2>1 DEF ActiveOK
    <2>3. lease.quarantined \/ (worker[a[1]] # "none" /\ phase[a[1]] = "loop")
      BY <1>2, <1>3, <2>2 DEF LookedAfter, OrderOK
    <2>4. ASSUME NEW r \in Runs, AcquireLease(r) \/ (FailToAcquire(r) /\ MayAcquire)
          PROVE  FALSE
      BY <1>2, <1>4, <2>1, <2>4, NobodyAtWork DEF AcquireLease
    <2>5. ASSUME lease' = lease, state[a] = "RUNNING" => state'[a] = "RUNNING",
                 result' = result, worker'[a[1]] = worker[a[1]]
          PROVE  LookedAfter(a)'
      BY <2>2, <2>5 DEF LookedAfter
    <2>6. ASSUME NEW r \in Runs, FailToAcquire(r) \/ StartLoad(r)
          PROVE  LookedAfter(a)'
      <3>1. /\ NextPending(r) \in Attempts /\ NextPending(r)[1] = r
            /\ state[NextPending(r)] = "PENDING" /\ worker[r] = "none"
        BY <2>6, NextIsPending DEF FailToAcquire, StartLoad, Scheduling
      <3>2. lease' = lease /\ result' = result
        BY <2>4, <2>6 DEF FailToAcquire, StartLoad
      <3>3. state[a] = "RUNNING" => state'[a] = "RUNNING"
        BY <2>6, <3>1 DEF FailToAcquire, StartLoad, TypeOK
      <3>4. a[1] # r => worker'[a[1]] = worker[a[1]]
        BY <1>3, <2>6 DEF FailToAcquire, StartLoad, TypeOK
      <3>5. a[1] = r => lease.quarantined
        BY <2>3, <3>1
      <3>6. QED
        BY <2>2, <3>2, <3>3, <3>4, <3>5 DEF LookedAfter
    <2>7. ASSUME NEW r \in Runs, RenewLease(r)
          PROVE  LookedAfter(a)'
      <3>1. lease' = lease
        BY <2>7 DEF RenewLease, LeaseOK, TypeOK
      <3>2. QED
        BY <2>5, <2>7, <3>1 DEF RenewLease
    <2>8. ASSUME NEW r \in Runs, Collect(r)
          PROVE  LookedAfter(a)'
      <3>1. held[r] = "current" /\ a = Current(r) /\ a[1] = r /\ result[r] = "ambiguous"
        BY <1>2, <1>4, <2>1, <2>8, OwnerAtWork DEF Collect
      <3>2. lease' = [owner |-> r, quarantined |-> TRUE]
        BY <1>2, <2>8, <3>1, NoDisorder DEF Collect, Quarantine
      <3>3. QED
        BY <3>1, <3>2, LeaseTyping DEF LookedAfter
    <2>9. ASSUME NEW r \in Runs, Close(r)
          PROVE  LookedAfter(a)'
      <3>1. lease' = lease
        BY <2>2, <2>3, <2>9 DEF Close, LookedAfter, LeaseOK
      <3>2. lease.quarantined \/ a[1] # r
        BY <2>3, <2>9 DEF Close
      <3>3. a[1] # r => state'[a] = state[a]
        BY <2>9 DEF Close, AttemptsOf
      <3>4. QED
        BY <2>2, <2>9, <3>1, <3>2, <3>3 DEF Close, LookedAfter
    <2>10. ASSUME NEW r \in Runs, Crash(r)
           PROVE  LookedAfter(a)'
      BY <1>2, <1>3, <2>5, <2>10 DEF Crash, TypeOK
    <2>11. CASE OperatorClears
      BY <1>3, <2>1, <2>2, <2>11 DEF OperatorClears, LookedAfter, Active
    <2>12. ASSUME NEW r \in Runs, BlockLoads(r) \/ FailToRenew(r) \/ LeaveLoop(r) \/ Upload(r)
           PROVE  LookedAfter(a)'
      BY <2>5, <2>12 DEF BlockLoads, FailToRenew, LeaveLoop, Upload, Pending
    <2>13. ASSUME NEW r \in Runs, Interrupt(r)
           PROVE  FALSE
      BY <1>2, <2>13, NoDisorder DEF Interrupt
    <2>14. ASSUME NEW b \in Attempts, RemoteRun(b)
           PROVE  LookedAfter(a)'
      BY <2>5, <2>14 DEF RemoteRun
    <2>15. CASE UNCHANGED <<vars, regime>>
      BY <2>5, <2>15 DEF vars
    <2>16. QED
      BY <1>6, <2>4, <2>6, <2>7, <2>8, <2>9, <2>10, <2>11, <2>12, <2>13, <2>14, <2>15
         DEF Next, Manage, Over, vars
  <1>7. QED
    BY <1>5, <1>6

\* Every step keeps that one load at most is active.
LEMMA OneStep ==
    ASSUME TypeOK, TypeOK', CurrentOK, LeaseOK, OrderOK, ActiveOK, OneOK, [Next]_<<vars, regime>>
    PROVE  OneOK'
  <1> USE DEF Set, shared, main
  <1>1. regime' = regime
    BY DEF Next
  <1>2. SUFFICES ASSUME Orderly, "crash" \notin regime.kinds
                 PROVE  /\ \A r \in Runs : phase'[r] # "crashed"
                        /\ \A a, b \in Attempts : Active(a)' /\ Active(b)' => a = b
    BY <1>1 DEF OneOK, Orderly
  <1>3. /\ \A r \in Runs : phase[r] # "crashed"
        /\ \A a, b \in Attempts : Active(a) /\ Active(b) => a = b
    BY <1>2 DEF OneOK
  <1>4. ASSUME NEW r \in Runs
        PROVE  ~Crash(r)
    BY <1>2 DEF Crash, Fault
  <1>5. \A r \in Runs : phase'[r] # "crashed"
    BY <1>3, <1>4 DEF Next, Manage, Over, vars, BlockLoads, AcquireLease, FailToAcquire, StartLoad,
           RenewLease, FailToRenew, Collect, LeaveLoop, Close, Upload, Interrupt,
           RemoteRun, OperatorClears, Work, Begin, Check, Submit, Register, Poll, Gate, TypeOK
  <1>6. ASSUME NEW r \in Runs, Work(r)
        PROVE  \A a, b \in Attempts : Active(a)' /\ Active(b)' => a = b
    BY <1>2, <1>3, <1>6, ThreadAtWork, AttemptParts
  <1>7. CASE ~\E r \in Runs : Work(r)
    <2>1. remote' = remote \/ \E b \in Attempts : RemoteRun(b)
      BY <1>4, <1>7 DEF Next, Manage, Over, vars, BlockLoads, AcquireLease, FailToAcquire,
             StartLoad, RenewLease, FailToRenew, Collect, LeaveLoop, Close, Upload, Interrupt,
             OperatorClears
    <2>2. \A a \in Attempts : Active(a)' => Active(a)
      BY <2>1 DEF RemoteRun, Active, TypeOK, RemoteActive
    <2>3. QED
      BY <1>3, <1>5, <2>2
  <1>8. QED
    BY <1>5, <1>6, <1>7

-----------------------------------------------------------------------------
(* The theorems.                                                            *)

\* The invariant holds before the first run starts.
LEMMA Initially ==
    ASSUME Init
    PROVE  IInv
  <1>1. TypeOK
    BY DEF Init, TypeOK, NodeTerminal
  <1>2. CurrentOK /\ LeaseOK /\ LineageOK
    BY DEF Init, CurrentOK, LeaseOK, LineageOK, HasRunning, AttemptsOf, Working
  <1>3. OrderOK /\ ActiveOK /\ OneOK
    BY DEF Init, OrderOK, ActiveOK, OneOK, Active, RemoteActive
  <1>4. QED
    BY <1>1, <1>2, <1>3 DEF IInv

(* The inductive invariant holds in every behaviour of the runs.            *)
THEOREM LoadInvariant == Spec => []IInv
  <1>1. Init => IInv
    BY Initially
  <1>2. IInv /\ [Next]_<<vars, regime>> => IInv'
    <2>1. SUFFICES ASSUME IInv, [Next]_<<vars, regime>>
                   PROVE  IInv'
      OBVIOUS
    <2>2. TypeOK' /\ CurrentOK'
      BY <2>1, TypeStep DEF IInv
    <2>3. LeaseOK' /\ LineageOK' /\ OrderOK' /\ ActiveOK' /\ OneOK'
      BY <2>1, <2>2, LeaseStep, LineageStep, OrderStep, ActiveStep, OneStep DEF IInv
    <2>4. QED
      BY <2>2, <2>3 DEF IInv
  <1>3. QED
    BY <1>1, <1>2, PTL DEF Spec

(* The variables keep their types, whatever happens.                        *)
THEOREM TypeCorrect == Spec => []TypeOK
  <1>1. IInv => TypeOK
    BY DEF IInv
  <1>2. QED
    BY <1>1, LoadInvariant, PTL

(* In every regime, with late renewals, crashes and lost requests: only an  *)
(* operator lifts a quarantine.                                             *)
THEOREM QuarantineStays == Spec => QuarantineSticks
  <1>1. IInv /\ [Next]_<<vars, regime>> =>
            [ (lease # Absent /\ lease.quarantined) => (lease' = lease \/ OperatorClears) ]_vars
    <2>1. SUFFICES ASSUME IInv, [Next]_<<vars, regime>>, lease # Absent, lease.quarantined
                   PROVE  lease' = lease \/ OperatorClears
      OBVIOUS
    <2>2. TypeOK /\ LeaseOK /\ leaseQuarantined[lease.owner] /\ lease.owner \in Runs
      BY <2>1 DEF IInv, LeaseOK, TypeOK
    <2>3. ~MayAcquire
      BY <2>1 DEF MayAcquire, MayLapse
    <2>4. \A r \in Runs : held[r] = "current" => lease.owner = r
      BY <2>2 DEF LeaseOK
    <2>5. ASSUME NEW r \in Runs, RenewLease(r) \/ Collect(r) \/ Close(r)
          PROVE  lease' = lease
      <3>1. lease = [owner |-> lease.owner, quarantined |-> TRUE]
        BY <2>1, <2>2 DEF TypeOK
      <3>2. CASE RenewLease(r)
        BY <2>4, <3>1, <3>2 DEF RenewLease
      <3>3. CASE Collect(r)
        <4>1. lease' = lease \/ (held[r] = "current" /\ lease' = [owner |-> r, quarantined |-> TRUE])
          BY <3>3 DEF Collect, Quarantine
        <4>2. QED
          BY <2>4, <3>1, <4>1
      <3>4. CASE Close(r)
        BY <2>2, <2>4, <3>4 DEF Close
      <3>5. QED
        BY <2>5, <3>2, <3>3, <3>4
    <2>6. QED
      BY <2>1, <2>3, <2>5
         DEF Next, Manage, Over, vars, shared, BlockLoads, AcquireLease, FailToAcquire, StartLoad,
             FailToRenew, LeaveLoop, Upload, Interrupt, Crash, RemoteRun, Work, Begin, Check,
             Submit, Register, Poll, Gate
  <1>2. QED
    BY <1>1, LoadInvariant, PTL DEF Spec, QuarantineSticks

(* In every regime, every load that was submitted goes back through         *)
(* manifests that exist to the one claim of its input.                      *)
THEOREM LoadsAreClaimed == Spec => []ClaimedLineage
  <1>1. IInv => ClaimedLineage
    BY DEF IInv, LineageOK, ClaimedLineage, Traced
  <1>2. QED
    BY <1>1, LoadInvariant, PTL

(* Loads never overlap, of any number of runners, as long as renewals and   *)
(* quarantines come in time and succeed and nobody is interrupted or killed.*)
THEOREM LoadsAreSerialized == Spec => []OneLoadAtATime
  <1>1. IInv => OneLoadAtATime
    <2>1. SUFFICES ASSUME IInv, Orderly, "crash" \notin regime.kinds
                   PROVE  Cardinality({ a \in Attempts : remote[a] \in RemoteActive }) <= 1
      BY DEF OneLoadAtATime
    <2> DEFINE Live == { a \in Attempts : remote[a] \in RemoteActive }
    <2>2. \A a, b \in Live : a = b
      BY <2>1 DEF IInv, OneOK, Active
    <2>3. Cardinality(Live) <= 1
      <3> HIDE DEF Live
      <3>1. CASE Live = {}
        BY <3>1, FS_EmptySet
      <3>2. ASSUME NEW a \in Live
            PROVE  Cardinality(Live) <= 1
        <4>1. Live = {a}
          BY <2>2
        <4>2. QED
          BY <4>1, FS_Singleton
      <3>3. QED
        BY <3>1, <3>2
    <2>4. QED
      BY <2>3
  <1>2. QED
    BY <1>1, LoadInvariant, PTL

(* An ambiguous load keeps the environment under quarantine while it may    *)
(* still insert, in an orderly regime, crashes of other runners included.   *)
THEOREM AmbiguousIsQuarantined == Spec /\ Orderly => []AmbiguityQuarantines
  <1>1. IInv /\ Orderly => AmbiguityQuarantines
    <2>1. SUFFICES ASSUME IInv, Orderly, NEW r \in Runs, phase[r] \in {"uploading", "exited"},
                          NEW a \in AttemptsOf(r), remote[a] \in RemoteActive
                   PROVE  lease # Absent /\ lease.quarantined
      BY DEF AmbiguityQuarantines
    <2>2. a \in Attempts /\ a[1] = r
      BY DEF AttemptsOf
    <2>3. LookedAfter(a)
      BY <2>1, <2>2 DEF IInv, ActiveOK, Active
    <2>4. worker[r] = "none"
      BY <2>1 DEF IInv, OrderOK
    <2>5. QED
      BY <2>2, <2>3, <2>4 DEF LookedAfter
  <1>2. Orderly /\ [Next]_<<vars, regime>> => Orderly'
    BY DEF Next, Orderly
  <1>3. QED
    BY <1>1, <1>2, LoadInvariant, PTL DEF Spec
=============================================================================
