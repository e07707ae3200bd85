--------------------------- MODULE SchedulerProofs --------------------------
(***************************************************************************)
(* Proofs about one pipeline run, for every number of products, every      *)
(* chain, every size of the pool, every retry budget and any faults: loads *)
(* run one at a time, in product order and under the lease, no node has    *)
(* two Data Flow runs at once, the scan never gets stuck, and a product    *)
(* is not held back by the failure of another one.                         *)
(***************************************************************************)
EXTENDS Scheduler, FiniteSetTheorems, TLAPS

-----------------------------------------------------------------------------
(* The inductive invariant, in named parts.                                 *)

Leaving == {"closing", "join", "exited"}

\* What a worker returns or raises: it never refuses a node on another's account.
Returned == {"error", "ambiguous", "SUCCEEDED", "FAILED", "CANCELLED"}

TypeOK ==
    /\ phase \in {"renew", "cancel", "scan", "wait", "collect"} \cup Leaving
    /\ cursor \in Nat
    /\ completed \subseteq Nodes
    /\ state \in [Nodes -> {"PENDING", "RUNNING"} \cup NodeTerminal]
    /\ lease \in BOOLEAN /\ leaseError \in BOOLEAN /\ leaseQuarantined \in BOOLEAN
    /\ interrupted \in BOOLEAN /\ failed \in BOOLEAN /\ stop \in BOOLEAN
    /\ queue \in Seq(Nodes)
    /\ thread \in [Nodes -> {"none", "queued", "finished"} \cup Busy]
    /\ try \in [Nodes -> 1 .. MaxRetries + 1]
    /\ result \in [Nodes -> {"none"} \cup Returned]
    /\ active \subseteq DataFlowRuns
    /\ run \in [DataFlowRuns -> {"none", "active", "succeeded", "failed"}]
    /\ asked \subseteq DataFlowRuns

\* The queue holds every queued future once.
QueueOK ==
    /\ \A i \in DOMAIN queue : thread[queue[i]] = "queued"
    /\ \A i, j \in DOMAIN queue : queue[i] = queue[j] => i = j

\* The nodes RUNNING in the manifest are the futures, as long as the loop runs.
FuturesOK ==
    /\ \A n \in Futures : state[n] # "PENDING"
    /\ InLoop => \A n \in Nodes : state[n] = "RUNNING" <=> n \in Futures
    /\ phase = "collect" => \A n \in completed : thread[n] = "finished"
    /\ phase \in {"join", "exited"} =>
          queue = << >> /\ \A n \in Nodes : thread[n] # "queued"
    /\ phase = "exited" => \A n \in Nodes : thread[n] \notin Busy

IsLoad(n) == Operation(n) = "load"

LoadsOK ==
    /\ \A m, n \in Futures : IsLoad(m) /\ IsLoad(n) => m = n
    /\ \A n \in Nodes : IsLoad(n) /\ thread[n] \in Busy \cup {"queued"} => lease
    /\ \A n \in Futures : IsLoad(n) =>
          \A m \in EarlierLoads(n) : state[m] \in NodeTerminal

\* Only the run of the current attempt may be active, and before it is
\* submitted there is none.
RunsOK ==
    /\ \A n \in Nodes, k \in 1 .. MaxRetries + 1 :
          /\ run[<<n, k>>] # "none" => k <= try[n]
          /\ run[<<n, k>>] = "active" => k = try[n]
    /\ \A n \in Nodes :
          (state[n] = "PENDING" \/ thread[n] \in {"queued", "begin", "submit", "wait"})
              => run[This(n)] = "none"

\* The run did not go its ordinary way.
Excused == leaseError \/ interrupted \/ failed

StopOK ==
    /\ InLoop => ~interrupted /\ ~failed
    /\ stop => Excused \/ (phase \in Leaving /\ Futures = {})
    /\ \A n \in Nodes : "CANCELLED" \in {state[n], result[n]} => Excused
    /\ (phase \in Leaving /\ ~interrupted /\ ~failed) => AllTerminal

BlamesOwnChain(n) == \E k \in 1 .. n[2] : state[<<n[1], k>>] = "FAILED"

BlockedOK == ~Excused => \A n \in Nodes : state[n] = "BLOCKED" => BlamesOwnChain(n)

\* What the scan has passed over waits for something.
ScanOK ==
    /\ (InLoop /\ phase # "scan") => cursor = 0
    /\ phase = "scan" =>
          \A n \in Nodes : (Position(n) <= cursor /\ state[n] = "PENDING") =>
              \/ Futures # {}
              \/ \E m \in Nodes : Position(m) < Position(n) /\ state[m] \notin NodeTerminal

IInv ==
    /\ TypeOK /\ QueueOK /\ FuturesOK /\ LoadsOK /\ RunsOK
    /\ StopOK /\ BlockedOK /\ ScanOK

-----------------------------------------------------------------------------
(* Numbers.                                                                 *)

(* A nonempty set of natural numbers has a least one.                       *)
LEMMA LeastNumber ==
    ASSUME NEW S \in SUBSET Nat, S # {}
    PROVE  \E x \in S : \A y \in S : x <= y
  <1> DEFINE R == { p \in Nat \X Nat : p[1] < p[2] }
  <1>1. IsWellFoundedOn(R, Nat)
    BY NatLessThanWellFounded DEF OpToRel
  <1>2. \A x, y \in Nat : y < x => <<y, x>> \in R
    OBVIOUS
  <1> HIDE DEF R
  <1>3. PICK x \in S : \A y \in S : <<y, x>> \notin R
    BY <1>1, WFMin
  <1>4. ASSUME NEW y \in S
        PROVE  x <= y
    <2>1. x \in Nat /\ y \in Nat /\ <<y, x>> \notin R
      BY <1>3
    <2>2. ~(y < x)
      BY <1>2, <2>1
    <2>3. QED
      BY <2>1, <2>2
  <1>5. QED
    BY <1>4

(* The cells of a table, counted row by row.                                *)
LEMMA CellsAreOrdered ==
    ASSUME NEW width \in Nat, NEW a \in Nat, NEW b \in Nat,
           NEW i \in 1 .. width, NEW j \in 1 .. width
    PROVE  /\ a * width + i \in Nat \ {0}
           /\ a < b => a * width + i < b * width + j
           /\ (a = b /\ i < j) => a * width + i < b * width + j
  <1>1. a * width \in Nat /\ b * width \in Nat
    OBVIOUS
  <1>2. ASSUME a < b
        PROVE  a * width + i < b * width + j
    <2>1. PICK d \in Nat : b = a + 1 + d
      <3>1. b - a - 1 \in Nat /\ b = a + 1 + (b - a - 1)
        BY <1>2
      <3>2. QED
        BY <3>1
    <2>2. d * width \in Nat
      OBVIOUS
    <2>3. b * width = a * width + width + d * width
      BY <2>1
    <2>4. QED
      BY <1>1, <2>2, <2>3
  <1>3. QED
    BY <1>1, <1>2

-----------------------------------------------------------------------------
(* Nodes and their order.                                                   *)

\* The nodes are the products' stages, and every node has its attempts.
LEMMA NodesAreRuns ==
    /\ Nodes = (1 .. Products) \X (1 .. Len(Chain)) /\ Len(Chain) \in Nat \ {0}
    /\ Products \in Nat \ {0} /\ MaxRetries \in Nat
    /\ \A n \in Nodes : Attempts(n) \in 1 .. MaxRetries + 1
  BY ChainIsPossible, PoolIsPossible DEF Nodes, Attempts

\* A node is a product and a stage, and its product has every stage.
LEMMA NodeParts ==
    ASSUME NEW n \in Nodes
    PROVE  /\ n = <<n[1], n[2]>> /\ n[1] \in 1 .. Products /\ n[2] \in 1 .. Len(Chain)
           /\ \A k \in 1 .. Len(Chain) : <<n[1], k>> \in Nodes
  BY NodesAreRuns

\* Nodes are visited product by product, stage by stage, one at a time.
LEMMA PositionOrder ==
    ASSUME NEW m \in Nodes, NEW n \in Nodes
    PROVE  /\ Position(n) \in Nat \ {0}
           /\ m[1] < n[1] => Position(m) < Position(n)
           /\ (m[1] = n[1] /\ m[2] < n[2]) => Position(m) < Position(n)
           /\ m # n => Position(m) # Position(n)
  <1>1. /\ Len(Chain) \in Nat \ {0} /\ m[1] - 1 \in Nat /\ n[1] - 1 \in Nat
        /\ m[2] \in 1 .. Len(Chain) /\ n[2] \in 1 .. Len(Chain)
        /\ m[1] \in Nat /\ n[1] \in Nat
    BY NodesAreRuns, NodeParts
  <1>2. /\ Position(n) \in Nat \ {0} /\ Position(m) \in Nat \ {0}
        /\ m[1] - 1 < n[1] - 1 => Position(m) < Position(n)
        /\ n[1] - 1 < m[1] - 1 => Position(n) < Position(m)
        /\ (m[1] - 1 = n[1] - 1 /\ m[2] < n[2]) => Position(m) < Position(n)
        /\ (m[1] - 1 = n[1] - 1 /\ n[2] < m[2]) => Position(n) < Position(m)
    BY <1>1, CellsAreOrdered DEF Position
  <1>3. m # n => m[1] # n[1] \/ m[2] # n[2]
    BY NodeParts
  <1>4. m[1] - 1 < n[1] - 1 <=> m[1] < n[1]
    BY <1>1
  <1>5. n[1] - 1 < m[1] - 1 <=> n[1] < m[1]
    BY <1>1
  <1>6. m[1] < n[1] \/ n[1] < m[1] \/ (m[1] - 1 = n[1] - 1 /\ m[1] = n[1])
    BY <1>1
  <1>7. m[2] < n[2] \/ n[2] < m[2] \/ m[2] = n[2]
    BY <1>1
  <1>8. /\ Position(m) < Position(n) => Position(m) # Position(n)
        /\ Position(n) < Position(m) => Position(m) # Position(n)
    <2> DEFINE p == Position(m)
               q == Position(n)
    <2>1. p \in Nat /\ q \in Nat
      BY <1>2
    <2> HIDE DEF p, q
    <2>2. (p < q => p # q) /\ (q < p => p # q)
      BY <2>1
    <2>3. QED
      BY <2>2 DEF p, q
  <1>9. m[1] = n[1] => m[1] - 1 = n[1] - 1
    OBVIOUS
  <1>10. m # n => Position(m) # Position(n)
    BY <1>2, <1>3, <1>4, <1>5, <1>6, <1>7, <1>8, Zenon
  <1>11. QED
    BY <1>2, <1>4, <1>9, <1>10, Zenon

(* What a node waits for comes before it.                                   *)
LEMMA WaitsForEarlier ==
    ASSUME NEW n \in Nodes
    PROVE  /\ \A d \in Dependencies(n) : /\ d \in Nodes /\ Position(d) < Position(n)
                                         /\ d[1] = n[1] /\ d[2] < n[2]
           /\ \A m \in EarlierLoads(n) : m \in Nodes /\ Position(m) < Position(n)
  <1>1. ASSUME NEW d \in Dependencies(n)
        PROVE  /\ d \in Nodes /\ Position(d) < Position(n)
               /\ d[1] = n[1] /\ d[2] < n[2]
    <2>1. n[2] # 1 /\ d = <<n[1], n[2] - 1>>
      BY DEF Dependencies
    <2>2. n[2] \in 1 .. Len(Chain) /\ n[2] - 1 \in 1 .. Len(Chain)
      BY <2>1, NodeParts, NodesAreRuns
    <2>3. d \in Nodes /\ d[1] = n[1] /\ d[2] < n[2]
      BY <2>1, <2>2, NodeParts
    <2>4. QED
      BY <2>3, PositionOrder
  <1>2. QED
    BY <1>1, PositionOrder DEF EarlierLoads

(* The lanes that serialize are those of the loads and the reservations.    *)
LEMMA LaneOfLoad ==
    ASSUME NEW n \in Nodes
    PROVE  (Lane(n) = "oracle-load") <=> IsLoad(n)
  BY DEF Lane, IsLoad

\* A node's current Data Flow run is one of those it may submit.
LEMMA RunNames ==
    ASSUME TypeOK, NEW n \in Nodes
    PROVE  /\ This(n) = <<n, try[n]>> /\ This(n) \in DataFlowRuns
           /\ try[n] \in 1 .. MaxRetries + 1
           /\ \A k \in 1 .. MaxRetries + 1 : <<n, k>> \in DataFlowRuns
  BY DEF This, TypeOK, DataFlowRuns

-----------------------------------------------------------------------------
(* What a worker may do: everything it changes is its own.                  *)

WorkMoves(n) ==
    /\ thread[n] \in Busy
    /\ \E label \in (Busy \ {"begin"}) \cup {"finished"} :
          thread' = [thread EXCEPT ![n] = label]
    /\ \A m \in Nodes : m # n => try'[m] = try[m] /\ result'[m] = result[m]
    /\ result'[n] = "CANCELLED" => stop \/ result[n] = "CANCELLED"
    /\ UNCHANGED << main, queue >>
    /\ \/ /\ UNCHANGED << run, try >>
          /\ thread'[n] \in {"submit", "wait"} => thread[n] \in {"begin", "submit", "wait"}
       \/ /\ thread[n] = "submit" /\ thread'[n] \in {"register", "finished"}
          /\ run' = [run EXCEPT ![This(n)] = "active"]
          /\ UNCHANGED try
       \/ /\ run[This(n)] = "failed" /\ thread'[n] = "submit"
          /\ try[n] < Attempts(n)
          /\ try' = [try EXCEPT ![n] = @ + 1]
          /\ UNCHANGED run

\* The types of what a worker may change.
WorkTyped ==
    /\ thread \in [Nodes -> {"none", "queued", "finished"} \cup Busy]
    /\ try \in [Nodes -> 1 .. MaxRetries + 1]
    /\ result \in [Nodes -> {"none"} \cup Returned]

RemoteTyped ==
    /\ active \subseteq DataFlowRuns
    /\ run \in [DataFlowRuns -> {"none", "active", "succeeded", "failed"}]
    /\ asked \subseteq DataFlowRuns

Submitted(n) == thread[n] = "submit" /\ run' = [run EXCEPT ![This(n)] = "active"]

\* A worker that returns a result changes its own node only.
LEMMA Returning ==
    ASSUME TypeOK, NEW n \in Nodes, thread[n] \in Busy,
           NEW value \in Returned, Return(n, value),
           value = "CANCELLED" => stop,
           UNCHANGED << main, queue >>, run' = run \/ Submitted(n)
    PROVE  WorkMoves(n) /\ WorkTyped'
  <1>1. /\ thread' = [thread EXCEPT ![n] = "finished"] /\ thread'[n] = "finished"
        /\ try' = try
        /\ \A m \in Nodes : m # n => result'[m] = result[m]
        /\ result'[n] = value
    BY DEF Return, Goto, TypeOK
  <1>2. WorkTyped'
    BY DEF Return, Goto, TypeOK, WorkTyped
  <1>3. QED
    BY <1>1, <1>2 DEF WorkMoves, Submitted

\* A worker that goes on changes its own node only.
LEMMA Advancing ==
    ASSUME TypeOK, NEW n \in Nodes, thread[n] \in Busy,
           NEW label \in Busy \ {"begin"}, Advance(n, label),
           UNCHANGED << main, queue >>,
           \/ run' = run /\ (label \in {"submit", "wait"} => thread[n] \in {"begin", "submit", "wait"})
           \/ Submitted(n) /\ label = "register"
    PROVE  WorkMoves(n) /\ WorkTyped'
  <1>1. /\ thread' = [thread EXCEPT ![n] = label] /\ thread'[n] = label
        /\ UNCHANGED << try, result >>
    BY DEF Advance, Goto, TypeOK, work
  <1>2. WorkTyped'
    BY DEF Advance, Goto, TypeOK, WorkTyped, work
  <1>3. QED
    BY <1>1, <1>2 DEF WorkMoves, Submitted

\* A worker that tries again does so after its attempt failed.
LEMMA Retrying ==
    ASSUME TypeOK, NEW n \in Nodes, thread[n] \in Busy, NextAttempt(n),
           run[This(n)] = "failed", UNCHANGED << main, queue, run >>
    PROVE  WorkMoves(n) /\ WorkTyped'
  <1>1. CASE \E value \in {"FAILED", "CANCELLED"} :
                Return(n, value) /\ (value = "CANCELLED" => stop)
    BY <1>1, Returning DEF Returned
  <1>2. CASE /\ try[n] < Attempts(n)
             /\ try' = [try EXCEPT ![n] = @ + 1]
             /\ Goto(n, "submit")
             /\ UNCHANGED result
    <2>1. /\ thread' = [thread EXCEPT ![n] = "submit"] /\ thread'[n] = "submit"
          /\ \A m \in Nodes : m # n => try'[m] = try[m]
      BY <1>2 DEF Goto, TypeOK
    <2>2. try[n] + 1 \in 1 .. MaxRetries + 1
      BY <1>2, RunNames, NodesAreRuns
    <2>3. WorkTyped'
      BY <1>2, <2>1, <2>2 DEF TypeOK, WorkTyped, Busy
    <2>4. QED
      BY <1>2, <2>1, <2>3 DEF WorkMoves, Busy
  <1>3. QED
    BY <1>1, <1>2 DEF NextAttempt

\* Every step of a worker is about its own node and keeps the types.
LEMMA WorkIsOwn ==
    ASSUME TypeOK, NEW n \in Nodes, Work(n)
    PROVE  WorkMoves(n) /\ TypeOK'
  <1>0. thread[n] \in Busy /\ UNCHANGED << main, queue >>
    BY DEF Work, Begin, Submit, QuotaWait, Register, Poll, Gate, Busy
  <1>1. WorkMoves(n) /\ WorkTyped'
    <2>1. CASE Begin(n)
      BY <1>0, <2>1, Returning, Advancing DEF Begin, remote, Busy, Returned
    <2>2. CASE Submit(n)
      BY <1>0, <2>2, Returning, Advancing
         DEF Submit, Submitted, Raise, remote, Busy, Returned
    <2>3. CASE QuotaWait(n)
      BY <1>0, <2>3, Returning, Advancing DEF QuotaWait, Raise, remote, Busy, Returned
    <2>4. CASE Register(n)
      BY <1>0, <2>4, Returning, Advancing DEF Register, Raise, Busy, Returned
    <2>5. CASE Poll(n)
      BY <1>0, <2>5, Returning, Advancing, Retrying
         DEF Poll, Raise, remote, Busy, Returned
    <2>6. CASE Gate(n)
      BY <1>0, <2>6, Returning DEF Gate, Raise, remote, Busy, Returned
    <2>7. QED
      BY <2>1, <2>2, <2>3, <2>4, <2>5, <2>6 DEF Work
  <1>2. RemoteTyped'
    BY RunNames DEF Work, Begin, Submit, QuotaWait, Register, Poll, Gate, remote, TypeOK,
                    RemoteTyped
  <1>3. QED
    BY <1>0, <1>1, <1>2
       DEF TypeOK, WorkTyped, RemoteTyped, main, loop, ending

-----------------------------------------------------------------------------
(* Type correctness. A worker's steps are WorkIsOwn.                        *)

\* The head of the queue and what is behind it are nodes, each at its place.
LEMMA QueueTyping ==
    ASSUME TypeOK, queue # << >>
    PROVE  /\ Head(queue) \in Nodes /\ Tail(queue) \in Seq(Nodes)
           /\ 1 \in DOMAIN queue /\ Head(queue) = queue[1]
           /\ \A i \in DOMAIN Tail(queue) : /\ i \in Nat \ {0} /\ i + 1 \in DOMAIN queue
                                            /\ Tail(queue)[i] = queue[i + 1]
  BY DEF TypeOK

\* Every step keeps the types.
LEMMA TypeStep ==
    ASSUME TypeOK, [Next]_vars
    PROVE  TypeOK'
  <1> USE DEF Busy, NodeTerminal, Returned, Leaving
  <1>1. CASE Renew
    BY <1>1 DEF Renew, TypeOK, ending, work, remote
  <1>2. CASE CancelActive
    <2>1. asked' \subseteq DataFlowRuns
      BY <1>2 DEF CancelActive, TypeOK
    <2>0. queue' \in Seq(Nodes)
      <3>1. queue' = queue \/ queue' = << >>
        BY <1>2 DEF CancelActive
      <3>2. queue \in Seq(Nodes) /\ << >> \in Seq(Nodes)
        BY DEF TypeOK
      <3>3. QED
        BY <3>1, <3>2
    <2>2. thread' \in [Nodes -> {"none", "queued", "finished"} \cup Busy]
      BY <1>2 DEF CancelActive, TypeOK
    <2>3. QED
      BY <1>2, <2>0, <2>1, <2>2 DEF CancelActive, TypeOK, loop, ending, work
  <1>3. ASSUME NEW n \in Nodes, Block(n) \/ FailToAcquire(n)
        PROVE  TypeOK'
    <2>1. Position(n) \in Nat
      BY PositionOrder
    <2>2. QED
      BY <1>3, <2>1 DEF Block, FailToAcquire, Visit, Mark, TypeOK, ending, work, remote
  <1>4. ASSUME NEW n \in Nodes, Launch(n)
        PROVE  TypeOK'
    <2>1. Position(n) \in Nat
      BY PositionOrder
    <2>2. QED
      BY <1>4, <2>1 DEF Launch, Visit, Mark, TypeOK, ending, work, remote
  <1>5. CASE EndScan
    BY <1>5 DEF EndScan, Stuck, TypeOK, work, remote
  <1>6. CASE Wait
    BY <1>6 DEF Wait, TypeOK, ending, work, remote
  <1>7. ASSUME NEW n \in Nodes, Collect(n)
        PROVE  TypeOK'
    BY <1>7 DEF Collect, Mark, TypeOK, ending, remote
  <1>8. CASE Interrupt \/ Fail
    BY <1>8 DEF Interrupt, Fail, TypeOK, loop, work, remote
  <1>9. CASE Shutdown
    BY <1>9 DEF Shutdown, TypeOK, loop, ending, work, remote
  <1>10. CASE Release
    <2>1. \A n \in Nodes : Settled(n) \in {"PENDING", "RUNNING"} \cup NodeTerminal
      BY DEF Settled, TypeOK
    <2>2. QED
      BY <1>10, <2>1 DEF Release, TypeOK, ending, work, remote
  <1>11. CASE Take
    BY <1>11, QueueTyping DEF Take, Goto, TypeOK, main, loop, ending, work, remote
  <1>12. ASSUME NEW n \in Nodes, Work(n)
         PROVE  TypeOK'
    BY <1>12, WorkIsOwn
  <1>13. ASSUME NEW x \in DataFlowRuns, RunEnds(x)
         PROVE  TypeOK'
    BY <1>13 DEF RunEnds, TypeOK, main, loop, ending, work
  <1>14. CASE UNCHANGED vars
    BY <1>14 DEF TypeOK, vars, loop, ending, work, remote
  <1>15. QED
    BY <1>1, <1>2, <1>3, <1>4, <1>5, <1>6, <1>7, <1>8, <1>9, <1>10, <1>11, <1>12, <1>13,
       <1>14 DEF Next, Main, Over

-----------------------------------------------------------------------------
(* The queue and the futures.                                               *)

\* Nodes that may go on: what an action of the main thread leaves alone.
LEMMA VisitedNode ==
    ASSUME TypeOK, FuturesOK, NEW n \in Nodes, Visit(n)
    PROVE  /\ phase = "scan" /\ InLoop /\ state[n] = "PENDING" /\ thread[n] = "none"
           /\ Position(n) > cursor /\ cursor' = Position(n)
           /\ MustBlock(n) \/ MayStart(n)
           /\ \A m \in ToVisit : Position(n) <= Position(m)
  BY DEF Visit, ToVisit, FuturesOK, Futures, InLoop, TypeOK

\* Every step keeps that the queue holds every queued future once.
LEMMA QueueStep ==
    ASSUME TypeOK, TypeOK', QueueOK, FuturesOK, [Next]_vars
    PROVE  QueueOK'
  <1>1. CASE UNCHANGED << queue, thread >>
    BY <1>1 DEF QueueOK
  <1>2. CASE queue' = << >>
    BY <1>2 DEF QueueOK
  <1>3. ASSUME NEW n \in Nodes, Launch(n)
        PROVE  QueueOK'
    <2>1. /\ thread[n] = "none" /\ queue' = Append(queue, n)
          /\ thread' = [thread EXCEPT ![n] = "queued"]
      BY <1>3, VisitedNode DEF Launch
    <2>2. \A i \in DOMAIN queue : queue[i] # n /\ queue[i] \in Nodes
      BY <2>1 DEF QueueOK, TypeOK
    <2>3. \A i \in DOMAIN queue' :
              (i \in DOMAIN queue /\ queue'[i] = queue[i]) \/ (i = Len(queue) + 1 /\ queue'[i] = n)
      <3>1. queue \in Seq(Nodes)
        BY DEF TypeOK
      <3>2. \A i \in DOMAIN Append(queue, n) :
                \/ i \in DOMAIN queue /\ Append(queue, n)[i] = queue[i]
                \/ i = Len(queue) + 1 /\ Append(queue, n)[i] = n
        BY <3>1
      <3>3. QED
        BY <2>1, <3>2
    <2>4. \A i \in DOMAIN queue' : thread'[queue'[i]] = "queued"
      BY <2>1, <2>2, <2>3 DEF QueueOK, TypeOK
    <2>5. QED
      BY <2>2, <2>3, <2>4 DEF QueueOK
  <1>4. ASSUME NEW n \in Nodes, Collect(n)
        PROVE  QueueOK'
    <2>1. /\ phase = "collect" /\ n \in completed /\ queue' = queue
          /\ thread' = [thread EXCEPT ![n] = "none"]
      BY <1>4 DEF Collect
    <2>2. thread[n] = "finished"
      BY <2>1 DEF FuturesOK
    <2>3. \A i \in DOMAIN queue : queue[i] \in Nodes /\ queue[i] # n
      BY <2>2 DEF QueueOK, TypeOK
    <2>4. \A i \in DOMAIN queue : thread'[queue[i]] = thread[queue[i]]
      BY <2>1, <2>3 DEF TypeOK
    <2>5. QED
      BY <2>1, <2>4 DEF QueueOK
  <1>5. CASE Take
    <2>1. /\ queue # << >> /\ queue' = Tail(queue)
          /\ thread' = [thread EXCEPT ![Head(queue)] = "begin"]
      BY <1>5 DEF Take, Goto
    <2>2. \A i \in DOMAIN Tail(queue) :
              Tail(queue)[i] # Head(queue) /\ thread[Tail(queue)[i]] = "queued"
      BY <2>1, QueueTyping DEF QueueOK, TypeOK
    <2>3. ASSUME NEW i \in DOMAIN Tail(queue), NEW j \in DOMAIN Tail(queue),
                 Tail(queue)[i] = Tail(queue)[j]
          PROVE  i = j
      <3>1. i + 1 = j + 1 /\ i \in Nat /\ j \in Nat
        BY <2>1, <2>3, QueueTyping DEF QueueOK
      <3>2. QED
        BY <3>1
    <2>4. \A i \in DOMAIN Tail(queue) : Tail(queue)[i] \in Nodes
      BY <2>1, QueueTyping DEF TypeOK
    <2>5. \A i \in DOMAIN queue' : thread'[queue'[i]] = "queued"
      BY <2>1, <2>2, <2>4 DEF TypeOK
    <2>6. QED
      BY <2>1, <2>3, <2>5 DEF QueueOK
  <1>6. ASSUME NEW n \in Nodes, Work(n)
        PROVE  QueueOK'
    <2>1. queue' = queue /\ thread[n] \in Busy
      BY <1>6, WorkIsOwn DEF WorkMoves
    <2>2. PICK label \in Busy \cup {"finished"} : thread' = [thread EXCEPT ![n] = label]
      BY <1>6, WorkIsOwn DEF WorkMoves
    <2>3. \A i \in DOMAIN queue : queue[i] # n /\ queue[i] \in Nodes
      BY <2>1 DEF QueueOK, TypeOK, Busy
    <2>4. \A i \in DOMAIN queue : thread'[queue[i]] = thread[queue[i]]
      BY <2>2, <2>3 DEF TypeOK
    <2>5. QED
      BY <2>1, <2>4 DEF QueueOK
  <1>7. QED
    BY <1>1, <1>2, <1>3, <1>4, <1>5, <1>6
       DEF Next, Main, Over, vars, Renew, CancelActive, Block, FailToAcquire, EndScan, Wait,
           Interrupt, Fail, Shutdown, Release, RunEnds

\* Every step keeps that the nodes RUNNING in the manifest are the futures.
LEMMA FuturesStep ==
    ASSUME TypeOK, TypeOK', QueueOK, FuturesOK, [Next]_vars
    PROVE  FuturesOK'
  <1>1. CASE Renew \/ EndScan \/ Interrupt \/ Fail
    BY <1>1 DEF Renew, EndScan, Interrupt, Fail, FuturesOK, Futures, InLoop, TypeOK, loop,
                ending, Busy, NodeTerminal
  <1>2. CASE CancelActive
    BY <1>2 DEF CancelActive, FuturesOK, Futures, InLoop, TypeOK, loop, ending
  <1>3. ASSUME NEW n \in Nodes, Block(n) \/ FailToAcquire(n)
        PROVE  FuturesOK'
    BY <1>3, VisitedNode
       DEF Block, FailToAcquire, Mark, FuturesOK, Futures, InLoop, TypeOK, ending
  <1>4. ASSUME NEW n \in Nodes, Launch(n)
        PROVE  FuturesOK'
    BY <1>4, VisitedNode DEF Launch, Mark, FuturesOK, Futures, InLoop, TypeOK, ending
  <1>5. CASE Wait
    BY <1>5 DEF Wait, FuturesOK, Futures, InLoop, TypeOK, ending
  <1>6. ASSUME NEW n \in Nodes, Collect(n)
        PROVE  FuturesOK'
    BY <1>6 DEF Collect, Mark, FuturesOK, Futures, InLoop, TypeOK, ending, NodeTerminal
  <1>7. CASE Shutdown
    BY <1>7 DEF Shutdown, FuturesOK, Futures, InLoop, TypeOK, loop, ending
  <1>8. CASE Release
    BY <1>8 DEF Release, Joined, Settled, FuturesOK, Futures, InLoop, TypeOK, ending
  <1>9. CASE Take
    <2>1. /\ queue # << >> /\ UNCHANGED << phase, interrupted, state, completed >>
          /\ thread' = [thread EXCEPT ![Head(queue)] = "begin"]
          /\ Head(queue) \in Nodes /\ thread[Head(queue)] = "queued"
      BY <1>9, QueueTyping DEF Take, Goto, main, loop, ending, QueueOK
    <2>2. QED
      BY <2>1 DEF FuturesOK, Futures, InLoop, TypeOK
  <1>10. ASSUME NEW n \in Nodes, Work(n)
         PROVE  FuturesOK'
    <2>1. /\ UNCHANGED << phase, interrupted, state, completed, queue >>
          /\ thread[n] \in Busy
      BY <1>10, WorkIsOwn DEF WorkMoves, main, loop, ending
    <2>2. PICK label \in Busy \cup {"finished"} : thread' = [thread EXCEPT ![n] = label]
      BY <1>10, WorkIsOwn DEF WorkMoves
    <2>3. /\ Futures' = Futures
          /\ \A m \in Nodes : m # n => thread'[m] = thread[m]
          /\ thread'[n] \in Busy \cup {"finished"}
      BY <2>1, <2>2 DEF Futures, TypeOK, Busy
    <2>4. QED
      BY <2>1, <2>3 DEF FuturesOK, InLoop, TypeOK, Busy
  <1>11. ASSUME NEW x \in DataFlowRuns, RunEnds(x)
         PROVE  FuturesOK'
    BY <1>11 DEF RunEnds, FuturesOK, Futures, InLoop, main, loop, ending
  <1>12. CASE UNCHANGED vars
    BY <1>12 DEF vars, FuturesOK, Futures, InLoop, loop, ending
  <1>13. QED
    BY <1>1, <1>2, <1>3, <1>4, <1>5, <1>6, <1>7, <1>8, <1>9, <1>10, <1>11, <1>12
       DEF Next, Main, Over

-----------------------------------------------------------------------------
(* What every step leaves alone: a terminal state, and all the threads that *)
(* it does not launch.                                                      *)

\* No step undoes a terminal state or a lease error; only a launch gives a node
\* a thread, and only a launch and the exit change the lease.
LEMMA StepShape ==
    ASSUME TypeOK, TypeOK', QueueOK, FuturesOK, [Next]_vars
    PROVE  /\ \A m \in Nodes : state[m] \in NodeTerminal => state'[m] = state[m]
           /\ \A m \in Nodes : state'[m] = "PENDING" => state[m] = "PENDING"
           /\ leaseError => leaseError'
           /\ \/ \E n \in Nodes : Launch(n)
              \/ \A m \in Nodes :
                    /\ thread'[m] # "none" => thread[m] # "none"
                    /\ thread'[m] \in Busy \cup {"queued"} => thread[m] \in Busy \cup {"queued"}
           /\ \/ \E n \in Nodes : Launch(n)
              \/ lease' = lease
              \/ phase' = "exited"
  <1> DEFINE Shape ==
        /\ \A m \in Nodes : state[m] \in NodeTerminal => state'[m] = state[m]
        /\ \A m \in Nodes : state'[m] = "PENDING" => state[m] = "PENDING"
        /\ leaseError => leaseError'
      Threads == \A m \in Nodes :
        /\ thread'[m] # "none" => thread[m] # "none"
        /\ thread'[m] \in Busy \cup {"queued"} => thread[m] \in Busy \cup {"queued"}
  <1>1. CASE Renew \/ CancelActive \/ EndScan \/ Wait \/ Interrupt \/ Fail \/ Shutdown
    <2>1. UNCHANGED << state, lease >> /\ (leaseError => leaseError')
      BY <1>1 DEF Renew, CancelActive, EndScan, Wait, Interrupt, Fail, Shutdown, loop
    <2>2. Threads
      BY <1>1 DEF Renew, CancelActive, EndScan, Wait, Interrupt, Fail, Shutdown, TypeOK, Busy
    <2>3. QED
      BY <2>1, <2>2
  <1>2. ASSUME NEW n \in Nodes, Block(n) \/ FailToAcquire(n)
        PROVE  Shape /\ Threads /\ lease' = lease
    <2>1. /\ UNCHANGED << thread, lease >> /\ (leaseError => leaseError')
          /\ state[n] = "PENDING"
          /\ \E value \in NodeTerminal : state' = [state EXCEPT ![n] = value]
      BY <1>2, VisitedNode DEF Block, FailToAcquire, Mark, NodeTerminal
    <2>2. QED
      BY <2>1 DEF TypeOK, NodeTerminal
  <1>3. ASSUME NEW n \in Nodes, Launch(n)
        PROVE  Shape
    BY <1>3, VisitedNode DEF Launch, Mark, TypeOK, NodeTerminal
  <1>4. ASSUME NEW n \in Nodes, Collect(n)
        PROVE  Shape /\ Threads /\ lease' = lease
    <2>1. state[n] = "RUNNING"
      BY <1>4 DEF Collect, FuturesOK, InLoop, Futures
    <2>2. /\ thread' = [thread EXCEPT ![n] = "none"]
          /\ lease' = lease /\ (leaseError => leaseError')
          /\ \E value \in NodeTerminal : state' = [state EXCEPT ![n] = value]
      BY <1>4 DEF Collect, Mark, NodeTerminal
    <2>3. QED
      BY <2>1, <2>2 DEF TypeOK, NodeTerminal, Busy
  <1>5. CASE Release
    BY <1>5 DEF Release, Settled, NodeTerminal, ending
  <1>6. CASE Take
    BY <1>6, QueueTyping DEF Take, Goto, main, loop, QueueOK, TypeOK
  <1>7. ASSUME NEW n \in Nodes, Work(n)
        PROVE  Shape /\ Threads /\ lease' = lease
    <2>1. UNCHANGED << state, lease, leaseError >> /\ thread[n] \in Busy
      BY <1>7, WorkIsOwn DEF WorkMoves, main, loop
    <2>2. PICK label \in Busy \cup {"finished"} : thread' = [thread EXCEPT ![n] = label]
      BY <1>7, WorkIsOwn DEF WorkMoves
    <2>3. QED
      BY <2>1, <2>2 DEF TypeOK, Busy
  <1>8. ASSUME NEW x \in DataFlowRuns, RunEnds(x)
        PROVE  UNCHANGED << state, lease, leaseError, thread >>
    BY <1>8 DEF RunEnds, main, loop
  <1>9. CASE UNCHANGED vars
    BY <1>9 DEF vars, loop
  <1>10. QED
    BY <1>1, <1>2, <1>3, <1>4, <1>5, <1>6, <1>7, <1>8, <1>9 DEF Next, Main, Over

-----------------------------------------------------------------------------
(* Loads: launched one at a time, in turn and under the lease, which is     *)
(* given back only when no thread is left.                                  *)

\* Every step keeps that loads run one at a time, in order and under the lease.
LEMMA LoadsStep ==
    ASSUME TypeOK, TypeOK', QueueOK, FuturesOK, FuturesOK', LoadsOK, [Next]_vars
    PROVE  LoadsOK'
  <1>1. ASSUME NEW n \in Nodes, Launch(n)
        PROVE  LoadsOK'
    <2>1. /\ state[n] = "PENDING" /\ thread[n] = "none"
          /\ thread' = [thread EXCEPT ![n] = "queued"]
          /\ lease' = (lease \/ IsLoad(n))
          /\ MayStart(n)
      BY <1>1, VisitedNode, LaneOfLoad DEF Launch
    <2>2. Futures' = Futures \cup {n}
      BY <2>1 DEF Futures, TypeOK
    <2>3. IsLoad(n) => /\ \A m \in Futures : ~IsLoad(m)
                       /\ \A m \in EarlierLoads(n) : state[m] \in NodeTerminal
      BY <2>1, LaneOfLoad DEF MayStart, LaneIsFree, InTurn, SerialLanes, Futures
    <2>4. \A m \in Nodes : state[m] \in NodeTerminal => state'[m] \in NodeTerminal
      BY StepShape
    <2>5. \A a, b \in Futures' : IsLoad(a) /\ IsLoad(b) => a = b
      BY <2>2, <2>3 DEF LoadsOK
    <2>6. \A a \in Nodes : IsLoad(a) /\ thread'[a] \in Busy \cup {"queued"} => lease'
      BY <2>1 DEF LoadsOK, TypeOK
    <2>7. \A a \in Futures' : IsLoad(a) =>
              \A m \in EarlierLoads(a) : state'[m] \in NodeTerminal
      BY <2>2, <2>3, <2>4 DEF LoadsOK, EarlierLoads
    <2>8. QED
      BY <2>5, <2>6, <2>7 DEF LoadsOK, IsLoad, EarlierLoads
  <1>2. CASE ~\E n \in Nodes : Launch(n)
    <2>1. /\ \A m \in Nodes : state[m] \in NodeTerminal => state'[m] \in NodeTerminal
          /\ \A m \in Nodes :
                /\ thread'[m] # "none" => thread[m] # "none"
                /\ thread'[m] \in Busy \cup {"queued"} => thread[m] \in Busy \cup {"queued"}
          /\ lease' = lease \/ phase' = "exited"
      BY <1>2, StepShape
    <2>2. Futures' \subseteq Futures
      BY <2>1 DEF Futures
    <2>3. phase' = "exited" => \A m \in Nodes : thread'[m] \notin Busy \cup {"queued"}
      BY DEF FuturesOK
    <2>4. QED
      BY <2>1, <2>2, <2>3 DEF LoadsOK, IsLoad, EarlierLoads
  <1>3. QED
    BY <1>1, <1>2

-----------------------------------------------------------------------------
(* Data Flow runs: an attempt is submitted by the thread of its node alone, *)
(* and the next one only after it ended.                                    *)

\* Every step keeps that only the run of the current attempt may be active.
LEMMA RunsStep ==
    ASSUME TypeOK, TypeOK', QueueOK, FuturesOK, RunsOK, [Next]_vars
    PROVE  RunsOK'
  <1>0. \A m \in Nodes : state'[m] = "PENDING" => state[m] = "PENDING"
    BY StepShape
  <1>1. CASE /\ UNCHANGED << run, try >>
             /\ \A m \in Nodes : thread'[m] \in {"queued", "begin", "submit", "wait"} =>
                    \/ state[m] = "PENDING"
                    \/ thread[m] \in {"queued", "begin", "submit", "wait"}
    BY <1>0, <1>1 DEF RunsOK, This
  <1>2. ASSUME NEW n \in Nodes, Launch(n)
        PROVE  RunsOK'
    BY <1>1, <1>2, VisitedNode DEF Launch, work, remote, TypeOK
  <1>3. CASE Take
    BY <1>1, <1>3, QueueTyping DEF Take, Goto, QueueOK, work, remote, TypeOK
  <1>4. ASSUME NEW n \in Nodes, Collect(n)
        PROVE  RunsOK'
    BY <1>1, <1>4 DEF Collect, remote, TypeOK
  <1>5. ASSUME NEW x \in DataFlowRuns, RunEnds(x)
        PROVE  RunsOK'
    <2>1. PICK end \in {"succeeded", "failed"} : run' = [run EXCEPT ![x] = end]
      BY <1>5 DEF RunEnds
    <2>2. run[x] = "active" /\ UNCHANGED << try, thread, state >>
      BY <1>5 DEF RunEnds, main, loop, work
    <2>3. \A y \in DataFlowRuns : /\ run'[y] = "none" <=> run[y] = "none"
                                  /\ run'[y] = "active" => run[y] = "active"
      BY <2>1, <2>2 DEF TypeOK
    <2>4. QED
      BY <2>2, <2>3, RunNames DEF RunsOK, This
  <1>6. ASSUME NEW n \in Nodes, Work(n)
        PROVE  RunsOK'
    <2>0. /\ thread[n] \in Busy /\ state[n] # "PENDING" /\ UNCHANGED state
          /\ \A m \in Nodes : m # n => try'[m] = try[m] /\ thread'[m] = thread[m]
      BY <1>6, WorkIsOwn DEF WorkMoves, FuturesOK, Futures, Busy, main, loop, TypeOK
    <2>1. CASE /\ UNCHANGED << run, try >>
               /\ thread'[n] \in {"submit", "wait"} => thread[n] \in {"begin", "submit", "wait"}
      <3>1. thread'[n] \notin {"queued", "begin"}
        BY <1>6, WorkIsOwn DEF WorkMoves, Busy, TypeOK
      <3>2. QED
        BY <1>1, <2>0, <2>1, <3>1
    <2>2. CASE /\ thread[n] = "submit" /\ thread'[n] \in {"register", "finished"}
               /\ run' = [run EXCEPT ![This(n)] = "active"]
               /\ UNCHANGED try
      <3>1. ASSUME NEW m \in Nodes, NEW k \in 1 .. MaxRetries + 1
            PROVE  /\ run'[<<m, k>>] # "none" => k <= try[m]
                   /\ run'[<<m, k>>] = "active" => k = try[m]
        <4>1. CASE m = n /\ k = try[n]
          BY <4>1, RunNames
        <4>2. CASE ~(m = n /\ k = try[n])
          BY <2>2, <4>2, RunNames DEF RunsOK, TypeOK
        <4>3. QED
          BY <4>1, <4>2
      <3>2. ASSUME NEW m \in Nodes,
                   \/ state'[m] = "PENDING"
                   \/ thread'[m] \in {"queued", "begin", "submit", "wait"}
            PROVE  run'[<<m, try[m]>>] = "none"
        <4>1. m # n
          BY <2>0, <2>2, <3>2
        <4>2. run[<<m, try[m]>>] = "none"
          BY <2>0, <3>2, <4>1 DEF RunsOK, This
        <4>3. QED
          BY <2>2, <4>1, <4>2, RunNames DEF TypeOK
      <3>3. QED
        BY <2>2, <3>1, <3>2 DEF RunsOK, This
    <2>3. CASE /\ run[This(n)] = "failed" /\ thread'[n] = "submit"
               /\ try[n] < Attempts(n)
               /\ try' = [try EXCEPT ![n] = @ + 1]
               /\ UNCHANGED run
      <3>0. try[n] \in Nat /\ try'[n] = try[n] + 1
        BY <2>3, RunNames DEF TypeOK
      <3>1. ASSUME NEW m \in Nodes, NEW k \in 1 .. MaxRetries + 1
            PROVE  /\ run[<<m, k>>] # "none" => k <= try'[m]
                   /\ run[<<m, k>>] = "active" => k = try'[m]
        <4>1. CASE m = n
          <5>1. run[<<n, k>>] # "active"
            BY <2>3 DEF RunsOK, This
          <5>2. QED
            BY <3>0, <4>1, <5>1 DEF RunsOK
        <4>2. CASE m # n
          BY <2>0, <4>2 DEF RunsOK
        <4>3. QED
          BY <4>1, <4>2
      <3>2. ASSUME NEW m \in Nodes,
                   \/ state'[m] = "PENDING"
                   \/ thread'[m] \in {"queued", "begin", "submit", "wait"}
            PROVE  run[<<m, try'[m]>>] = "none"
        <4>1. CASE m = n
          <5>1. try'[n] \in 1 .. MaxRetries + 1 /\ ~(try'[n] <= try[n])
            BY <3>0 DEF TypeOK
          <5>2. QED
            BY <4>1, <5>1 DEF RunsOK
        <4>2. CASE m # n
          BY <2>0, <3>2, <4>2 DEF RunsOK, This
        <4>3. QED
          BY <4>1, <4>2
      <3>3. QED
        BY <2>3, <3>1, <3>2 DEF RunsOK, This
    <2>4. QED
      BY <1>6, <2>1, <2>2, <2>3, WorkIsOwn DEF WorkMoves
  <1>7. CASE Renew \/ CancelActive \/ EndScan \/ Wait \/ Interrupt \/ Fail \/ Shutdown \/ Release
    BY <1>1, <1>7 DEF Renew, CancelActive, EndScan, Wait, Interrupt, Fail, Shutdown, Release,
                      work, remote, TypeOK
  <1>8. ASSUME NEW n \in Nodes, Block(n) \/ FailToAcquire(n)
        PROVE  RunsOK'
    BY <1>1, <1>8 DEF Block, FailToAcquire, work, remote
  <1>9. CASE UNCHANGED vars
    BY <1>1, <1>9 DEF vars, work, remote
  <1>10. QED
    BY <1>2, <1>3, <1>4, <1>5, <1>6, <1>7, <1>8, <1>9 DEF Next, Main, Over

-----------------------------------------------------------------------------
(* The scan. By induction along the order of the nodes, what it has passed  *)
(* over waits for a future or for a node before it: so it is never stuck.   *)

\* A node the scan passes over waits for a future or for a node before it.
LEMMA NotPassedOver ==
    ASSUME TypeOK, NEW n \in Nodes, state[n] = "PENDING", ~MustBlock(n), ~MayStart(n)
    PROVE  \/ Futures # {}
           \/ \E m \in Nodes : Position(m) < Position(n) /\ state[m] \notin NodeTerminal
  <1>1. CASE \E d \in Dependencies(n) : state[d] # "SUCCEEDED"
    <2>1. PICK d \in Dependencies(n) : state[d] # "SUCCEEDED"
      BY <1>1
    <2>2. state[d] \notin NodeTerminal
      BY <2>1 DEF MustBlock, Refused, NodeTerminal
    <2>3. QED
      BY <2>1, <2>2, WaitsForEarlier
  <1>2. CASE ~InTurn(n)
    BY <1>2, WaitsForEarlier DEF InTurn
  <1>3. CASE ~LaneIsFree(n)
    BY <1>3 DEF LaneIsFree
  <1>4. QED
    BY <1>1, <1>2, <1>3 DEF MayStart

\* A scan that launched nothing and waits for nothing has nothing left.
LEMMA ScanIsNotStuck ==
    ASSUME TypeOK, FuturesOK, ScanOK, phase = "scan", ToVisit = {}, Futures = {}
    PROVE  AllTerminal
  <1> DEFINE Open == { Position(n) : n \in { m \in Nodes : state[m] \notin NodeTerminal } }
  <1>1. SUFFICES ASSUME Open # {}
                 PROVE  FALSE
    BY DEF AllTerminal
  <1>2. Open \in SUBSET Nat
    BY PositionOrder
  <1>3. PICK n \in Nodes : /\ state[n] \notin NodeTerminal
                           /\ \A y \in Open : Position(n) <= y
    <2> HIDE DEF Open
    <2>1. PICK x \in Open : \A y \in Open : x <= y
      BY <1>1, <1>2, LeastNumber
    <2>2. PICK n \in Nodes : state[n] \notin NodeTerminal /\ x = Position(n)
      BY <2>1 DEF Open
    <2>3. QED
      BY <2>1, <2>2
  <1>4. ~\E m \in Nodes : Position(m) < Position(n) /\ state[m] \notin NodeTerminal
    <2>1. SUFFICES ASSUME NEW m \in Nodes, Position(m) < Position(n),
                          state[m] \notin NodeTerminal
                   PROVE  FALSE
      OBVIOUS
    <2>2. Position(m) \in Open
      BY <2>1
    <2>3. Position(n) <= Position(m) /\ Position(m) \in Nat /\ Position(n) \in Nat
      BY <1>3, <2>2, PositionOrder
    <2>4. QED
      BY <2>1, <2>3
  <1>5. state[n] = "PENDING"
    BY <1>3 DEF FuturesOK, InLoop, TypeOK
  <1>6. Position(n) > cursor
    <2>1. ~(Position(n) <= cursor)
      BY <1>4, <1>5 DEF ScanOK
    <2>2. QED
      BY <2>1, PositionOrder DEF TypeOK
  <1>7. ~MustBlock(n) /\ ~MayStart(n)
    BY <1>5, <1>6 DEF ToVisit
  <1>8. QED
    BY <1>4, <1>5, <1>7, NotPassedOver

\* Every step keeps that what the scan has passed over waits for something.
LEMMA ScanStep ==
    ASSUME TypeOK, TypeOK', QueueOK, FuturesOK, StopOK, ScanOK, [Next]_vars
    PROVE  ScanOK'
  <1>1. ASSUME NEW v \in Nodes, Block(v) \/ Launch(v) \/ FailToAcquire(v)
        PROVE  ScanOK'
    <2>1. /\ phase = "scan" /\ phase' = "scan" /\ cursor' = Position(v)
          /\ Position(v) > cursor
          /\ \A m \in ToVisit : Position(v) <= Position(m)
          /\ \E value \in {"RUNNING", "BLOCKED", "FAILED"} : state' = [state EXCEPT ![v] = value]
          /\ thread' = thread \/ thread' = [thread EXCEPT ![v] = "queued"]
      BY <1>1, VisitedNode DEF Block, Launch, FailToAcquire, Mark
    <2>2. Futures \subseteq Futures'
      BY <2>1 DEF Futures, TypeOK
    <2>3. SUFFICES ASSUME NEW n \in Nodes, Position(n) <= Position(v), state'[n] = "PENDING",
                          Futures' = {}
                   PROVE  \E m \in Nodes : /\ Position(m) < Position(n)
                                           /\ state'[m] \notin NodeTerminal
      BY <2>1 DEF ScanOK
    <2>4. n # v /\ state[n] = "PENDING"
      BY <2>1, <2>3 DEF TypeOK
    <2>5. Position(n) < Position(v) /\ Futures = {}
      BY <2>2, <2>3, <2>4, PositionOrder
    <2>6. \E m \in Nodes : Position(m) < Position(n) /\ state[m] \notin NodeTerminal
      <3>1. CASE Position(n) <= cursor
        BY <2>1, <2>4, <2>5, <3>1 DEF ScanOK
      <3>2. CASE Position(n) > cursor
        <4>1. n \notin ToVisit
          BY <2>1, <2>5, PositionOrder
        <4>2. ~MustBlock(n) /\ ~MayStart(n)
          BY <2>4, <3>2, <4>1 DEF ToVisit
        <4>3. QED
          BY <2>4, <2>5, <4>2, NotPassedOver
      <3>3. QED
        BY <3>1, <3>2, PositionOrder DEF TypeOK
    <2>7. PICK m \in Nodes : Position(m) < Position(n) /\ state[m] \notin NodeTerminal
      BY <2>6
    <2>8. m # v
      BY <2>5, <2>7, PositionOrder
    <2>9. QED
      BY <2>1, <2>7, <2>8 DEF TypeOK
  <1>2. CASE Renew \/ CancelActive
    <2>1. (phase' \in {"scan", "renew"} \/ (phase' = "cancel" /\ ~interrupted')) => cursor' = 0
      BY <1>2 DEF Renew, CancelActive, ScanOK, InLoop, loop, ending
    <2>2. phase' \in {"scan", "cancel", "closing"}
      BY <1>2 DEF Renew, CancelActive
    <2>3. QED
      BY <2>1, <2>2, PositionOrder DEF ScanOK, InLoop
  <1>3. CASE EndScan \/ Wait \/ Interrupt \/ Fail \/ Shutdown \/ Release
    BY <1>3 DEF EndScan, Wait, Interrupt, Fail, Shutdown, Release, ScanOK, InLoop, loop, ending
  <1>4. ASSUME NEW n \in Nodes, Collect(n)
        PROVE  ScanOK'
    BY <1>4 DEF Collect, ScanOK, InLoop, ending
  <1>5. ASSUME UNCHANGED << phase, interrupted, cursor, state >>, Futures' = Futures
        PROVE  ScanOK'
    BY <1>5 DEF ScanOK, InLoop
  <1>6. CASE Take
    <2>1. Futures' = Futures
      BY <1>6, QueueTyping DEF Take, Goto, Futures, QueueOK, TypeOK
    <2>2. QED
      BY <1>5, <1>6, <2>1 DEF Take, main, loop, ending
  <1>7. ASSUME NEW n \in Nodes, Work(n)
        PROVE  ScanOK'
    <2>1. PICK label \in Busy \cup {"finished"} : thread' = [thread EXCEPT ![n] = label]
      BY <1>7, WorkIsOwn DEF WorkMoves
    <2>2. thread[n] \in Busy /\ UNCHANGED << phase, interrupted, cursor, state >>
      BY <1>7, WorkIsOwn DEF WorkMoves, main, loop, ending
    <2>3. Futures' = Futures
      BY <2>1, <2>2 DEF Futures, TypeOK, Busy
    <2>4. QED
      BY <1>5, <2>2, <2>3
  <1>8. ASSUME NEW x \in DataFlowRuns, RunEnds(x)
        PROVE  ScanOK'
    BY <1>5, <1>8 DEF RunEnds, Futures, main, loop, ending
  <1>9. CASE UNCHANGED vars
    BY <1>5, <1>9 DEF vars, Futures, loop, ending
  <1>10. QED
    BY <1>1, <1>2, <1>3, <1>4, <1>6, <1>7, <1>8, <1>9 DEF Next, Main, Over

-----------------------------------------------------------------------------
(* How the run ends, and who is to blame.                                   *)

\* Every step keeps that a run which stops has a reason to, or is through.
LEMMA StopStep ==
    ASSUME TypeOK, TypeOK', QueueOK, FuturesOK, FuturesOK', StopOK, ScanOK, [Next]_vars
    PROVE  StopOK'
  <1> USE DEF Leaving
  <1>0. (leaseError => leaseError') /\ (AllTerminal => AllTerminal')
    BY StepShape DEF AllTerminal
  <1>1. CASE Renew \/ Wait \/ Interrupt \/ Fail
    BY <1>0, <1>1 DEF Renew, Wait, Interrupt, Fail, StopOK, Excused, InLoop, AllTerminal, loop,
                      ending, work
  <1>2. CASE CancelActive \/ Shutdown
    <2>1. Futures' \subseteq Futures
      BY <1>2 DEF CancelActive, Shutdown, Futures, TypeOK
    <2>2. QED
      BY <1>0, <1>2, <2>1 DEF CancelActive, Shutdown, StopOK, Excused, InLoop, AllTerminal,
                              loop, ending, work
  <1>3. CASE EndScan
    <2>1. /\ phase = "scan" /\ ToVisit = {} /\ ~interrupted /\ ~failed
          /\ UNCHANGED << state, result, thread, leaseError, interrupted >>
          /\ \/ Futures # {} /\ phase' = "wait" /\ UNCHANGED << failed, stop >>
             \/ Futures = {} /\ phase' = "closing" /\ failed' = Stuck
      BY <1>3 DEF EndScan, StopOK, InLoop, work
    <2>2. Futures' = Futures
      BY <2>1 DEF Futures
    <2>3. Futures = {} => AllTerminal
      BY <2>1, ScanIsNotStuck
    <2>4. Futures = {} => ~failed' /\ AllTerminal'
      BY <1>0, <2>1, <2>3 DEF Stuck
    <2>5. CASE Futures # {}
      BY <2>1, <2>5 DEF StopOK, Excused, InLoop
    <2>6. CASE Futures = {}
      <3>1. /\ phase' = "closing" /\ Futures' = {} /\ ~InLoop'
            /\ AllTerminal'
        BY <2>1, <2>2, <2>4, <2>6 DEF InLoop
      <3>2. \A n \in Nodes : "CANCELLED" \in {state'[n], result'[n]} => Excused'
        BY <2>1, <2>4, <2>6 DEF StopOK, Excused
      <3>3. QED
        BY <3>1, <3>2 DEF StopOK
    <2>7. QED
      BY <2>5, <2>6
  <1>4. ASSUME NEW n \in Nodes, Block(n) \/ Launch(n) \/ FailToAcquire(n)
        PROVE  StopOK'
    <2>1. /\ phase = "scan" /\ phase' = "scan"
          /\ UNCHANGED << stop, interrupted, failed, result >>
          /\ \E value \in {"RUNNING", "BLOCKED", "FAILED"} : state' = [state EXCEPT ![n] = value]
      BY <1>4, VisitedNode DEF Block, Launch, FailToAcquire, Mark, ending, work
    <2>2. QED
      BY <1>0, <2>1 DEF StopOK, Excused, InLoop, TypeOK
  <1>5. ASSUME NEW n \in Nodes, Collect(n)
        PROVE  StopOK'
    <2>1. /\ phase = "collect" /\ phase' \in {"renew", "collect"}
          /\ UNCHANGED << stop, interrupted, failed >>
          /\ result' = [result EXCEPT ![n] = "none"]
          /\ \/ state' = [state EXCEPT ![n] = "FAILED"]
             \/ state' = [state EXCEPT ![n] = result[n]]
      BY <1>5 DEF Collect, Mark, ending
    <2>2. QED
      BY <1>0, <2>1 DEF StopOK, Excused, InLoop, TypeOK
  <1>6. CASE Release
    BY <1>0, <1>6 DEF Release, Settled, StopOK, Excused, InLoop, AllTerminal, Futures, ending,
                   work
  <1>7. CASE Take
    <2>1. Futures' = Futures
      BY <1>7, QueueTyping DEF Take, Goto, Futures, QueueOK, TypeOK
    <2>2. QED
      BY <1>7, <2>1 DEF Take, StopOK, Excused, InLoop, AllTerminal, main, loop, ending, work
  <1>8. ASSUME NEW n \in Nodes, Work(n)
        PROVE  StopOK'
    <2>1. /\ UNCHANGED << phase, stop, interrupted, failed, leaseError, state >>
          /\ thread[n] \in Busy
          /\ \A m \in Nodes : m # n => result'[m] = result[m]
          /\ result'[n] = "CANCELLED" => stop \/ result[n] = "CANCELLED"
      BY <1>8, WorkIsOwn DEF WorkMoves, main, loop, ending
    <2>2. PICK label \in Busy \cup {"finished"} : thread' = [thread EXCEPT ![n] = label]
      BY <1>8, WorkIsOwn DEF WorkMoves
    <2>3. Futures' = Futures /\ n \in Futures
      BY <2>1, <2>2 DEF Futures, TypeOK, Busy
    <2>4. stop => Excused
      BY <2>3 DEF StopOK
    <2>5. QED
      BY <2>1, <2>3, <2>4 DEF StopOK, Excused, InLoop, AllTerminal
  <1>9. ASSUME NEW x \in DataFlowRuns, RunEnds(x)
        PROVE  StopOK'
    BY <1>9 DEF RunEnds, StopOK, Excused, InLoop, AllTerminal, Futures, main, loop, ending, work
  <1>10. CASE UNCHANGED vars
    BY <1>10 DEF vars, StopOK, Excused, InLoop, AllTerminal, Futures, loop, ending, work
  <1>11. QED
    BY <1>1, <1>2, <1>3, <1>4, <1>5, <1>6, <1>7, <1>8, <1>9, <1>10 DEF Next, Main, Over

\* Every step keeps that a node is blocked by a failure in its own chain only.
LEMMA BlockedStep ==
    ASSUME TypeOK, TypeOK', QueueOK, FuturesOK, StopOK, BlockedOK, [Next]_vars
    PROVE  BlockedOK'
  <1>0. /\ leaseError => leaseError'
        /\ \A m \in Nodes : state[m] = "FAILED" => state'[m] = "FAILED"
    BY StepShape DEF NodeTerminal
  <1>1. ASSUME NEW n \in Nodes, BlamesOwnChain(n)
        PROVE  \E k \in 1 .. n[2] : state'[<<n[1], k>>] = "FAILED"
    <2>1. PICK k \in 1 .. n[2] : state[<<n[1], k>>] = "FAILED"
      BY <1>1 DEF BlamesOwnChain
    <2>2. <<n[1], k>> \in Nodes
      BY NodeParts
    <2>3. QED
      BY <1>0, <2>1, <2>2
  <1>2. ASSUME ~Excused' => ~Excused,
               \A n \in Nodes : state'[n] = "BLOCKED" => state[n] = "BLOCKED"
        PROVE  BlockedOK'
    BY <1>1, <1>2 DEF BlockedOK, BlamesOwnChain
  <1>3. ASSUME NEW n \in Nodes, Block(n)
        PROVE  BlockedOK'
    <2>1. /\ UNCHANGED << leaseError, interrupted, failed >> /\ MustBlock(n)
          /\ state' = [state EXCEPT ![n] = "BLOCKED"]
      BY <1>3 DEF Block, Mark, ending
    <2>2. SUFFICES ASSUME ~Excused
                   PROVE  BlockedOK'
      BY <2>1 DEF BlockedOK, Excused
    <2>3. PICK d \in Dependencies(n) : state[d] \in Refused
      BY <2>1, <2>2 DEF MustBlock, Excused
    <2>4. d \in Nodes /\ d[1] = n[1] /\ d[2] < n[2]
      BY WaitsForEarlier
    <2>5. d[2] \in 1 .. n[2] /\ n[2] \in Nat /\ d[2] \in Nat /\ d = <<n[1], d[2]>>
      BY <2>4, NodeParts, NodesAreRuns
    <2>6. BlamesOwnChain(n)
      <3>1. CASE state[d] = "FAILED"
        BY <2>5, <3>1 DEF BlamesOwnChain
      <3>2. CASE state[d] = "BLOCKED"
        <4>1. PICK k \in 1 .. d[2] : state[<<d[1], k>>] = "FAILED"
          BY <2>2, <2>4, <3>2 DEF BlockedOK, BlamesOwnChain
        <4>2. k \in 1 .. n[2]
          BY <2>4, <2>5
        <4>3. QED
          BY <2>4, <4>1, <4>2 DEF BlamesOwnChain
      <3>3. CASE state[d] = "CANCELLED"
        BY <2>2, <2>4, <3>3 DEF StopOK
      <3>4. QED
        BY <2>3, <3>1, <3>2, <3>3 DEF Refused
    <2>7. \A m \in Nodes : state'[m] = "BLOCKED" => BlamesOwnChain(m)
      BY <2>1, <2>2, <2>6 DEF BlockedOK, TypeOK
    <2>8. QED
      BY <1>1, <2>7 DEF BlockedOK, BlamesOwnChain
  <1>4. ASSUME NEW n \in Nodes, Launch(n) \/ FailToAcquire(n)
        PROVE  BlockedOK'
    BY <1>0, <1>2, <1>4 DEF Launch, FailToAcquire, Mark, Excused, ending, TypeOK
  <1>5. ASSUME NEW n \in Nodes, Collect(n)
        PROVE  BlockedOK'
    <2>1. \E value \in {"SUCCEEDED", "FAILED", "CANCELLED"} : state' = [state EXCEPT ![n] = value]
      BY <1>5 DEF Collect, Mark, NodeTerminal, TypeOK, Returned
    <2>2. QED
      BY <1>0, <1>2, <1>5, <2>1 DEF Collect, Excused, ending, TypeOK
  <1>6. CASE Release
    <2>1. /\ UNCHANGED << leaseError, interrupted, failed >>
          /\ state' = [n \in Nodes |-> Settled(n)]
      BY <1>6 DEF Release, ending
    <2>2. ~Excused => \A n \in Nodes : state'[n] = state[n]
      BY <2>1 DEF Settled, Excused
    <2>3. QED
      BY <1>1, <2>1, <2>2 DEF BlockedOK, BlamesOwnChain, Excused
  <1>7. CASE EndScan
    BY <1>2, <1>7 DEF EndScan, Excused, StopOK, InLoop
  <1>8. CASE Renew \/ CancelActive \/ Wait \/ Interrupt \/ Fail \/ Shutdown \/ Take
    BY <1>2, <1>8 DEF Renew, CancelActive, Wait, Interrupt, Fail, Shutdown, Take, Excused,
                      main, loop, ending
  <1>9. ASSUME NEW n \in Nodes, Work(n)
        PROVE  BlockedOK'
    BY <1>2, <1>9, WorkIsOwn DEF WorkMoves, Excused, main, loop, ending
  <1>10. ASSUME NEW x \in DataFlowRuns, RunEnds(x)
         PROVE  BlockedOK'
    BY <1>2, <1>10 DEF RunEnds, Excused, main, loop, ending
  <1>11. CASE UNCHANGED vars
    BY <1>2, <1>11 DEF vars, Excused, loop, ending
  <1>12. QED
    BY <1>3, <1>4, <1>5, <1>6, <1>7, <1>8, <1>9, <1>10, <1>11 DEF Next, Main, Over

-----------------------------------------------------------------------------
(* The theorems.                                                            *)

\* The invariant holds when the scheduler starts.
LEMMA Initially ==
    ASSUME Init
    PROVE  IInv
  <1>1. TypeOK
    <2>1. << >> \in Seq(Nodes)
      OBVIOUS
    <2>2. 1 \in 1 .. MaxRetries + 1
      BY PoolIsPossible
    <2>3. QED
      BY <2>1, <2>2 DEF Init, TypeOK
  <1>2. QueueOK /\ FuturesOK /\ LoadsOK
    BY DEF Init, QueueOK, FuturesOK, LoadsOK, Futures, InLoop, Busy
  <1>3. RunsOK
    BY <1>1, RunNames DEF Init, RunsOK
  <1>4. StopOK /\ BlockedOK /\ ScanOK
    BY DEF Init, StopOK, BlockedOK, ScanOK, Excused, Leaving, InLoop
  <1>5. QED
    BY <1>1, <1>2, <1>3, <1>4 DEF IInv

(* The inductive invariant holds in every behaviour of a run.               *)
THEOREM SchedulerInvariant == Spec => []IInv
  <1>1. Init => IInv
    BY Initially
  <1>2. IInv /\ [Next]_vars => IInv'
    <2>1. SUFFICES ASSUME IInv, [Next]_vars
                   PROVE  IInv'
      OBVIOUS
    <2>2. TypeOK'
      BY <2>1, TypeStep DEF IInv
    <2>3. QueueOK' /\ FuturesOK'
      BY <2>1, <2>2, QueueStep, FuturesStep DEF IInv
    <2>4. LoadsOK' /\ RunsOK' /\ ScanOK' /\ StopOK' /\ BlockedOK'
      BY <2>1, <2>2, <2>3, LoadsStep, RunsStep, ScanStep, StopStep, BlockedStep DEF IInv
    <2>5. QED
      BY <2>2, <2>3, <2>4 DEF IInv
  <1>3. QED
    BY <1>1, <1>2, PTL DEF Spec

(* The variables of a run keep their types, whatever happens.               *)
THEOREM TypeCorrect == Spec => []TypeOK
  <1>1. IInv => TypeOK
    BY DEF IInv
  <1>2. QED
    BY <1>1, SchedulerInvariant, PTL

(* The error of a scheduler that cannot make progress is never raised, for  *)
(* any number of products and any chain of operations.                      *)
THEOREM ScanMakesProgress == Spec => []NeverStuck
  <1>1. IInv => NeverStuck
    BY ScanIsNotStuck DEF IInv, NeverStuck, Stuck
  <1>2. QED
    BY <1>1, SchedulerInvariant, PTL

(* Loads run one at a time and under the lease, however many workers the    *)
(* pool has and however the loop is left.                                   *)
THEOREM LoadsAreLeased == Spec => []LoadsUnderLease
  <1>1. IInv => LoadsUnderLease
    <2>1. SUFFICES ASSUME IInv
                   PROVE  LoadsUnderLease
      OBVIOUS
    <2> DEFINE Loads == { n \in Nodes : Operation(n) = "load" /\ thread[n] \in Busy }
    <2>2. \A m, n \in Loads : m = n
      BY <2>1 DEF IInv, LoadsOK, IsLoad, Futures, Busy
    <2>3. Loads # {} => lease
      BY <2>1 DEF IInv, LoadsOK, IsLoad
    <2>4. Cardinality(Loads) <= 1
      <3> HIDE DEF Loads
      <3>1. CASE Loads = {}
        BY <3>1, FS_EmptySet
      <3>2. ASSUME NEW n \in Loads
            PROVE  Cardinality(Loads) <= 1
        <4>1. Loads = {n}
          BY <2>2
        <4>2. QED
          BY <4>1, FS_Singleton
      <3>3. QED
        BY <3>1, <3>2
    <2>5. QED
      BY <2>3, <2>4 DEF LoadsUnderLease
  <1>2. QED
    BY <1>1, SchedulerInvariant, PTL

(* A node never has two Data Flow runs at once, whatever was lost, retried  *)
(* or cancelled.                                                            *)
THEOREM AttemptsAreApart == Spec => []NoOverlappingAttempts
  <1>1. IInv => NoOverlappingAttempts
    <2>1. SUFFICES ASSUME IInv, NEW n \in Nodes
                   PROVE  Cardinality({ x \in DataFlowRuns : x[1] = n /\ run[x] = "active" }) <= 1
      BY DEF NoOverlappingAttempts
    <2> DEFINE Live == { x \in DataFlowRuns : x[1] = n /\ run[x] = "active" }
    <2>2. \A x \in Live : x = This(n)
      BY <2>1 DEF IInv, RunsOK, This, DataFlowRuns
    <2> HIDE DEF Live
    <2>3. CASE Live = {}
      BY <2>3, FS_EmptySet DEF Live
    <2>4. CASE Live # {}
      <3>1. Live = {This(n)}
        BY <2>2, <2>4
      <3>2. Cardinality(Live) = 1
        BY <3>1, FS_Singleton
      <3>3. QED
        BY <3>2 DEF Live
    <2>5. QED
      BY <2>3, <2>4
  <1>2. QED
    BY <1>1, SchedulerInvariant, PTL

(* What is not done at the end of an undisturbed run is due to a failure of *)
(* its own product.                                                         *)
THEOREM BranchesStandAlone == Spec => []BranchesAreIsolated
  <1>1. IInv => BranchesAreIsolated
    <2>1. SUFFICES ASSUME IInv, phase = "exited", ~Excused, NEW n \in Nodes,
                          state[n] # "SUCCEEDED"
                   PROVE  BlamesOwnChain(n)
      BY DEF BranchesAreIsolated, Excused, BlamesOwnChain
    <2>2. state[n] \in {"FAILED", "BLOCKED"}
      BY <2>1 DEF IInv, StopOK, Leaving, AllTerminal, NodeTerminal, Excused
    <2>3. CASE state[n] = "FAILED"
      <3>1. n[2] \in 1 .. n[2] /\ n = <<n[1], n[2]>>
        BY NodeParts, NodesAreRuns
      <3>2. QED
        BY <2>3, <3>1 DEF BlamesOwnChain
    <2>4. CASE state[n] = "BLOCKED"
      BY <2>1, <2>4 DEF IInv, BlockedOK
    <2>5. QED
      BY <2>2, <2>3, <2>4
  <1>2. QED
    BY <1>1, SchedulerInvariant, PTL

(* A load is submitted only after the fate of every earlier one is known.   *)
THEOREM LoadsKeepOrder == Spec => LoadsInProductOrder
  <1>1. IInv /\ [Next]_vars =>
            [ \A x \in DataFlowRuns :
                (Operation(x[1]) = "load" /\ run[x] = "none" /\ run'[x] = "active") =>
                    \A m \in EarlierLoads(x[1]) : state[m] \in NodeTerminal ]_vars
    <2>1. SUFFICES ASSUME IInv, [Next]_vars, NEW x \in DataFlowRuns,
                          IsLoad(x[1]), run[x] = "none", run'[x] = "active"
                   PROVE  \A m \in EarlierLoads(x[1]) : state[m] \in NodeTerminal
      BY DEF IsLoad
    <2>2. PICK n \in Nodes : Work(n)
      <3>1. ASSUME NEW y \in DataFlowRuns, RunEnds(y)
            PROVE  FALSE
        BY <2>1, <3>1 DEF RunEnds, IInv, TypeOK
      <3>2. run' # run
        BY <2>1
      <3>3. QED
        BY <2>1, <3>1, <3>2
           DEF Next, Main, Over, vars, remote, Renew, CancelActive, Block, Launch,
               FailToAcquire, EndScan, Wait, Collect, Interrupt, Fail, Shutdown, Release, Take
    <2>3. x = This(n) /\ thread[n] \in Busy
      <3>1. thread[n] \in Busy /\ run' = [run EXCEPT ![This(n)] = "active"]
        BY <2>1, <2>2, WorkIsOwn DEF IInv, WorkMoves
      <3>2. QED
        BY <2>1, <3>1 DEF IInv, TypeOK
    <2>4. n \in Futures /\ x[1] = n
      BY <2>3 DEF Futures, Busy, This
    <2>5. QED
      BY <2>1, <2>4 DEF IInv, LoadsOK
  <1>2. QED
    BY <1>1, SchedulerInvariant, PTL DEF Spec, LoadsInProductOrder
=============================================================================
