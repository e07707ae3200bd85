---------------------------- MODULE ParallelExtract ---------------------------
(***************************************************************************)
(* scripts/parallel_extract.py: the tables to extract, with the parents of  *)
(* their foreign keys if asked for, are packed by size into buckets, and    *)
(* run_buckets extracts every bucket by a Data Flow run, a few at a time,   *)
(* and again when a run fails. A call of the OCI CLI that raises ends the   *)
(* driver; the run it asked for may exist.                                  *)
(*                                                                         *)
(* Tables are numbers in the order of their names. Weights are doubled, so  *)
(* that a median is a whole number.                                         *)
(***************************************************************************)
EXTENDS Integers, Sequences, FiniteSets

CONSTANTS
    NumTables,
    Requests,      \* the seeds, and the foreign keys as pairs child, parent
    SizeTiers,     \* what the catalog may answer: sequences of sizes by table
    NumBuckets, MaxConcurrentRuns, MaxRetries,
    MaxFaults      \* bound: calls that raise

Tables == 1 .. NumTables

\* Assumed of the constants.
ArgumentsAreNumbers ==
    /\ NumTables \in Nat
    /\ \A request \in Requests :
          request.seeds \subseteq Tables /\ request.edges \subseteq Tables \X Tables
    /\ \A tiers \in SizeTiers : tiers \in Seq([Tables -> Nat])
    /\ NumBuckets \in Nat \ {0} /\ MaxConcurrentRuns \in Nat \ {0}
    /\ MaxRetries \in Nat

VARIABLES
    keys, weights, buckets,   \* the plan
    pc,
    pending,    \* buckets to submit
    inFlight,   \* buckets whose runs are polled, in the order of submission
    round,      \* those left to poll in this round
    retries,
    results,    \* per bucket
    runs,       \* Data Flow: per bucket and attempt, the state of its run
    exit,
    faults

plan == <<keys, weights, buckets>>
vars == <<plan, pc, pending, inFlight, round, retries, results, runs, exit, faults>>

Buckets == 1 .. NumBuckets
Unfinished == {"running", "stopping"}

-----------------------------------------------------------------------------
(* The plan.                                                                *)

\* fk_parents: one level only.
WithParents(request) ==
    request.seeds \cup {e[2] : e \in {f \in request.edges : f[1] \in request.seeds}}

\* merge_size_tiers: the first tier with a size above zero; the median of
\* those there are for the rest.
Resolved(tiers, t) == {i \in DOMAIN tiers : tiers[i][t] > 0}

FirstSize(tiers, t) ==
    tiers[CHOOSE i \in Resolved(tiers, t) : \A j \in Resolved(tiers, t) : i <= j][t]

\* The table at the place with n others below it.
Lighter(size, t) == {u \in DOMAIN size : size[u] < size[t] \/ (size[u] = size[t] /\ u < t)}
Ranked(size, n) == CHOOSE t \in DOMAIN size : Cardinality(Lighter(size, t)) = n

Median(size) ==
    LET n == Cardinality(DOMAIN size)
    IN  IF n = 0 THEN 2 ELSE size[Ranked(size, (n - 1) \div 2)] + size[Ranked(size, n \div 2)]

MergeSizeTiers(of, tiers) ==
    LET known == {t \in of : Resolved(tiers, t) # {}}
        size == [t \in known |-> FirstSize(tiers, t)]
    IN  [t \in of |-> IF t \in known THEN 2 * size[t] ELSE Median(size)]

\* bin_pack: the heaviest table left goes to the lightest bucket.
Heaviest(left, weight) ==
    CHOOSE t \in left :
        \A u \in left : weight[u] < weight[t] \/ (weight[u] = weight[t] /\ t <= u)

Lightest(totals) ==
    CHOOSE b \in Buckets :
        \A c \in Buckets : totals[b] < totals[c] \/ (totals[b] = totals[c] /\ b <= c)

NonePacked == [buckets |-> [b \in Buckets |-> {}], totals |-> [b \in Buckets |-> 0]]

OneMorePacked(so_far, weight) ==
    LET t == Heaviest(DOMAIN weight \ UNION {so_far.buckets[b] : b \in Buckets}, weight)
        i == Lightest(so_far.totals)
    IN  [buckets |-> [so_far.buckets EXCEPT ![i] = @ \cup {t}],
         totals |-> [so_far.totals EXCEPT ![i] = @ + weight[t]]]

BinPack(weight) ==
    LET packed[n \in 0 .. Cardinality(DOMAIN weight)] ==
            IF n = 0 THEN NonePacked ELSE OneMorePacked(packed[n - 1], weight)
    IN  packed[Cardinality(DOMAIN weight)].buckets

\* run_buckets skips the empty ones.
Filled(packed) ==
    LET listed[b \in 0 .. NumBuckets] ==
            IF b = 0 THEN << >>
            ELSE IF packed[b] = {} THEN listed[b - 1] ELSE Append(listed[b - 1], b)
    IN  listed[NumBuckets]

Init ==
    /\ \E request \in Requests, parents \in BOOLEAN :
          keys = IF parents THEN WithParents(request) ELSE request.seeds
    /\ \/ \E tiers \in SizeTiers : weights = MergeSizeTiers(keys, tiers)
       \/ weights = [t \in keys |-> 2]    \* --allow-equal-weight-fallback
    /\ buckets = BinPack(weights)
    /\ pc = "submit"
    /\ pending = Filled(buckets)
    /\ inFlight = << >> /\ round = << >>
    /\ retries = [b \in Buckets |-> 0]
    /\ results = [b \in Buckets |-> "none"]
    /\ runs = [a \in Buckets \X (0 .. MaxRetries) |-> "absent"]
    /\ exit = "none"
    /\ faults = 0

-----------------------------------------------------------------------------
(* run_buckets.                                                             *)

Raises == faults < MaxFaults /\ faults' = faults + 1 /\ pc' = "exited" /\ exit' = "raised"

Create(b) == runs' = [runs EXCEPT ![<<b, retries[b]>>] = "running"]

MaySubmit == pending # << >> /\ Len(inFlight) < MaxConcurrentRuns

Submit ==
    /\ pc = "submit" /\ MaySubmit
    /\ \/ /\ Create(Head(pending))
          /\ inFlight' = Append(inFlight, Head(pending))
          /\ pending' = Tail(pending)
          /\ UNCHANGED <<pc, exit, faults>>
       \/ /\ Raises
          /\ Create(Head(pending)) \/ UNCHANGED runs
          /\ UNCHANGED <<pending, inFlight>>
    /\ UNCHANGED <<plan, round, retries, results>>

BeginRound ==
    /\ pc = "submit" /\ ~MaySubmit
    /\ pc' = "poll"
    /\ round' = inFlight
    /\ UNCHANGED <<plan, pending, inFlight, retries, results, runs, exit, faults>>

Bucket == Head(round)
State == runs[<<Bucket, retries[Bucket]>>]
Drop ==
    \E i \in DOMAIN inFlight :
        /\ inFlight[i] = Bucket
        /\ inFlight' = [j \in 1 .. Len(inFlight) - 1 |-> inFlight[IF j < i THEN j ELSE j + 1]]

\* Faulty variant: a run that is being stopped has failed.
PollStoppingFails ==
    /\ pc = "poll" /\ round # << >>
    /\ round' = Tail(round)
    /\ \/ State = "running" /\ UNCHANGED <<inFlight, pending, retries, results>>
       \/ /\ State = "succeeded" /\ Drop
          /\ results' = [results EXCEPT ![Bucket] = "SUCCEEDED"]
          /\ UNCHANGED <<pending, retries>>
       \/ /\ State \in {"failed", "stopping"} /\ Drop
          /\ IF retries[Bucket] < MaxRetries
             THEN /\ retries' = [retries EXCEPT ![Bucket] = @ + 1]
                  /\ pending' = Append(pending, Bucket)
                  /\ UNCHANGED results
             ELSE /\ results' = [results EXCEPT ![Bucket] = "FAILED"]
                  /\ UNCHANGED <<pending, retries>>
    /\ UNCHANGED <<pc, exit, faults, plan, runs>>

\* Faulty variant: a bucket without retries left is dropped.
PollForgets ==
    /\ pc = "poll" /\ round # << >>
    /\ round' = Tail(round)
    /\ \/ State \in Unfinished /\ UNCHANGED <<inFlight, pending, retries, results>>
       \/ /\ State = "succeeded" /\ Drop
          /\ results' = [results EXCEPT ![Bucket] = "SUCCEEDED"]
          /\ UNCHANGED <<pending, retries>>
       \/ /\ State = "failed" /\ Drop
          /\ retries' = [retries EXCEPT ![Bucket] = IF @ < MaxRetries THEN @ + 1 ELSE @]
          /\ pending' = IF retries[Bucket] < MaxRetries THEN Append(pending, Bucket) ELSE pending
          /\ UNCHANGED results
    /\ UNCHANGED <<pc, exit, faults, plan, runs>>

\* The next run of the round: a failed one is to be submitted again while
\* its bucket has retries left.
Poll ==
    /\ pc = "poll" /\ round # << >>
    /\ \/ /\ round' = Tail(round)
          /\ \/ State \in Unfinished /\ UNCHANGED <<inFlight, pending, retries, results>>
             \/ /\ State = "succeeded" /\ Drop
                /\ results' = [results EXCEPT ![Bucket] = "SUCCEEDED"]
                /\ UNCHANGED <<pending, retries>>
             \/ /\ State = "failed" /\ retries[Bucket] < MaxRetries /\ Drop
                /\ retries' = [retries EXCEPT ![Bucket] = @ + 1]
                /\ pending' = Append(pending, Bucket)
                /\ UNCHANGED results
             \/ /\ State = "failed" /\ retries[Bucket] = MaxRetries /\ Drop
                /\ results' = [results EXCEPT ![Bucket] = "FAILED"]
                /\ UNCHANGED <<pending, retries>>
          /\ UNCHANGED <<pc, exit, faults>>
       \/ Raises /\ UNCHANGED <<round, inFlight, pending, retries, results>>
    /\ UNCHANGED <<plan, runs>>

EndRound ==
    /\ pc = "poll" /\ round = << >>
    /\ IF pending # << >> \/ inFlight # << >>
       THEN pc' = "submit" /\ UNCHANGED exit
       ELSE /\ pc' = "exited"
            /\ exit' = IF \E b \in Buckets : results[b] = "FAILED" THEN "failed" ELSE "ok"
    /\ UNCHANGED <<plan, pending, inFlight, round, retries, results, runs, faults>>

-----------------------------------------------------------------------------
\* A Data Flow run goes on by itself, or is stopped.
RunGoesOn ==
    /\ \E a \in DOMAIN runs :
          /\ runs[a] \in Unfinished
          /\ \E s \in {"succeeded", "failed", "stopping"} \ {runs[a]} :
                /\ runs[a] = "stopping" => s = "failed"
                /\ runs' = [runs EXCEPT ![a] = s]
    /\ UNCHANGED <<plan, pc, pending, inFlight, round, retries, results, exit, faults>>

Over ==
    /\ pc = "exited" /\ \A a \in DOMAIN runs : runs[a] \notin Unfinished
    /\ UNCHANGED vars

Next == Submit \/ BeginRound \/ Poll \/ EndRound \/ RunGoesOn \/ Over

Spec == Init /\ [][Next]_vars

-----------------------------------------------------------------------------
(* Properties.                                                              *)

\* What a bucket weighs.
Total(bucket) ==
    LET sum[t \in 0 .. NumTables] ==
            IF t = 0 THEN 0 ELSE sum[t - 1] + (IF t \in bucket THEN weights[t] ELSE 0)
    IN  sum[NumTables]

\* A driver that exits with success has had every table, and every parent
\* asked for, extracted by a run that succeeded.
EveryTableExtracted ==
    exit = "ok" =>
        \A t \in keys : \E a \in DOMAIN runs : t \in buckets[a[1]] /\ runs[a] = "succeeded"

\* Two runs never write one table's output at a time, also when a bucket is
\* submitted again or the driver has died, and there are no more runs than
\* allowed; greedy packing keeps the buckets within one table of each other.
OneWriterPerTable ==
    LET live == {a \in DOMAIN runs : runs[a] \in Unfinished}
    IN  /\ \A a, b \in live : a # b => buckets[a[1]] \cap buckets[b[1]] = {}
        /\ Cardinality(live) <= MaxConcurrentRuns
        /\ \A b, c \in Buckets, t \in keys :
              (\A u \in keys : weights[u] <= weights[t]) =>
                  Total(buckets[b]) - Total(buckets[c]) <= weights[t]
=============================================================================
