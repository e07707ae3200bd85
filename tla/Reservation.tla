----------------------------- MODULE Reservation ----------------------------
(***************************************************************************)
(* Concurrent calls of reserve_ranges (scripts/run_pipeline.py) on one     *)
(* environment: every call reads its plan, takes the environment lease,    *)
(* burns ranges in the ledger by compare-and-swap, renews the lease and    *)
(* publishes an immutable reservation. All shared state is objects of an   *)
(* object store (OciCliStorage), reached by one OCI CLI process per        *)
(* request, which may time out after its request has left, be answered     *)
(* with a 412 for a write that landed, or be killed together with its      *)
(* caller.                                                                 *)
(*                                                                         *)
(* The lease is a wall-clock lease: whether the lease a call reads looks   *)
(* expired is left open (regime.expire), which covers slow holders and     *)
(* skewed clocks alike. Nothing but the ledger's compare-and-swap may then *)
(* be relied on.                                                           *)
(***************************************************************************)
EXTENDS PersistedLedger, FiniteSets

CONSTANTS
    Calls,                \* calls of reserve_ranges
    Uris,                 \* reservation URIs
    PlanOf,               \* [Calls -> plans], the plan behind request_uri
    UriOf,                \* [Calls -> Uris], reservation_uri
    MaxCasAttempts,       \* MAX_CAS_ATTEMPTS
    Regimes,              \* what the environment may be like, see regime
    MaxReservations       \* bound on the length of the ledger's history

Plans == { PlanOf[c] : c \in Calls }

ASSUME CallsHaveValidPlans == \A c \in Calls : ValidPlan(PlanOf[c]) /\ UriOf[c] \in Uris
ASSUME MaxReservationsIsNat == MaxReservations \in Nat
ASSUME MaxCasAttemptsIsPositive == MaxCasAttempts \in Nat \ {0}
ASSUME RegimesArePossible ==
    Regimes \subseteq [calls : SUBSET Calls \ {{}}, etags : BOOLEAN, expire : BOOLEAN,
                       faults : Nat]
ASSUME AbsentIsNoObject ==
    /\ Absent \notin Calls
    /\ Absent \notin [tag : Nat, owner : Calls]
    /\ Absent \notin [tag : Nat, content : LedgerShape]
    /\ Absent \notin [plan : Plans, artifact : ArtifactShape]

VARIABLES
    regime,     \* chosen once: which calls are made (calls), do get and put
                \* responses carry an etag (etags), may a lease look expired
                \* to its reader (expire), and how many timeouts, echoed
                \* writes and crashes there may be (faults)
    lease,      \* the lease object: its etag and owner, or Absent
    ledger,     \* the ledger object: its etag and content, or Absent
    published,  \* the reservation objects, each with the plan it answers
    wire,       \* requests whose sender gave up, still able to land
    leaseTags, ledgerTags,   \* etags the store has given so far
    pc, attempt,
    leaseTag,   \* the etag a call takes for that of the lease it holds or read
    seen,       \* the ledger a call read and the etag it takes for its own
    drawn,      \* the artifact a call allocated
    outcome,    \* how the call will end once it has released the lease
    faults

store == << lease, ledger, published, leaseTags, ledgerTags >>
local == << attempt, leaseTag, seen, drawn, outcome >>
vars == << store, wire, pc, local, faults >>

\* The content of the ledger object, which reads as EmptyLedger before it exists.
LedgerContent == IF ledger = Absent THEN EmptyLedger ELSE ledger.content

Ledger == INSTANCE RangeLedger WITH ledger <- LedgerContent

\* No ledger read yet.
Nothing == [tag |-> Absent, content |-> EmptyLedger]

Terminal == {"done", "failed", "crashed", "unused"}
Protected == {"read", "ledgerhead", "write", "renew", "publish", "recheck"}

Init ==
    /\ regime \in Regimes
    /\ lease = Absent
    /\ ledger \in {Absent} \cup [tag : {0}, content : InitialLedgers]
    /\ published = [u \in Uris |-> Absent]
    /\ wire = {}
    /\ leaseTags = 0 /\ ledgerTags = 0
    /\ pc = [c \in Calls |-> IF c \in regime.calls THEN "start" ELSE "unused"]
    /\ attempt = [c \in Calls |-> 0]
    /\ leaseTag = [c \in Calls |-> Absent]
    /\ seen = [c \in Calls |-> Nothing]
    /\ drawn = [c \in Calls |-> Absent]
    /\ outcome = [c \in Calls |-> "failed"]
    /\ faults = 0

-----------------------------------------------------------------------------
(* The object store. A request names an object, the etag it must carry      *)
(* (Absent: it must not exist) and what to put there (Absent: delete it).   *)

Request(c) ==
    CASE pc[c] = "acquire"  -> [to |-> "lease", by |-> c, match |-> Absent, body |-> c]
      [] pc[c] = "takeover" -> [to |-> "lease", by |-> c, match |-> leaseTag[c], body |-> c]
      [] pc[c] = "renew"    -> [to |-> "lease", by |-> c, match |-> leaseTag[c], body |-> c]
      [] pc[c] = "release"  -> [to |-> "lease", by |-> c, match |-> leaseTag[c], body |-> Absent]
      [] pc[c] = "write"    -> [to |-> "ledger", by |-> c, match |-> seen[c].tag,
                                body |-> LedgerAfter(seen[c].content, drawn[c])]
      [] pc[c] = "publish"  -> [to |-> "reservation", by |-> c, match |-> Absent,
                                body |-> [plan |-> PlanOf[c], artifact |-> drawn[c]]]

Writing == {"acquire", "takeover", "renew", "release", "write", "publish"}

Target(r) == CASE r.to = "lease"       -> lease
               [] r.to = "ledger"      -> ledger
               [] r.to = "reservation" -> published[UriOf[r.by]]

\* Faulty variants: requests without if-match; requests without no-overwrite.
AcceptedWithoutMatch(r) == r.match = Absent => Target(r) = Absent
AcceptedOverExisting(r) ==
    r.match # Absent => Target(r) # Absent /\ Target(r).tag = r.match

Accepted(r) ==
    IF r.match = Absent
    THEN Target(r) = Absent
    ELSE Target(r) # Absent /\ Target(r).tag = r.match

Land(r) ==
    /\ Accepted(r)
    /\ \/ /\ r.to = "lease" /\ r.body = Absent
          /\ lease' = Absent
          /\ UNCHANGED << leaseTags, ledger, ledgerTags, published >>
       \/ /\ r.to = "lease" /\ r.body # Absent
          /\ leaseTags' = leaseTags + 1
          /\ lease' = [tag |-> leaseTags + 1, owner |-> r.body]
          /\ UNCHANGED << ledger, ledgerTags, published >>
       \/ /\ r.to = "ledger"
          /\ Len(r.body.history) <= MaxReservations
          /\ ledgerTags' = ledgerTags + 1
          /\ ledger' = [tag |-> ledgerTags + 1, content |-> r.body]
          /\ UNCHANGED << lease, leaseTags, published >>
       \/ /\ r.to = "reservation"
          /\ published' = [published EXCEPT ![UriOf[r.by]] = r.body]
          /\ UNCHANGED << lease, leaseTags, ledger, ledgerTags >>

-----------------------------------------------------------------------------
(* Moves of a call that several answers share.                              *)

Goto(c, label) == pc' = [pc EXCEPT ![c] = label]

\* Leave the protected region through the finally block; what the region
\* had read and allocated goes out of scope, save the artifact to return.
Finish(c, result) ==
    /\ Goto(c, "release")
    /\ outcome' = [outcome EXCEPT ![c] = result]
    /\ attempt' = [attempt EXCEPT ![c] = 0]
    /\ seen' = [seen EXCEPT ![c] = Nothing]
    /\ drawn' = [drawn EXCEPT ![c] = IF result = "done" THEN @ ELSE Absent]
    /\ UNCHANGED leaseTag

\* Return or raise to the caller.
End(c, result) ==
    /\ Goto(c, result)
    /\ attempt' = [attempt EXCEPT ![c] = 0]
    /\ leaseTag' = [leaseTag EXCEPT ![c] = Absent]
    /\ seen' = [seen EXCEPT ![c] = Nothing]
    /\ drawn' = [drawn EXCEPT ![c] = IF result = "done" THEN @ ELSE Absent]
    /\ outcome' = [outcome EXCEPT ![c] = "failed"]

\* Faulty variant: no second attempt.
NoSecondAttempt(c) == TRUE

AttemptsExhausted(c) == attempt[c] + 1 = MaxCasAttempts

\* One more turn of a compare-and-swap loop, or the end of its attempts.
Again(c, label) ==
    /\ ~AttemptsExhausted(c)
    /\ attempt' = [attempt EXCEPT ![c] = @ + 1]
    /\ Goto(c, label)
    /\ UNCHANGED << leaseTag, seen, drawn, outcome >>

\* An exception before the lease is held propagates; afterwards the finally
\* block releases the lease first; an exception of the release itself wins.
Raise(c) ==
    IF pc[c] \in Protected
    THEN Finish(c, "failed")
    ELSE End(c, "failed")

-----------------------------------------------------------------------------
(* reserve_ranges, first lines: an already published reservation of the     *)
(* same plan is returned, one of another plan is an error.                  *)
CheckExisting(c) ==
    /\ pc[c] = "start"
    /\ \/ /\ published[UriOf[c]] = Absent
          /\ Goto(c, "acquire")
          /\ UNCHANGED local
       \/ /\ published[UriOf[c]] # Absent
          /\ published[UriOf[c]].plan = PlanOf[c]
          /\ Goto(c, "done")
          /\ drawn' = [drawn EXCEPT ![c] = published[UriOf[c]].artifact]
          /\ UNCHANGED << attempt, leaseTag, seen, outcome >>
       \/ /\ published[UriOf[c]] # Absent
          /\ published[UriOf[c]].plan # PlanOf[c]
          /\ Raise(c)
    /\ UNCHANGED << store, wire, faults >>

\* The lease is held: its etag comes with the answer or from a HEAD.
HoldLease(c, label) ==
    IF regime.etags
    THEN /\ Goto(c, label)
         /\ leaseTag' = [leaseTag EXCEPT ![c] = leaseTags + 1]
         /\ attempt' = [attempt EXCEPT ![c] = 0]
         /\ UNCHANGED << seen, drawn, outcome >>
    ELSE /\ Goto(c, IF label = "read" THEN "acquiredhead" ELSE "renewedhead")
         /\ UNCHANGED local

HeadHeldLease(c) ==
    /\ pc[c] \in {"acquiredhead", "renewedhead"}
    /\ \/ /\ lease = Absent
          /\ IF pc[c] = "renewedhead" THEN Finish(c, "failed") ELSE Raise(c)
       \/ /\ lease # Absent
          /\ leaseTag' = [leaseTag EXCEPT ![c] = lease.tag]
          /\ attempt' = [attempt EXCEPT ![c] = 0]
          /\ Goto(c, IF pc[c] = "acquiredhead" THEN "read" ELSE "publish")
          /\ UNCHANGED << seen, drawn, outcome >>
    /\ UNCHANGED << store, wire, faults >>

\* Faulty variant: wait for a live lease instead of giving up.
InspectLeaseForever(c) ==
    /\ pc[c] = "inspect"
    /\ Goto(c, "acquire")
    /\ UNCHANGED << local, store, wire, faults >>

(* _acquire_lease after a 412: read the lease in the way. It is gone, or    *)
(* live (the call gives up), or looks expired and may be taken over.        *)
InspectLease(c) ==
    /\ pc[c] \in {"inspect", "leasehead"}
    /\ \/ /\ lease = Absent
          /\ Again(c, "acquire") \/ (AttemptsExhausted(c) /\ Raise(c))
       \/ /\ lease # Absent
          /\ pc[c] = "inspect" /\ ~regime.etags
          /\ Goto(c, "leasehead")
          /\ UNCHANGED local
       \/ /\ lease # Absent
          /\ pc[c] = "leasehead" \/ regime.etags
          /\ \/ Raise(c)
             \/ /\ regime.expire
                /\ leaseTag' = [leaseTag EXCEPT ![c] = lease.tag]
                /\ Goto(c, "takeover")
                /\ UNCHANGED << attempt, seen, drawn, outcome >>
    /\ UNCHANGED << store, wire, faults >>

(* _reserve_in_ledger: read (or start) the ledger and allocate from it.     *)
ReadLedger(c) ==
    /\ pc[c] = "read"
    /\ \/ /\ Artifacts(LedgerContent, PlanOf[c]) = {}
          /\ Finish(c, "failed")
       \/ \E artifact \in Artifacts(LedgerContent, PlanOf[c]) :
             /\ drawn' = [drawn EXCEPT ![c] = artifact]
             /\ seen' = [seen EXCEPT ![c] =
                           [ tag     |-> IF ledger = Absent THEN Absent ELSE ledger.tag,
                             content |-> LedgerContent ]]
             /\ Goto(c, IF ledger = Absent \/ regime.etags
                        THEN "write" ELSE "ledgerhead")
             /\ UNCHANGED << attempt, leaseTag, outcome >>
    /\ UNCHANGED << store, wire, faults >>

\* OciCliStorage.get: without an etag in the response, one from a later HEAD.
HeadLedger(c) ==
    /\ pc[c] = "ledgerhead"
    /\ seen' = [seen EXCEPT ![c].tag = ledger.tag]
    /\ Goto(c, "write")
    /\ UNCHANGED << store, wire, attempt, leaseTag, drawn, outcome, faults >>

\* Faulty variant: whatever was published there is taken for one's own.
RecheckNothing(c) ==
    /\ pc[c] = "recheck"
    /\ Finish(c, "done")
    /\ UNCHANGED << store, wire, faults >>

(* The reservation URI was populated meanwhile: fine only by the very same  *)
(* artifact.                                                                *)
Recheck(c) ==
    /\ pc[c] = "recheck"
    /\ Finish(c, IF published[UriOf[c]] = [plan |-> PlanOf[c], artifact |-> drawn[c]]
                 THEN "done" ELSE "failed")
    /\ UNCHANGED << store, wire, faults >>

-----------------------------------------------------------------------------
(* What a call does with the answer to its conditional request.             *)

OnSuccess(c) ==
    \/ pc[c] \in {"acquire", "takeover"} /\ HoldLease(c, "read")
    \/ pc[c] = "write" /\ Goto(c, "renew") /\ UNCHANGED local
    \/ pc[c] = "renew" /\ HoldLease(c, "publish")
    \/ pc[c] = "publish" /\ Finish(c, "done")
    \/ pc[c] = "release" /\ End(c, outcome[c])

OnPreconditionFailed(c) ==
    \/ pc[c] = "acquire" /\ Goto(c, "inspect") /\ UNCHANGED local
    \/ pc[c] = "takeover" /\ (Again(c, "acquire") \/ (AttemptsExhausted(c) /\ Raise(c)))
    \/ pc[c] = "write" /\ (Again(c, "read") \/ (AttemptsExhausted(c) /\ Raise(c)))
    \/ pc[c] = "renew" /\ Raise(c)
    \/ pc[c] = "publish" /\ Goto(c, "recheck") /\ UNCHANGED local
    \/ pc[c] = "release" /\ End(c, outcome[c])

Succeed(c) ==
    /\ pc[c] \in Writing
    /\ Land(Request(c))
    /\ OnSuccess(c)
    /\ UNCHANGED << wire, faults >>

Refuse(c) ==
    /\ pc[c] \in Writing
    /\ ~Accepted(Request(c))
    /\ OnPreconditionFailed(c)
    /\ UNCHANGED << store, wire, faults >>

Step(c) ==
    \/ CheckExisting(c) \/ InspectLease(c) \/ HeadHeldLease(c)
    \/ ReadLedger(c) \/ HeadLedger(c) \/ Recheck(c)
    \/ Succeed(c) \/ Refuse(c)

-----------------------------------------------------------------------------
(* Faults.                                                                  *)

Fault == faults < regime.faults /\ faults' = faults + 1

(* The client library repeats a request that landed: the caller sees a 412. *)
Echo(c) ==
    /\ Fault
    /\ pc[c] \in Writing
    /\ Land(Request(c))
    /\ OnPreconditionFailed(c)
    /\ UNCHANGED wire

(* run_json gives up on the process: the caller raises, the request may     *)
(* still land.                                                              *)
TimeOut(c) ==
    /\ Fault
    /\ pc[c] \in Writing
    /\ wire' = wire \cup {Request(c)}
    /\ Raise(c)
    /\ UNCHANGED store

(* A read fails or times out.                                               *)
FailRead(c) ==
    /\ Fault
    /\ pc[c] \in {"start", "inspect", "leasehead", "acquiredhead", "renewedhead",
                  "read", "ledgerhead", "recheck"}
    /\ IF pc[c] = "renewedhead" THEN Finish(c, "failed") ELSE Raise(c)
    /\ UNCHANGED << store, wire >>

(* The runner is killed, its request in flight or not yet sent.             *)
Crash(c) ==
    /\ Fault
    /\ pc[c] \notin Terminal
    /\ \/ wire' = wire
       \/ pc[c] \in Writing /\ wire' = wire \cup {Request(c)}
    /\ End(c, "crashed")
    /\ UNCHANGED store

LandLate(r) ==
    /\ Land(r)
    /\ wire' = wire \ {r}
    /\ UNCHANGED << pc, local, faults >>

Done == (\A c \in Calls : pc[c] \in Terminal) /\ UNCHANGED vars

Next ==
    /\ \/ \E c \in Calls : Step(c) \/ Echo(c) \/ TimeOut(c) \/ FailRead(c) \/ Crash(c)
       \/ \E r \in wire : LandLate(r)
       \/ Done
    /\ UNCHANGED regime

Spec == Init /\ [][Next]_<<vars, regime>>

(* Every request of a live runner is answered, or times out: the subprocess *)
(* ends, and the loops of reserve_ranges go on at once.                     *)
FairSpec == Spec /\ \A c \in Calls : WF_vars(Step(c))
-----------------------------------------------------------------------------
(* Two published reservations never share a primary key, a control number   *)
(* or a code, whichever runners crashed, timed out or lost their lease.     *)
PublishedNeverClash ==
    \A u, v \in Uris :
        (u # v /\ published[u] # Absent /\ published[v] # Absent)
            => ~Clash(published[u].artifact, published[v].artifact)

(* "Burn ledger ranges ... then publish": what is published is in the       *)
(* ledger's history, so no later plan can be given it.                      *)
BurnedBeforePublished ==
    \A u \in Uris : published[u] # Absent =>
        \E i \in DOMAIN LedgerContent.history :
            LedgerContent.history[i] = published[u].artifact

(* A call that returns names the object that is published for its plan, and *)
(* goes on being published, also when two calls race for one URI.           *)
DoneMeansPublished ==
    \A c \in Calls : pc[c] = "done" =>
        published[UriOf[c]] = [plan |-> PlanOf[c], artifact |-> drawn[c]]

(* Releasing a lease, at once or late, never deletes the lease of a call    *)
(* that is still at work: one that was taken over leaves its successor's.   *)
NoForeignRelease ==
    [][ (lease # Absent /\ lease' = Absent) => pc[lease.owner] \notin Protected ]_vars

(* The compare-and-swap ledger object implements the sequential ledger.     *)
ImplementsLedger == Ledger!Spec

(* As long as no lease expires under its holder, reservations on one        *)
(* environment are serialized by it.                                        *)
SerializedByLease ==
    ~regime.expire => Cardinality({ c \in Calls : pc[c] \in Protected }) <= 1

(* Every call returns or raises: no compare-and-swap loop runs forever.     *)
EveryCallEnds == <>(\A c \in Calls : pc[c] \in Terminal)

(* The last compare-and-swap of the ledger that a call may try is refused,  *)
(* and as many ranges as it had attempts were burned by others before.      *)
OutOfAttempts(c) ==
    /\ pc[c] = "write" /\ ~Accepted(Request(c)) /\ attempt[c] = MaxCasAttempts - 1
    /\ ledgerTags >= MaxCasAttempts

(* "ledger CAS retries exhausted": contention can fail every call, but only *)
(* so. However leases are taken from one another, as long as no fault       *)
(* happens some call gets its reservation, or some call loses its last      *)
(* attempt at the ledger after MaxCasAttempts burns by others, which takes  *)
(* more calls than that.                                                    *)
SomeCallSucceeds ==
    [](faults = 0) => <>(\E c \in Calls : pc[c] = "done" \/ OutOfAttempts(c))
=============================================================================
