-------------------------- MODULE ReservationProofs -------------------------
(***************************************************************************)
(* Proofs about concurrent calls of reserve_ranges, for every number of    *)
(* calls, URIs, plans and faults:                                          *)
(*                                                                         *)
(*   - the lease serializes the calls while no lease expires under its     *)
(*     holder, and a release never deletes the lease of a call at work;    *)
(*   - published reservations are burned in the ledger and never clash, as *)
(*     long as etags come with the answers or no lease expires;            *)
(*   - with such etags the compare-and-swap ledger implements RangeLedger. *)
(*                                                                         *)
(* A regime that has neither (Guarded is false) loses updates, which run   *)
(* reservation_lost_update shows: hence the hypothesis in those theorems.  *)
(***************************************************************************)
EXTENDS Reservation, LedgerLemmas, FiniteSetTheorems

\* Etags come with the answers of the store.
Etagged == regime.etags

\* Etags that come with the answers, or leases that do not expire.
Guarded == regime.etags \/ ~regime.expire

-----------------------------------------------------------------------------
(* Types of the objects, of the requests and of the calls' local state.     *)

Tags == Nat \cup {Absent}
Publications == [plan : Plans, artifact : ArtifactShape]

LeaseRequests ==
    [to : {"lease"}, by : Calls, match : Tags, body : Calls \cup {Absent}]
LedgerRequests ==
    [to : {"ledger"}, by : Calls, match : Tags, body : LedgerShape]
ReservationRequests ==
    [to : {"reservation"}, by : Calls, match : {Absent}, body : Publications]

Requests == LeaseRequests \cup LedgerRequests \cup ReservationRequests

Labels == Terminal \cup Protected \cup
          { "start", "acquire", "inspect", "leasehead", "takeover", "acquiredhead",
            "renewedhead", "release" }

\* The ledger holds what the call has drawn, and the call may publish it.
Committing == {"renew", "renewedhead", "publish", "recheck"}

StoreOK ==
    /\ lease \in [tag : Nat, owner : Calls] \cup {Absent}
    /\ ledger \in [tag : Nat, content : LedgerShape] \cup {Absent}
    /\ published \in [Uris -> Publications \cup {Absent}]
    /\ leaseTags \in Nat /\ ledgerTags \in Nat

CallsOK ==
    /\ pc \in [Calls -> Labels]
    /\ leaseTag \in [Calls -> Tags]
    /\ seen \in [Calls -> [tag : Tags, content : LedgerShape]]
    /\ drawn \in [Calls -> ArtifactShape \cup {Absent}]
    /\ outcome \in [Calls -> {"done", "failed"}]

\* The marks of every ledger there is or may come to be cover its history.
ContentOK == ledger # Absent => MarksCover(ledger.content)

DrawnOK ==
    \A c \in Calls :
        /\ pc[c] \in {"ledgerhead", "write"} =>
              /\ MarksCover(seen[c].content)
              /\ drawn[c] \in Artifacts(seen[c].content, PlanOf[c])
        /\ pc[c] \in Committing => drawn[c] \in ArtifactShape

HeadsOK ==
    \A c \in Calls :
        /\ pc[c] = "ledgerhead" => ledger # Absent
        /\ pc[c] \in {"acquiredhead", "renewedhead", "ledgerhead"} => ~regime.etags
        /\ pc[c] = "takeover" => regime.expire

WireOK ==
    /\ wire \subseteq Requests
    /\ \A r \in wire : r.to = "ledger" => MarksCover(r.body)

TypeOK ==
    /\ regime \in Regimes
    /\ StoreOK /\ ContentOK /\ WireOK /\ CallsOK /\ DrawnOK /\ HeadsOK

-----------------------------------------------------------------------------
(* The ledger a call reads is covered, and so is the one it writes.         *)

\* The store's ledger, or the initial one where there is none, is covered.
LEMMA ContentCovered ==
    ASSUME TypeOK
    PROVE  LedgerContent \in LedgerShape /\ MarksCover(LedgerContent)
  <1>1. EmptyLedger \in InitialLedgers
    BY DEF InitialLedgers
  <1>2. QED
    BY <1>1, InitialLedgersAreCovered DEF TypeOK, StoreOK, ContentOK, LedgerContent

\* A call that has read nothing yet has a reading of the right type.
LEMMA NothingTyping == Nothing \in [tag : Tags, content : LedgerShape]
  BY InitialLedgersAreCovered DEF InitialLedgers, Nothing, Tags

(* The request a call makes, label by label.                                *)
LEMMA RequestIs ==
    ASSUME NEW c \in Calls
    PROVE  /\ pc[c] = "acquire" =>
                Request(c) = [to |-> "lease", by |-> c, match |-> Absent, body |-> c]
           /\ pc[c] \in {"takeover", "renew"} =>
                Request(c) = [to |-> "lease", by |-> c, match |-> leaseTag[c], body |-> c]
           /\ pc[c] = "release" =>
                Request(c) = [to |-> "lease", by |-> c, match |-> leaseTag[c],
                              body |-> Absent]
           /\ pc[c] = "write" =>
                Request(c) = [to |-> "ledger", by |-> c, match |-> seen[c].tag,
                              body |-> LedgerAfter(seen[c].content, drawn[c])]
           /\ pc[c] = "publish" =>
                Request(c) = [to |-> "reservation", by |-> c, match |-> Absent,
                              body |-> [plan |-> PlanOf[c], artifact |-> drawn[c]]]
  BY DEF Request

\* A call that writes sends a request in its own name, of a ledger that is covered.
LEMMA RequestTyping ==
    ASSUME TypeOK, NEW c \in Calls, pc[c] \in Writing
    PROVE  /\ Request(c) \in Requests
           /\ Request(c).to = "ledger" => MarksCover(Request(c).body)
           /\ Request(c).by = c
  <1>1. CASE pc[c] \in {"acquire", "takeover", "renew", "release"}
    BY <1>1, RequestIs DEF TypeOK, CallsOK, Requests, LeaseRequests, Tags
  <1>2. CASE pc[c] = "write"
    <2>1. /\ LedgerAfter(seen[c].content, drawn[c]) \in LedgerShape
          /\ MarksCover(LedgerAfter(seen[c].content, drawn[c]))
      BY <1>2, AllocationCovers, CallsHaveValidPlans DEF TypeOK, CallsOK, DrawnOK
    <2>2. QED
      BY <1>2, <2>1, RequestIs DEF TypeOK, CallsOK, Requests, LedgerRequests
  <1>3. CASE pc[c] = "publish"
    BY <1>3, RequestIs DEF TypeOK, DrawnOK, Requests, ReservationRequests,
                           Publications, Plans, Committing
  <1>4. QED
    BY <1>1, <1>2, <1>3 DEF Writing

\* A request that lands leaves the store well typed, and no ledger vanishes.
LEMMA LandTyping ==
    ASSUME TypeOK, NEW r \in Requests, r.to = "ledger" => MarksCover(r.body), Land(r)
    PROVE  StoreOK' /\ ContentOK' /\ (ledger # Absent => ledger' # Absent)
  BY CallsHaveValidPlans, AbsentIsNoObject
     DEF Land, StoreOK, TypeOK, ContentOK, Requests, LeaseRequests, LedgerRequests,
         ReservationRequests

-----------------------------------------------------------------------------
(* What an action of a call may do to its own state and to that of others.  *)

Acts(c) == Step(c) \/ Echo(c) \/ TimeOut(c) \/ FailRead(c) \/ Crash(c)

Holding == Protected \cup {"acquiredhead", "renewedhead"}

Stays(d) ==
    /\ pc'[d] = pc[d] /\ leaseTag'[d] = leaseTag[d] /\ seen'[d] = seen[d]
    /\ drawn'[d] = drawn[d] /\ outcome'[d] = outcome[d]

LabelMove(c) ==
    /\ pc[c] \notin Terminal
    /\ pc'[c] = "ledgerhead" => ReadLedger(c) /\ ledger # Absent /\ ~regime.etags
    /\ pc'[c] = "write" => ReadLedger(c) \/ HeadLedger(c)
    /\ pc'[c] \in Holding =>
          pc[c] \in Holding \/ (pc[c] \in {"acquire", "takeover"} /\ Succeed(c))
    /\ pc'[c] \in {"acquiredhead", "renewedhead"} => ~regime.etags
    /\ pc'[c] = "takeover" => regime.expire
    /\ pc'[c] = "release" => pc[c] \in Holding
    /\ pc[c] = "release" => pc'[c] \in Terminal

TagMove(c) ==
    \/ leaseTag'[c] \in {leaseTag[c], Absent}
    \/ /\ leaseTag'[c] = leaseTags + 1
       /\ Succeed(c) /\ pc[c] \in {"acquire", "takeover", "renew"}
    \/ /\ lease # Absent /\ leaseTag'[c] = lease.tag
       /\ pc[c] \in {"acquiredhead", "renewedhead"} \/ pc'[c] = "takeover"

DrawnMove(c) ==
    pc'[c] \in Committing =>
        /\ drawn'[c] = drawn[c]
        /\ pc[c] \in Committing \/ (pc[c] = "write" /\ Succeed(c))

OutcomeMove(c) ==
    (pc'[c] = "done" \/ (pc'[c] = "release" /\ outcome'[c] = "done")) =>
        \/ pc[c] = "release" /\ outcome[c] = "done" /\ drawn'[c] = drawn[c]
        \/ /\ published[UriOf[c]] # Absent
           /\ published[UriOf[c]] = [plan |-> PlanOf[c], artifact |-> drawn'[c]]
        \/ pc[c] = "publish" /\ Succeed(c) /\ drawn'[c] = drawn[c]

Moves(c) ==
    /\ LabelMove(c) /\ TagMove(c) /\ DrawnMove(c) /\ OutcomeMove(c)
    /\ \A d \in Calls : d # c => Stays(d)

(* The moves that several answers share touch no other call.                *)
LEMMA SharedMoves ==
    ASSUME TypeOK, NEW c \in Calls, NEW d \in Calls
    PROVE  /\ \A res : Finish(c, res) =>
                 /\ d # c => Stays(d)
                 /\ pc'[c] = "release" /\ leaseTag'[c] = leaseTag[c]
                 /\ outcome'[c] = res
                 /\ res = "done" => drawn'[c] = drawn[c]
           /\ \A res : End(c, res) =>
                 /\ d # c => Stays(d)
                 /\ pc'[c] = res /\ leaseTag'[c] = Absent
                 /\ res = "done" => drawn'[c] = drawn[c]
           /\ Raise(c) =>
                 /\ d # c => Stays(d)
                 /\ \/ pc'[c] = "failed" /\ leaseTag'[c] = Absent
                    \/ /\ pc[c] \in Protected
                       /\ pc'[c] = "release" /\ leaseTag'[c] = leaseTag[c]
                       /\ outcome'[c] = "failed"
           /\ \A label : Again(c, label) =>
                 /\ d # c => Stays(d)
                 /\ pc'[c] = label /\ leaseTag'[c] = leaseTag[c]
           /\ \A label : Goto(c, label) /\ UNCHANGED local =>
                 /\ d # c => Stays(d)
                 /\ pc'[c] = label
                 /\ UNCHANGED << leaseTag, seen, drawn, outcome >>
           /\ \A label : HoldLease(c, label) =>
                 /\ d # c => Stays(d)
                 /\ UNCHANGED << seen, drawn, outcome >>
                 /\ \/ /\ regime.etags
                       /\ pc'[c] = label /\ leaseTag'[c] = leaseTags + 1
                    \/ /\ ~regime.etags /\ leaseTag' = leaseTag
                       /\ pc'[c] = IF label = "read" THEN "acquiredhead" ELSE "renewedhead"
  BY DEF Finish, End, Raise, Again, Goto, HoldLease, Stays, local, TypeOK, CallsOK

\* A call's own step changes its own place and what it has read, no other's.
LEMMA CallMoves ==
    ASSUME TypeOK, NEW c \in Calls, Acts(c)
    PROVE  Moves(c)
  <1> USE DEF Moves, LabelMove, TagMove, DrawnMove, OutcomeMove,
              Holding, Protected, Committing, Terminal
  <1>1. CASE CheckExisting(c)
    <2>1. CASE Goto(c, "acquire") /\ UNCHANGED local
      BY <1>1, <2>1, SharedMoves DEF CheckExisting
    <2>2. CASE Raise(c)
      BY <1>1, <2>2, SharedMoves DEF CheckExisting
    <2>3. CASE /\ published[UriOf[c]] # Absent
               /\ published[UriOf[c]].plan = PlanOf[c]
               /\ Goto(c, "done")
               /\ drawn' = [drawn EXCEPT ![c] = published[UriOf[c]].artifact]
               /\ UNCHANGED << attempt, leaseTag, seen, outcome >>
      <3>1. published[UriOf[c]] \in Publications
        BY <2>3, CallsHaveValidPlans DEF TypeOK, StoreOK
      <3>2. published[UriOf[c]] = [plan |-> PlanOf[c], artifact |-> drawn'[c]]
        BY <2>3, <3>1 DEF TypeOK, CallsOK, Publications
      <3>3. QED
        BY <1>1, <2>3, <3>2 DEF CheckExisting, Goto, TypeOK, CallsOK, Stays
    <2>4. QED
      BY <1>1, <2>1, <2>2, <2>3 DEF CheckExisting
  <1>2. CASE InspectLease(c)
    <2>1. CASE Again(c, "acquire") \/ Raise(c)
      BY <1>2, <2>1, SharedMoves DEF InspectLease
    <2>2. CASE Goto(c, "leasehead") /\ UNCHANGED local
      BY <1>2, <2>2, SharedMoves DEF InspectLease
    <2>3. CASE /\ lease # Absent /\ regime.expire
               /\ leaseTag' = [leaseTag EXCEPT ![c] = lease.tag]
               /\ Goto(c, "takeover")
               /\ UNCHANGED << attempt, seen, drawn, outcome >>
      BY <1>2, <2>3 DEF InspectLease, Goto, TypeOK, CallsOK, Stays
    <2>4. QED
      BY <1>2, <2>1, <2>2, <2>3 DEF InspectLease
  <1>3. CASE HeadHeldLease(c)
    <2>1. CASE Finish(c, "failed") \/ Raise(c)
      BY <1>3, <2>1, SharedMoves DEF HeadHeldLease
    <2>2. CASE /\ lease # Absent
               /\ leaseTag' = [leaseTag EXCEPT ![c] = lease.tag]
               /\ Goto(c, IF pc[c] = "acquiredhead" THEN "read" ELSE "publish")
               /\ UNCHANGED << seen, drawn, outcome >>
      BY <1>3, <2>2 DEF HeadHeldLease, Goto, TypeOK, CallsOK, Stays
    <2>3. QED
      BY <1>3, <2>1, <2>2 DEF HeadHeldLease
  <1>4. CASE ReadLedger(c)
    BY <1>4, SharedMoves DEF ReadLedger, Goto, TypeOK, CallsOK, Stays
  <1>5. CASE HeadLedger(c)
    BY <1>5, SharedMoves DEF HeadLedger, Goto, TypeOK, CallsOK, Stays
  <1>6. CASE Recheck(c)
    <2>1. [plan |-> PlanOf[c], artifact |-> drawn[c]] # Absent
      BY <1>6, AbsentIsNoObject DEF Recheck, TypeOK, DrawnOK, Plans
    <2>2. QED
      BY <1>6, <2>1, SharedMoves DEF Recheck
  <1>7. CASE Succeed(c)
    <2>1. CASE pc[c] \in {"acquire", "takeover"} /\ HoldLease(c, "read")
      BY <1>7, <2>1, SharedMoves
    <2>2. CASE pc[c] = "write" /\ Goto(c, "renew") /\ UNCHANGED local
      BY <1>7, <2>2, SharedMoves
    <2>3. CASE pc[c] = "renew" /\ HoldLease(c, "publish")
      BY <1>7, <2>3, SharedMoves
    <2>4. CASE pc[c] = "publish" /\ Finish(c, "done")
      BY <1>7, <2>4, SharedMoves
    <2>5. CASE pc[c] = "release" /\ End(c, outcome[c])
      BY <1>7, <2>5, SharedMoves DEF TypeOK, CallsOK
    <2>6. QED
      BY <1>7, <2>1, <2>2, <2>3, <2>4, <2>5 DEF Succeed, OnSuccess
  <1>8. CASE Refuse(c) \/ Echo(c)
    <2>1. CASE Raise(c)
      BY <1>8, <2>1, SharedMoves DEF Refuse, Echo, Writing, OnPreconditionFailed
    <2>2. CASE (pc[c] = "takeover" /\ Again(c, "acquire")) \/ (pc[c] = "write" /\ Again(c, "read"))
      BY <1>8, <2>2, SharedMoves
    <2>3. CASE \/ pc[c] = "acquire" /\ Goto(c, "inspect") /\ UNCHANGED local
               \/ pc[c] = "publish" /\ Goto(c, "recheck") /\ UNCHANGED local
      BY <1>8, <2>3, SharedMoves
    <2>4. CASE pc[c] = "release" /\ End(c, outcome[c])
      BY <1>8, <2>4, SharedMoves DEF TypeOK, CallsOK
    <2>5. QED
      BY <1>8, <2>1, <2>2, <2>3, <2>4 DEF Refuse, Echo, OnPreconditionFailed
  <1>9. CASE TimeOut(c) \/ FailRead(c)
    BY <1>9, SharedMoves DEF TimeOut, FailRead, Writing
  <1>10. CASE Crash(c)
    BY <1>10, SharedMoves DEF Crash
  <1>11. QED
    BY <1>1, <1>2, <1>3, <1>4, <1>5, <1>6, <1>7, <1>8, <1>9, <1>10 DEF Acts, Step

(* What an action of a call does to the store and to the wire: a request    *)
(* stays on the wire only when its sender is on its way out.                *)
LEMMA StoreMoves ==
    ASSUME TypeOK, NEW c \in Calls, Acts(c)
    PROVE  /\ \/ UNCHANGED store
              \/ pc[c] \in Writing /\ Land(Request(c)) /\ wire' = wire
           /\ \/ wire' = wire
              \/ /\ pc[c] \in Writing /\ wire' = wire \cup {Request(c)}
                 /\ pc'[c] \in Terminal \cup {"release"}
  <1>1. CASE Succeed(c) \/ Echo(c)
    BY <1>1 DEF Succeed, Echo
  <1>2. CASE TimeOut(c)
    BY <1>2, SharedMoves DEF TimeOut, Terminal
  <1>3. CASE Crash(c)
    BY <1>3, SharedMoves DEF Crash, Terminal
  <1>4. CASE CheckExisting(c) \/ InspectLease(c) \/ HeadHeldLease(c)
    BY <1>4 DEF CheckExisting, InspectLease, HeadHeldLease
  <1>5. CASE ReadLedger(c) \/ HeadLedger(c) \/ Recheck(c) \/ Refuse(c) \/ FailRead(c)
    BY <1>5 DEF ReadLedger, HeadLedger, Recheck, Refuse, FailRead
  <1>6. QED
    BY <1>1, <1>2, <1>3, <1>4, <1>5 DEF Acts, Step

-----------------------------------------------------------------------------
(* Type correctness. The moves first, then the actions.                     *)

\* A call that finishes keeps the types.
LEMMA FinishTyping ==
    ASSUME TypeOK, NEW c \in Calls, NEW result \in {"done", "failed"}, Finish(c, result)
    PROVE  CallsOK' /\ DrawnOK'
  BY NothingTyping DEF Finish, Goto, TypeOK, CallsOK, DrawnOK, Labels, Committing

\* A call that ends without giving the lease back keeps the types.
LEMMA EndTyping ==
    ASSUME TypeOK, NEW c \in Calls,
           NEW result \in {"done", "failed", "crashed"}, End(c, result)
    PROVE  CallsOK' /\ DrawnOK'
  BY NothingTyping
     DEF End, Goto, TypeOK, CallsOK, DrawnOK, Labels, Terminal, Committing, Tags

\* A call that raises keeps the types.
LEMMA RaiseTyping ==
    ASSUME TypeOK, NEW c \in Calls, Raise(c)
    PROVE  CallsOK' /\ DrawnOK'
  BY FinishTyping, EndTyping DEF Raise

\* A call that starts over keeps the types.
LEMMA AgainTyping ==
    ASSUME TypeOK, NEW c \in Calls, NEW label \in {"acquire", "read"}, Again(c, label)
    PROVE  CallsOK' /\ DrawnOK'
  BY DEF Again, Goto, TypeOK, CallsOK, DrawnOK, Labels, Protected, Committing

\* A call that takes or renews the lease keeps the types.
LEMMA HoldTyping ==
    ASSUME TypeOK, NEW c \in Calls, NEW label \in {"read", "publish"},
           label = "publish" => pc[c] = "renew", HoldLease(c, label)
    PROVE  CallsOK' /\ DrawnOK'
  BY DEF HoldLease, Goto, TypeOK, StoreOK, CallsOK, DrawnOK, Labels, Protected,
         Committing, local, Tags

\* A call that goes on to its next request keeps the types.
LEMMA GotoTyping ==
    ASSUME TypeOK, NEW c \in Calls, NEW label \in Labels, Goto(c, label),
           UNCHANGED local, label \notin {"ledgerhead", "write"},
           label \in Committing => pc[c] \in Committing \cup {"write"}
    PROVE  CallsOK' /\ DrawnOK'
  BY AllocationCovers, CallsHaveValidPlans
     DEF Goto, TypeOK, CallsOK, DrawnOK, Labels, Protected, Committing, local

\* A call whose request succeeded keeps the types.
LEMMA OnSuccessTyping ==
    ASSUME TypeOK, NEW c \in Calls, OnSuccess(c)
    PROVE  CallsOK' /\ DrawnOK'
  <1>1. CASE pc[c] \in {"acquire", "takeover"} /\ HoldLease(c, "read")
    BY <1>1, HoldTyping
  <1>2. CASE pc[c] = "write" /\ Goto(c, "renew") /\ UNCHANGED local
    BY <1>2, GotoTyping DEF Labels, Protected, Committing
  <1>3. CASE pc[c] = "renew" /\ HoldLease(c, "publish")
    BY <1>3, HoldTyping
  <1>4. CASE pc[c] = "publish" /\ Finish(c, "done")
    BY <1>4, FinishTyping
  <1>5. CASE pc[c] = "release" /\ End(c, outcome[c])
    BY <1>5, EndTyping DEF TypeOK, CallsOK
  <1>6. QED
    BY <1>1, <1>2, <1>3, <1>4, <1>5 DEF OnSuccess

\* A call whose request met another object version keeps the types.
LEMMA OnPreconditionFailedTyping ==
    ASSUME TypeOK, NEW c \in Calls, OnPreconditionFailed(c)
    PROVE  CallsOK' /\ DrawnOK'
  <1>1. CASE Raise(c)
    BY <1>1, RaiseTyping
  <1>2. CASE Again(c, "acquire") \/ Again(c, "read")
    BY <1>2, AgainTyping
  <1>3. CASE pc[c] = "acquire" /\ Goto(c, "inspect") /\ UNCHANGED local
    BY <1>3, GotoTyping DEF Labels, Committing
  <1>4. CASE pc[c] = "publish" /\ Goto(c, "recheck") /\ UNCHANGED local
    BY <1>4, GotoTyping DEF Labels, Protected, Committing
  <1>5. CASE pc[c] = "release" /\ End(c, outcome[c])
    BY <1>5, EndTyping DEF TypeOK, CallsOK
  <1>6. QED
    BY <1>1, <1>2, <1>3, <1>4, <1>5 DEF OnPreconditionFailed

\* Every step of a call keeps the types of the local state of the calls.
LEMMA CallTyping ==
    ASSUME TypeOK, NEW c \in Calls, Acts(c)
    PROVE  CallsOK' /\ DrawnOK'
  <1> USE DEF TypeOK
  <1>1. CASE CheckExisting(c)
    <2>1. CASE Goto(c, "acquire") /\ UNCHANGED local
      BY <2>1, GotoTyping DEF Labels, Committing
    <2>2. CASE /\ published[UriOf[c]] # Absent
               /\ Goto(c, "done")
               /\ drawn' = [drawn EXCEPT ![c] = published[UriOf[c]].artifact]
               /\ UNCHANGED << attempt, leaseTag, seen, outcome >>
      BY <2>2, CallsHaveValidPlans
         DEF Goto, CallsOK, DrawnOK, StoreOK, Labels, Terminal, Committing, Publications
    <2>3. CASE Raise(c)
      BY <2>3, RaiseTyping
    <2>4. QED
      BY <1>1, <2>1, <2>2, <2>3 DEF CheckExisting
  <1>2. CASE InspectLease(c)
    <2>1. CASE Again(c, "acquire") \/ Raise(c)
      BY <2>1, AgainTyping, RaiseTyping
    <2>2. CASE Goto(c, "leasehead") /\ UNCHANGED local
      BY <2>2, GotoTyping DEF Labels, Committing
    <2>3. CASE /\ lease # Absent
               /\ leaseTag' = [leaseTag EXCEPT ![c] = lease.tag]
               /\ Goto(c, "takeover")
               /\ UNCHANGED << attempt, seen, drawn, outcome >>
      BY <2>3 DEF Goto, CallsOK, DrawnOK, StoreOK, Labels, Committing, Tags
    <2>4. QED
      BY <1>2, <2>1, <2>2, <2>3 DEF InspectLease
  <1>3. CASE HeadHeldLease(c)
    <2>1. CASE Finish(c, "failed") \/ Raise(c)
      BY <2>1, FinishTyping, RaiseTyping
    <2>2. CASE /\ lease # Absent
               /\ leaseTag' = [leaseTag EXCEPT ![c] = lease.tag]
               /\ Goto(c, IF pc[c] = "acquiredhead" THEN "read" ELSE "publish")
               /\ UNCHANGED << seen, drawn, outcome >>
      BY <1>3, <2>2
         DEF HeadHeldLease, Goto, CallsOK, DrawnOK, StoreOK, Labels, Protected,
             Committing, Tags
    <2>3. QED
      BY <1>3, <2>1, <2>2 DEF HeadHeldLease
  <1>4. CASE ReadLedger(c)
    <2>1. CASE Finish(c, "failed")
      BY <2>1, FinishTyping
    <2>2. ASSUME NEW artifact \in Artifacts(LedgerContent, PlanOf[c]),
                 drawn' = [drawn EXCEPT ![c] = artifact],
                 seen' = [seen EXCEPT ![c] =
                           [ tag     |-> IF ledger = Absent THEN Absent ELSE ledger.tag,
                             content |-> LedgerContent ]],
                 Goto(c, IF ledger = Absent \/ regime.etags THEN "write" ELSE "ledgerhead"),
                 UNCHANGED << attempt, leaseTag, outcome >>
          PROVE  CallsOK' /\ DrawnOK'
      <3>1. artifact \in ArtifactShape
        BY AllocationCovers, ContentCovered, CallsHaveValidPlans
      <3>2. QED
        BY <2>2, <3>1, ContentCovered
           DEF Goto, CallsOK, DrawnOK, StoreOK, Labels, Protected, Committing, Tags
    <2>3. QED
      BY <1>4, <2>1, <2>2 DEF ReadLedger
  <1>5. CASE HeadLedger(c)
    BY <1>5 DEF HeadLedger, Goto, CallsOK, DrawnOK, HeadsOK, StoreOK, Labels, Protected,
                Committing, Tags
  <1>6. CASE Recheck(c)
    BY <1>6, FinishTyping DEF Recheck
  <1>7. CASE Succeed(c)
    BY <1>7, OnSuccessTyping DEF Succeed
  <1>8. CASE Refuse(c) \/ Echo(c)
    BY <1>8, OnPreconditionFailedTyping DEF Refuse, Echo
  <1>9. CASE TimeOut(c) \/ FailRead(c)
    BY <1>9, RaiseTyping, FinishTyping DEF TimeOut, FailRead
  <1>10. CASE Crash(c)
    BY <1>10, EndTyping DEF Crash
  <1>11. QED
    BY <1>1, <1>2, <1>3, <1>4, <1>5, <1>6, <1>7, <1>8, <1>9, <1>10 DEF Acts, Step

\* Every step, of a call or of a late request, keeps the types.
LEMMA TypeStep ==
    ASSUME TypeOK, [Next]_<<vars, regime>>
    PROVE  TypeOK'
  <1>1. CASE UNCHANGED << vars, regime >>
    BY <1>1 DEF TypeOK, StoreOK, ContentOK, WireOK, CallsOK, DrawnOK, HeadsOK, vars,
                store, local
  <1>2. ASSUME NEW c \in Calls, Acts(c), regime' = regime
        PROVE  TypeOK'
    <2>1. StoreOK' /\ ContentOK' /\ (ledger # Absent => ledger' # Absent)
      <3>1. CASE UNCHANGED store
        BY <3>1 DEF store, TypeOK, StoreOK, ContentOK
      <3>2. CASE pc[c] \in Writing /\ Land(Request(c))
        BY <3>2, RequestTyping, LandTyping
      <3>3. QED
        BY <1>2, <3>1, <3>2, StoreMoves
    <2>2. WireOK'
      BY <1>2, StoreMoves, RequestTyping DEF TypeOK, WireOK
    <2>3. CallsOK' /\ DrawnOK'
      BY <1>2, CallTyping
    <2>4. HeadsOK'
      BY <1>2, <2>1, CallMoves DEF TypeOK, HeadsOK, Moves, LabelMove, Stays
    <2>5. QED
      BY <1>2, <2>1, <2>2, <2>3, <2>4 DEF TypeOK
  <1>3. ASSUME NEW r \in wire, LandLate(r), regime' = regime
        PROVE  TypeOK'
    <2>1. StoreOK' /\ ContentOK' /\ (ledger # Absent => ledger' # Absent)
      BY <1>3, LandTyping DEF LandLate, TypeOK, WireOK
    <2>2. WireOK' /\ CallsOK' /\ DrawnOK' /\ HeadsOK'
      BY <1>3, <2>1 DEF LandLate, TypeOK, WireOK, CallsOK, DrawnOK, HeadsOK, local
    <2>3. QED
      BY <1>3, <2>1, <2>2 DEF TypeOK
  <1>4. QED
    BY <1>1, <1>2, <1>3 DEF Next, Done, Acts

\* The types hold before the first call.
LEMMA TypeInit == Init => TypeOK
  <1> SUFFICES ASSUME Init PROVE TypeOK
    OBVIOUS
  <1>1. StoreOK /\ ContentOK
    BY InitialLedgersAreCovered DEF Init, StoreOK, ContentOK
  <1>2. CallsOK
    <2>1. \A c \in Calls : pc[c] \in {"start", "unused"}
      BY DEF Init
    <2>2. pc \in [Calls -> Labels]
      BY <2>1 DEF Init, Labels, Terminal
    <2>3. QED
      BY <2>1, <2>2, NothingTyping DEF Init, CallsOK, Labels, Tags, Terminal
  <1>3. QED
    BY <1>1, <1>2 DEF Init, TypeOK, WireOK, DrawnOK, HeadsOK, Committing

(* Every object and every call's state have the shapes the code gives them, *)
(* and the marks of every ledger, stored, read or on its way, cover what    *)
(* its history hands out.                                                   *)
THEOREM TypeCorrect == Spec => []TypeOK
  <1>1. Init => TypeOK
    BY TypeInit
  <1>2. TypeOK /\ [Next]_<<vars, regime>> => TypeOK'
    BY TypeStep
  <1>3. QED
    BY <1>1, <1>2, PTL DEF Spec

-----------------------------------------------------------------------------
(* The lease. Tags only grow; the tag a call keeps for its own lease names   *)
(* a lease of its own; without expiry whoever is inside owns the lease; and  *)
(* what a caller left on the wire can only renew or delete a lease of its    *)
(* own, that caller being out or on its way out.                             *)

LeaseTags ==
    /\ \A c \in Calls : leaseTag[c] # Absent => leaseTag[c] <= leaseTags
    /\ lease # Absent => lease.tag <= leaseTags
    /\ \A r \in wire : (r.to = "lease" /\ r.match # Absent) => r.match <= leaseTags

TagsNameOwners ==
    Guarded => \A c \in Calls :
        (pc[c] \in Holding \cup {"release"} /\ lease # Absent /\ leaseTag[c] = lease.tag)
            => lease.owner = c

HoldersOwn ==
    ~regime.expire => \A c \in Calls : pc[c] \in Holding => lease # Absent /\ lease.owner = c

LateLeases ==
    \A r \in wire : r.to = "lease" =>
        /\ pc[r.by] \in Terminal \cup {"release"}
        /\ r.body \in {r.by, Absent}
        /\ (/\ Guarded
            /\ r.body = Absent \/ ~regime.expire
            /\ lease # Absent
            /\ lease.tag = r.match) => lease.owner = r.by

LeaseInv == LeaseTags /\ TagsNameOwners /\ HoldersOwn /\ LateLeases

\* A request that is under way: its caller waits for it, or gave up on it.
UnderWay(r) == r \in wire \/ (r.by \in Calls /\ pc[r.by] \in Writing /\ r = Request(r.by))

(* Without expiry no request but the holder's own is accepted for the lease. *)
LEMMA NobodyElseIsAccepted ==
    ASSUME TypeOK, LeaseInv, ~regime.expire, NEW d \in Calls, pc[d] \in Holding,
           NEW r \in LeaseRequests, UnderWay(r), Accepted(r)
    PROVE  r \notin wire /\ r.by = d /\ r.body # Absent
  <1>1. r.match # Absent /\ lease # Absent /\ lease.tag = r.match /\ lease.owner = d
    BY DEF Accepted, Target, LeaseRequests, LeaseInv, HoldersOwn
  <1>2. r \notin wire
    BY <1>1 DEF LeaseInv, LateLeases, Guarded, LeaseRequests, Holding, Protected, Terminal
  <1>3. r.by \in Calls /\ pc[r.by] \in Writing /\ r = Request(r.by)
    BY <1>2 DEF UnderWay
  <1>4. pc[r.by] \in {"renew", "release"}
    BY <1>1, <1>3, RequestIs DEF Writing, LeaseRequests, TypeOK, HeadsOK
  <1>5. leaseTag[r.by] = lease.tag
    BY <1>1, <1>3, <1>4, RequestIs
  <1>6. lease.owner = r.by
    BY <1>1, <1>3, <1>4, <1>5 DEF LeaseInv, TagsNameOwners, Guarded, Holding, Protected
  <1>7. pc[r.by] = "renew"
    BY <1>1, <1>4, <1>6 DEF Holding, Protected
  <1>8. QED
    BY <1>1, <1>2, <1>3, <1>6, <1>7, RequestIs, AbsentIsNoObject

(* What a landing leaves of the lease.                                       *)
LEMMA LeaseLanding ==
    ASSUME TypeOK, NEW r \in Requests, Land(r)
    PROVE  \/ r \notin LeaseRequests /\ UNCHANGED << lease, leaseTags >>
           \/ r \in LeaseRequests /\ r.body = Absent /\ lease' = Absent
              /\ leaseTags' = leaseTags
           \/ r \in LeaseRequests /\ r.body # Absent
              /\ leaseTags' = leaseTags + 1
              /\ lease' = [tag |-> leaseTags + 1, owner |-> r.body]
  BY DEF Land, Requests, LeaseRequests, LedgerRequests, ReservationRequests

\* A step of a call keeps what the lease says of its holder.
LEMMA LeaseByCall ==
    ASSUME TypeOK, TypeOK', LeaseInv, NEW c \in Calls, Acts(c), regime' = regime
    PROVE  LeaseInv'
  <1>1. Moves(c)
    BY CallMoves
  <1>2. \/ UNCHANGED << lease, leaseTags >>
        \/ /\ pc[c] = "release" /\ Accepted(Request(c))
           /\ lease' = Absent /\ leaseTags' = leaseTags
        \/ /\ pc[c] \in {"acquire", "takeover", "renew"} /\ Accepted(Request(c))
           /\ leaseTags' = leaseTags + 1
           /\ lease' = [tag |-> leaseTags + 1, owner |-> c]
    <2>1. CASE UNCHANGED store
      BY <2>1 DEF store
    <2>2. CASE pc[c] \in Writing /\ Land(Request(c))
      BY <2>2, RequestTyping, LeaseLanding, RequestIs, AbsentIsNoObject
         DEF Writing, Land, LeaseRequests
    <2>3. QED
      BY <2>1, <2>2, StoreMoves
  <1>3. (Succeed(c) /\ pc[c] \in {"acquire", "takeover", "renew"}) => leaseTags' = leaseTags + 1
    BY RequestIs, AbsentIsNoObject DEF Succeed, Land
  <1>4. UnderWay(Request(c)) \/ pc[c] \notin Writing
    BY RequestTyping DEF UnderWay
  <1>5. ASSUME ~regime.expire, NEW d \in Calls, d # c, pc[d] \in Holding
        PROVE  UNCHANGED << lease, leaseTags >>
    BY <1>2, <1>4, <1>5, RequestIs, NobodyElseIsAccepted, RequestTyping
       DEF Writing, Requests, LeaseRequests, LedgerRequests, ReservationRequests
  <1>6. LeaseTags'
    <2>1. ASSUME NEW d \in Calls, leaseTag'[d] # Absent
          PROVE  leaseTag'[d] <= leaseTags'
      <3>1. CASE d # c
        BY <1>1, <1>2, <2>1, <3>1 DEF Moves, Stays, LeaseInv, LeaseTags, TypeOK, StoreOK, CallsOK, Tags
      <3>2. CASE d = c
        BY <1>1, <1>2, <1>3, <2>1, <3>2
           DEF Moves, TagMove, LeaseInv, LeaseTags, TypeOK, StoreOK, CallsOK, Tags
      <3>3. QED
        BY <3>1, <3>2
    <2>2. ASSUME NEW r \in wire', r.to = "lease", r.match # Absent
          PROVE  r.match <= leaseTags'
      <3>1. r.match <= leaseTags
        BY <2>2, StoreMoves, RequestIs DEF LeaseInv, LeaseTags, Writing
      <3>2. r.match \in Nat
        BY <2>2 DEF TypeOK, WireOK, Requests, LeaseRequests, LedgerRequests, ReservationRequests, Tags
      <3>3. QED
        BY <1>2, <3>1, <3>2 DEF TypeOK, StoreOK
    <2>3. lease' # Absent => lease'.tag <= leaseTags'
      BY <1>2 DEF LeaseInv, LeaseTags, TypeOK, StoreOK
    <2>4. QED
      BY <2>1, <2>2, <2>3 DEF LeaseTags
  <1>7. TagsNameOwners'
    <2>1. ASSUME Guarded, NEW d \in Calls, pc'[d] \in Holding \cup {"release"},
                 lease' # Absent, leaseTag'[d] = lease'.tag
          PROVE  lease'.owner = d
      <3>1. CASE UNCHANGED << lease, leaseTags >>
        <4>1. CASE d # c
          BY <1>1, <2>1, <3>1, <4>1 DEF Moves, Stays, LeaseInv, TagsNameOwners
        <4>2. CASE d = c
          BY <1>1, <1>3, <2>1, <3>1, <4>2, AbsentIsNoNumber
             DEF Moves, LabelMove, TagMove, LeaseInv, TagsNameOwners, HoldersOwn, Guarded,
                 TypeOK, HeadsOK, StoreOK, Holding, Protected
        <4>3. QED
          BY <4>1, <4>2
      <3>2. CASE leaseTags' = leaseTags + 1 /\ lease' = [tag |-> leaseTags + 1, owner |-> c]
        BY <1>1, <2>1, <3>2, AbsentIsNoNumber
           DEF Moves, Stays, LeaseInv, LeaseTags, TypeOK, StoreOK, CallsOK, Tags
      <3>3. QED
        BY <1>2, <2>1, <3>1, <3>2
    <2>2. QED
      BY <1>1, <2>1 DEF TagsNameOwners, Guarded
  <1>8. HoldersOwn'
    <2>1. ASSUME ~regime.expire, NEW d \in Calls, pc'[d] \in Holding
          PROVE  lease' # Absent /\ lease'.owner = d
      <3>1. CASE d # c
        BY <1>1, <1>5, <2>1, <3>1 DEF Moves, Stays, LeaseInv, HoldersOwn
      <3>2. CASE d = c /\ pc[c] \in Holding
        BY <1>1, <1>2, <2>1, <3>2, AbsentIsNoObject
           DEF LeaseInv, HoldersOwn, Holding, Protected, TypeOK, StoreOK
      <3>3. CASE d = c /\ pc[c] \in {"acquire", "takeover"} /\ Succeed(c)
        BY <1>2, <1>3, <3>3, AbsentIsNoObject DEF TypeOK, StoreOK
      <3>4. QED
        BY <1>1, <2>1, <3>1, <3>2, <3>3 DEF Moves, LabelMove
    <2>2. QED
      BY <2>1 DEF HoldersOwn
  <1>9. LateLeases'
    <2>1. ASSUME NEW r \in wire', r.to = "lease"
          PROVE  /\ pc'[r.by] \in Terminal \cup {"release"}
                 /\ r.body \in {r.by, Absent}
                 /\ (/\ Guarded
                     /\ r.body = Absent \/ ~regime.expire
                     /\ lease' # Absent
                     /\ lease'.tag = r.match) => lease'.owner = r.by
      <3>0. r \in LeaseRequests
        BY <2>1 DEF TypeOK, WireOK, Requests, LeaseRequests, LedgerRequests, ReservationRequests
      <3>1. r.match # leaseTags + 1
        <4>1. r.match = Absent \/ r.match <= leaseTags
          BY <2>1, StoreMoves, RequestIs DEF LeaseInv, LeaseTags, Writing
        <4>2. QED
          BY <3>0, <4>1, AbsentIsNoNumber DEF LeaseRequests, Tags, TypeOK, StoreOK
      <3>2. CASE r \in wire
        BY <1>1, <1>2, <2>1, <3>0, <3>1, <3>2
           DEF LeaseInv, LateLeases, LeaseRequests, Moves, LabelMove, Stays
      <3>3. CASE r \notin wire
        <4>1. r = Request(c) /\ pc'[c] \in Terminal \cup {"release"} /\ pc[c] \in Writing
          BY <2>1, <3>3, StoreMoves
        <4>2. r.body = Absent => (pc[c] = "release" /\ r.match = leaseTag[c])
          BY <2>1, <4>1, RequestIs, AbsentIsNoObject DEF Writing
        <4>3. ~regime.expire => \/ r.match = Absent
                                \/ pc[c] \in {"renew", "release"} /\ r.match = leaseTag[c]
          BY <2>1, <4>1, RequestIs DEF Writing, TypeOK, HeadsOK
        <4>4. r.by = c /\ r.body \in {c, Absent}
          BY <2>1, <4>1, RequestIs DEF Writing
        <4>5. ASSUME Guarded, r.body = Absent \/ ~regime.expire,
                     lease' # Absent, lease'.tag = r.match
              PROVE  lease'.owner = r.by
          BY <1>2, <3>1, <4>2, <4>3, <4>4, <4>5, AbsentIsNoNumber
             DEF LeaseInv, TagsNameOwners, Holding, Protected, TypeOK, StoreOK
        <4>6. QED
          BY <4>1, <4>4, <4>5
      <3>4. QED
        BY <3>2, <3>3
    <2>2. QED
      BY <2>1 DEF LateLeases, Guarded
  <1>10. QED
    BY <1>6, <1>7, <1>8, <1>9 DEF LeaseInv

\* A request that lands late keeps what the lease says of its holder.
LEMMA LeaseByLateRequest ==
    ASSUME TypeOK, TypeOK', LeaseInv, NEW r \in wire, LandLate(r), regime' = regime
    PROVE  LeaseInv'
  <1>0. Land(r) /\ r \in Requests /\ UNCHANGED << pc, leaseTag >> /\ wire' \subseteq wire
    BY DEF LandLate, local, TypeOK, WireOK
  <1>1. CASE UNCHANGED << lease, leaseTags >>
    BY <1>0, <1>1
       DEF LeaseInv, LeaseTags, TagsNameOwners, HoldersOwn, LateLeases, Guarded
  <1>2. CASE r \in LeaseRequests /\ (lease' = Absent \/ lease'.tag = leaseTags + 1)
             /\ leaseTags' \in {leaseTags, leaseTags + 1}
    <2>1. LeaseTags'
      BY <1>0, <1>2, LeaseLanding
         DEF LeaseInv, LeaseTags, TypeOK, StoreOK, CallsOK, WireOK, Requests, LeaseRequests,
             LedgerRequests, ReservationRequests, Tags
    <2>2. TagsNameOwners'
      BY <1>0, <1>2, AbsentIsNoNumber
         DEF LeaseInv, LeaseTags, TagsNameOwners, TypeOK, StoreOK, CallsOK, Tags
    <2>3. HoldersOwn'
      BY <1>0, <1>2, NobodyElseIsAccepted DEF HoldersOwn, UnderWay, Land
    <2>4. LateLeases'
      BY <1>0, <1>2, AbsentIsNoNumber
         DEF LeaseInv, LeaseTags, LateLeases, TypeOK, StoreOK, WireOK, Requests,
             LeaseRequests, LedgerRequests, ReservationRequests, Tags, Guarded
    <2>5. QED
      BY <2>1, <2>2, <2>3, <2>4 DEF LeaseInv
  <1>3. QED
    BY <1>0, <1>1, <1>2, LeaseLanding

\* Every step keeps what the lease says of its holder.
LEMMA LeaseStep ==
    ASSUME TypeOK, TypeOK', LeaseInv, [Next]_<<vars, regime>>
    PROVE  LeaseInv'
  <1>1. CASE UNCHANGED << vars, regime >>
    BY <1>1 DEF LeaseInv, LeaseTags, TagsNameOwners, HoldersOwn, LateLeases, Guarded, vars,
                store, local
  <1>2. QED
    BY <1>1, LeaseByCall, LeaseByLateRequest DEF Next, Done, Acts

(* No caller has left a request or holds anything yet.                       *)
LEMMA LeaseInit == Init => LeaseInv
  BY DEF Init, LeaseInv, LeaseTags, TagsNameOwners, HoldersOwn, LateLeases, Holding,
         Protected

\* The types and the lease's meaning always hold.
LEMMA LeaseInvariant == Spec => [](TypeOK /\ LeaseInv)
  <1>1. Init => TypeOK /\ LeaseInv
    BY TypeInit, LeaseInit
  <1>2. TypeOK /\ LeaseInv /\ [Next]_<<vars, regime>> => TypeOK' /\ LeaseInv'
    BY TypeStep, LeaseStep
  <1>3. QED
    BY <1>1, <1>2, PTL DEF Spec

(* As long as no lease expires under its holder, at most one call is between *)
(* having the lease and releasing it, with any number of calls, whatever     *)
(* times out, is answered twice or crashes, and with or without etags.       *)
THEOREM LeaseSerializes == Spec => []SerializedByLease
  <1>1. TypeOK /\ LeaseInv => SerializedByLease
    <2> SUFFICES ASSUME TypeOK, LeaseInv, ~regime.expire
                 PROVE  Cardinality({ c \in Calls : pc[c] \in Protected }) <= 1
      BY DEF SerializedByLease
    <2> DEFINE Inside == { c \in Calls : pc[c] \in Protected }
    <2>1. \A c, d \in Inside : c = d
      BY DEF LeaseInv, HoldersOwn, Holding
    <2>2. CASE Inside = {}
      BY <2>2, FS_EmptySet
    <2>3. CASE Inside # {}
      <3>1. PICK c \in Inside : Inside = {c}
        BY <2>1, <2>3
      <3>2. QED
        BY <3>1, FS_Singleton
    <2>4. QED
      BY <2>2, <2>3
  <1>2. QED
    BY <1>1, LeaseInvariant, PTL

(* A deleted lease is that of a call which no longer works on the ledger.    *)
LEMMA OwnRelease ==
    ASSUME TypeOK, LeaseInv, Guarded, [Next]_<<vars, regime>>, lease # Absent, lease' = Absent
    PROVE  pc[lease.owner] \notin Protected
  <1>1. ASSUME NEW r \in Requests, UnderWay(r), Land(r)
        PROVE  pc[lease.owner] \notin Protected
    <2>1. r \in LeaseRequests /\ r.body = Absent /\ r.match = lease.tag
      BY <1>1, LeaseLanding, AbsentIsNoObject
         DEF Land, Accepted, Target, TypeOK, StoreOK, LeaseRequests
    <2>2. CASE r \in wire
      BY <2>1, <2>2 DEF LeaseInv, LateLeases, LeaseRequests, Terminal, Protected
    <2>3. CASE r.by \in Calls /\ pc[r.by] \in Writing /\ r = Request(r.by)
      <3>1. pc[r.by] = "release" /\ leaseTag[r.by] = lease.tag
        BY <2>1, <2>3, RequestIs, AbsentIsNoObject DEF Writing, LeaseRequests
      <3>2. lease.owner = r.by
        BY <2>3, <3>1 DEF LeaseInv, TagsNameOwners
      <3>3. QED
        BY <3>1, <3>2 DEF Protected
    <2>4. QED
      BY <1>1, <2>2, <2>3 DEF UnderWay
  <1>2. ASSUME NEW c \in Calls, Acts(c)
        PROVE  pc[lease.owner] \notin Protected
    BY <1>1, <1>2, StoreMoves, RequestTyping DEF UnderWay, store
  <1>3. ASSUME NEW r \in wire, LandLate(r)
        PROVE  pc[lease.owner] \notin Protected
    BY <1>1, <1>3 DEF UnderWay, LandLate, TypeOK, WireOK
  <1>4. QED
    BY <1>2, <1>3 DEF Next, Done, Acts, vars, store

(* The regime is chosen once.                                                *)
LEMMA GuardedLasts ==
    ASSUME Guarded, [Next]_<<vars, regime>>
    PROVE  Guarded'
  BY DEF Guarded, Next

(* In a guarded regime no release, at once or late, ever takes the lease     *)
(* from a call that is still at work.                                        *)
THEOREM ReleasesAreOwn == Spec /\ Guarded => NoForeignRelease
  <1>1. TypeOK /\ LeaseInv /\ Guarded /\ [Next]_<<vars, regime>>
        => [ (lease # Absent /\ lease' = Absent) => pc[lease.owner] \notin Protected ]_vars
    BY OwnRelease
  <1>2. Guarded /\ [Next]_<<vars, regime>> => Guarded'
    BY GuardedLasts
  <1>3. QED
    BY <1>1, <1>2, LeaseInvariant, PTL DEF Spec, NoForeignRelease

-----------------------------------------------------------------------------
(* Published objects are immutable, and a call that ends well names one.     *)

DoneNamesPublished ==
    \A c \in Calls :
        (pc[c] = "done" \/ (pc[c] = "release" /\ outcome[c] = "done")) =>
            /\ published[UriOf[c]] # Absent
            /\ published[UriOf[c]] = [plan |-> PlanOf[c], artifact |-> drawn[c]]

\* A reservation, once published, is never replaced.
LEMMA PublicationsStay ==
    ASSUME TypeOK, NEW r \in Requests, Land(r), NEW u \in Uris, published[u] # Absent
    PROVE  published'[u] = published[u]
  BY CallsHaveValidPlans
     DEF Land, Accepted, Target, Requests, LeaseRequests, LedgerRequests,
         ReservationRequests, TypeOK, StoreOK

\* Every step keeps that a call that succeeded has its reservation published.
LEMMA DoneStep ==
    ASSUME TypeOK, DoneNamesPublished, [Next]_<<vars, regime>>
    PROVE  DoneNamesPublished'
  <1>1. ASSUME NEW u \in Uris, published[u] # Absent
        PROVE  published'[u] = published[u]
    <2>1. CASE UNCHANGED store
      BY <2>1 DEF store
    <2>2. ASSUME NEW c \in Calls, Acts(c)
          PROVE  published'[u] = published[u]
      BY <1>1, <2>1, <2>2, StoreMoves, RequestTyping, PublicationsStay
    <2>3. ASSUME NEW r \in wire, LandLate(r)
          PROVE  published'[u] = published[u]
      BY <1>1, <2>3, PublicationsStay DEF LandLate, TypeOK, WireOK
    <2>4. QED
      BY <2>1, <2>2, <2>3 DEF Next, Done, Acts, vars
  <1>2. ASSUME NEW c \in Calls, Acts(c), NEW d \in Calls,
               pc'[d] = "done" \/ (pc'[d] = "release" /\ outcome'[d] = "done")
        PROVE  /\ published'[UriOf[d]] # Absent
               /\ published'[UriOf[d]] = [plan |-> PlanOf[d], artifact |-> drawn'[d]]
    <2>1. UriOf[d] \in Uris /\ UriOf[c] \in Uris
      BY CallsHaveValidPlans
    <2>2. Moves(c)
      BY <1>2, CallMoves
    <2>3. CASE d # c
      BY <1>1, <1>2, <2>1, <2>2, <2>3 DEF Moves, Stays, DoneNamesPublished
    <2>4. CASE d = c /\ pc[c] = "publish" /\ Succeed(c) /\ drawn'[c] = drawn[c]
      <3>1. [plan |-> PlanOf[c], artifact |-> drawn[c]] # Absent
        BY <2>4, AbsentIsNoObject DEF TypeOK, DrawnOK, Plans, Committing
      <3>2. published' = [published EXCEPT ![UriOf[c]]
                            = [plan |-> PlanOf[c], artifact |-> drawn[c]]]
        BY <2>4, RequestIs DEF Succeed, Land
      <3>3. QED
        BY <2>1, <2>4, <3>1, <3>2 DEF TypeOK, StoreOK
    <2>5. QED
      BY <1>1, <1>2, <2>1, <2>2, <2>3, <2>4
         DEF Moves, OutcomeMove, DoneNamesPublished
  <1>3. QED
    BY <1>1, <1>2, CallsHaveValidPlans
       DEF DoneNamesPublished, Next, Done, Acts, LandLate, vars, local

(* Whatever happens to leases and answers, a call that returns names what is *)
(* published at its URI for its plan, and it stays published.                *)
THEOREM DoneIsPublished == Spec => []DoneMeansPublished
  <1>1. Init => TypeOK /\ DoneNamesPublished
    BY TypeInit DEF Init, DoneNamesPublished
  <1>2. TypeOK /\ DoneNamesPublished /\ [Next]_<<vars, regime>>
        => TypeOK' /\ DoneNamesPublished'
    BY TypeStep, DoneStep
  <1>3. DoneNamesPublished => DoneMeansPublished
    BY DEF DoneNamesPublished, DoneMeansPublished
  <1>4. QED
    BY <1>1, <1>2, <1>3, PTL DEF Spec

-----------------------------------------------------------------------------
(* The ledger. A claim on behalf of a URI is what is published there, what a *)
(* call has burned for it and may yet publish, and what a late request will  *)
(* publish. Claims are recorded in the ledger, and whatever may still        *)
(* replace the ledger records them too.                                      *)

Claims(u) ==
    (IF published[u] = Absent THEN {} ELSE {published[u].artifact})
    \cup { drawn[c] : c \in { d \in Calls : UriOf[d] = u /\ pc[d] \in Committing } }
    \cup { r.body.artifact :
             r \in { q \in wire : q.to = "reservation" /\ UriOf[q.by] = u } }

Recorded(l) == { l.history[i] : i \in DOMAIN l.history }

ClaimsIn(l) == \A u \in Uris : Claims(u) \subseteq Recorded(l)

ClaimsApart ==
    \A u, v \in Uris : u # v =>
        \A a \in Claims(u), b \in Claims(v) : ~Clash(a, b)

\* A request with this etag would be accepted for the ledger.
Current(tag) == IF tag = Absent THEN ledger = Absent ELSE ledger # Absent /\ ledger.tag = tag

LedgerTags ==
    /\ \A c \in Calls : seen[c].tag # Absent => seen[c].tag <= ledgerTags
    /\ ledger # Absent => ledger.tag <= ledgerTags
    /\ \A r \in wire : (r.to = "ledger" /\ r.match # Absent) => r.match <= ledgerTags

ReadsAreCurrent ==
    \A c \in Calls :
        /\ pc[c] = "ledgerhead" => ClaimsIn(seen[c].content)
        /\ (pc[c] = "write" /\ Current(seen[c].tag)) =>
              /\ ClaimsIn(seen[c].content)
              /\ regime.etags => seen[c].content = LedgerContent

LateLedgers ==
    \A r \in wire : (r.to = "ledger" /\ Current(r.match)) =>
        /\ ClaimsIn(r.body)
        /\ regime.etags => \E a \in Artifacts(LedgerContent, PlanOf[r.by]) :
                              r.body = LedgerAfter(LedgerContent, a)

LedgerInv ==
    /\ LedgerTags /\ ClaimsIn(LedgerContent) /\ ClaimsApart
    /\ ReadsAreCurrent /\ LateLedgers

(* Recording an artifact keeps what was recorded.                            *)
LEMMA RecordedAfter ==
    ASSUME NEW l \in LedgerShape, NEW a \in ArtifactShape
    PROVE  Recorded(LedgerAfter(l, a)) = Recorded(l) \cup {a}
  <1>1. l.history \in Seq(ArtifactShape) /\ LedgerAfter(l, a).history = Append(l.history, a)
    BY DEF LedgerShape, LedgerAfter
  <1>2. QED
    BY <1>1 DEF Recorded

(* Only a burn that its caller learns of adds a claim: its own artifact.     *)
LEMMA ClaimsByCall ==
    ASSUME TypeOK, TypeOK', NEW c \in Calls, Acts(c), NEW u \in Uris
    PROVE  Claims(u)' \subseteq Claims(u) \cup
               { drawn[d] : d \in { e \in {c} : /\ pc[c] = "write" /\ Succeed(c)
                                                /\ UriOf[c] = u } }
  <1> DEFINE New == { drawn[d] : d \in { e \in {c} : /\ pc[c] = "write" /\ Succeed(c)
                                                     /\ UriOf[c] = u } }
  <1>1. Moves(c)
    BY CallMoves
  <1>2. ASSUME pc[c] = "publish", UriOf[c] = u
        PROVE  drawn[c] \in Claims(u)
    BY <1>2 DEF Claims, Committing
  <1>3. ASSUME published'[u] # Absent
        PROVE  published'[u].artifact \in Claims(u)
    <2>1. CASE published'[u] = published[u]
      BY <1>3, <2>1 DEF Claims
    <2>2. CASE published'[u] # published[u]
      <3>1. pc[c] \in Writing /\ Land(Request(c))
        BY <2>2, StoreMoves DEF store
      <3>2. /\ pc[c] = "publish"
            /\ published' = [published EXCEPT ![UriOf[c]]
                               = [plan |-> PlanOf[c], artifact |-> drawn[c]]]
        BY <2>2, <3>1, RequestIs DEF Land, Writing
      <3>3. QED
        BY <1>2, <2>2, <3>2 DEF TypeOK, StoreOK
    <2>3. QED
      BY <2>1, <2>2
  <1>4. ASSUME NEW d \in Calls, UriOf[d] = u, pc'[d] \in Committing
        PROVE  drawn'[d] \in Claims(u) \cup New
    <2>1. CASE d # c
      BY <1>1, <1>4, <2>1 DEF Moves, Stays, Claims
    <2>2. CASE d = c
      BY <1>1, <1>4, <2>2 DEF Moves, DrawnMove, Claims
    <2>3. QED
      BY <2>1, <2>2
  <1>5. ASSUME NEW r \in wire', r.to = "reservation", UriOf[r.by] = u
        PROVE  r.body.artifact \in Claims(u)
    <2>1. CASE r \in wire
      BY <1>5, <2>1 DEF Claims
    <2>2. CASE r \notin wire
      <3>1. r = Request(c) /\ pc[c] \in Writing
        BY <1>5, <2>2, StoreMoves
      <3>2. pc[c] = "publish" /\ r.by = c /\ r.body.artifact = drawn[c]
        BY <1>5, <3>1, RequestIs DEF Writing
      <3>3. QED
        BY <1>2, <1>5, <3>2
    <2>3. QED
      BY <2>1, <2>2
  <1>6. QED
    BY <1>3, <1>4, <1>5 DEF Claims

\* A request that lands late adds no claim to a URI.
LEMMA ClaimsByLateRequest ==
    ASSUME TypeOK, NEW r \in wire, LandLate(r), NEW u \in Uris
    PROVE  Claims(u)' \subseteq Claims(u)
  <1>1. UNCHANGED << pc, drawn >> /\ wire' \subseteq wire /\ r \in Requests /\ Land(r)
    BY DEF LandLate, local, TypeOK, WireOK
  <1>2. ASSUME published'[u] # Absent
        PROVE  published'[u].artifact \in Claims(u)
    <2>1. CASE published'[u] = published[u]
      BY <1>2, <2>1 DEF Claims
    <2>2. CASE published'[u] # published[u]
      <3>1. r.to = "reservation" /\ published' = [published EXCEPT ![UriOf[r.by]] = r.body]
        BY <1>1, <2>2 DEF Land
      <3>2. UriOf[r.by] = u /\ published'[u] = r.body
        BY <2>2, <3>1 DEF TypeOK, StoreOK
      <3>3. QED
        BY <3>1, <3>2 DEF Claims
    <2>3. QED
      BY <2>1, <2>2
  <1>3. QED
    BY <1>1, <1>2 DEF Claims

(* What a landing leaves of the ledger.                                      *)
LEMMA LedgerLanding ==
    ASSUME TypeOK, NEW r \in Requests, Land(r)
    PROVE  \/ r \notin LedgerRequests /\ UNCHANGED << ledger, ledgerTags >>
           \/ /\ r \in LedgerRequests /\ Current(r.match)
              /\ Len(r.body.history) <= MaxReservations
              /\ ledgerTags' = ledgerTags + 1
              /\ ledger' = [tag |-> ledgerTags + 1, content |-> r.body]
  BY DEF Land, Accepted, Target, Current, Requests, LeaseRequests, LedgerRequests,
         ReservationRequests

(* Once the ledger has a new etag nothing that was read before is current.   *)
LEMMA NothingStaysCurrent ==
    ASSUME TypeOK, LedgerTags, NEW tag \in Tags, tag # Absent => tag <= ledgerTags,
           ledger' # Absent, ledger'.tag = ledgerTags + 1
    PROVE  ~Current(tag)'
  BY AbsentIsNoNumber DEF Current, Tags, TypeOK, StoreOK

(* A call that leaves the ledger alone.                                      *)
LEMMA LedgerUntouched ==
    ASSUME TypeOK, TypeOK', LedgerInv, NEW c \in Calls, Acts(c), regime' = regime,
           UNCHANGED << ledger, ledgerTags >>
    PROVE  LedgerInv'
  <1>1. Moves(c)
    BY CallMoves
  <1>2. ~(pc[c] = "write" /\ Succeed(c))
    BY RequestTyping, LedgerLanding, RequestIs DEF Succeed, Land, TypeOK, StoreOK
  <1>3. \A u \in Uris : Claims(u)' \subseteq Claims(u)
    BY <1>2, ClaimsByCall
  <1>4. \A l : ClaimsIn(l) => \A u \in Uris : Claims(u)' \subseteq Recorded(l)
    BY <1>3 DEF ClaimsIn
  <1>5. LedgerContent' = LedgerContent /\ \A tag : Current(tag)' = Current(tag)
    BY DEF LedgerContent, Current
  <1>6. ReadLedger(c) =>
            \/ /\ seen'[c].content = LedgerContent
               /\ seen'[c].tag = IF ledger = Absent THEN Absent ELSE ledger.tag
            \/ pc'[c] = "release" /\ seen'[c].tag = Absent
    BY DEF ReadLedger, Finish, Goto, Nothing, TypeOK, CallsOK
  <1>7. HeadLedger(c) => /\ pc[c] = "ledgerhead" /\ ledger # Absent /\ ~regime.etags
                         /\ seen'[c].content = seen[c].content
                         /\ seen'[c].tag = ledger.tag
    BY DEF HeadLedger, TypeOK, CallsOK, HeadsOK
  <1>8. LedgerTags'
    <2>1. seen'[c].tag \in {seen[c].tag, Absent} \/ ReadLedger(c) \/ HeadLedger(c)
      BY DEF Acts, Step, CheckExisting, InspectLease, HeadHeldLease, Recheck, Succeed,
             Refuse, Echo, TimeOut, FailRead, Crash, OnSuccess, OnPreconditionFailed,
             HoldLease, Again, Raise, Finish, End, Nothing, local, TypeOK, CallsOK
    <2>2. ASSUME NEW d \in Calls, seen'[d].tag # Absent
          PROVE  seen'[d].tag <= ledgerTags
      BY <1>1, <1>6, <1>7, <2>1, <2>2 DEF Moves, Stays, LedgerInv, LedgerTags
    <2>3. ASSUME NEW r \in wire', r.to = "ledger", r.match # Absent
          PROVE  r.match <= ledgerTags
      BY <2>3, StoreMoves, RequestIs DEF Writing, LedgerInv, LedgerTags
    <2>4. QED
      BY <2>2, <2>3 DEF LedgerInv, LedgerTags
  <1>9. ClaimsIn(LedgerContent)'
    BY <1>4, <1>5 DEF LedgerInv, ClaimsIn
  <1>10. ClaimsApart'
    BY <1>3 DEF LedgerInv, ClaimsApart
  <1>11. ReadsAreCurrent'
    <2>1. ASSUME NEW d \in Calls
          PROVE  /\ pc'[d] = "ledgerhead" => ClaimsIn(seen[d].content)'
                 /\ (pc'[d] = "write" /\ Current(seen'[d].tag)) =>
                       /\ ClaimsIn(seen[d].content)'
                       /\ regime.etags => seen'[d].content = LedgerContent
      <3>1. CASE d # c
        BY <1>1, <1>4, <3>1 DEF Moves, Stays, LedgerInv, ReadsAreCurrent, ClaimsIn
      <3>2. CASE d = c
        BY <1>1, <1>4, <1>6, <1>7, <3>2
           DEF Moves, LabelMove, LedgerInv, ReadsAreCurrent, ClaimsIn
      <3>3. QED
        BY <3>1, <3>2
    <2>2. QED
      BY <1>5, <2>1 DEF ReadsAreCurrent, Current
  <1>12. LateLedgers'
    <2>1. ASSUME NEW r \in wire', r.to = "ledger", Current(r.match)
          PROVE  /\ ClaimsIn(r.body)
                 /\ regime.etags => \E a \in Artifacts(LedgerContent, PlanOf[r.by]) :
                                       r.body = LedgerAfter(LedgerContent, a)
      <3>1. CASE r \in wire
        BY <2>1, <3>1 DEF LedgerInv, LateLedgers
      <3>2. CASE r \notin wire
        <4>1. r = Request(c) /\ pc[c] = "write"
          BY <2>1, <3>2, StoreMoves, RequestIs DEF Writing
        <4>2. /\ drawn[c] \in Artifacts(seen[c].content, PlanOf[c])
              /\ seen[c].content \in LedgerShape /\ drawn[c] \in ArtifactShape
          BY <4>1, AllocationCovers, CallsHaveValidPlans DEF TypeOK, DrawnOK, CallsOK
        <4>3. /\ r.by = c /\ r.match = seen[c].tag
              /\ r.body = LedgerAfter(seen[c].content, drawn[c])
          BY <4>1, RequestIs
        <4>4. ClaimsIn(seen[c].content) /\ (regime.etags => seen[c].content = LedgerContent)
          BY <2>1, <4>1, <4>3 DEF LedgerInv, ReadsAreCurrent
        <4>5. QED
          BY <4>2, <4>3, <4>4, RecordedAfter DEF ClaimsIn
      <3>3. QED
        BY <3>1, <3>2
    <2>2. QED
      BY <1>4, <1>5, <2>1 DEF LateLedgers, Current, ClaimsIn
  <1>13. QED
    BY <1>8, <1>9, <1>10, <1>11, <1>12 DEF LedgerInv

(* A new ledger object: everything that was read or sent before is stale.    *)
LEMMA LedgerReplaced ==
    ASSUME TypeOK, TypeOK', LedgerInv, regime' = regime,
           NEW body \in LedgerShape,
           \A r \in wire' : r.to = "ledger" => r \in wire,
           ledgerTags' = ledgerTags + 1,
           ledger' = [tag |-> ledgerTags + 1, content |-> body],
           \A d \in Calls : seen'[d].tag # Absent => seen'[d].tag <= ledgerTags,
           \A u \in Uris : Claims(u)' \subseteq Recorded(body), ClaimsApart',
           \A d \in Calls : pc'[d] = "ledgerhead" =>
               \A u \in Uris : Claims(u)' \subseteq Recorded(seen'[d].content)
    PROVE  LedgerInv'
  <1>1. ledger' # Absent
    BY AbsentIsNoObject DEF TypeOK, StoreOK
  <1>2. LedgerContent' = body /\ ledger'.tag = ledgerTags + 1
    BY <1>1 DEF LedgerContent
  <1>3. \A d \in Calls : ~Current(seen[d].tag)'
    BY <1>1, <1>2, NothingStaysCurrent DEF LedgerInv, TypeOK, CallsOK, Current
  <1>4. \A r \in wire' : r.to = "ledger" => ~Current(r.match)'
    <2> SUFFICES ASSUME NEW r \in wire, r.to = "ledger"
                 PROVE  ~Current(r.match)'
      OBVIOUS
    <2>1. r.match \in Tags /\ (r.match # Absent => r.match <= ledgerTags)
      BY DEF TypeOK, WireOK, Requests, LeaseRequests, LedgerRequests,
             ReservationRequests, LedgerInv, LedgerTags
    <2>2. QED
      BY <1>1, <1>2, <2>1, NothingStaysCurrent DEF LedgerInv, Current
  <1>5. LedgerTags'
    BY <1>2 DEF LedgerInv, LedgerTags, TypeOK, StoreOK, CallsOK, WireOK, Requests,
                LeaseRequests, LedgerRequests, ReservationRequests, Tags
  <1>6. ClaimsIn(LedgerContent)'
    BY <1>2 DEF ClaimsIn, Recorded
  <1>7. ReadsAreCurrent'
    BY <1>3 DEF ReadsAreCurrent, ClaimsIn, Recorded
  <1>8. LateLedgers'
    BY <1>4 DEF LateLedgers
  <1>9. QED
    BY <1>5, <1>6, <1>7, <1>8 DEF LedgerInv

(* A call burns: what it read was current, so what it allocated is fresh.    *)
LEMMA LedgerBurned ==
    ASSUME TypeOK, TypeOK', LeaseInv, Guarded, LedgerInv, NEW c \in Calls, Acts(c),
           regime' = regime, pc[c] = "write", Land(Request(c)), wire' = wire
    PROVE  LedgerInv'
  <1> DEFINE body == LedgerAfter(seen[c].content, drawn[c])
  <1>1. Moves(c)
    BY CallMoves
  <1>2. /\ Current(seen[c].tag)
        /\ ledgerTags' = ledgerTags + 1
        /\ ledger' = [tag |-> ledgerTags + 1, content |-> body]
    <2>1. /\ Request(c).to = "ledger" /\ Request(c).match = seen[c].tag
          /\ Request(c).body = body
      BY RequestIs
    <2>2. Request(c) \in Requests
      BY RequestTyping DEF Writing
    <2>3. Request(c) \in LedgerRequests
      BY <2>1, <2>2 DEF Requests, LeaseRequests, ReservationRequests
    <2>4. QED
      BY <2>1, <2>2, <2>3, LedgerLanding
  <1>3. /\ drawn[c] \in Artifacts(seen[c].content, PlanOf[c])
        /\ drawn[c] \in ArtifactShape /\ seen[c].content \in LedgerShape
        /\ MarksCover(seen[c].content) /\ ValidPlan(PlanOf[c])
    BY AllocationCovers, CallsHaveValidPlans DEF TypeOK, DrawnOK, CallsOK
  <1>4. Recorded(body) = Recorded(seen[c].content) \cup {drawn[c]}
    BY <1>3, RecordedAfter
  <1>5. ClaimsIn(seen[c].content)
    BY <1>2 DEF LedgerInv, ReadsAreCurrent
  <1>6. \A u \in Uris :
            Claims(u)' \subseteq Claims(u) \cup (IF u = UriOf[c] THEN {drawn[c]} ELSE {})
    BY ClaimsByCall
  <1>7. \A u \in Uris : Claims(u)' \subseteq Recorded(body)
    BY <1>4, <1>5, <1>6 DEF ClaimsIn
  <1>8. ClaimsApart'
    <2>1. \A a \in Recorded(seen[c].content) : ~Clash(a, drawn[c]) /\ ~Clash(drawn[c], a)
      BY <1>3, FreshArtifact DEF Recorded
    <2>2. QED
      BY <1>5, <1>6, <2>1 DEF LedgerInv, ClaimsApart, ClaimsIn
  <1>9. \A d \in Calls : pc'[d] # "ledgerhead"
    BY <1>1 DEF Moves, LabelMove, Stays, ReadLedger, TypeOK, HeadsOK, Guarded, LeaseInv,
                HoldersOwn, Holding, Protected
  <1>10. \A d \in Calls : seen'[d].tag # Absent => seen'[d].tag <= ledgerTags
    <2>1. seen'[c].tag \in {seen[c].tag, Absent}
      BY DEF Acts, Step, CheckExisting, InspectLease, HeadHeldLease, ReadLedger, HeadLedger,
             Recheck, Succeed, Refuse, Echo, TimeOut, FailRead, Crash, OnSuccess,
             OnPreconditionFailed, HoldLease, Again, Raise, Finish, End, Nothing, local,
             TypeOK, CallsOK
    <2>2. QED
      BY <1>1, <2>1 DEF Moves, Stays, LedgerInv, LedgerTags
  <1>11. body \in LedgerShape
    BY <1>3, AllocationCovers
  <1>12. QED
    BY <1>2, <1>7, <1>8, <1>9, <1>10, <1>11, LedgerReplaced

(* A late write lands: it was sent by a call whose read was current.         *)
LEMMA LedgerByLateRequest ==
    ASSUME TypeOK, TypeOK', LedgerInv, NEW r \in wire, LandLate(r), regime' = regime
    PROVE  LedgerInv'
  <1>1. /\ UNCHANGED << pc, seen >> /\ wire' \subseteq wire
        /\ r \in Requests /\ Land(r)
    BY DEF LandLate, local, TypeOK, WireOK
  <1>2. \A u \in Uris : Claims(u)' \subseteq Claims(u)
    BY ClaimsByLateRequest
  <1>3. \A l : ClaimsIn(l) => \A u \in Uris : Claims(u)' \subseteq Recorded(l)
    BY <1>2 DEF ClaimsIn
  <1>4. ClaimsApart'
    BY <1>2 DEF LedgerInv, ClaimsApart
  <1>5. CASE UNCHANGED << ledger, ledgerTags >>
    <2>1. LedgerContent' = LedgerContent /\ \A tag : Current(tag)' = Current(tag)
      BY <1>5 DEF LedgerContent, Current
    <2>2. LedgerTags'
      BY <1>1, <1>5 DEF LedgerInv, LedgerTags
    <2>3. ClaimsIn(LedgerContent)'
      BY <1>3, <2>1 DEF LedgerInv, ClaimsIn
    <2>4. ReadsAreCurrent'
      BY <1>1, <1>3, <1>5, <2>1 DEF LedgerInv, ReadsAreCurrent, ClaimsIn, Current
    <2>5. LateLedgers'
      BY <1>1, <1>3, <1>5, <2>1 DEF LedgerInv, LateLedgers, ClaimsIn, Current
    <2>6. QED
      BY <1>4, <2>2, <2>3, <2>4, <2>5 DEF LedgerInv
  <1>6. CASE /\ r \in LedgerRequests /\ Current(r.match)
             /\ ledgerTags' = ledgerTags + 1
             /\ ledger' = [tag |-> ledgerTags + 1, content |-> r.body]
    <2>1. ClaimsIn(r.body)
      BY <1>6 DEF LedgerInv, LateLedgers, LedgerRequests
    <2>2. \A u \in Uris : Claims(u)' \subseteq Recorded(r.body)
      BY <1>3, <2>1
    <2>3. \A d \in Calls : pc'[d] = "ledgerhead" =>
              \A u \in Uris : Claims(u)' \subseteq Recorded(seen'[d].content)
      BY <1>1, <1>3 DEF LedgerInv, ReadsAreCurrent
    <2>4. \A d \in Calls : seen'[d].tag # Absent => seen'[d].tag <= ledgerTags
      BY <1>1 DEF LedgerInv, LedgerTags
    <2>5. r.body \in LedgerShape
      BY <1>6 DEF LedgerRequests
    <2>6. QED
      BY <1>1, <1>4, <1>6, <2>2, <2>3, <2>4, <2>5, LedgerReplaced
  <1>7. QED
    BY <1>1, <1>5, <1>6, LedgerLanding

\* In a guarded regime every step keeps that the ledger records every claim.
LEMMA LedgerStep ==
    ASSUME TypeOK, TypeOK', LeaseInv, Guarded, LedgerInv, [Next]_<<vars, regime>>
    PROVE  LedgerInv'
  <1>1. CASE UNCHANGED << vars, regime >>
    <2>1. /\ UNCHANGED << ledger, ledgerTags, wire, pc, seen, regime >>
          /\ \A u : Claims(u)' = Claims(u)
          /\ LedgerContent' = LedgerContent /\ \A tag : Current(tag)' = Current(tag)
      BY <1>1 DEF Claims, Current, LedgerContent, vars, store, local
    <2>2. LedgerTags' /\ ClaimsIn(LedgerContent)' /\ ClaimsApart'
      BY <2>1 DEF LedgerInv, LedgerTags, ClaimsIn, ClaimsApart
    <2>3. ReadsAreCurrent'
      BY <2>1 DEF LedgerInv, ReadsAreCurrent, ClaimsIn, Current
    <2>4. LateLedgers'
      BY <2>1 DEF LedgerInv, LateLedgers, ClaimsIn, Current
    <2>5. QED
      BY <2>2, <2>3, <2>4 DEF LedgerInv
  <1>2. ASSUME NEW c \in Calls, Acts(c), regime' = regime
        PROVE  LedgerInv'
    <2>1. CASE UNCHANGED << ledger, ledgerTags >>
      BY <1>2, <2>1, LedgerUntouched
    <2>2. CASE pc[c] = "write" /\ Land(Request(c)) /\ wire' = wire
      BY <1>2, <2>2, LedgerBurned
    <2>3. QED
      BY <1>2, <2>1, <2>2, StoreMoves, RequestTyping, RequestIs, LedgerLanding
         DEF Writing, LedgerRequests, store
  <1>3. ASSUME NEW r \in wire, LandLate(r), regime' = regime
        PROVE  LedgerInv'
    BY <1>3, LedgerByLateRequest
  <1>4. QED
    BY <1>1, <1>2, <1>3 DEF Next, Done, Acts

(* Nothing is claimed yet.                                                   *)
LEMMA LedgerInit == Init => LedgerInv
  <1> SUFFICES ASSUME Init PROVE LedgerInv
    OBVIOUS
  <1>1. \A u \in Uris : Claims(u) = {}
    BY DEF Init, Claims, Committing
  <1>2. QED
    BY <1>1 DEF Init, LedgerInv, LedgerTags, ClaimsIn, ClaimsApart, ReadsAreCurrent,
                LateLedgers, Nothing

(* The inductive invariant of a guarded environment.                         *)
THEOREM GuardedInvariant == Spec /\ Guarded => [](TypeOK /\ LeaseInv /\ LedgerInv /\ Guarded)
  <1>1. Init /\ Guarded => TypeOK /\ LeaseInv /\ LedgerInv /\ Guarded
    BY TypeInit, LeaseInit, LedgerInit
  <1>2. TypeOK /\ LeaseInv /\ LedgerInv /\ Guarded /\ [Next]_<<vars, regime>>
        => TypeOK' /\ LeaseInv' /\ LedgerInv' /\ Guarded'
    BY TypeStep, LeaseStep, LedgerStep, GuardedLasts
  <1>3. QED
    BY <1>1, <1>2, PTL DEF Spec

(* Two published reservations share no key, number or code, for every number *)
(* of calls, of faults and of lost, late or repeated answers.                *)
THEOREM PublishedApart == Spec /\ Guarded => []PublishedNeverClash
  <1>1. LedgerInv => PublishedNeverClash
    BY DEF LedgerInv, ClaimsApart, Claims, PublishedNeverClash
  <1>2. QED
    BY <1>1, GuardedInvariant, PTL

(* Whatever is published is recorded in the ledger object, for good.         *)
THEOREM PublishedIsBurned == Spec /\ Guarded => []BurnedBeforePublished
  <1>1. LedgerInv => BurnedBeforePublished
    BY DEF LedgerInv, ClaimsIn, Claims, Recorded, BurnedBeforePublished
  <1>2. QED
    BY <1>1, GuardedInvariant, PTL

-----------------------------------------------------------------------------
(* Refinement: with etags in the answers every write that lands was computed *)
(* from the content it replaces, which is an allocation of RangeLedger.      *)

(* The operators of the instance are those of this module.                   *)
LEMMA SameAllocation ==
    /\ Ledger!InitialLedgers = InitialLedgers
    /\ \A l, plan : Ledger!Artifacts(l, plan) = Artifacts(l, plan)
    /\ \A l, a : Ledger!LedgerAfter(l, a) = LedgerAfter(l, a)
  <1>1. \A l, plan : Ledger!PkRanges(l, plan) = PkRanges(l, plan)
    BY DEF Ledger!PkRanges, PkRanges, Ledger!PkRange, PkRange, Ledger!PkStart, PkStart
  <1>2. \A l, plan : Ledger!MeuIntervals(l, plan) = MeuIntervals(l, plan)
    BY DEF Ledger!MeuIntervals, MeuIntervals, Ledger!FirstFit, FirstFit,
           Ledger!MeuCandidates, MeuCandidates, Ledger!MeuFits, MeuFits,
           Ledger!MeuFloors, MeuFloors, Ledger!MeuMarks, MeuMarks
  <1>3. \A l, plan : Ledger!CdbIntervals(l, plan) = CdbIntervals(l, plan)
    BY DEF Ledger!CdbIntervals, CdbIntervals, Ledger!CdbFloors, CdbFloors
  <1>4. \A l, a : Ledger!LedgerAfter(l, a) = LedgerAfter(l, a)
    BY DEF Ledger!LedgerAfter, LedgerAfter, Ledger!PkMarksAfter, PkMarksAfter,
           Ledger!LegacyAfter, LegacyAfter, Ledger!GroupsAfter, GroupsAfter,
           Ledger!MeuMarks, MeuMarks, Ledger!Covers, Covers
  <1>5. Ledger!InitialLedgers = InitialLedgers
    BY DEF Ledger!InitialLedgers, InitialLedgers, Ledger!MigratedLedger, MigratedLedger,
           Ledger!EmptyLedger, EmptyLedger, Ledger!MeuMarks, MeuMarks, Ledger!AnyDate, AnyDate
  <1>6. QED
    BY <1>1, <1>2, <1>3, <1>4, <1>5 DEF Ledger!Artifacts, Artifacts

\* A ledger that grows by an allocation takes a step of RangeLedger.
LEMMA AllocationIsStep ==
    ASSUME TypeOK, NEW c \in Calls, NEW a \in Artifacts(LedgerContent, PlanOf[c]),
           LedgerContent' = LedgerAfter(LedgerContent, a),
           Len(LedgerAfter(LedgerContent, a).history) <= MaxReservations
    PROVE  Ledger!Next
  <1>1. LedgerContent.history \in Seq(ArtifactShape) /\ a \in ArtifactShape
    BY ContentCovered, AllocationCovers, CallsHaveValidPlans DEF LedgerShape
  <1>2. Len(LedgerContent.history) < MaxReservations
    BY <1>1, MaxReservationsIsNat DEF LedgerAfter
  <1>3. PlanOf[c] \in Plans
    BY DEF Plans
  <1>4. QED
    BY <1>2, <1>3, SameAllocation DEF Ledger!Next, Ledger!Allocate

\* With etags every step is one of RangeLedger on the stored ledger, or none.
LEMMA LedgerRefines ==
    ASSUME TypeOK, LedgerInv, regime.etags, [Next]_<<vars, regime>>
    PROVE  [Ledger!Next]_LedgerContent
  <1>1. CASE UNCHANGED ledger
    BY <1>1 DEF LedgerContent
  <1>2. ASSUME NEW r \in Requests, NEW c \in Calls, r \in LedgerRequests, Land(r),
               ledger' = [tag |-> ledgerTags + 1, content |-> r.body],
               \E a \in Artifacts(LedgerContent, PlanOf[c]) :
                   r.body = LedgerAfter(LedgerContent, a)
        PROVE  Ledger!Next
    <2>1. LedgerContent' = r.body
      BY <1>2, AbsentIsNoObject DEF LedgerContent, LedgerRequests, TypeOK, StoreOK
    <2>2. Len(r.body.history) <= MaxReservations
      BY <1>2, LedgerLanding
    <2>3. QED
      BY <1>2, <2>1, <2>2, AllocationIsStep
  <1>3. ASSUME NEW c \in Calls, Acts(c), ledger' # ledger
        PROVE  Ledger!Next
    <2>1. pc[c] \in Writing /\ Land(Request(c)) /\ Request(c) \in Requests
      BY <1>3, StoreMoves, RequestTyping DEF store
    <2>2. /\ Request(c) \in LedgerRequests /\ Current(Request(c).match)
          /\ ledger' = [tag |-> ledgerTags + 1, content |-> Request(c).body]
      BY <1>3, <2>1, LedgerLanding
    <2>3. pc[c] = "write"
      BY <2>1, <2>2, RequestIs DEF Writing, LedgerRequests
    <2>4. /\ seen[c].content = LedgerContent
          /\ drawn[c] \in Artifacts(LedgerContent, PlanOf[c])
      BY <2>2, <2>3, RequestIs DEF LedgerInv, ReadsAreCurrent, TypeOK, DrawnOK
    <2>5. Request(c).body = LedgerAfter(LedgerContent, drawn[c])
      BY <2>3, <2>4, RequestIs
    <2>6. QED
      BY <1>2, <2>1, <2>2, <2>4, <2>5
  <1>4. ASSUME NEW r \in wire, LandLate(r), ledger' # ledger
        PROVE  Ledger!Next
    <2>1. Land(r) /\ r \in Requests
      BY <1>4 DEF LandLate, TypeOK, WireOK
    <2>2. /\ r \in LedgerRequests /\ Current(r.match)
          /\ ledger' = [tag |-> ledgerTags + 1, content |-> r.body]
      BY <1>4, <2>1, LedgerLanding
    <2>3. r.by \in Calls /\ \E a \in Artifacts(LedgerContent, PlanOf[r.by]) :
                                r.body = LedgerAfter(LedgerContent, a)
      BY <2>2 DEF LedgerInv, LateLedgers, LedgerRequests
    <2>4. QED
      BY <1>2, <2>1, <2>2, <2>3
  <1>5. QED
    BY <1>1, <1>3, <1>4 DEF Next, Done, Acts, vars, store

(* The ledger object and its compare-and-swap writes implement the           *)
(* sequential ledger, so nothing it hands out is ever handed out again, also *)
(* to callers whose lease expired. Without etags in the answers a late write *)
(* may still undo a burn that was not published, hence the hypothesis.       *)
THEOREM CasImplementsLedger == Spec /\ Etagged => ImplementsLedger
  <1>1. Init => Ledger!Init
    BY SameAllocation DEF Init, Ledger!Init, LedgerContent, InitialLedgers
  <1>2. TypeOK /\ LeaseInv /\ LedgerInv /\ Guarded /\ Etagged /\ [Next]_<<vars, regime>>
        => [Ledger!Next]_LedgerContent
    BY LedgerRefines DEF Etagged
  <1>3. Etagged => Guarded
    BY DEF Etagged, Guarded
  <1>4. Etagged /\ [Next]_<<vars, regime>> => Etagged'
    BY DEF Etagged, Next
  <1>5. QED
    BY <1>1, <1>2, <1>3, <1>4, GuardedInvariant, PTL
       DEF Spec, ImplementsLedger, Ledger!Spec

=============================================================================
