-------------------------- MODULE LedgerAllocation --------------------------
(***************************************************************************)
(* How the reservation ledger hands out synthetic key ranges:              *)
(* _allocate_artifact and _reserve_cdb_codes of scripts/run_pipeline.py.   *)
(*                                                                         *)
(* One ledger per environment keeps three kinds of high-water marks:       *)
(*   - per table, the next free numeric primary key (table_pks);           *)
(*   - per three-digit prefix, the next meu-number ordinal, either for all *)
(*     operations (legacy_prefixes, plan schema 2) or per operational date *)
(*     and account group (groups, plan schema 3);                          *)
(*   - per CDB code prefix, nothing of its own: the history of earlier     *)
(*     reservations is the high-water mark of the base-36 suffixes.        *)
(*                                                                         *)
(* The operators below are relations on a ledger, a plan and the artifact  *)
(* the code would build; they hold no state, so that the sequential        *)
(* specification (RangeLedger) and the concurrent one (Reservation) share  *)
(* them.                                                                   *)
(***************************************************************************)
EXTENDS Integers, Sequences

CONSTANTS
    Tables,       \* tables with a numeric primary key of their own
    Dates,        \* operational dates
    Groups,       \* (account, operation type) groups, hashed in the plan
    Prefixes,     \* meu-number prefixes: MIN_..MAX_MEU_NUMERO_PREFIX
    MaxOrdinal,   \* MAX_MEU_NUMERO_ORDINAL
    CdbPrefixes,  \* month/year code prefixes, CDBmyy
    CdbMin,       \* CDB_MIN_SUFFIX
    CdbMax,       \* CDB_MAX_SUFFIX
    Absent        \* a key that a JSON object does not have, or None

ASSUME PrefixesAreNumbers == Prefixes \subseteq Int
ASSUME MaxOrdinalIsNat == MaxOrdinal \in Nat
ASSUME CdbBounds == CdbMin \in Nat /\ CdbMax \in Nat /\ CdbMin <= CdbMax
ASSUME AbsentIsNoNumber == Absent \notin Int

-----------------------------------------------------------------------------
(* Plans, as _validate_plan accepts them.                                   *)

PkRequest == [count : Nat, step : Nat \ {0}, minimum : Int]

CdbRequest == [prefix : CdbPrefixes, count : Nat, minimum : CdbMin .. CdbMax + 1]

PlanShape ==
    [ schema    : {2, 3},
      pk        : [Tables -> PkRequest],
      date      : Dates,
      groups    : SUBSET Groups,
      ordinals  : Nat,
      requested : Prefixes \cup {Absent},
      cdb       : CdbRequest \cup {Absent} ]

\* A schema-3 plan asks for ordinals exactly when it names a group; a
\* schema-2 plan names none; a CDB request must fit below CDB_MAX_SUFFIX.
ValidPlan(plan) ==
    /\ plan \in PlanShape
    /\ plan.schema = 3 => (plan.ordinals = 0 <=> plan.groups = {})
    /\ plan.schema = 2 => plan.groups = {}
    /\ plan.cdb # Absent => plan.cdb.minimum + plan.cdb.count - 1 <= CdbMax

-----------------------------------------------------------------------------
(* The ledger. An ordinal mark a JSON object lacks reads as 1, so the marks *)
(* are total functions; a table's next_start may really be absent.          *)

MeuMarks == Dates \X Prefixes \X Groups

EmptyLedger ==
    [ pks     |-> [t \in Tables |-> Absent],
      legacy  |-> [p \in Prefixes |-> 1],
      groups  |-> [m \in MeuMarks |-> 1],
      history |-> << >> ]

-----------------------------------------------------------------------------
(* Numeric primary keys.                                                    *)

\* Faulty variant: the floor of the plan wins over the mark.
PkStartFromFloor(ledger, table, request) == request.minimum

PkStart(ledger, table, request) ==
    IF ledger.pks[table] = Absent \/ ledger.pks[table] < request.minimum
    THEN request.minimum
    ELSE ledger.pks[table]

PkRange(ledger, table, request) ==
    LET start == PkStart(ledger, table, request)
    IN  [ start |-> start,
          end   |-> start + (request.count - 1) * request.step,
          step  |-> request.step ]

PkRanges(ledger, plan) ==
    [ t \in Tables |-> IF plan.pk[t].count = 0
                       THEN Absent
                       ELSE PkRange(ledger, t, plan.pk[t]) ]

\* Faulty variant: the next start is the last key of the range.
PkMarksAtEnd(ledger, ranges) ==
    [t \in Tables |-> IF ranges[t] = Absent THEN ledger.pks[t] ELSE ranges[t].end]

PkMarksAfter(ledger, ranges) ==
    [ t \in Tables |-> IF ranges[t] = Absent
                       THEN ledger.pks[t]
                       ELSE ranges[t].end + ranges[t].step ]

-----------------------------------------------------------------------------
(* Meu-number ordinals: the first prefix, in increasing order, whose        *)
(* interval above every relevant mark still fits.                           *)

\* Faulty variant: schema-3 plans forget what schema-2 plans were given.
MeuFloorsWithoutLegacy(ledger, plan, prefix) ==
    {1} \cup {ledger.groups[m] : m \in { n \in MeuMarks :
        n[2] = prefix /\ (plan.schema = 3 => n[1] = plan.date /\ n[3] \in plan.groups) }}

MeuFloors(ledger, plan, prefix) ==
    {ledger.legacy[prefix]} \cup
    {ledger.groups[m] : m \in
        { n \in MeuMarks : /\ n[2] = prefix
                           /\ plan.schema = 3 => /\ n[1] = plan.date
                                                 /\ n[3] \in plan.groups }}

MeuCandidates(plan) ==
    IF plan.requested = Absent THEN Prefixes ELSE {plan.requested}

\* Faulty variant: one ordinal too many.
MeuFitsOneMore(ledger, plan, prefix) ==
    \A floor \in MeuFloors(ledger, plan, prefix) : floor + plan.ordinals - 2 <= MaxOrdinal

MeuFits(ledger, plan, prefix) ==
    \A floor \in MeuFloors(ledger, plan, prefix) :
        floor + plan.ordinals - 1 <= MaxOrdinal

FirstFit(ledger, plan, prefix) ==
    /\ prefix \in MeuCandidates(plan)
    /\ MeuFits(ledger, plan, prefix)
    /\ \A other \in MeuCandidates(plan) :
          other < prefix => ~MeuFits(ledger, plan, other)

\* The artifact's interval [prefix, start, end], or Absent when the plan
\* asks for no ordinal. The set is empty when every candidate is exhausted.
MeuIntervals(ledger, plan) ==
    IF plan.ordinals = 0
    THEN {Absent}
    ELSE { [ schema |-> plan.schema, date |-> plan.date, groups |-> plan.groups,
             prefix |-> c[1], start |-> c[2], end |-> c[2] + plan.ordinals - 1 ] :
           c \in { d \in Prefixes \X (1 .. MaxOrdinal + 1) :
                     /\ FirstFit(ledger, plan, d[1])
                     /\ d[2] \in MeuFloors(ledger, plan, d[1])
                     /\ \A floor \in MeuFloors(ledger, plan, d[1]) : floor <= d[2] } }

LegacyAfter(ledger, meu) ==
    IF meu = Absent \/ meu.schema = 3
    THEN ledger.legacy
    ELSE [ledger.legacy EXCEPT ![meu.prefix] = meu.end + 1]

\* The mark m belongs to the groups the interval was reserved for.
Covers(meu, m) == m[1] = meu.date /\ m[2] = meu.prefix /\ m[3] \in meu.groups

GroupsAfter(ledger, meu) ==
    [ m \in MeuMarks |-> IF meu # Absent /\ meu.schema = 3 /\ Covers(meu, m)
                         THEN meu.end + 1
                         ELSE ledger.groups[m] ]

-----------------------------------------------------------------------------
(* Synthetic CDB codes: _reserve_cdb_codes walks the whole history.         *)

\* Faulty variant: only the last reservation counts.
CdbFloorsOfLast(ledger, request) ==
    {request.minimum} \cup
    { ledger.history[i].cdb.end + 1 : i \in
        { j \in DOMAIN ledger.history :
            /\ j = Len(ledger.history)
            /\ ledger.history[j].cdb # Absent
            /\ ledger.history[j].cdb.prefix = request.prefix } }

CdbFloors(ledger, request) ==
    {request.minimum} \cup
    { ledger.history[i].cdb.end + 1 : i \in
        { j \in DOMAIN ledger.history :
            /\ ledger.history[j].cdb # Absent
            /\ ledger.history[j].cdb.count > 0
            /\ ledger.history[j].cdb.prefix = request.prefix } }

CdbIntervals(ledger, plan) ==
    IF plan.cdb = Absent
    THEN {Absent}
    ELSE { [ prefix |-> plan.cdb.prefix, count |-> plan.cdb.count,
             start |-> s, end |-> s + plan.cdb.count - 1 ] :
           s \in { f \in CdbFloors(ledger, plan.cdb) :
                     /\ \A floor \in CdbFloors(ledger, plan.cdb) : floor <= f
                     /\ f + plan.cdb.count - 1 <= CdbMax } }

-----------------------------------------------------------------------------
(* _allocate_artifact: the artifact (none when something is exhausted), and *)
(* the ledger that records it.                                              *)

Artifacts(ledger, plan) ==
    { [pk |-> PkRanges(ledger, plan), meu |-> meu, cdb |-> cdb] :
        meu \in MeuIntervals(ledger, plan), cdb \in CdbIntervals(ledger, plan) }

\* Faulty variant: the marks are saved, the reservation is not recorded.
LedgerWithoutRecord(ledger, artifact) ==
    [ ledger EXCEPT !.pks = PkMarksAfter(ledger, artifact.pk),
                    !.legacy = LegacyAfter(ledger, artifact.meu),
                    !.groups = GroupsAfter(ledger, artifact.meu) ]

LedgerAfter(ledger, artifact) ==
    [ pks     |-> PkMarksAfter(ledger, artifact.pk),
      legacy  |-> LegacyAfter(ledger, artifact.meu),
      groups  |-> GroupsAfter(ledger, artifact.meu),
      history |-> Append(ledger.history, artifact) ]

-----------------------------------------------------------------------------
(* What two artifacts may not share.                                        *)

\* The same primary key slot of the same table.
PkSlots(range) ==
    { slot \in range.start .. range.end : (slot - range.start) % range.step = 0 }

PkClash(a, b) ==
    \E t \in Tables : /\ a.pk[t] # Absent
                      /\ b.pk[t] # Absent
                      /\ PkSlots(a.pk[t]) \cap PkSlots(b.pk[t]) # {}

\* The same control number for operations that could meet: a schema-2
\* interval is for every operation, a schema-3 one for its date and groups.
MeuMeet(m, n) ==
    \/ m.schema = 2
    \/ n.schema = 2
    \/ m.date = n.date /\ m.groups \cap n.groups # {}

MeuClash(a, b) ==
    /\ a.meu # Absent
    /\ b.meu # Absent
    /\ a.meu.prefix = b.meu.prefix
    /\ MeuMeet(a.meu, b.meu)
    /\ a.meu.start <= b.meu.end
    /\ b.meu.start <= a.meu.end

\* The same CDB code; an interval reserved for no codes is empty.
CdbClash(a, b) ==
    /\ a.cdb # Absent
    /\ b.cdb # Absent
    /\ a.cdb.prefix = b.cdb.prefix
    /\ (a.cdb.start .. a.cdb.end) \cap (b.cdb.start .. b.cdb.end) # {}

Clash(a, b) == PkClash(a, b) \/ MeuClash(a, b) \/ CdbClash(a, b)
=============================================================================
