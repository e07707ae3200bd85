--------------------------- MODULE PersistedLedger --------------------------
(***************************************************************************)
(* The ledger as the object it is stored as (scripts/run_pipeline.py): how *)
(* it starts out, the structure _validate_ledger insists on, and what its  *)
(* marks have to do with its history.                                      *)
(***************************************************************************)
EXTENDS LedgerAllocation

CONSTANTS
    LegacyPrefix,     \* the prefix a schema-1 ledger had been using
    LegacyMarks       \* how many ordinals it may have handed out

ASSUME LegacyIsPossible ==
    /\ LegacyPrefix \in Prefixes
    /\ LegacyMarks \subseteq 0 .. MaxOrdinal
    /\ Dates # {}

\* Schema-2 intervals carry a date nothing looks at.
AnyDate == CHOOSE d \in Dates : TRUE

(* A ledger object that does not exist reads as EmptyLedger; one written by *)
(* the schema-1 code is migrated: its prefix marks become legacy_prefixes,  *)
(* no group is known yet and its history is kept.                           *)
MigratedLedger(used) ==
    [ EmptyLedger EXCEPT
        !.legacy  = [EmptyLedger.legacy EXCEPT ![LegacyPrefix] = used + 1],
        !.history = << [ pk  |-> [t \in Tables |-> Absent],
                         meu |-> [ schema |-> 2,
                                   date   |-> AnyDate,
                                   groups |-> {},
                                   prefix |-> LegacyPrefix,
                                   start  |-> 1,
                                   end    |-> used ],
                         cdb |-> Absent ] >> ]

InitialLedgers == {EmptyLedger} \cup {MigratedLedger(used) : used \in LegacyMarks \ {0}}

-----------------------------------------------------------------------------
(* The structure of an artifact and of a ledger.                            *)

ArtifactShape ==
    [ pk  : [Tables -> [start : Int, end : Int, step : Nat \ {0}] \cup {Absent}],
      meu : [ schema : {2, 3}, date : Dates, groups : SUBSET Groups,
              prefix : Prefixes, start : Int, end : Int ] \cup {Absent},
      cdb : [prefix : CdbPrefixes, count : Nat, start : Int, end : Int] \cup {Absent} ]

LedgerShape ==
    [ pks     : [Tables -> Int \cup {Absent}],
      legacy  : [Prefixes -> 1 .. MaxOrdinal + 1],
      groups  : [MeuMarks -> 1 .. MaxOrdinal + 1],
      history : Seq(ArtifactShape) ]

-----------------------------------------------------------------------------
(* Why nothing is handed out twice: the marks lie above the history.        *)

PkCovered(l) ==
    \A i \in DOMAIN l.history : \A t \in Tables :
        l.history[i].pk[t] # Absent => /\ l.pks[t] # Absent
                                       /\ l.history[i].pk[t].end < l.pks[t]

MeuCovered(l) ==
    \A i \in DOMAIN l.history :
        l.history[i].meu # Absent =>
            /\ l.history[i].meu.end <= MaxOrdinal
            /\ l.history[i].meu.schema = 2 =>
                  l.history[i].meu.end < l.legacy[l.history[i].meu.prefix]
            /\ l.history[i].meu.schema = 3 =>
                  /\ l.history[i].meu.groups # {}
                  /\ \A m \in MeuMarks :
                        Covers(l.history[i].meu, m) => l.history[i].meu.end < l.groups[m]

\* A code interval has exactly the length its count says.
CdbMeasured(l) ==
    \A i \in DOMAIN l.history :
        l.history[i].cdb # Absent =>
            /\ l.history[i].cdb.end = l.history[i].cdb.start + l.history[i].cdb.count - 1
            /\ l.history[i].cdb.end <= CdbMax

MarksCover(l) == PkCovered(l) /\ MeuCovered(l) /\ CdbMeasured(l)
=============================================================================
