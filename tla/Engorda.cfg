SPECIFICATION Spec
CONSTANTS
    Null = Null
    Absent = Absent
    d1 = d1
    Schema <- MCSchema
    Products <- MCProducts
    MaxPassadas = 4
    LastrosPorLote = 2
    Tables <- MCTables
    Dates = {d1}
    Groups <- MCGroups
    Prefixes = {100}
    MaxOrdinal = 12
    CdbPrefixes = {"CDB7"}
    LegacyPrefix = 100
    LegacyMarks = {}
    CdbMin = 1
    CdbMax = 9
    Jobs = {"lci", "short", "cdb", "old", "wrong", "lca"}
    JobOf <- MCJobOf
    Beginnings <- MCBeginnings
    Rereads <- MCRereads
    Inserts <- MCInserts
    Step = 1
    SafetyBand = 1
    PkOffset = 30
    CodePrefix = "CDB7"
    MaxEvents = 2
INVARIANTS
    FamiliesStayTogether
    ReferencesResolve
    OutputWithinReservation
    NothingCollides
    OutputFollowsPlan
