SPECIFICATION Spec
CONSTANTS
    t1 = t1
    d1 = d1
    d2 = d2
    g1 = g1
    g2 = g2
    c1 = c1
    c2 = c2
    Absent = Absent
    Tables = {t1}
    Dates = {d1, d2}
    Groups = {g1, g2}
    Prefixes <- MCPrefixes
    MaxOrdinal = 5
    CdbPrefixes = {c1, c2}
    CdbMin = 10
    CdbMax = 14
    Plans <- MCPlans
    LegacyPrefix = 100
    LegacyMarks <- MCLegacyMarks
    MaxReservations = 4
INVARIANTS
    TypeOK
    NoPkReuse
    NoMeuReuse
    NoCdbReuse
    WithinCapacity
PROPERTY
    MarksOnlyRise
CHECK_DEADLOCK FALSE
