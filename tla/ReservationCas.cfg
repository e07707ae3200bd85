SPECIFICATION Spec
CONSTANTS
    t1 = t1
    d1 = d1
    g1 = g1
    x1 = x1
    k1 = k1
    k2 = k2
    k3 = k3
    u1 = u1
    u2 = u2
    Absent = Absent
    Tables = {t1}
    Dates = {d1}
    Groups = {g1}
    Prefixes <- MCPrefixes
    MaxOrdinal = 4
    CdbPrefixes = {x1}
    CdbMin = 10
    CdbMax = 14
    Calls = {k1, k2, k3}
    Uris = {u1, u2}
    PlanOf <- MCPlanOf
    UriOf <- MCUriOf
    MaxCasAttempts = 2
    Regimes <- MCBoth
    LegacyPrefix = 100
    LegacyMarks <- MCLegacyMarks
    MaxReservations = 9
INVARIANTS
    SerializedByLease
    PublishedNeverClash
    BurnedBeforePublished
    DoneMeansPublished
PROPERTIES
    NoForeignRelease
