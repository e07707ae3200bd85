SPECIFICATION FairSpec
CONSTANTS
    r1 = r1
    r2 = r2
    r3 = r3
    x1 = x1
    x2 = x2
    Absent = Absent
    Runs = {r1, r2, r3}
    Inputs = {x1, x2}
    Loads <- MCLoads
    Regimes <- MCRepeats
PROPERTY
    NoUnnoticedRepeat
