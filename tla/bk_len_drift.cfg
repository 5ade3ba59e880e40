\* Two savers of one backup name, no failing command: two Saves in the
\* same second.
SPECIFICATION Spec
CONSTANTS
    n1 = n1
    r1 = r1
    r2 = r2
    s1 = s1
    s2 = s2
    c1 = c1
    Nil = Nil
    Keys <- MCKeys
    Values <- MCValues
    Indexes <- MCIndexes
    Callers <- MCCallersSaversOnly
    Savers <- MCSavers
    MaxTime = 1
    MaxCalls = 3
    ErrorsEnabled = FALSE
INVARIANTS
    LenCountsMembers
CHECK_DEADLOCK FALSE
