------------------------------- MODULE MC_Lists -------------------------------
EXTENDS Lists

CONSTANTS k1, r1, r2, c1, c2

MCKeys == {k1}
MCValues == {r1, r2}
MCCallers == {c1, c2}
MCIndexes == {0, 1}

=============================================================================
