------------------------------ MODULE MC_Backup ------------------------------
EXTENDS Backup

CONSTANTS n1, r1, r2, s1, s2, c1

MCKeys == {n1}
MCValues == {r1, r2}
MCIndexes == 0 .. 1
MCCallers == {s1, s2, c1}
MCSavers == {s1, s2}
\* Saves alone: no other list client.
MCCallersSaversOnly == {s1, s2}
MCOneSaver == {s1}

=============================================================================
