------------------------------- MODULE MC_Apps -------------------------------
EXTENDS Apps

CONSTANTS a1, a2, a3, unknown, ia

\* a1: a proxy behind basic auth on its own domain; a2: a gluapp app from a
\* local path, no auth; a3: a remote app behind IndieAuth, scheduled.
MCAppNames == {a1, a2, a3}
MCConf ==
    [a \in MCAppNames |->
        [basic |-> a = a1, indieauth |-> a = a3, path |-> a = a2,
         remote |-> a = a3, proxy |-> a = a1, scheduled |-> a = a3,
         domain |-> a = a1]]
MCNames == MCAppNames \cup {unknown}
\* "/", "\", "." and "x", any other character.
MCChars == {"/", "\\", ".", "x"}

====
