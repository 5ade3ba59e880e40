--------------------------- MODULE MC_FileTreeShare ---------------------------
EXTENDS FileTreeShare, TLC

CONSTANTS R, D, I, Q, G, P

\* R (private dir) holds D and Q; D (private dir) holds index.html I and G;
\* Q (private dir) holds G, so G is at depth 2 below R both ways; P is a
\* public dir holding Q.  The owner shares R and G.
MCNodes == {R, D, I, Q, G, P}
MCKids == (R :> {D, Q}) @@ (D :> {I, G}) @@ (Q :> {G}) @@ (P :> {Q})
              @@ [n \in {I, G} |-> {}]
MCType == [n \in MCNodes |-> IF n \in {I, G} THEN "file" ELSE "dir"]
MCIsIndex == [n \in MCNodes |-> n = I]
MCPublic == [n \in MCNodes |-> n = P]
MCShareable == {R, G}

====
