-------------------------------- MODULE FsMap --------------------------------
(***************************************************************************)
(* What a filetree FS promises its clients: a map from paths to file      *)
(* contents.  A POST of a file at a path sets that path's content, leaving *)
(* every other path as it was.  The content is the set of <<path, c>>      *)
(* pairs a listing of the FS shows.                                        *)
(***************************************************************************)
EXTENDS FiniteSets, Sequences

CONSTANTS
    Paths,      \* the paths files are posted at (sequences of names)
    Contents    \* file contents

VARIABLE files  \* the <<path, content>> pairs the FS lists

Init == files = {}

Post(p, c) == files' = {x \in files : x[1] # p} \cup {<<p, c>>}

Next == \E p \in Paths, c \in Contents : Post(p, c)

Spec == Init /\ [][Next]_files

====
