---------------------------- MODULE MC_BlobsFile ----------------------------
(***************************************************************************)
(* Model-checking instances of BlobsFile.  Two blobs; their payload sizes  *)
(* and the container limit are chosen so that a rollover happens after     *)
(* one or two frames (the limit is far below the 256 MiB default, which  *)
(* only scales the same comparison).                                       *)
(***************************************************************************)
EXTENDS BlobsFile

CONSTANTS a, b

MCHashes == {a, b}

\* Payload sizes: different, or equal (two blobs whose frames could be
\* mistaken for each other's by length).
SizesApart == [h \in MCHashes |-> IF h = a THEN 1 ELSE 2]
SizesEqual == [h \in MCHashes |-> 1]

=============================================================================
