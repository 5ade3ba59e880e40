---------------------------- MODULE MC_SyncTable ----------------------------
(***************************************************************************)
(* Model-checking instance of SyncTable: two replicas and three hashes,    *)
(* two of them in bucket 00 (so a bucket can be conflicted) and one in     *)
(* bucket 01 (so a bucket can be held by one side only).                   *)
(***************************************************************************)
EXTENDS SyncTable

CONSTANTS A, B

MCReplicas == {A, B}
MCHashes == {<<0, 0, 0>>, <<0, 0, 1>>, <<0, 1, 0>>}
MCPrefixes == {<<0, 0>>, <<0, 1>>}

\* One hash per bucket, for the liveness run.
MCHashes2 == {<<0, 0, 0>>, <<0, 1, 0>>}
=============================================================================
