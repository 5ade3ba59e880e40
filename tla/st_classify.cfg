\* Two replicas triggering syncs at each other while blobs are written;
\* nsdb lists hashes in any order (spec 4.8, the FIXME at list.go:238).
SPECIFICATION Spec
CONSTANTS
    A = A
    B = B
    Replicas <- MCReplicas
    Hashes <- MCHashes
    Prefixes <- MCPrefixes
    NamespaceSorted = FALSE
INVARIANTS
    TypeOK
    ResponseCoversDifference
