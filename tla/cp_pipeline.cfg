\* Two callers Put blobs and Stop, one of them calls ProcessBlobs; two workers.
CONSTANTS
    h1 = h1
    h2 = h2
    c1 = c1
    c2 = c2
    w1 = w1
    w2 = w2
    Hashes <- MCHashes
    Callers <- MCCallers
    Workers <- MCWorkers
    PutErrors = TRUE
    MaxPuts = 3
    NoHash = NoHash
SPECIFICATION FairSpec
INVARIANTS
    TypeOK
    ReadAfterStop
PROPERTIES
    AckedStored
    StopEnds
\* A worker whose upload fails panics and ends the process: a final state.
CHECK_DEADLOCK FALSE
