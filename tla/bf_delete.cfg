\* Puts, re-puts after delete and Deletes, restarts and index rebuilds; one container.
SPECIFICATION Spec
CONSTANTS
    a = a
    b = b
    Hashes <- MCHashes
    BlobSize <- SizesEqual
    MaxBlobsFileSize = 1000
    TornLen = 10
    MaxPuts = 3
    MaxDeletes = 2
    CrashEnabled = FALSE
    RescanEnabled = TRUE
    PutIfAbsent = TRUE
    SameHashOverlap = FALSE
    NoPos = NoPos
INVARIANTS
    TypeOK
    GetNeverWrong
    GetNeverPanics
    CommittedReadable
    IndexRebuildable
PROPERTY
    BlobStoreRefinement
