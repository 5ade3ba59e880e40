\* A crash between the index update and the write of a Put; equal sizes.
SPECIFICATION Spec
CONSTANTS
    a = a
    b = b
    Hashes <- MCHashes
    BlobSize <- SizesEqual
    MaxBlobsFileSize = 1000
    TornLen = 10
    MaxPuts = 2
    MaxDeletes = 0
    CrashEnabled = TRUE
    RescanEnabled = FALSE
    PutIfAbsent = TRUE
    SameHashOverlap = FALSE
    NoPos = NoPos
INVARIANTS
    GetNeverWrong
\* A crash during a rollover leaves a container without its magic: load()
\* then fails on every start and the store stays down.
CHECK_DEADLOCK FALSE
