\* Puts with rollover under machine crashes; the index directory is kept.
SPECIFICATION Spec
CONSTANTS
    a = a
    b = b
    Hashes <- MCHashes
    BlobSize <- SizesApart
    MaxBlobsFileSize = 45
    TornLen = 10
    MaxPuts = 3
    MaxDeletes = 0
    CrashEnabled = TRUE
    RescanEnabled = FALSE
    PutIfAbsent = TRUE
    SameHashOverlap = FALSE
    NoPos = NoPos
INVARIANTS
    CommittedReadable
\* A crash during a rollover leaves a container without its magic: load()
\* then fails on every start and the store stays down.
CHECK_DEADLOCK FALSE
