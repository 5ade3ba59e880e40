\* A Delete racing the rollover of a Put; no crash.
SPECIFICATION Spec
CONSTANTS
    a = a
    b = b
    Hashes <- MCHashes
    BlobSize <- SizesApart
    MaxBlobsFileSize = 45
    TornLen = 10
    MaxPuts = 2
    MaxDeletes = 1
    CrashEnabled = FALSE
    RescanEnabled = FALSE
    PutIfAbsent = TRUE
    SameHashOverlap = FALSE
    NoPos = NoPos
INVARIANTS
    CommittedReadable
