\* Two uploads sharing a chunk and a PutMeta of one of their nodes, with
\* Close, restarts and index rebuilds.
SPECIFICATION FairSpec
CONSTANTS
    a = a
    b = b
    m1 = m1
    m2 = m2
    u1 = u1
    u2 = u2
    u3 = u3
    Hashes <- MCHashes
    Uploaders <- MCUploadersMeta
    MetaOnly <- MCMetaOnly
    Chunks <- MCChunks
    MetaOf <- MCMetaOf
    BlobSize <- MCSizes
    MaxBlobsFileSize = 45
    TornLen = 10
    MaxPuts = 6
    MaxDeletes = 0
    CrashEnabled = FALSE
    RescanEnabled = TRUE
    PutIfAbsent = FALSE
    SameHashOverlap = FALSE
    NoPos = NoPos
INVARIANTS
    IndexRebuildable
PROPERTY
    UploadEnds
    UploadLeadsToStored
