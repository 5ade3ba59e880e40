\* Every stored set of three hashes, every start, end and limit.
CONSTANTS
    Hashes <- MCHashes
    BlobPosKey <- MCBlobPosKey
    CounterKey <- MCCounterKey
    Starts <- MCStarts
    Ends <- MCEnds
    Limits <- MCLimits
SPECIFICATION Spec
INVARIANT EnumeratesRange
CHECK_DEADLOCK FALSE
