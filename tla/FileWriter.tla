----------------------------- MODULE FileWriter -----------------------------
(***************************************************************************)
(* The file writer (src/pkg/filetree/writer/filewriter.go) uploading files *)
(* into the BlobsFile store.  Each Uploader call (putFile or PutReader)    *)
(* runs writeReader: for every chunk the chunker cuts it Stats the chunk's *)
(* hash and Puts the chunk only when Stat says it is absent, then encodes *)
(* the meta node and Stats-then-Puts it the same way.  Several uploads run *)
(* at once against one store; Stat reads the index without the mutex, Put *)
(* takes it.                                                               *)
(*                                                                         *)
(* A chunk is the hash of its data (the chunker is deterministic, so the   *)
(* cut of a file is given as Chunks[u]); the meta node is the hash         *)
(* MetaOf[u] its encoding gets.                                            *)
(***************************************************************************)
EXTENDS Integers, Sequences, FiniteSets

CONSTANTS
    Hashes, BlobSize, MaxBlobsFileSize, TornLen, MaxPuts, MaxDeletes,
    CrashEnabled, RescanEnabled, PutIfAbsent, SameHashOverlap, NoPos,
    Uploaders,   \* the concurrent upload calls
    Chunks,      \* Chunks[u]: the hashes of the chunks of u's file, in order
    MetaOf,      \* MetaOf[u]: the hash of the meta node u's upload encodes
    MetaOnly     \* the calls that are PutMeta / RenameMeta of a built node

ASSUME /\ Chunks \in [Uploaders -> Seq(Hashes)]
       /\ MetaOf \in [Uploaders -> Hashes]
       /\ MetaOnly \subseteq Uploaders

VARIABLES
    files, index, indexExists, savedN, status, n, size, wr, dl, dirty, scanAt,
    committed, puts, deletes,
    upl          \* upl[u]: the upload call u

BF == INSTANCE BlobsFile

bfVars == <<files, index, indexExists, savedN, status, n, size, wr, dl, dirty,
            scanAt, committed, puts, deletes>>
fwVars == <<files, index, indexExists, savedN, status, n, size, wr, dl, dirty,
        scanAt, committed, puts, deletes, upl>>

-----------------------------------------------------------------------------
(* An upload: pc is where writeReader / putFile is, i the next chunk, cur  *)
(* the hash being Stat'd or Put, meta whether cur is the meta node.        *)

UpIdle == [pc |-> "idle", i |-> 1, cur |-> NoPos, meta |-> FALSE]

Init == BF!Init /\ upl = [u \in Uploaders |-> UpIdle]

\* StartUpload; putFile's os.Stat finds the file (an empty one skips
\* writeReader, which then sees EOF at once: the same steps).
Begin(u) ==
    /\ upl[u].pc = "idle" /\ u \notin MetaOnly
    /\ upl' = [upl EXCEPT ![u].pc = "chunk"]
    /\ UNCHANGED bfVars

\* PutMeta (and RenameMeta, after setting meta.Name): meta.Encode, then the
\* Stat-then-Put of the node alone, with no StartUpload and no chunk loop.
BeginMeta(u) ==
    /\ upl[u].pc = "idle" /\ u \in MetaOnly
    /\ upl' = [upl EXCEPT ![u] = [@ EXCEPT !.pc = "stat", !.cur = MetaOf[u],
                                           !.meta = TRUE]]
    /\ UNCHANGED bfVars

\* chunkSplitter.Next: the next chunk and its hash; at io.EOF, meta.Size and
\* ContentHash are set and meta.Encode gives the meta node's hash.
NextChunk(u) ==
    /\ upl[u].pc = "chunk"
    /\ upl' = [upl EXCEPT ![u] =
                 IF upl[u].i > Len(Chunks[u])
                 THEN [@ EXCEPT !.pc = "stat", !.cur = MetaOf[u], !.meta = TRUE]
                 ELSE [@ EXCEPT !.pc = "stat", !.cur = Chunks[u][upl[u].i]]]
    /\ UNCHANGED bfVars

\* Mutant: the ref is recorded and the chunker is asked for the same chunk
\* again.
AddRefStay(x) == x

\* meta.AddIndexedRef, and the loop moves on to the next chunk; after the
\* meta node, putFile returns the node.
AddRef(x) ==
    IF x.meta THEN [x EXCEPT !.pc = "done"]
    ELSE [x EXCEPT !.pc = "chunk", !.i = @ + 1]

\* Mutant: the test of Stat's answer inverted.
NeedsPutInverted(h) == index[h] # NoPos

\* bs.Stat (BlobsFile Exists: an index lookup) said the blob is absent.
NeedsPut(h) == index[h] = NoPos

\* bs.Stat, then Put only if absent; a present blob is just referenced.
StatBlob(u) ==
    /\ upl[u].pc = "stat" /\ status = "up"
    /\ upl' = [upl EXCEPT ![u] =
                 IF ~NeedsPut(upl[u].cur) THEN AddRef(@) ELSE [@ EXCEPT !.pc = "put"]]
    /\ UNCHANGED bfVars

\* Stat or Put returns an error while the store is not serving: writeReader
\* panics on a chunk, putFile returns the error on the meta node.
CallFails(u) ==
    /\ upl[u].pc \in {"stat", "put"} /\ status # "up"
    /\ upl' = [upl EXCEPT ![u].pc = "failed"]
    /\ UNCHANGED bfVars

\* bs.Put: the Put call takes the backend mutex (BlobsFile PutLock).
PutBlob(u) ==
    /\ upl[u].pc = "put"
    /\ BF!PutLock(upl[u].cur)
    /\ upl' = [upl EXCEPT ![u].pc = "wait"]

\* Put returns once its frame is written and synced: the ref is recorded.
PutReturns(u) ==
    /\ upl[u].pc = "wait"
    /\ BF!PutWrite
    /\ upl' = [upl EXCEPT ![u] = AddRef(@)]

\* The Put holding the mutex: rollover, then the index entry.
PutSteps == (BF!PutMagic \/ BF!PutSetPos) /\ UNCHANGED upl

\* Close, restart and index rebuild of the store.
StoreSteps ==
    /\ BF!Stop \/ BF!Start \/ BF!WipeIndex \/ BF!ReindexStep
    /\ UNCHANGED upl

Next ==
    \/ \E u \in Uploaders :
         \/ Begin(u) \/ BeginMeta(u) \/ NextChunk(u) \/ StatBlob(u)
         \/ CallFails(u) \/ PutBlob(u) \/ PutReturns(u)
    \/ PutSteps \/ StoreSteps

Spec == Init /\ [][Next]_fwVars

\* Disk writes return and an upload's next call is made: every step of an
\* upload, and of the Put holding the mutex, is weakly fair.  Close and
\* restart are the operator's and get no fairness.
FairSpec ==
    /\ Spec
    /\ \A u \in Uploaders :
         WF_fwVars(Begin(u) \/ BeginMeta(u) \/ NextChunk(u) \/ StatBlob(u)
                 \/ CallFails(u) \/ PutBlob(u) \/ PutReturns(u))
    /\ WF_fwVars(PutSteps)

-----------------------------------------------------------------------------
(* Properties *)

Ended(u) == upl[u].pc \in {"done", "failed"}

\* The blobs a returned upload references: its chunks and its meta node.
UploadBlobs(u) == {Chunks[u][k] : k \in DOMAIN Chunks[u]} \cup {MetaOf[u]}

AllReadable(u) == \A h \in UploadBlobs(u) : BF!GetOutcome(h) = "ok"

\* Readable, or, while the index is being or waiting to be rebuilt, in the
\* index the rebuild gives (the store contents of the BlobStore mapping).
AllStored(u) == UploadBlobs(u) \subseteq BF!Stored

\* Every putFile / PutReader call returns (a node or an error): the chunk
\* loop of writeReader moves past every chunk, and a Put that took the mutex
\* finishes, whatever restarts and rebuilds the store goes through.
UploadEnds == <>(\A u \in Uploaders : Ended(u))

\* Once an upload has returned its meta node, every chunk it references and
\* the node itself are eventually stored and read back intact by Get,
\* although some were skipped because Stat found them (maybe while a
\* concurrent upload was still putting them).
UploadLeadsToStored ==
    \A u \in Uploaders : (upl[u].pc = "done") ~> AllStored(u)

\* Whenever the store serves, every blob a returned upload references is
\* read back intact by Get (spec 5: put establishes happens-before with a
\* later get, and a position record is immutable once written).
UploadedReadable ==
    \A u \in Uploaders : upl[u].pc = "done" /\ status = "up" => AllReadable(u)

\* The index stays what reindex() would rebuild when the store is quiet,
\* although concurrent uploads Put the same chunk twice.
IndexRebuildable == BF!IndexRebuildable

====
