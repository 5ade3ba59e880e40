------------------------------ MODULE BlobsFile ------------------------------
(***************************************************************************)
(* The BlobsFile storage engine of the blob store (package blobsfile, in   *)
(* src/pkg/filetree/filetree.go).  Blobs are appended as frames            *)
(*     hash[32] | flags[1] | size[4] | payload[size]                      *)
(* to numbered container files blobs-00000, blobs-00001, ... that start    *)
(* with a 6-byte magic.  An index maps a hash to (container, offset,       *)
(* size).  Put holds the backend mutex; Delete and Get take no lock.  At   *)
(* start-up load() reopens the containers and, when the index directory    *)
(* was missing, reindex() rebuilds the index by scanning them.             *)
(*                                                                         *)
(* A container is a sequence of segments with byte offsets: a frame, or    *)
(* junk (bytes that do not parse as a frame: a write cut short by a        *)
(* crash, or a hole).  Bytes are abstracted to what the code tells apart:  *)
(* which frame a byte offset falls in, whether a frame is intact, and its  *)
(* Deleted flag.  A hash stands for the blob it names.                     *)
(***************************************************************************)
EXTENDS Integers, Sequences, FiniteSets

CONSTANTS
    Hashes,            \* blob hashes; a hash stands for the blob it names
    BlobSize,          \* [Hashes -> Nat]: payload length encodeBlob gives a blob
    MaxBlobsFileSize,  \* backend.maxBlobsFileSize
    TornLen,           \* bytes of a frame on disk when a crash cuts its write short
    MaxPuts,           \* bound on the number of Put calls
    MaxDeletes,        \* bound on the number of Delete calls
    CrashEnabled,      \* whether the machine may crash (losing unsynced writes)
    RescanEnabled,     \* whether the operator may remove the index directory
    PutIfAbsent,       \* whether callers Stat a hash and Put it only when absent
    SameHashOverlap,   \* whether a Put and a Delete of one hash may overlap
    NoPos              \* no index entry; the hash field of junk

ASSUME /\ BlobSize \in [Hashes -> Nat]
       /\ MaxBlobsFileSize \in Nat
       /\ TornLen \in Nat \ {0}
       /\ MaxPuts \in Nat /\ MaxDeletes \in Nat
       /\ {CrashEnabled, RescanEnabled, PutIfAbsent, SameHashOverlap} \subseteq BOOLEAN
       /\ NoPos \notin Hashes

\* Constants of the on-disk format (filetree.go:839-878).
Overhead == 37        \* hash + flags + size
HashSize == 32        \* offset of the flags byte in a frame
MagicLen == 6         \* len("\x00Blobs")
Deleted  == 1         \* the Deleted flag

VARIABLES
    files,        \* the containers, files[c+1] is blobs-0000c
    index,        \* the BlobsIndex: hash -> position, or NoPos
    indexExists,  \* whether the blobs-index directory exists
    savedN,       \* the container number persisted by saveN
    status,       \* "up", "down", or "reindex" while load() rebuilds the index
    n,            \* backend.n: the container open for append
    size,         \* backend.size: the length the backend believes it has
    wr,           \* the Put holding the backend mutex
    dl,           \* the Delete in progress (Delete takes no lock)
    dirty,        \* Deleted-flag writes not yet flushed to disk
    scanAt,       \* the reindex cursor
    committed,    \* history: hashes whose Put returned and not deleted since
    puts,         \* number of Put calls made
    deletes       \* number of Delete calls made

vars == <<files, index, indexExists, savedN, status, n, size, wr, dl, dirty,
          scanAt, committed, puts, deletes>>

-----------------------------------------------------------------------------
(* Containers and their segments *)

Pos == [n : Nat, offset : Nat, size : Nat]
Seg == [h : Hashes \cup {NoPos}, flags : {0, Deleted}, size : Nat, off : Nat,
        len : Nat, intact : BOOLEAN]
Container == [magic : BOOLEAN, segs : Seq(Seg), stray : Nat]

\* The frame encodeBlob writes for blob h at byte offset o, flags 0.
Frame(h, o) == [h |-> h, flags |-> 0, size |-> BlobSize[h], off |-> o,
                len |-> Overhead + BlobSize[h], intact |-> TRUE]
Junk(o, l) == [h |-> NoPos, flags |-> 0, size |-> 0, off |-> o, len |-> l,
               intact |-> FALSE]
NewContainer == [magic |-> FALSE, segs |-> <<>>, stray |-> 0]

File(c) == files[c + 1]
Containers == 0 .. Len(files) - 1

\* Where the next write through the append descriptor lands.
SegsEnd(f) == IF f.segs = <<>> THEN MagicLen
              ELSE f.segs[Len(f.segs)].off + f.segs[Len(f.segs)].len
\* The file length (a stray single-byte write past the end extends it).
FileLen(f) == IF ~f.magic THEN 0
              ELSE IF f.stray > SegsEnd(f) THEN f.stray ELSE SegsEnd(f)

Covers(s, p) == s.off <= p /\ p < s.off + s.len

\* The effect of f.WriteAt([]byte{Deleted}, p): it sets the flags of the
\* frame whose flags byte is at p, damages any other segment covering p,
\* and past the end of the file it extends the file.
WriteFlagByte(f, p) ==
    LET hit == {i \in DOMAIN f.segs : Covers(f.segs[i], p)}
    IN  IF hit = {}
        THEN [f EXCEPT !.stray = IF p + 1 > @ THEN p + 1 ELSE @]
        ELSE LET i == CHOOSE j \in hit : TRUE
                 s == f.segs[i]
             IN  [f EXCEPT !.segs[i] =
                      IF s.h # NoPos /\ p = s.off + HashSize
                      THEN [s EXCEPT !.flags = Deleted]
                      ELSE [s EXCEPT !.intact = FALSE]]

\* fileutil.PunchHole(f, lo, len): zeroes the range; every segment it
\* touches no longer verifies.
PunchHole(f, lo, len) ==
    LET Hit(s) == len > 0 /\ s.off < lo + len /\ lo < s.off + s.len
    IN  [f EXCEPT !.segs = [i \in DOMAIN f.segs |->
                     IF Hit(f.segs[i]) THEN [f.segs[i] EXCEPT !.intact = FALSE]
                     ELSE f.segs[i]]]

-----------------------------------------------------------------------------
(* Reads: Get and the index a scan would rebuild *)

\* The outcome of Get(h) (filetree.go:1470-1513 with decodeBlob): "ok" is the
\* blob h, "wrong" is the bytes of another blob, "error" an error return and
\* "corrupt" the panic of decodeBlob on a hash mismatch.  decodeBlob checks
\* the payload against the hash stored in the frame read, not against h.
GetOutcome(h) ==
    IF index[h] = NoPos THEN "notfound"
    ELSE LET p  == index[h]
             f  == File(p.n)
             at == {i \in DOMAIN f.segs : f.segs[i].off = p.offset
                                          /\ f.segs[i].h # NoPos
                                          /\ f.segs[i].intact}
         IN  CASE p.offset + Overhead + p.size > FileLen(f) -> "error"
               [] at = {} -> "corrupt"
               [] OTHER ->
                    LET s == f.segs[CHOOSE i \in at : TRUE]
                    IN  CASE s.size = p.size -> IF s.h = h THEN "ok" ELSE "wrong"
                          [] s.size < p.size -> "error"
                          [] OTHER -> "corrupt"

\* Segment slots in scan order.
Slots == UNION {{<<c, i>> : i \in DOMAIN File(c).segs} : c \in Containers}
SegAt(x) == File(x[1]).segs[x[2]]
Before(x, y) == x[1] < y[1] \/ (x[1] = y[1] /\ x[2] < y[2])

\* scan() completes without an error and without corrupted blobs: no junk,
\* no stray bytes, every frame not flagged Deleted verifies.
ScanClean ==
    /\ \A x \in Slots : SegAt(x).h # NoPos
                        /\ (SegAt(x).flags = 0 => SegAt(x).intact)
    /\ \A c \in Containers : File(c).stray <= SegsEnd(File(c))

\* The index reindex() builds: the position of the last frame of each hash
\* that is not flagged Deleted and verifies.
ScanIndex ==
    [h \in Hashes |->
        LET L == {x \in Slots : SegAt(x).h = h /\ SegAt(x).flags = 0
                                /\ SegAt(x).intact}
        IN  IF L = {} THEN NoPos
            ELSE LET x == CHOOSE y \in L : \A z \in L \ {y} : Before(z, y)
                 IN  [n |-> x[1], offset |-> SegAt(x).off, size |-> SegAt(x).size]]

\* Mutant: the container number taken one too high.
ScanPosNextFile(c, s) == [n |-> c + 1, offset |-> s.off, size |-> s.size]

\* Mutant: the position taken after the offset has moved past the frame.
ScanPosAfterFrame(c, s) == [n |-> c, offset |-> s.off + s.len, size |-> s.size]

\* The position scan() hands to SetPos for frame s of container c.
ScanPos(c, s) == [n |-> c, offset |-> s.off, size |-> s.size]

\* Mutant: the flag written at the start of the frame.
FlagOffsetNoHash(p) == p.offset

\* Where Delete writes the Deleted flag for the blob at position p.
FlagOffset(p) == p.offset + HashSize

\* Mutant: the append size taken from the end of the last frame.
OpenSizeLastFrame(f) ==
    LET fr == {i \in DOMAIN f.segs : f.segs[i].h # NoPos}
    IN  IF fr = {} THEN MagicLen
        ELSE LET i == CHOOSE j \in fr : \A k \in fr : k <= j
             IN  f.segs[i].off + f.segs[i].len

\* wopen: the append size is the file length (Seek to the end).
OpenSize(f) == FileLen(f)

\* Mutant: the index records the frame length instead of the blob size.
PutPosFrameLen(h) == [n |-> n, offset |-> size, size |-> Overhead + BlobSize[h]]

\* The position Put saves for blob h: container n at offset size.
PutPos(h) == [n |-> n, offset |-> size, size |-> BlobSize[h]]

\* Mutant: size is not advanced past the frame written.
AdvanceSizeNot(h) == size

\* backend.size after the frame of h is written.
AdvanceSize(h) == size + Overhead + BlobSize[h]

\* Mutant: the hole is one byte too long.
PunchLenPlusOne(p) == p.size + 1

\* The length of the hole Delete punches for the blob at position p.
PunchLen(p) == p.size

-----------------------------------------------------------------------------
(* Initial state: New() on an empty directory has created blobs-00000 *)

\* cancel: a Delete of the same hash took effect while the Put was running,
\* so the Delete is ordered after the Put (history only).
WrIdle == [phase |-> "idle", h |-> NoPos, cancel |-> FALSE]
DlIdle == [phase |-> "idle", h |-> NoPos, pos |-> NoPos, same |-> FALSE,
           fc |-> 0, cur |-> FALSE]
ScanStart == [c |-> 0, i |-> 1, corrupt |-> FALSE]

Init ==
    /\ files = <<[magic |-> TRUE, segs |-> <<>>, stray |-> 0]>>
    /\ index = [h \in Hashes |-> NoPos]
    /\ indexExists = TRUE
    /\ savedN = 0
    /\ status = "up"
    /\ n = 0
    /\ size = MagicLen
    /\ wr = WrIdle
    /\ dl = DlIdle
    /\ dirty = {}
    /\ scanAt = ScanStart
    /\ committed = {}
    /\ puts = 0
    /\ deletes = 0

-----------------------------------------------------------------------------
(* Put (filetree.go:1314-1407), in the steps a crash can separate *)

\* Lock, encode, and roll over to a new container when the payload would
\* not fit: n++, then wopen creates blobs-(n) before writing its magic.
PutLock(h) ==
    /\ status = "up" /\ wr.phase = "idle" /\ puts < MaxPuts
    /\ PutIfAbsent => index[h] = NoPos
    /\ SameHashOverlap \/ dl.h # h
    /\ puts' = puts + 1
    /\ IF size + BlobSize[h] > MaxBlobsFileSize
       THEN /\ n' = n + 1
            /\ files' = Append(files, NewContainer)
            /\ wr' = [WrIdle EXCEPT !.phase = "magic", !.h = h]
       ELSE /\ wr' = [WrIdle EXCEPT !.phase = "setpos", !.h = h]
            /\ UNCHANGED <<n, files>>
    /\ UNCHANGED <<index, indexExists, savedN, status, size, dl, dirty, scanAt,
                   committed, deletes>>

\* wopen writes and syncs the magic and sets size to the file's end
\* (Seek(0, SEEK_END): past a byte a racing Delete wrote); ropen; saveN.
PutMagic ==
    /\ status = "up" /\ wr.phase = "magic"
    /\ files' = [files EXCEPT ![n + 1].magic = TRUE]
    /\ size' = FileLen(files'[n + 1])
    /\ savedN' = n
    /\ wr' = [wr EXCEPT !.phase = "setpos"]
    /\ UNCHANGED <<index, indexExists, status, n, dl, dirty, scanAt, committed,
                   puts, deletes>>

\* The index entry is saved before the blob is written.
PutSetPos ==
    /\ status = "up" /\ wr.phase = "setpos"
    /\ index' = [index EXCEPT ![wr.h] = PutPos(wr.h)]
    /\ wr' = [wr EXCEPT !.phase = "write"]
    /\ UNCHANGED <<files, indexExists, savedN, status, n, size, dl, dirty,
                   scanAt, committed, puts, deletes>>

\* current.Write appends the frame at the descriptor's position, size grows,
\* Sync flushes the container (with any flag byte written into it), unlock.
PutWrite ==
    /\ status = "up" /\ wr.phase = "write"
    /\ LET f == File(n)
           s == Frame(wr.h, SegsEnd(f))
       IN  files' = [files EXCEPT ![n + 1] =
                        [f EXCEPT !.segs = Append(@, s),
                                  !.stray = IF @ <= s.off + s.len THEN 0 ELSE @]]
    /\ size' = AdvanceSize(wr.h)
    /\ dirty' = {d \in dirty : d.c # n}
    /\ committed' = IF wr.cancel THEN committed ELSE committed \cup {wr.h}
    /\ wr' = WrIdle
    /\ UNCHANGED <<index, indexExists, savedN, status, n, dl, scanAt, puts,
                   deletes>>

-----------------------------------------------------------------------------
(* Delete (filetree.go:1516-1552): no lock, and no Sync *)

\* GetPos, then `blobPos.n == backend.n` reads n.
DelLookup(h) ==
    /\ status = "up" /\ dl.phase = "idle" /\ deletes < MaxDeletes
    /\ SameHashOverlap \/ wr.h # h
    /\ deletes' = deletes + 1
    /\ dl' = IF index[h] = NoPos THEN dl
             ELSE [DlIdle EXCEPT !.phase = "open", !.h = h, !.pos = index[h],
                                 !.same = (index[h].n = n)]
    /\ UNCHANGED <<files, index, indexExists, savedN, status, n, size, wr, dirty,
                   scanAt, committed, puts>>

\* f = backend.current (read apart from n), or os.OpenFile of blobs-(pos.n).
DelOpen ==
    /\ status = "up" /\ dl.phase = "open"
    /\ dl' = [dl EXCEPT !.phase = "flag", !.fc = IF dl.same THEN n ELSE dl.pos.n,
                        !.cur = dl.same]
    /\ UNCHANGED <<files, index, indexExists, savedN, status, n, size, wr, dirty,
                   scanAt, committed, puts, deletes>>

\* The handle taken from backend.current was closed by a rollover's wopen.
DlClosed == dl.cur /\ dl.fc # n

\* f.WriteAt([]byte{Deleted}, offset+32); on a closed file Delete returns.
DelFlag ==
    /\ status = "up" /\ dl.phase = "flag"
    /\ IF DlClosed
       THEN /\ dl' = DlIdle
            /\ UNCHANGED <<files, dirty>>
       ELSE LET f == File(dl.fc)
                atFrame == \E i \in DOMAIN f.segs : f.segs[i].off = dl.pos.offset
                                                   /\ f.segs[i].h # NoPos
            IN  /\ files' = [files EXCEPT ![dl.fc + 1] =
                                WriteFlagByte(f, FlagOffset(dl.pos))]
                /\ dirty' = dirty \cup (IF atFrame
                                        THEN {[c |-> dl.fc, off |-> dl.pos.offset]}
                                        ELSE {})
                /\ dl' = [dl EXCEPT !.phase = "delpos"]
    /\ UNCHANGED <<index, indexExists, savedN, status, n, size, wr, scanAt,
                   committed, puts, deletes>>

\* index.DeletePos(hash): removes whatever entry the hash has now.  From
\* here on Get reports the blob absent: the Delete takes effect.
DelPos ==
    /\ status = "up" /\ dl.phase = "delpos"
    /\ index' = [index EXCEPT ![dl.h] = NoPos]
    /\ committed' = committed \ {dl.h}
    /\ wr' = IF wr.h = dl.h THEN [wr EXCEPT !.cancel = TRUE] ELSE wr
    /\ dl' = [dl EXCEPT !.phase = "punch"]
    /\ UNCHANGED <<files, indexExists, savedN, status, n, size, dirty, scanAt,
                   puts, deletes>>

\* PunchHole over the payload range.
DelPunch ==
    /\ status = "up" /\ dl.phase = "punch"
    /\ files' = IF DlClosed THEN files
                ELSE [files EXCEPT ![dl.fc + 1] =
                         PunchHole(File(dl.fc), dl.pos.offset + Overhead, PunchLen(dl.pos))]
    /\ dl' = DlIdle
    /\ UNCHANGED <<index, indexExists, savedN, status, n, size, wr, dirty, scanAt,
                   committed, puts, deletes>>

-----------------------------------------------------------------------------
(* Shutdown, crash, and start-up *)

\* Close() with no call in progress; the page cache keeps unsynced writes.
Stop ==
    /\ status = "up" /\ wr.phase = "idle" /\ dl.phase = "idle"
    /\ status' = "down" /\ n' = 0 /\ size' = 0
    /\ UNCHANGED <<files, index, indexExists, savedN, wr, dl, dirty, scanAt,
                   committed, puts, deletes>>

\* Flag writes that were never synced go back to 0.
RevertFlags(fs, lost) ==
    [k \in DOMAIN fs |->
        [fs[k] EXCEPT !.segs = [i \in DOMAIN fs[k].segs |->
            IF [c |-> k - 1, off |-> fs[k].segs[i].off] \in lost
            THEN [fs[k].segs[i] EXCEPT !.flags = 0]
            ELSE fs[k].segs[i]]]]

\* The machine crashes: unsynced flag writes may be lost, and a frame being
\* written may be left on disk cut short.
Crash ==
    /\ CrashEnabled /\ status # "down"
    /\ \E lost \in SUBSET dirty,
          torn \in IF wr.phase = "write" THEN BOOLEAN ELSE {FALSE} :
         LET fs == RevertFlags(files, lost)
         IN  files' = IF torn
                      THEN [fs EXCEPT ![n + 1].segs =
                               Append(@, Junk(SegsEnd(fs[n + 1]), TornLen))]
                      ELSE fs
    /\ status' = "down" /\ n' = 0 /\ size' = 0
    /\ wr' = WrIdle /\ dl' = DlIdle /\ dirty' = {}
    /\ UNCHANGED <<index, indexExists, savedN, scanAt, committed, puts, deletes>>

\* The blobs-index directory is removed while the store is down (Remove).
WipeIndex ==
    /\ RescanEnabled /\ status = "down" /\ indexExists
    /\ index' = [h \in Hashes |-> NoPos]
    /\ indexExists' = FALSE
    /\ UNCHANGED <<files, savedN, status, n, size, wr, dl, dirty, scanAt,
                   committed, puts, deletes>>

\* New() and load(): every container is opened for read and must start with
\* the magic; the last one is opened for append at its length; saveN; if
\* the index directory was missing, reindex.
Start ==
    /\ status = "down"
    /\ \A c \in Containers : File(c).magic
    /\ LET last == Len(files) - 1
       IN  /\ n' = last
           /\ size' = OpenSize(File(last))
           /\ savedN' = last
    /\ files' = [k \in DOMAIN files |->
                   IF files[k].stray > SegsEnd(files[k])
                   THEN [files[k] EXCEPT
                           !.segs = Append(@, Junk(SegsEnd(files[k]),
                                                   files[k].stray - SegsEnd(files[k]))),
                           !.stray = 0]
                   ELSE files[k]]
    /\ indexExists' = TRUE
    /\ status' = IF indexExists THEN "up" ELSE "reindex"
    /\ scanAt' = ScanStart
    /\ UNCHANGED <<index, wr, dl, dirty, committed, puts, deletes>>

\* One frame of scan() under reindex(): a Deleted frame is skipped, a frame
\* that does not verify is recorded as corrupted, junk is a read error, a
\* good frame is SetPos'd.  Any error makes New() panic: the store is down.
ReindexStep ==
    /\ status = "reindex"
    /\ IF scanAt.c >= Len(files)
       THEN /\ status' = IF scanAt.corrupt THEN "down" ELSE "up"
            /\ UNCHANGED <<index, scanAt>>
       ELSE IF scanAt.i > Len(File(scanAt.c).segs)
       THEN /\ scanAt' = [scanAt EXCEPT !.c = @ + 1, !.i = 1]
            /\ UNCHANGED <<index, status>>
       ELSE LET s == File(scanAt.c).segs[scanAt.i]
            IN  CASE s.h = NoPos ->
                       /\ status' = "down"
                       /\ UNCHANGED <<index, scanAt>>
                  [] s.flags = Deleted ->
                       /\ scanAt' = [scanAt EXCEPT !.i = @ + 1]
                       /\ UNCHANGED <<index, status>>
                  [] ~s.intact ->
                       /\ scanAt' = [scanAt EXCEPT !.i = @ + 1, !.corrupt = TRUE]
                       /\ UNCHANGED <<index, status>>
                  [] OTHER ->
                       /\ index' = [index EXCEPT ![s.h] =
                                      ScanPos(scanAt.c, s)]
                       /\ scanAt' = [scanAt EXCEPT !.i = @ + 1]
                       /\ UNCHANGED status
    /\ UNCHANGED <<files, indexExists, savedN, n, size, wr, dl, dirty, committed,
                   puts, deletes>>

-----------------------------------------------------------------------------

Next ==
    \/ \E h \in Hashes : PutLock(h) \/ DelLookup(h)
    \/ PutMagic \/ PutSetPos \/ PutWrite
    \/ DelOpen \/ DelFlag \/ DelPos \/ DelPunch
    \/ Stop \/ Crash \/ WipeIndex \/ Start \/ ReindexStep

Spec == Init /\ [][Next]_vars

-----------------------------------------------------------------------------
(* Properties *)

TypeOK ==
    /\ files \in Seq(Container) /\ Len(files) >= 1
    /\ index \in [Hashes -> [n : Containers, offset : Nat, size : Nat] \cup {NoPos}]
    /\ indexExists \in BOOLEAN
    /\ savedN \in Nat
    /\ status \in {"up", "down", "reindex"}
    /\ n \in Nat /\ size \in Nat
    /\ wr \in [phase : {"idle", "magic", "setpos", "write"}, h : Hashes \cup {NoPos},
              cancel : BOOLEAN]
    /\ dl.phase \in {"idle", "open", "flag", "delpos", "punch"}
    /\ dl.phase # "idle" => dl.pos \in Pos
    /\ dirty \subseteq [c : Nat, off : Nat]
    /\ committed \subseteq Hashes
    /\ puts \in 0 .. MaxPuts /\ deletes \in 0 .. MaxDeletes

\* Get(h) never hands back the bytes of another blob: whatever the index
\* entry of h points at, Get returns blob h, an error, or panics.
GetNeverWrong ==
    status = "up" => \A h \in Hashes : GetOutcome(h) # "wrong"

\* Get(h) never reaches decodeBlob's panic while the store serves, for any
\* hash: whatever Puts, Deletes (flag, index removal, hole punch),
\* rollovers and rebuilds have done, an index entry points at an intact
\* frame, or past the end of the file (a read error).
GetNeverPanics ==
    status = "up" => \A h \in Hashes : GetOutcome(h) # "corrupt"

\* Every blob whose Put returned, and that nobody asked to delete, is read
\* back intact by Get whenever the store is up, across rollovers,
\* concurrent Deletes of other blobs, restarts and index rebuilds.
CommittedReadable ==
    status = "up" => \A h \in committed : GetOutcome(h) = "ok"

\* With no Put or Delete in flight, the index is exactly what reindex()
\* would rebuild from the containers, and that rebuild would succeed: the
\* index is a cache of the containers (and deleted blobs stay deleted).
IndexRebuildable ==
    (status = "up" /\ wr.phase = "idle" /\ dl.phase = "idle")
        => ScanClean /\ index = ScanIndex

\* A blob absent from the index (never put, or deleted) would not come back
\* if the index were rebuilt from the containers: Delete's tombstone is on
\* disk whenever its index entry is gone.
NoResurrection ==
    (status = "up" /\ wr.phase = "idle" /\ dl.phase = "idle")
        => \A h \in Hashes : index[h] = NoPos => ScanIndex[h] = NoPos

\* Whenever the store is down, every container file starts with the magic
\* that ropen checks, so load() can open all of them: no crash leaves the
\* store unable to start.
Loadable == status = "down" => \A c \in Containers : File(c).magic

-----------------------------------------------------------------------------
(* Refinement: BlobsFile implements the abstract BlobStore *)

\* The blobs Get would return now.
Readable == {h \in Hashes : GetOutcome(h) = "ok"}

\* The abstract set of blobs: what Get returns, except while the index is
\* missing or being rebuilt, when it is what the rebuild will index.
Stored ==
    IF status = "reindex" \/ (status = "down" /\ ~indexExists)
    THEN {h \in Hashes : ScanIndex[h] # NoPos}
    ELSE Readable

AB == INSTANCE BlobStore
        WITH blobs <- Stored, up <- (status = "up"),
             putting <- IF wr.phase = "idle" THEN {} ELSE {wr.h},
             deleting <- IF dl.phase = "idle" THEN {} ELSE {dl.h}

\* Every step of the engine (each step of Put and Delete, Close, removing
\* the index, New/load and each frame of reindex) is a step of the abstract
\* store: the readable blobs change only when a Put's Write completes (its
\* blob is added) or a Delete's DeletePos runs (its blob is removed), never
\* another blob, and a restart, with or without an index rebuild, keeps
\* them.
BlobStoreRefinement == AB!Spec

=============================================================================
