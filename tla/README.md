# TLA+ models of blobstash's storage core

This directory holds TLA+ specifications of the blob store in this repository,
the TLC configurations that check them, and `PROJECT.json`, which maps every
definition to the source lines it models and lists runs, mutants, findings and
hazards.

## The system

| Part | Source | State | Operations |
|---|---|---|---|
| BlobsFile engine | `src/pkg/filetree/filetree.go` 790-1625 | container files `blobs-NNNNN` (6-byte magic, then frames `hash[32] flags[1] size[4] payload`), `n`, `size`, `current`, `files`, the BlobsIndex (hash -> (n, offset, size), a kv store on disk), one mutex | `New`/`load`/`reindex`/`scan`, `Put` (with rollover through `wopen`/`ropen`/`saveN`), `Get` (+`decodeBlob`), `Delete` (flag byte, index removal, hole punch), `Stat`/`Exists`, `Enumerate`/`Enumerate2`, `Close`, `Remove` |
| FileTree FS | `filetree.go` 1-790 | FS records in a kv store, meta nodes as blobs, an in-memory node tree | `Update` (rewrite a node and every parent up to the root), `Path`, `fsHandler`, `nodeByRef`; sharing: `nodeHandler` (signs a bewit), `dirHandler`, `fileHandler`, `serveFile` |
| File writer | `src/pkg/filetree/writer/filewriter.go` | a raw node being built | `writeReader` (chunk, `Stat`, `Put`, `AddIndexedRef`), `putFile`, `PutReader`, `PutMeta` |
| Sync table | `src/db/list.go` 202-619 | a per-request Merkle state tree: root hash and 256 bucket hashes fed with the namespace's hashes | `generateTree`, `stateHandler`, `stateLeafsHandler`, `syncHandler` (conflicted / needed / missing buckets), client `Leafs` and `Sync` |
| Indexed lists | `src/db/list.go` 1-201 | members keyed by (list, index), a length counter | `Ladd`, `Lindex`, `Liter`, `Ldel`, `Lprev`, `Lmrange` |
| Client pipeline | `src/client2/client.go` | the `pipeline` flag, an unbuffered channel of blobs, a WaitGroup, 25 workers | `NewBlobStore`, `ProcessBlobs`, `Put` (enqueue or upload), `processBlobs`, `put`, `Stop` |
| Backup model | `src/models/backup.go` | Redis hash, `latest:` key, list | `Save`, `Meta` |
| Lua apps | `src/pkg/apps/apps.go` | the `apps` map built by `New` from the config; per request nothing | `New`/`newApp`, `Register`, `appHandler`, `subdomainHandler`, `serve`, `containsDotDot`; the Lua runtime is not modelled |
| Entry point, tools | `src/blobstash.go`, `src/tools/genluaindex.go` | wiring | not modelled (see below) |

How they interact: the file writer chunks a file and stores each chunk and then
the meta node through the blob store (BlobsFile), calling `Stat` first and
`Put` only for absent blobs; FileTree's POST handler uploads a file with the
writer and then `Update` writes a new meta blob for every parent and saves the
root reference in the kv store; FileTree's `/d/` and `/f/` handlers serve those
meta blobs to clients holding a bewit (a signed, expiring URL) the owner got
from `nodeHandler`, or a listing handed out; the sync table hashes the set of blob hashes
of a namespace so that two replicas can find the buckets where they differ;
a backup `Save` records a backup with three redis-protocol commands, the last
of which (`LADD`) the DB runs as the indexed-list `Ladd`.

What makes them hard: BlobsFile's `Put` holds the mutex but `Delete` and
`Get` take none; `Put` updates the index before writing the frame; `Delete`
never syncs its flag byte; `load` rebuilds the index only when the index
directory is missing. The writer's `Stat` and `Put` are two calls nothing
serialises. `Ladd` and `Ldel` are sequences of KV calls with no transaction.
FileTree's POST reads the root and writes a new one much later. Each of these
is a step order that a crash or a concurrent call can split.

## Modules

### `BlobsFile.tla` — the storage engine

State (`VARIABLES`) and its counterpart in the code:

- `files`: the containers. Each is `[magic, segs, stray]`: whether the magic
  was written, the sequence of segments (a frame `Frame(h, off)` from
  `encodeBlob`, or junk: bytes that do not parse, from a torn write), and the
  end of a stray byte written past the end of the file. Bytes are abstracted
  to which frame an offset falls in, whether the frame still verifies
  (`intact`), and its `Deleted` flag; a hash stands for its blob.
- `index`, `indexExists`, `savedN`: the BlobsIndex entries, whether the
  `blobs-index` directory exists, and the persisted N.
- `status`, `n`, `size`: process up/down/reindexing, `backend.n` and
  `backend.size`.
- `wr`, `dl`: the step a `Put` (under the mutex) and a `Delete` (no lock) are
  at; `dirty`: flag writes not yet synced; `scanAt`: the reindex cursor.
- `committed`, `puts`, `deletes`: history (blobs whose Put returned and that
  were not deleted since) and the call bounds.

Actions, one per step a crash or another thread can separate:
`PutLock` (lock, encode, rollover decision; on rollover `n++` and the
container file is created), `PutMagic` (wopen's magic + sync, Seek to the end,
`saveN`), `PutSetPos` (index entry), `PutWrite` (Write, `size +=`, Sync,
return); `DelLookup` (GetPos, `blobPos.n == backend.n`), `DelOpen`
(`backend.current` or open by name), `DelFlag` (`WriteAt` of the flag byte;
fails on a closed handle), `DelPos` (DeletePos), `DelPunch` (PunchHole);
`Stop` (Close and the process's exit; it waits for the Put and Delete in
flight, an assumption: Close (filetree.go:1029-1034) only closes the index
and takes no lock, so a call still running would fail on the closed index
or write into files a restarted store has reopened, which the model leaves
out; a call cut off abruptly is what `Crash` models), `Crash` (machine crash: unsynced flag writes may be lost, a
frame being written may be left torn), `WipeIndex` (the operator removes the
index, the `-scan` mode), `Start` (New + load: every container must have its
magic, the last is opened for append at its length, reindex if the directory
was missing) and `ReindexStep` (one frame of `scan`: skip Deleted, record a
corrupt frame, stop with an error at junk, else SetPos).

`GetOutcome(h)` is what `Get` returns in a state: `ok`, `notfound`, `error`
(short read, size mismatch), `corrupt` (decodeBlob's panic) or `wrong` (the
bytes of another blob: decodeBlob checks the frame's own stored hash).
`ScanIndex` and `ScanClean` are what `reindex` would build from the
containers, and whether it would succeed.

Properties:

- `TypeOK` — types, and every index entry names an existing container.
- `GetNeverWrong` — Get never returns another blob's bytes.
- `GetNeverPanics` — Get of any hash never reaches decodeBlob's panic (an
  index entry points at an intact frame, or past the end: a read error).
- `CommittedReadable` — every blob whose Put returned and that was not deleted
  reads back `ok` whenever the store is up.
- `IndexRebuildable` — with no call in flight, the index equals what a rebuild
  would produce, and the rebuild would succeed (the spec's "index is a cache").
- `NoResurrection` — a hash absent from the index would not come back from a
  rebuild.
- `Loadable` — when the store is down, every container has its magic.
- `BlobStoreRefinement` — BlobsFile implements the abstract `BlobStore`
  (below).

`BlobStore.tla` is what the spec (3, 4.4) promises a caller: a set of blobs;
a Put or Delete call starts, takes effect in one step and returns; Put adds
its blob, Delete removes it, nothing else changes the set, and a stop and
restart keeps it. The refinement mapping (`AB` in BlobsFile) takes the
abstract set to the blobs `Get` returns (`Readable`), or, while the index is
missing or being rebuilt, to what the rebuild will index (`Stored`); `up` is
`status = "up"`, and the calls in progress are the hashes of the Put and the
Delete under way.

`MC_BlobsFile.tla` instantiates it: hashes `a` and `b`, payload sizes
1 and 2 (or all 1, so that two frames can be confused by length), and a
container limit of 45 bytes so that the second frame forces a rollover (the
256 MiB default only scales the same comparison).

### `BlobsEnum.tla` — enumeration of the index

`Enumerate(blobs)` (filetree.go 1554-1576) and
`Enumerate2(blobs, start, end, limit)` (1579-1625) as loops over the
BlobsIndex's keys: a position key per stored hash, and the key of the
counter `n` that `saveN` writes at every load (`CounterKey`, under its own
prefix byte, spec 3). A hash is its raw bytes and a string
(start, end, a hex hash) its byte values; `Compare` is `bytes.Compare`,
`EncodeToString`/`DecodeString` are hex encoding and decoding, `formatKey(h)`
is `BlobPosKey | h`. State: `stored` (the hashes with a position record),
`arg` (which call, and its start, end, limit), `en` (the loop: `pc`, the
last key read, `i`, the refs sent). `EnumerateSeek` seeks `formatKey("")`
and `EnumerateNext` sends the hex of each following key without its first
byte until EOF. `Seek` decodes `start` (an error ends the call)
and seeks its position key; `Next1` is one pass of the loop: `enum.Next`
(the least key after the last; EOF ends), the test
`bytes.Compare(k, []byte(end)) > 0 || (limit != 0 && i > limit)`, the send
and `i++`. `BlobPos` cannot fail for a key read under the lock, so its error
branch is not a separate step. Init draws every subset of the hashes and every
argument, so one run checks all calls over those inputs.

`EnumeratesRange` compares what was sent, when the call returns, with the
spec: for Enumerate every stored hash in order, for Enumerate2
`EnumerateRange`, the spec's `enumerate_range`: the hex hashes `h` with
`start <= h < end`, in order, at most `limit` (0 = unlimited).
`MC_BlobsEnum.tla`: hashes `1a`, `7f`, `c0`; `BlobPosKey = 1` and the counter's key
`0 "n"` (the prefix values are defined outside this repository); starts `""` and `"7f"`, ends `"7f"` and
`"\xff"`, limits 0, 1, 2.

### `ClientPipeline.tla` — the blob store client's upload pipeline

`BlobStore` of `src/client2/client.go`. State: `pipeline` (`bs.pipeline`),
`wk[w]` (a `processBlobs` goroutine: not started, waiting on the range over
`bs.blobs`, or uploading a blob), `cl[c]` (a goroutine calling the store:
idle, in `ProcessBlobs`, blocked in the send of `Put`, in its own `put`, or
in `Stop`, with `snap`, the blobs acknowledged when it last called Stop,
and `read`, the answer of its last Get or Stat and whether the blob read
was in `snap`, a history field),
`wg` (the WaitGroup counter), `server` (the hashes the server holds),
`acked` (the blobs a Put returned nil for, history), `crashed` (a worker
panicked: the process is gone), `puts`.

Actions: `StartWorkers` and `SetPipeline` (`ProcessBlobs` starts the
goroutines and then sets the flag, unsynchronised with Put's read of it);
`PutPipelined` (`wg.Add(1)`, then the send blocks) and `Receive` (a waiting
worker takes the blob; Put returns nil); `PutDirect` and `PutDirectDone`
(`put` run by the caller, returning the error); `Upload` (the worker's
`put`: `wg.Done` on success, a panic that ends the process on failure);
`StopCall` and `StopReturn` (`wg.Wait`); `Get` and `Stat` (one GET or HEAD:
200 found, 404 not found, anything else, or a failed request, an error;
`Answer`). A failed upload (the request, or a
status other than 200) may have stored the blob or not (`UploadOutcome`).
The base64 round trip cannot fail and is not a branch.

Fairness (`FairSpec`): weak fairness on each worker's upload and on a
caller's own `put` and `SetPipeline` (goroutines run, the server answers:
the `http.Client` has no timeout, so an unanswering server hangs them, a
hazard listed as uncovered); strong fairness on a blocked send being
received (Go queues channel waiters in order, and a worker becomes free
again and again) and on Stop's wake-up when the counter reaches zero.

Properties: `TypeOK` (its `wg \in 0 .. MaxPuts` is Go's negative-counter
panic); `ReadAfterStop` (once a caller's Stop has returned, its Get or Stat of a
blob acknowledged before that Stop never answers not found, which is
spec.md's "after a successful put, stat is true" for the client; before
Stop returns, a pipelined blob can be missing); `AckedStored`
(an acknowledged blob is eventually on the server, or the process has
died); `StopEnds` (Stop returns unless the process died).
`MC_ClientPipeline.tla`: two hashes, two callers, two workers for the 25
(two are enough for a free worker and a busy one), at most 3 Puts.

### `SyncTable.tla` — the Merkle sync of a namespace

State: `store[r]`, the hashes of the namespace on replica `r` (the nsdb
namespace, not in this repository, written by `PutHash`); `cl[r]`, the `Sync`
client a trigger on `r` runs (`phase` idle/posted/answered/fetching, the
`peer`, the posted `State`, the decoded `SyncResp`, the `missing` buckets still
to list, and `sent`, the set the State summarises, as history); `resp[r]`, the
answer `syncHandler` sent to `r` with both compared sets (history).

A hash is a tuple of hex digits and its bucket `Prefix(h)` the first two
(`h[0:2]` in `StateTree.Add`). A digest is modelled by the sequence of hashes
fed into it, so two digests are equal exactly when they were fed the same
hashes in the same order: `StateOf(seq)` is what `generateTree` + `Root` +
`Level1` produce from the hashes in the order `nsdb.Namespace` lists them.
`NamespaceOrders` is that order: key order (`NamespaceSorted = TRUE`) or any
order (the spec, 4.8 and 9, and the FIXME at list.go:238 say the source's
order is not fixed, so the run uses `NamespaceSorted = FALSE`).

Actions: `Trigger` (triggerHandler: generateTree, Sync POSTs the State),
`Handle` (syncHandler: the peer's own State at that moment, `SyncHandler`'s
204 or 200 with conflicted / missing (server-only) / needed (client-only)),
`Receive` (Sync: 204 ends; 200 is decoded, dropping `needed` because of the
`nedeed` JSON tag), `FetchLeafs` (a `Leafs` GET per missing bucket; the hashes
are only printed), `Finish`, `Fail` (any HTTP call fails; triggerHandler
panics).

Properties: `TypeOK`; `ResponseCoversDifference` (every hash held by one side
only lies in a listed bucket, in any listing order); `InSyncExactlyWhenEqual`
(204 iff same sets; it holds only under key order and no run checks it, see
below);
`Convergence` (if syncs keep succeeding, the replicas end up with the same
hashes; no run checks it now, see below).

`MC_SyncTable.tla`: replicas `A`, `B`; hashes `000`, `001` (one bucket, so
a bucket can be conflicted) and `010` (a bucket one side may lack); for the
liveness run one hash per bucket.

### `FileWriter.tla` — uploads through the blob store

Composes the writer with BlobsFile (`BF == INSTANCE BlobsFile`, sharing its
variables). `upl[u]` is upload call `u` (`putFile` or `PutReader`, or for
`u \in MetaOnly` a `PutMeta`/`RenameMeta` of a built node): `pc`
idle / chunk / stat / put / wait / done / failed, `i` the next chunk, `cur`
the hash being Stat'd or Put, `meta` whether it is the meta node. The chunker
is deterministic, so the cut of each file is a constant `Chunks[u]`, and the
meta node's hash `MetaOf[u]`.

Actions: `Begin` (StartUpload; os.Stat), `BeginMeta` (PutMeta: the
node is encoded and goes straight to its Stat-then-Put), `NextChunk` (chunker `Next`; at EOF
the meta node), `StatBlob` (`bs.Stat`, BlobsFile's index lookup without the
mutex: present means `AddIndexedRef` and on, absent means Put), `CallFails`
(Stat or Put while the store is closed: writeReader panics, putFile returns
the error), `PutBlob` (Put takes the mutex: BlobsFile's `PutLock`),
`PutReturns` (BlobsFile's `PutWrite`, then the ref is recorded). The Put's
inner steps (`PutMagic`, `PutSetPos`) and the store's `Stop`, `Start`,
`WipeIndex` and `ReindexStep` interleave with the uploads.

Properties: `UploadEnds` (every upload returns), `UploadLeadsToStored` (the
blobs a returned upload references are eventually stored),
`UploadedReadable` (while the store serves, every blob a returned upload
references reads back; no run checks it now, see below), `IndexRebuildable` (BlobsFile's, under duplicate
Puts from concurrent uploads).

Fairness (`FairSpec`): weak fairness on each upload's steps and on the
steps of the Put holding the mutex: disk writes return and the goroutine
makes its next call. `Stop`, `Start`, `WipeIndex` and `ReindexStep` are the
operator's and get none, which is why the liveness property is about
`Stored` and not `Readable`: after an index wipe nothing forces a restart.

`MC_FileWriter.tla`: uploads `u1` (chunks `a`, `b`, meta `m1`) and `u2`
(chunk `a`, meta `m2`), so the two share a chunk, and `u3`, a PutMeta of
`m1`, racing `u1` on its meta node; sizes 1 and 2; container limit 45
bytes, so the run rolls over; at most 6 Puts, every Put the three calls can
make.

### `Lists.tla` and `Backup.tla` — indexed lists and backup records

`Lists.tla` models the DB's indexed lists: `kv[k][u]` the entry of list `k`
at uint32 index `u` (Nil when absent), `llen[k]` the ListLen counter, and
`lc[c]` the list call in progress on connection `c` (op, pc, its arguments,
the value `get` returned, the keys `GetRange` returned). `Ladd` is
`LaddCall`, `LaddGet`, `LaddPut` (increment next only if the get saw nil),
`LaddIncr`; `Ldel` is `LdelCall`, `LdelRange` (snapshot), `LdelDel` (one
entry of the snapshot, in key order), `LdelLen` (delete the counter); any KV
call may fail (`KvFails`) and the call returns its error at once. `Llen`,
`Liter` and `LiterWithIndex` are operators. Indexes are kept in
0 .. 2^31-1, where `uint32(i)` is `i` and every index lies below 0xff000000,
the end key `"\xff"` gives: TLC's integers are 32-bit signed.

`Backup.tla` composes Lists with `Save` (`L == INSTANCE Lists`): `now` the
Unix second, `records` the `backup:<hash>` hashes (a record key is the pair
`<<name, ts>>` `backupHashkey` hashes), `latest`, and `sv[s]` saver `s`'s
Backup and where `Save` is. Actions: `Tick`, `NewBackup` (Ts := now),
`Hmset`, `SetLatest`, `LaddSent` (LADD becomes a Lists `Ladd` on the saver's
connection), `CommandFails`, `LaddReplied`, and `Resave` / `Forget` (the
caller saves the same Backup again, or moves on). Other connections call
`Ladd` and `Ldel` directly.

Property: `LenCountsMembers` — when no list call is in progress, `Llen(k)`
is the number of values `Liter(k)` returns (the layout comment of list.go).

`MC_Backup.tla`: one backup name `n1`, refs `r1`, `r2`, savers `s1`, `s2`,
a list client `c1`, times 0..1.

### `FileTree.tla` and `FsMap.tla` — POSTs to a filetree FS

`FileTree.tla`: `fsRef` is the kv value holding the FS's root hash; a blob
hash is the meta it encodes (a dir meta's `refs` are its children's metas, a
file meta's `refs` its content); `req[h]` is the POST request handler `h`
serves. `Post` is fsHandler's `FS` (kv read) and `Path(path, true)`
(`Walk`: for each name the first child of that name, fetched, or a created
node); `Write` is `PutReader` (the file meta `FileMeta`) and `Update`, a
RECURSIVE operator that rewrites each ancestor, bottom-up, as the code does,
ending in the kv Put of the new root; a blob Put error aborts before the kv
Put, a kv Put error is ignored. The meta modtime `Update` stamps is left out.

`FsMap.tla` is the abstract FS: a set of `<<path, content>>` pairs, where a
POST replaces the pair of its path. The mapping `Files` lists every file
reached from the root through dir refs, as a listing (fetchDir) shows them.
`FsRefinement == FS!Spec`.

`MC_FileTree.tla`: names `d`, `f1`, `f2`, contents `c1`, `c2`, paths
`/d/f1` and `/d/f2` (or the flat `/f1`, `/f2`), one or two handlers.

### `FileTreeShare.tla` — serving shared and public nodes

The read side of FileTree, for a client without an API key. Metas are
immutable blobs, so the tree (`Kids`, a dir's `Refs`), each node's type,
whether it is named `index.html` (`IsIndex`) and its public flag
(`Public`, XAttrs `public=1`) are constants; `IsDag` of the Graphs module
checks the tree is acyclic. The `bewit` package is not in this repository:
a bewit is modelled as bound to the URL path it signs and valid while
`now < expiry`. State: the clock `now` (bounded by `MaxTime`), `caps[n]` the
expiry of the client's freshest bewit for `n`'s link (older ones grant no
more), `shared[n]` when the owner last shared `n` (a history variable), and
`body`, what the last response served.

| Definition | Code |
|---|---|
| `NodeBewit(h)` | `nodeHandler` with `?bewit=1` (after `nodeByRef`): signs `/d/<h>` or `/f/<h>` for `shareTTL`; the owner hands the link out |
| `DirRequest(route, h, use)` | `dirHandler` on `/d/` or `/dir/`: bewit or public flag, else 404; a file panics; then any child named `index.html` (sort.Sort is not stable) through `serveFile` with the same request, else the listing, which signs every non-public child's link (`Mint`) |
| `FileRequest(route, h, use)` | `fileHandler` on `/f/` or `/file/`: `serveFile` |
| `ServeFile` | `serveFile`: bewit, else public flag, else `authFunc` (false here: 404); a dir panics |
| `Validate`, `LinkRoute`, `Mint` | `bewit.Validate` of the request's path, the `/%s/%s` link, `bewit.Bewit` |

`ShareConfined`: everything served lies below a public node, or at depth
`d` below a node shared at `t0` and is served before `t0 + (d+1)*TTL`.
`PathLengths` (RECURSIVE) gives every depth of `n` below `s` in the DAG.
`MC_FileTreeShare.tla`: `R` holds `D` and `Q`; `D` holds `index.html` `I`
and `G`; `Q` holds `G` (so `G` is reached by two paths); the public `P`
holds `Q`; the owner shares `R` and `G`; `TTL = 2`, `MaxTime = 4`, long
enough for a share, two listings and a read past the share's own expiry.

### `Apps.tla` — routing requests to Lua apps

`New` builds `apps` from the configuration (`Conf`, one record of booleans
per app: basic auth, IndieAuth, a local path, a remote repository, a proxy,
a schedule, a domain); `newApp` decides what an app gets: an auth function
when either kind of auth is set, a reverse proxy, and a gluapp app when it
has a path (a remote app's clone becomes its path) unless it is scheduled,
in which case `newApp` returns before building it. The state is the one
response `resp` (status, backend reached, path handed to it): the handlers
keep nothing between requests. A request path is a sequence of characters
over `/`, `\`, `.` and `x` (any other character), up to `MaxLen` after the
leading `/`; `path.Clean` (`Clean`, a stack over the `/`-separated fields)
and `containsDotDot` (`Fields` is `strings.FieldsFunc`) are modelled by what
they do to it.

| Definition | Code |
|---|---|
| `AppRequest(name, p, authOK, iaOutcome)` | `appHandler`: unknown app 404; `indieauth-redirect` on an IndieAuth app goes to its `RedirectHandler`; else `serve("/" + path)` |
| `SubdomainRequest(a, ...)` | `subdomainHandler`, registered by `Register` for an app with a domain: `serve(r.URL.Path)` |
| `serve` | `App.serve`: auth failure answers 401 (basic) or goes through IndieAuth's `Redirect` (403, a panic, or a redirect); then the path is cleaned, a `..` element writes a 500, and the proxy (cleaned path), the gluapp app (the uncleaned `req.URL.Path`) or a 404 follows; the first status written is the client's |

`DotDotNeverServed`: a request reaching the proxy or the Lua app has no
`..` element in its cleaned path. `MC_Apps.tla`: `a1` a proxy behind basic
auth on its own domain, `a2` a gluapp app from a local path, `a3` a remote
scheduled app behind IndieAuth, and an unknown name; `MaxLen = 4` is the
shortest that holds `..` and a separator after the leading `/`.

## Runs

| Run | Expect | Checks | Shows |
|---|---|---|---|
| `bf_delete` | pass | TypeOK, GetNeverWrong, GetNeverPanics, CommittedReadable, IndexRebuildable, BlobStoreRefinement | deletes and re-puts in one container, with rebuilds, are safe and Get never panics when Put and Delete of one hash do not overlap, and BlobsFile refines BlobStore (1426 states) |
| `bf_crash` | pass | CommittedReadable | crashes at every step of Put, torn frames, rollovers: returned Puts stay readable while the index is kept (160 states) |
| `fw_upload` | pass | IndexRebuildable, UploadEnds, UploadLeadsToStored | two uploads sharing a chunk and a PutMeta of one's node, with rollover, Close, restarts and rebuilds, always return, and what they reference is stored (29724 states) |
| `cp_pipeline` | pass | TypeOK, ReadAfterStop, AckedStored, StopEnds | two goroutines Put, Get and Stat through the client, one of them switching the pipeline on, with failing requests: once Stop has returned, Get and Stat find every blob acknowledged before it; Stop always returns, and an acknowledged blob is stored unless a failed upload killed the process (151336 states, about 90 s) |
| `st_classify` | pass | TypeOK, ResponseCoversDifference | with hashes listed in any order, both replicas syncing at each other while blobs arrive: a 200 names every bucket holding a hash only one side has (1225589 states, about 60 s) |
| `ft_share` | pass | TypeOK, ShareConfined | a client given bewits by the owner and by listings is served only what lies below a public node or a share, within (depth+1) TTLs of the share (6229 states) |
| `bf_crash_wrong_blob` | violation | GetNeverWrong | crash between SetPos and Write; the next Put fills the slot; Get returns the other blob |
| `bf_delete_rollover_race` | violation | CommittedReadable | Delete racing a rollover punches another blob in the new container |
| `bk_len_drift` | violation | LenCountsMembers | two Saves of one backup name in the same second: both LADDs read nil and both increment, LLEN 2 for one entry |
| `ft_stale_parent_entry` | violation | FsRefinement | re-posting `/d/f1`, one request at a time, leaves the old `d` listed beside the new one under the root |
| `app_dotdot` | violation | DotDotNeverServed | `/..\` on the gluapp app: `path.Clean` keeps it (only `/` separates), `containsDotDot` (which also splits on `\`) finds the `..`, serve writes the 500 and, having no `return`, hands the request to the Lua app (the trace TLC gives); the code does the same for the proxy on `a1`'s domain, with the cleaned path, which the trace does not show |
| `en_range` | violation | EnumeratesRange | Enumerate2 with end `"7f"` and `7f` stored sends `7f` (the spec's end is exclusive; the prefixed key is compared with the unprefixed end, which never stops the loop), and with end `"\xff"`, limit 1 it sends two refs |

Also checked while modelling, without a run of their own:

- BlobsFile with crashes and `RescanEnabled = TRUE` (the former run
  `bf_crash_rescan`, given up for `app_dotdot`): `New` decides to reindex
  only from the absence of the index directory, which `NewIndex` creates
  before `reindex` runs; a reindex stopped by a crash, or by `scan`
  returning a read error at a frame a crash cut short (filetree.go:1092),
  is never redone, and the store comes up with blobs whose Put returned
  missing from the index (`CommittedReadable`, filetree.go:949).

- BlobsFile with crashes and deletes (the former run `bf_delete_crash`,
  given up for `ft_share`): Delete writes its flag byte with `WriteAt` and
  never syncs it, while the index removal persists; after a crash the frame
  is live again and a rebuild brings the deleted blob back
  (`NoResurrection`, filetree.go:1540).
- FileTreeShare with the bound "served before `t0 + TTL`": R shared at 1
  (valid until 3), listed at 2, which signs D until 4, and D's index served
  at 3. A listing extends a share by another TTL at each level.

- BlobsEnum with the counter's key after the position keys
  (`MCCounterKeyAfter`): Enumerate of an empty store sends `6e`, the
  counter's key without its prefix byte, as a hash (`EnumeratesRange`);
  with the registered order Enumerate alone meets the spec.
- SyncTable's `Convergence` under `FairSpec` (one hash per bucket): syncs
  that keep succeeding never make the replicas equal, because `Sync`
  transfers nothing (its FIXME) and decodes `needed` as `nedeed`. That run was
  given up for `en_range`: the code says as much in its FIXME comment.
- SyncTable's `InSyncExactlyWhenEqual` under the documented listing order
  (any order, `st_classify`'s cfg): two replicas holding the same
  hashes, listed in different orders, get a 200 instead of a 204 (7
  steps). With key order it holds, but nothing in this repository
  guarantees key order, so no run checks it.
- BlobsFile with `SameHashOverlap = TRUE`: a Delete overlapping a Put of the
  same hash makes `IndexRebuildable` fail; its cause, Delete taking no lock,
  is what `bf_delete_rollover_race` shows.
- BlobsFile with crashes reaching `PutMagic`: a crash after `wopen` created
  the container and before its magic leaves the store unable to start
  (`Loadable`).
- BlobsFile with `PutIfAbsent = FALSE` and deletes: a Put of a stored hash
  appends a second frame, Delete tombstones one, and a rebuild resurrects the
  blob (`IndexRebuildable`).
- FileWriter with two uploads of files sharing a chunk (`MaxPuts = 2`, no
  rollover): both Stat the chunk absent and both Put it; the second Put moves
  the index entry to a frame it has not written yet, so `UploadedReadable`
  fails for the first upload's returned chunk meanwhile. Its cause, the
  index entry saved before the frame with no check for a stored hash, is the
  one `bf_crash_wrong_blob` shows; its finding says both.
- The rollover check leaves out the 37-byte frame overhead, so containers
  exceed `maxBlobsFileSize`.
- Lists/Backup: an `incrUint32` error after the put (one saver, errors on),
  and an `Ldel` whose snapshot misses a concurrent `Ladd`, break
  `LenCountsMembers` too.
- FileTree with two handlers and flat paths (`MCHandlers`, `MCFlatPaths`):
  two POSTs read the same root and the later kv Put drops the other's file
  (`FsRefinement`); with one handler and flat paths the refinement holds.

The findings in `PROJECT.json` explain each violation against the code lines
and `spec.md`. Every property of a passing run has a mutant (a plausible bug
in a mapped definition: an off-by-one in the hole or the flag offset, a
position taken after the offset advanced, the writer's Stat test inverted, a
chunk loop that does not advance) that TLC catches.

Bounds: two hashes (four with the writer's meta nodes), at most 3 Puts and
2 Deletes, two uploads, two savers and a list client, two POSTs' worth of
paths. Every case above needs at most two frames and one rollover, two
callers of one list, or two posts at depth 2. Restarts and index wipes are
unbounded (they add no new states after one cycle).

Assumptions the passing BlobsFile runs make, each lifted in a violation run
or described above: `SameHashOverlap = FALSE`, `PutIfAbsent = TRUE` (callers
Stat before Put, as the file writer does; `fw_upload` lifts it with real
concurrent Stat-then-Put), `RescanEnabled = FALSE` under crashes. The
BlobsIndex and the filetree kv store are taken to be durable at each write;
blobstore `Get` of an absent hash is taken to return
`clientutil.ErrBlobNotFound` (the blobstore package is not in this
repository).

Deadlock: the delete, upload and sync runs check it (Stop/Start, a new
trigger, a finished upload can always follow or end). Crash runs and the
list, backup and filetree violation runs say `CHECK_DEADLOCK FALSE`: a
container without its magic, and the call bounds, give real terminal states.

Fairness: BlobsFile properties are all safety. FileWriter's fairness is
described above. SyncTable's `FairSpec` puts weak fairness on each
replica's Trigger, Handle, Receive, FetchLeafs and Finish: an operator keeps
triggering syncs and an HTTP call that is not failing returns. `Fail` and
`PutHash` get none; `Convergence` assumes successful syncs happen infinitely
often as its antecedent, as the spec's "a retry converges" does.
FileTreeShare's run is safety only and checks deadlock (a request can
always be made). BlobsEnum's run is a safety check over terminating calls, with
`CHECK_DEADLOCK FALSE` because a finished call is a final state; so does
the apps run, whose behaviours are one request and its response.

## Plan for the remaining parts

1. **BlobsFile**: crashes during Delete in a passing run with a durable
   flag as the fix, to keep `NoResurrection` checked.
2. **FileWriter**: machine crashes during uploads (a stale index entry makes
   every later Stat skip the chunk), chunker errors.
3. **Lists**: `Lprev` and `Lmrange` (excludes kStart, includes the first
   index past kEnd), which nothing in this repository calls.
4. **SyncTable**: an abstract set-union sync and the spec's step 4 client.

## Not modelled

- FileTree's GET/HEAD of fsHandler and uploadHandler: reads and streaming
  (the sharing handlers are modelled by FileTreeShare); HEAD on the sharing
  routes, which serves no body and signs nothing. The GET
  branch of fsHandler panics even when the node is found (its switch has
  `default: panic(err)`), which needs no model.
- Backup `NewBackupFromDB` and `Meta`: HGETALL reads.
- The client's `KvStore` (`Put`, `Get`, `Versions`, `Keys`): one HTTP
  request each, with no state in the client and nothing in this repository
  calling it.
- Of the Lua apps (`apps.go`): the Lua runtime and the modules it loads,
  `buildCache` (an in-memory LRU per app; its `__newindex` removes a key set
  to nil and then adds nil anyway, lines 333-337), the cron jobs of
  scheduled apps (their function only logs), `Close` and the Lua `apps`
  module: interpreter glue with no state a property could relate.
- `blobstash.go`, `tools/genluaindex.go`, the C header and the README text:
  wiring, code generation and declarations.
- Snappy compression and blake2b: a hash is a model value and a frame's
  payload verifies or not.
- The content of the kv store behind the BlobsIndex: treated as a durable map.
