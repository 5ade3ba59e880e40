--------------------------- MODULE ClientPipeline ---------------------------
(***************************************************************************)
(* The blob store HTTP client of src/client2/client.go with its upload     *)
(* pipeline, and its reads.  ProcessBlobs starts the worker goroutines (25 in the code)   *)
(* and then sets the pipeline flag; from then on Put does wg.Add(1), hands *)
(* the blob to a worker over the unbuffered channel bs.blobs and returns   *)
(* nil, and the worker uploads it, panics if the upload fails, and does    *)
(* wg.Done.  Before the flag is set Put uploads the blob itself and        *)
(* returns the upload's error.  Stop waits on the WaitGroup.  Get and     *)
(* Stat are one request each and report what the server holds.           *)
(*                                                                         *)
(* A blob is its hash.  The server's blob store is the set of hashes it    *)
(* holds; an upload that fails (the request, or a status other than 200)   *)
(* may have stored the blob or not.  A panic in a worker ends the process: *)
(* every goroutine stops.                                                  *)
(***************************************************************************)
EXTENDS Integers, FiniteSets

CONSTANTS
    Hashes,     \* the blobs callers Put
    Callers,    \* goroutines using the BlobStore
    Workers,    \* the processBlobs goroutines ProcessBlobs starts
    PutErrors,  \* whether a request (an upload, a GET, a HEAD) may fail
    MaxPuts,    \* bound on the number of Put calls
    NoHash      \* no blob (a model value)

ASSUME PutErrors \in BOOLEAN /\ MaxPuts \in Nat /\ NoHash \notin Hashes

VARIABLES
    pipeline,  \* bs.pipeline
    wk,        \* wk[w]: worker w's state ("off", "idle", "put") and its blob
    cl,        \* cl[c]: caller c's call (pc, hash), the acks its last Stop
               \* waited for, and what its last Get or Stat answered
    wg,        \* the WaitGroup counter
    server,    \* the hashes the server holds
    acked,     \* the hashes some Put returned nil for (history)
    crashed,   \* a worker panicked: the process is gone
    puts       \* Put calls made

vars == <<pipeline, wk, cl, wg, server, acked, crashed, puts>>

-----------------------------------------------------------------------------

\* A read: its answer, and (history) whether the blob read was among the
\* acks the caller's last returned Stop had waited for.
NoRead == [res |-> "none", covered |-> FALSE]

\* NewBlobStore: the flag false, no goroutine reading bs.blobs.
Init ==
    /\ pipeline = FALSE
    /\ wk = [w \in Workers |-> [pc |-> "off", hash |-> NoHash]]
    /\ cl = [c \in Callers |-> [pc |-> "idle", hash |-> NoHash, snap |-> {},
                                read |-> NoRead]]
    /\ wg = 0
    /\ server = {}
    /\ acked = {}
    /\ crashed = FALSE
    /\ puts = 0

Live == crashed = FALSE

\* ProcessBlobs, first half: go bs.processBlobs() for each worker.
StartWorkers(c) ==
    /\ Live /\ cl[c].pc = "idle" /\ \A w \in Workers : wk[w].pc = "off"
    /\ wk' = [w \in Workers |-> [pc |-> "idle", hash |-> NoHash]]
    /\ cl' = [cl EXCEPT ![c].pc = "process"]
    /\ UNCHANGED <<pipeline, wg, server, acked, crashed, puts>>

\* ProcessBlobs, second half: bs.pipeline = true (unsynchronised with Put's
\* read of it; a Put reads it before or after this step).
SetPipeline(c) ==
    /\ Live /\ cl[c].pc = "process"
    /\ pipeline' = TRUE
    /\ cl' = [cl EXCEPT ![c].pc = "idle"]
    /\ UNCHANGED <<wk, wg, server, acked, crashed, puts>>

\* Mutant: the send without the wg.Add(1) before it.
PutPipelinedNoAdd(c, h) ==
    /\ Live /\ cl[c].pc = "idle" /\ puts < MaxPuts /\ pipeline
    /\ cl' = [cl EXCEPT ![c].pc = "send", ![c].hash = h]
    /\ puts' = puts + 1
    /\ UNCHANGED <<pipeline, wk, wg, server, acked, crashed>>

\* Put with the pipeline on: wg.Add(1), then the send on bs.blobs blocks
\* until a worker receives.
PutPipelined(c, h) ==
    /\ Live /\ cl[c].pc = "idle" /\ puts < MaxPuts /\ pipeline
    /\ wg' = wg + 1
    /\ cl' = [cl EXCEPT ![c].pc = "send", ![c].hash = h]
    /\ puts' = puts + 1
    /\ UNCHANGED <<pipeline, wk, server, acked, crashed>>

\* Put with the pipeline off: the caller runs put itself.
PutDirect(c, h) ==
    /\ Live /\ cl[c].pc = "idle" /\ puts < MaxPuts /\ ~pipeline
    /\ cl' = [cl EXCEPT ![c].pc = "upload", ![c].hash = h]
    /\ puts' = puts + 1
    /\ UNCHANGED <<pipeline, wk, wg, server, acked, crashed>>

\* put's multipart POST to /api/v1/blobstore/upload: 200 stores the blob;
\* a failure may come before or after the server stored it.
UploadOutcome(h, ok) ==
    IF ok THEN server' = server \cup {h} ELSE server' \in {server, server \cup {h}}

\* The caller's own put returns: nil on success, the error otherwise.
PutDirectDone(c) ==
    LET h == cl[c].hash IN
    /\ Live /\ cl[c].pc = "upload"
    /\ \E ok \in IF PutErrors THEN BOOLEAN ELSE {TRUE} :
          /\ UploadOutcome(h, ok)
          /\ acked' = IF ok THEN acked \cup {h} ELSE acked
    /\ cl' = [cl EXCEPT ![c].pc = "idle", ![c].hash = NoHash]
    /\ UNCHANGED <<pipeline, wk, wg, crashed, puts>>

\* An idle worker's range over bs.blobs receives the caller's blob: the
\* send completes and Put returns nil.
Receive(w, c) ==
    /\ Live /\ wk[w].pc = "idle" /\ cl[c].pc = "send"
    /\ wk' = [wk EXCEPT ![w] = [pc |-> "put", hash |-> cl[c].hash]]
    /\ acked' = acked \cup {cl[c].hash}
    /\ cl' = [cl EXCEPT ![c].pc = "idle", ![c].hash = NoHash]
    /\ UNCHANGED <<pipeline, wg, server, crashed, puts>>

\* Mutant: a failed upload is logged instead of panicking, and wg.Done.
UploadIgnoreError(w) ==
    /\ Live /\ wk[w].pc = "put"
    /\ \E ok \in IF PutErrors THEN BOOLEAN ELSE {TRUE} : UploadOutcome(wk[w].hash, ok)
    /\ wg' = wg - 1
    /\ wk' = [wk EXCEPT ![w] = [pc |-> "idle", hash |-> NoHash]]
    /\ UNCHANGED <<pipeline, cl, acked, puts, crashed>>

\* Mutant: the loop body without its wg.Done.
UploadNoDone(w) ==
    /\ Live /\ wk[w].pc = "put"
    /\ \E ok \in IF PutErrors THEN BOOLEAN ELSE {TRUE} :
          /\ UploadOutcome(wk[w].hash, ok)
          /\ IF ok THEN /\ wk' = [wk EXCEPT ![w] = [pc |-> "idle", hash |-> NoHash]]
                        /\ UNCHANGED crashed
                   ELSE /\ crashed' = TRUE /\ UNCHANGED wk
    /\ UNCHANGED <<pipeline, cl, wg, acked, puts>>

\* The worker's loop body: base64 decode (of what Put encoded, so it does
\* not fail), bs.put, panic on its error, else wg.Done.
Upload(w) ==
    LET h == wk[w].hash IN
    /\ Live /\ wk[w].pc = "put"
    /\ \E ok \in IF PutErrors THEN BOOLEAN ELSE {TRUE} :
          /\ UploadOutcome(h, ok)
          /\ IF ok THEN /\ wg' = wg - 1
                        /\ wk' = [wk EXCEPT ![w] = [pc |-> "idle", hash |-> NoHash]]
                        /\ UNCHANGED crashed
                   ELSE /\ crashed' = TRUE
                        /\ UNCHANGED <<wg, wk>>
    /\ UNCHANGED <<pipeline, cl, acked, puts>>

\* Stop: bs.wg.Wait() starts; the acks so far are what it waits for.
StopCall(c) ==
    /\ Live /\ cl[c].pc = "idle"
    /\ cl' = [cl EXCEPT ![c].pc = "stop", ![c].snap = acked]
    /\ UNCHANGED <<pipeline, wk, wg, server, acked, crashed, puts>>

\* Wait returns when the counter is zero.
StopReturn(c) ==
    /\ Live /\ cl[c].pc = "stop" /\ wg = 0
    /\ cl' = [cl EXCEPT ![c].pc = "idle"]
    /\ UNCHANGED <<pipeline, wk, wg, server, acked, crashed, puts>>

\* The answer to a GET or HEAD of /api/v1/blobstore/blob/<h>: 200 when the
\* server holds h, 404 when it does not; a failed request, or another
\* status, is an error.
Answer(h) == {IF h \in server THEN "found" ELSE "notfound"}
             \cup (IF PutErrors THEN {"error"} ELSE {})

\* Get: the blob on 200, ErrBlobNotFound on 404, else an error (a failed
\* request or body read included).
Get(c, h) ==
    /\ Live /\ cl[c].pc = "idle"
    /\ \E res \in Answer(h) : cl' = [cl EXCEPT ![c].read = [res |-> res, covered |-> h \in cl[c].snap]]
    /\ UNCHANGED <<pipeline, wk, wg, server, acked, crashed, puts>>

\* Stat: true on 200, false on 404, else an error.
Stat(c, h) ==
    /\ Live /\ cl[c].pc = "idle"
    /\ \E res \in Answer(h) : cl' = [cl EXCEPT ![c].read = [res |-> res, covered |-> h \in cl[c].snap]]
    /\ UNCHANGED <<pipeline, wk, wg, server, acked, crashed, puts>>

Next ==
    \/ \E c \in Callers :
          \/ StartWorkers(c) \/ SetPipeline(c) \/ PutDirectDone(c)
          \/ StopCall(c) \/ StopReturn(c)
          \/ \E h \in Hashes : PutPipelined(c, h) \/ PutDirect(c, h)
                              \/ Get(c, h) \/ Stat(c, h)
    \/ \E w \in Workers : Upload(w) \/ \E c \in Callers : Receive(w, c)

Spec == Init /\ [][Next]_vars

\* The goroutines are scheduled and the server answers every request (the
\* http.Client has no timeout, so this is an assumption on the server).  A
\* running worker's upload and a caller's own put complete; a blocked send
\* is served, channel waiters being queued in order, once a worker is
\* idle again; a waiter is woken when the counter reaches zero.
Fairness ==
    /\ \A w \in Workers : WF_vars(Upload(w))
    /\ \A c \in Callers : /\ WF_vars(SetPipeline(c)) /\ WF_vars(PutDirectDone(c))
                         /\ SF_vars(\E w \in Workers : Receive(w, c))
                         /\ SF_vars(StopReturn(c))

FairSpec == Spec /\ Fairness

-----------------------------------------------------------------------------
(* Properties *)

TypeOK ==
    /\ pipeline \in BOOLEAN /\ crashed \in BOOLEAN
    /\ wk \in [Workers -> [pc : {"off", "idle", "put"}, hash : Hashes \cup {NoHash}]]
    /\ cl \in [Callers -> [pc : {"idle", "process", "send", "upload", "stop"},
                           hash : Hashes \cup {NoHash}, snap : SUBSET Hashes,
                           read : {NoRead} \cup [res : {"found", "notfound", "error"},
                                                   covered : BOOLEAN]]]
    /\ wg \in 0 .. MaxPuts /\ puts \in 0 .. MaxPuts
    /\ server \subseteq Hashes /\ acked \subseteq Hashes

\* Once a caller's Stop has returned, its Get or Stat of a blob whose Put
\* had returned nil before that Stop was called never answers not found
\* (spec: after a successful put, stat is true): Put's wg.Add before the
\* send and the worker's wg.Done after the upload make the Wait cover
\* every pipelined blob, whichever goroutine put it.
ReadAfterStop ==
    \A c \in Callers : cl[c].read.res = "notfound" => ~cl[c].read.covered

\* A blob Put returned nil for is eventually on the server, unless the
\* process died: a pipelined Put hands its blob to a worker that either
\* uploads it or panics.
AckedStored == \A h \in Hashes : h \in acked ~> (h \in server \/ crashed)

\* Stop returns, unless the process died: every wg.Add is matched by the
\* wg.Done of the worker that receives the blob.
StopEnds == \A c \in Callers : cl[c].pc = "stop" ~> (cl[c].pc # "stop" \/ crashed)

====
