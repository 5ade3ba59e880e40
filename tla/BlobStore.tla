------------------------------ MODULE BlobStore ------------------------------
(***************************************************************************)
(* What a blob store promises its callers (spec 3 and 4.4): a set of       *)
(* blobs, each named by its hash.  A Put or Delete is a call that starts,  *)
(* takes effect in one step, and returns.  A Put takes effect as it        *)
(* returns and makes its blob readable (a Put of a present blob is a       *)
(* no-op); a Delete makes its blob unreadable.  Nothing else changes which *)
(* blobs can be read, and a stop and restart keeps the set.                *)
(***************************************************************************)
CONSTANTS Hashes

VARIABLES
    blobs,      \* the blobs Get returns
    up,         \* whether the store is open
    putting,    \* hashes of the Put calls in progress
    deleting    \* hashes of the Delete calls in progress

vars == <<blobs, up, putting, deleting>>

Init == blobs = {} /\ up = TRUE /\ putting = {} /\ deleting = {}

BeginPut(h) ==
    /\ up = TRUE /\ putting' = putting \cup {h}
    /\ UNCHANGED <<blobs, up, deleting>>

\* The blob is stored and the call returns.
Put(h) ==
    /\ h \in putting
    /\ blobs' = blobs \cup {h} /\ putting' = putting \ {h}
    /\ UNCHANGED <<up, deleting>>

BeginDelete(h) ==
    /\ up = TRUE /\ deleting' = deleting \cup {h}
    /\ UNCHANGED <<blobs, up, putting>>

\* The Delete takes effect.
Delete(h) ==
    /\ h \in deleting /\ blobs' = blobs \ {h}
    /\ UNCHANGED <<up, putting, deleting>>

EndDelete(h) ==
    /\ h \in deleting /\ deleting' = deleting \ {h}
    /\ UNCHANGED <<blobs, up, putting>>

Stop ==
    /\ up = TRUE /\ putting = {} /\ deleting = {}
    /\ up' = FALSE /\ UNCHANGED <<blobs, putting, deleting>>

Start == up = FALSE /\ up' = TRUE /\ UNCHANGED <<blobs, putting, deleting>>

Next ==
    \/ \E h \in Hashes : BeginPut(h) \/ Put(h) \/ BeginDelete(h) \/ Delete(h)
                         \/ EndDelete(h)
    \/ Stop \/ Start

Spec == Init /\ [][Next]_vars

=============================================================================
