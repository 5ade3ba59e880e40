------------------------------ MODULE SyncTable ------------------------------
(***************************************************************************)
(* The Merkle-tree sync of blob namespaces (package synctable, in          *)
(* src/db/list.go).  Each replica summarises the hashes of a namespace as  *)
(* a State: a root digest over all hashes and one digest per bucket (the   *)
(* first two hex digits of a hash).  A sync is triggered on one replica    *)
(* (triggerHandler): it computes its State and POSTs it to the other       *)
(* replica, whose syncHandler answers 204 when the roots agree, else the   *)
(* conflicted, needed and missing buckets; the client (Sync) then fetches  *)
(* the hash list of every "missing" bucket from the other replica.         *)
(*                                                                         *)
(* A hash is a tuple of hex digits and its bucket the first two, as in     *)
(* h[0:2].  A blake2b digest streamed over the hashes of a namespace,      *)
(* in the order nsdb.Namespace lists them, is modelled by the sequence of  *)
(* hashes it was fed (collision-free).                                     *)
(***************************************************************************)
EXTENDS Integers, Sequences, FiniteSets

SE == INSTANCE SequencesExt

CONSTANTS
    Replicas,         \* the blobstash servers holding the namespace
    Hashes,           \* blob hashes, as tuples of hex digits
    Prefixes,         \* the bucket names: tuples of two hex digits
    NamespaceSorted   \* whether nsdb.Namespace lists hashes in key order

ASSUME /\ \A h \in Hashes : Len(h) >= 2 /\ SubSeq(h, 1, 2) \in Prefixes
       /\ NamespaceSorted \in BOOLEAN

VARIABLES
    store,        \* store[r]: the hashes of the namespace on replica r
    cl,           \* cl[r]: the Sync client run by a trigger on replica r
    resp          \* resp[r]: the syncHandler answer sent to r's client

vars == <<store, cl, resp>>

-----------------------------------------------------------------------------
(* The state tree (StateTree, generateTree) *)

\* Hex strings compare character by character.
HashLess(x, y) ==
    \E i \in 1..Len(x) : SubSeq(x, 1, i - 1) = SubSeq(y, 1, i - 1) /\ x[i] < y[i]

\* nsdb.Namespace(ns, ""): the orders in which it may list the hashes.
NamespaceOrders(S) ==
    IF NamespaceSorted THEN {SE!SetToSortSeq(S, HashLess)} ELSE SE!SetToSeqs(S)

\* Mutant: the bucket taken from the first hex digit only.
PrefixOneDigit(h) == SubSeq(h, 1, 1)

\* Add: the bucket of a hash is h[0:2].
Prefix(h) == SubSeq(h, 1, 2)

\* generateTree over the hashes listed as seq, then Root and Level1: the root
\* digest streams every hash, a bucket digest the hashes of its bucket, in
\* the order they are added.  A digest is the sequence it was fed.
StateOf(seq) ==
    [root  |-> seq,
     leafs |-> [p \in {Prefix(seq[i]) : i \in DOMAIN seq} |->
                  SelectSeq(seq, LAMBDA h : Prefix(h) = p)]]

NoResp == [code |-> 0, conflicted |-> {}, needed |-> {}, missing |-> {},
           cset |-> {}, sset |-> {}]

\* Mutant: the loop over the remote leafs is left out.
SyncHandlerNoRemoteLoop(remote, local) ==
    IF local.root = remote.root THEN [NoResp EXCEPT !.code = 204]
    ELSE [NoResp EXCEPT !.code = 200,
            !.conflicted = {p \in DOMAIN local.leafs \cap DOMAIN remote.leafs :
                              local.leafs[p] # remote.leafs[p]},
            !.missing = DOMAIN local.leafs \ DOMAIN remote.leafs]

\* syncHandler: remote is the State posted by the client, local the State
\* of the serving replica.  "missing" are the buckets only the server has
\* (leafsToSend), "needed" those only the client has.
SyncHandler(remote, local) ==
    IF local.root = remote.root THEN [NoResp EXCEPT !.code = 204]
    ELSE [NoResp EXCEPT !.code = 200,
            !.conflicted = {p \in DOMAIN local.leafs \cap DOMAIN remote.leafs :
                              local.leafs[p] # remote.leafs[p]},
            !.missing = DOMAIN local.leafs \ DOMAIN remote.leafs,
            !.needed = DOMAIN remote.leafs \ DOMAIN local.leafs]

\* json decoding into SyncResp: its Needed field is tagged "nedeed", so the
\* "needed" list of the answer is never decoded.
DecodeSyncResp(r) ==
    [conflicted |-> r.conflicted, needed |-> {}, missing |-> r.missing]

-----------------------------------------------------------------------------

ClIdle == [phase |-> "idle", peer |-> CHOOSE r \in Replicas : TRUE,
           state |-> StateOf(<<>>), sent |-> {},
           sr |-> DecodeSyncResp(NoResp), todo |-> {}]

Init ==
    /\ store = [r \in Replicas |-> {}]
    /\ cl = [r \in Replicas |-> ClIdle]
    /\ resp = [r \in Replicas |-> NoResp]

\* A blob is written to replica r's namespace by any other client.
PutHash(r, h) ==
    /\ h \notin store[r]
    /\ store' = [store EXCEPT ![r] = @ \cup {h}]
    /\ UNCHANGED <<cl, resp>>

\* triggerHandler on r: generateTree, then Sync POSTs the State to peer.
\* sent is the set the State summarises (history).
Trigger(r, peer) ==
    /\ peer # r /\ cl[r].phase = "idle"
    /\ \E seq \in NamespaceOrders(store[r]) :
         cl' = [cl EXCEPT ![r] = [ClIdle EXCEPT !.phase = "posted", !.peer = peer,
                                   !.state = StateOf(seq), !.sent = store[r]]]
    /\ UNCHANGED <<store, resp>>

\* syncHandler on the peer: generateTree at this moment, compare, answer.
\* The answer also records both sets it compared (history).
Handle(r) ==
    LET peer == cl[r].peer IN
    /\ cl[r].phase = "posted"
    /\ \E seq \in NamespaceOrders(store[peer]) :
         resp' = [resp EXCEPT ![r] =
                    [SyncHandler(cl[r].state, StateOf(seq))
                       EXCEPT !.cset = cl[r].sent, !.sset = store[peer]]]
    /\ cl' = [cl EXCEPT ![r].phase = "answered"]
    /\ UNCHANGED store

\* Sync reads the answer: 204 ends it; 200 is decoded into a SyncResp.
Receive(r) ==
    /\ cl[r].phase = "answered"
    /\ cl' = [cl EXCEPT ![r] =
                 IF resp[r].code = 204 THEN ClIdle
                 ELSE [cl[r] EXCEPT !.phase = "fetching",
                                    !.sr = DecodeSyncResp(resp[r]),
                                    !.todo = resp[r].missing]]
    /\ UNCHANGED <<store, resp>>

\* For a missing bucket: Leafs(prefix) GETs the peer's hashes in it
\* (stateLeafsHandler); Sync only prints them.
FetchLeafs(r) ==
    /\ cl[r].phase = "fetching"
    /\ \E p \in cl[r].todo : cl' = [cl EXCEPT ![r].todo = @ \ {p}]
    /\ UNCHANGED <<store, resp>>

\* Every missing bucket has been listed: Sync returns nil.
Finish(r) ==
    /\ cl[r].phase = "fetching" /\ cl[r].todo = {}
    /\ cl' = [cl EXCEPT ![r] = ClIdle]
    /\ UNCHANGED <<store, resp>>

\* doReq or Leafs fails (or the answer is neither 200 nor 204): Sync
\* returns the error and triggerHandler panics, ending the request.
Fail(r) ==
    /\ cl[r].phase \in {"posted", "answered", "fetching"}
    /\ cl' = [cl EXCEPT ![r] = ClIdle]
    /\ UNCHANGED <<store, resp>>

Next ==
    \/ \E r \in Replicas, h \in Hashes : PutHash(r, h)
    \/ \E r, peer \in Replicas : Trigger(r, peer)
    \/ \E r \in Replicas : Handle(r) \/ Receive(r) \/ FetchLeafs(r)
                          \/ Finish(r) \/ Fail(r)

Spec == Init /\ [][Next]_vars

\* A trigger is retried whenever the client is idle, and a client in the
\* middle of a Sync keeps going (HTTP calls return, with data or an error).
Fairness ==
    \A r \in Replicas :
        /\ WF_vars(\E peer \in Replicas : Trigger(r, peer))
        /\ WF_vars(Handle(r)) /\ WF_vars(Receive(r))
        /\ WF_vars(FetchLeafs(r)) /\ WF_vars(Finish(r))

FairSpec == Spec /\ Fairness

-----------------------------------------------------------------------------
(* Properties *)

Phases == {"idle", "posted", "answered", "fetching"}

\* Types; every bucket name is a two-digit prefix (StateTree.Add's h[0:2]).
TypeOK ==
    \A r \in Replicas :
        /\ store[r] \subseteq Hashes
        /\ cl[r].phase \in Phases /\ cl[r].peer \in Replicas
        /\ cl[r].sent \subseteq Hashes
        /\ DOMAIN cl[r].state.leafs \subseteq Prefixes
        /\ cl[r].todo \subseteq Prefixes
        /\ resp[r].code \in {0, 200, 204}
        /\ resp[r].conflicted \cup resp[r].needed \cup resp[r].missing
             \subseteq Prefixes

Differing(r) ==
    (resp[r].cset \ resp[r].sset) \cup (resp[r].sset \ resp[r].cset)

\* syncHandler hides no difference: every hash held by only one of the two
\* replicas, as of the States it compared, lies in a bucket the 200 answer
\* lists as conflicted, missing or needed (the loops over both Leafs maps).
ResponseCoversDifference ==
    \A r \in Replicas :
        resp[r].code = 200 =>
            \A h \in Differing(r) :
                Prefix(h) \in resp[r].conflicted \cup resp[r].missing
                                                \cup resp[r].needed

\* The root comparison of syncHandler answers 204 exactly when the two
\* replicas held the same hashes, whatever order generateTree was fed in
\* (spec 4.8: the tree must be deterministic across replicas).
InSyncExactlyWhenEqual ==
    \A r \in Replicas :
        resp[r].code # 0 => (resp[r].code = 204 <=> Differing(r) = {})

\* Sync returns nil: a 204, or every missing bucket listed.
SyncSucceeds(r) == Finish(r) \/ (Receive(r) /\ resp[r].code = 204)

\* Repeated triggers converge (spec 4.9, "a retry converges"): if Sync calls
\* keep succeeding, the replicas eventually hold the same hashes for good.
Convergence ==
    []<><<\E r \in Replicas : SyncSucceeds(r)>>_vars =>
        <>[](\A r, q \in Replicas : store[r] = store[q])

=============================================================================
