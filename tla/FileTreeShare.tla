---------------------------- MODULE FileTreeShare ----------------------------
(***************************************************************************)
(* The read side of the FileTree extension (src/pkg/filetree/filetree.go): *)
(* how a node is served to a client that has no API key.                   *)
(*                                                                         *)
(*  - nodeHandler (/node/{ref}, behind basicAuth) is the owner's: with     *)
(*    ?bewit=1 it signs the node's short URL /d/<hash> or /f/<hash> with a *)
(*    bewit valid for shareTTL, which the owner hands out.                 *)
(*  - dirHandler (/d/{ref}, /dir/{ref}) serves a dir if the request's      *)
(*    bewit is valid or the dir's meta is public: its index.html through   *)
(*    serveFile, else a listing whose links to non-public children carry   *)
(*    fresh bewits.                                                        *)
(*  - fileHandler (/f/{ref}, /file/{ref}) runs serveFile: a valid bewit,   *)
(*    a public meta or authFunc (false for this client) let a file out.    *)
(*                                                                         *)
(* Metas are immutable blobs, so the tree (Kids, from meta.Refs), the      *)
(* types, names and public flags are constants.  The bewit library is not *)
(* part of the repository: a bewit is modelled as bound to the URL path it *)
(* signs and valid while now < its expiry.  Time is a bounded clock.  The  *)
(* client knows every hash and keeps, per link path, the freshest bewit it *)
(* was given; an older bewit for the same path grants nothing more.  GET   *)
(* is modelled; HEAD returns before any body and mints nothing.            *)
(***************************************************************************)
EXTENDS Integers, FiniteSets

LOCAL INSTANCE Graphs

CONSTANTS
    Nodes,      \* meta hashes, all in the blob store
    Kids,       \* Kids[n]: the refs of dir n
    Type,       \* Type[n]: "dir" or "file"
    IsIndex,    \* IsIndex[n]: n's name is "index.html"
    Public,     \* Public[n]: n's meta has XAttrs public=1
    Shareable,  \* the nodes the owner signs with ?bewit=1
    TTL,        \* shareTTL, in clock ticks
    MaxTime     \* bound on the clock

ASSUME /\ Type \in [Nodes -> {"dir", "file"}]
       /\ Kids \in [Nodes -> SUBSET Nodes]
       /\ \A n \in Nodes : Type[n] = "file" => Kids[n] = {}
       /\ IsDag([node |-> Nodes, edge |-> UNION {{n} \X Kids[n] : n \in Nodes}])
       /\ IsIndex \in [Nodes -> BOOLEAN] /\ Public \in [Nodes -> BOOLEAN]
       /\ Shareable \subseteq Nodes /\ TTL \in Nat \ {0} /\ MaxTime \in Nat

VARIABLES
    now,     \* the clock
    caps,    \* caps[n]: expiry of the client's freshest bewit for n's link (0: none)
    shared,  \* shared[n]: when the owner last shared n (-1: never; history)
    body     \* what the last response served: nothing, a file or a listing

vars == <<now, caps, shared, body>>

NoBody == <<"none">>
DirRoutes == {"/d/", "/dir/"}
FileRoutes == {"/f/", "/file/"}

-----------------------------------------------------------------------------

\* fmt.Sprintf("/%s/%s", n.Type[0:1], n.Hash): the path a bewit signs.
LinkRoute(n) == IF Type[n] = "dir" THEN "/d/" ELSE "/f/"

\* bewit.Validate(r, ft.sharingCred) for a request to route <hash h>,
\* carrying the client's bewit for h's link or none.
Validate(route, h, use) == use /\ route = LinkRoute(h) /\ now < caps[h]

\* bewit.Bewit(ft.sharingCred, u, ft.shareTTL) for the links of S.
Mint(S) == caps' = [n \in Nodes |-> IF n \in S THEN now + TTL ELSE caps[n]]

Init ==
    /\ now = 0
    /\ caps = [n \in Nodes |-> 0]
    /\ shared = [n \in Nodes |-> -1]
    /\ body = NoBody

Tick ==
    /\ now < MaxTime
    /\ now' = now + 1
    /\ body' = NoBody
    /\ UNCHANGED <<caps, shared>>

\* nodeHandler with ?bewit=1: nodeByRef, the bewit of the node's link, the
\* node's JSON to the owner; the owner gives the link to the client.
NodeBewit(h) ==
    /\ h \in Shareable
    /\ Mint({h})
    /\ shared' = [shared EXCEPT ![h] = now]
    /\ body' = NoBody
    /\ UNCHANGED now

\* Mutant: serveFile without the m.IsDir() panic.
ServeFileNoDirCheck(route, h, use, cn) ==
    body' = IF Validate(route, h, use) \/ Public[cn]
            THEN <<"file", cn>> ELSE NoBody

\* serveFile(w, r, cn) for the request r to route <hash h>: the bewit, else
\* the public flag, else authFunc (false: a 404); a dir panics (a 500).
ServeFile(route, h, use, cn) ==
    body' = IF (Validate(route, h, use) \/ Public[cn]) /\ Type[cn] = "file"
            THEN <<"file", cn>> ELSE NoBody

\* fileHandler: serveFile of the ref.
FileRequest(route, h, use) ==
    /\ route \in FileRoutes
    /\ ServeFile(route, h, use, h)
    /\ UNCHANGED <<now, caps, shared>>

\* Mutant: dirHandler without the 404 for an unauthorized request.
DirRequestNoAuth(route, h, use) ==
    LET index == {c \in Kids[h] : IsIndex[c]} IN
    /\ route \in DirRoutes
    /\ IF Type[h] # "dir" THEN body' = NoBody /\ UNCHANGED caps
       ELSE IF index # {} THEN (\E cn \in index : ServeFile(route, h, use, cn)) /\ UNCHANGED caps
       ELSE body' = <<"listing", h>> /\ Mint({c \in Kids[h] : ~Public[c]})
    /\ UNCHANGED <<now, shared>>

\* dirHandler: bewit or public flag, else a 404; a file panics; fetchDir and
\* sort by name, then the first child named index.html (sort.Sort is not
\* stable: any of them) through serveFile with this request, else the
\* listing, with a bewit on each non-public child's link.
DirRequest(route, h, use) ==
    LET authorized == Validate(route, h, use) \/ Public[h]
        index == {c \in Kids[h] : IsIndex[c]}
    IN
    /\ route \in DirRoutes
    /\ IF ~authorized \/ Type[h] # "dir" THEN body' = NoBody /\ UNCHANGED caps
       ELSE IF index # {} THEN (\E cn \in index : ServeFile(route, h, use, cn)) /\ UNCHANGED caps
       ELSE body' = <<"listing", h>> /\ Mint({c \in Kids[h] : ~Public[c]})
    /\ UNCHANGED <<now, shared>>

Next ==
    \/ Tick
    \/ \E h \in Nodes : NodeBewit(h)
    \/ \E route \in DirRoutes \cup FileRoutes, h \in Nodes, use \in BOOLEAN :
          FileRequest(route, h, use) \/ DirRequest(route, h, use)

Spec == Init /\ [][Next]_vars

-----------------------------------------------------------------------------
(* Properties *)

Files == {n \in Nodes : Type[n] = "file"}
Dirs == {n \in Nodes : Type[n] = "dir"}

TypeOK ==
    /\ now \in 0 .. MaxTime
    /\ caps \in [Nodes -> 0 .. MaxTime + TTL]
    /\ shared \in [Nodes -> -1 .. MaxTime]
    /\ body \in {NoBody} \cup ({"file"} \X Files) \cup ({"listing"} \X Dirs)

\* The lengths of the paths from s down to n (empty: n is not below s).
RECURSIVE PathLengths(_, _)
PathLengths(s, n) ==
    IF s = n THEN {0}
    ELSE UNION {{d + 1 : d \in PathLengths(c, n)} : c \in Kids[s]}

\* What a client may be served at time t: anything below a public node (a
\* public dir can be listed at any time and mints bewits for its children),
\* or a node at depth d below a node shared at t0, before t0 + (d+1)*TTL
\* (each listing on the way re-signs the next level for another TTL).
Granted(n, t) ==
    \/ \E p \in Nodes : Public[p] /\ PathLengths(p, n) # {}
    \/ \E s \in Nodes : shared[s] >= 0 /\
          \E d \in PathLengths(s, n) : t < shared[s] + (d + 1) * TTL

\* Every file and listing dirHandler and fileHandler serve to a client
\* without an API key lies below a public node, or below a node the owner
\* shared through nodeHandler, within the time the chain of re-signed
\* links allows.
ShareConfined == body # NoBody => Granted(body[2], now)

====
