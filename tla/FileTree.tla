------------------------------ MODULE FileTree ------------------------------
(***************************************************************************)
(* The filetree FS (src/pkg/filetree/filetree.go): a named FS is a key of  *)
(* the kv store holding the hash of a root dir meta; a dir meta lists the  *)
(* hashes of its children, a file meta the chunks of the file.  A POST to  *)
(* /fs/{name}/{path} (fsHandler) reads the FS (FS), walks or creates the   *)
(* nodes along the path (Path), uploads the file (PutReader), then Update  *)
(* saves a new meta for every ancestor, bottom-up, and finally the new     *)
(* root hash in the kv store.  Requests are served concurrently.           *)
(*                                                                         *)
(* A blob's hash is the meta it encodes (collision-free); the modtime an   *)
(* Update stamps is left out.  A file's chunk list is its content c.  The  *)
(* blobs are immutable and every hash a tree refers to was put before the  *)
(* kv store refers to it, so nodeByRef of such a hash returns its meta.    *)
(***************************************************************************)
EXTENDS Integers, Sequences, FiniteSets

CONSTANTS
    Names,       \* path components
    Contents,    \* file contents (a file's chunk refs)
    PostPaths,   \* the paths clients POST files at
    Handlers,    \* concurrent fsHandler requests
    NoRef,       \* the empty hash "" (an FS not yet saved, a created node)
    MaxPosts,    \* bound on the number of POSTs
    BlobErrors,  \* whether a blob Put may fail
    KvErrors     \* whether the kv Put of the FS may fail

ASSUME /\ PostPaths \subseteq Seq(Names) \ {<<>>}
       \* no path is a proper prefix of another (a file is never a dir)
       /\ \A p, q \in PostPaths : Len(p) < Len(q) => SubSeq(q, 1, Len(p)) # p

VARIABLES
    fsRef,   \* the kv value _:filetree:fs:<name>: the FS's root hash, or NoRef
    req,     \* req[h]: the request handler h is serving
    posts    \* number of POSTs made

vars == <<fsRef, req, posts>>

-----------------------------------------------------------------------------
(* Nodes: meta is the node's meta, hash its Hash (NoRef for a node Path    *)
(* created), children the hashes fetchDir loaded for a dir.                *)

\* PutReader's meta for a file at path p: Name is filepath.Base(path).
FileMeta(p, c) == [name |-> p[Len(p)], type |-> "file", refs |-> <<c>>]

\* nodeByRef then fetchDir(node, 1, 1): a dir gets its children.
FetchedNode(ref) ==
    [meta |-> ref, hash |-> ref,
     children |-> IF ref.type = "dir" THEN ref.refs ELSE <<>>]

\* meta.NewMeta() made into a node by Path or Root: no hash, no children.
CreatedNode(name, type) ==
    [meta |-> [name |-> name, type |-> type, refs |-> <<>>], hash |-> NoRef,
     children |-> <<>>]

\* Root(true): the FS root, or a new "_root" dir if the FS has no root yet.
Root(ref) == IF ref = NoRef THEN CreatedNode("_root", "dir") ELSE FetchedNode(ref)

\* Path's loop: for the i-th name, the first child of that name is fetched,
\* else a node is created (a dir, or a file for the last name).  The result
\* is the chain root .. target, each node's parent the one before it.
RECURSIVE Walk(_, _, _)
Walk(chain, path, i) ==
    IF i > Len(path) THEN chain
    ELSE LET node  == chain[Len(chain)]
             found == {j \in DOMAIN node.children : node.children[j].name = path[i]}
             next  == IF found # {}
                      THEN FetchedNode(node.children[CHOOSE j \in found :
                                                         \A o \in found : j <= o])
                      ELSE CreatedNode(path[i], IF i = Len(path) THEN "file" ELSE "dir")
         IN  Walk(Append(chain, next), path, i + 1)

\* fs.Path(path, true) on the FS whose root hash is ref.
Path(ref, path) == Walk(<<Root(ref)>>, path, 1)

\* Update(n, m) with n = chain[k], whose Hash is nHash: the root hash it
\* finally saves.  The parent's refs become m's hash followed by every
\* child whose hash is not n.Hash; the parent's new hash is set on the
\* parent node before the recursive Update(newNode.parent, ...), so the
\* next level filters with the new hash.
RECURSIVE Update(_, _, _, _)
Update(chain, k, m, nHash) ==
    IF k = 1 THEN m
    ELSE LET parent  == chain[k - 1]
             newRefs == <<m>> \o SelectSeq(parent.children, LAMBDA c : c # nHash)
             pm      == [parent.meta EXCEPT !.refs = newRefs]
         IN  Update(chain, k - 1, pm, pm)

-----------------------------------------------------------------------------

ReqIdle == [pc |-> "idle", path |-> <<>>, content |-> NoRef, chain |-> <<>>]

Init ==
    /\ fsRef = NoRef
    /\ req = [h \in Handlers |-> ReqIdle]
    /\ posts = 0

\* fsHandler POST: ft.FS(name) reads the root hash from the kv store, then
\* fs.Path(path, true) walks the tree as it was at that read.
Post(h, path, c) ==
    /\ req[h].pc = "idle" /\ posts < MaxPosts
    /\ req' = [req EXCEPT ![h] = [pc |-> "write", path |-> path, content |-> c,
                                  chain |-> Path(fsRef, path)]]
    /\ posts' = posts + 1
    /\ UNCHANGED fsRef

\* PutReader, then ft.Update(node, meta): the blob Puts, and at the root the
\* kv Put of the FS.  A failed blob Put makes the handler panic before the
\* kv Put; a failed kv Put is ignored (its if tests a stale err) and the
\* handler answers with the new node.
Write(h) ==
    LET r == req[h] IN
    /\ r.pc = "write"
    /\ \/ fsRef' = Update(r.chain, Len(r.chain), FileMeta(r.path, r.content),
                          r.chain[Len(r.chain)].hash)
       \/ BlobErrors /\ UNCHANGED fsRef
       \/ KvErrors /\ UNCHANGED fsRef
    /\ req' = [req EXCEPT ![h] = ReqIdle]
    /\ UNCHANGED posts

Next == \E h \in Handlers : (\E p \in PostPaths, c \in Contents : Post(h, p, c)) \/ Write(h)

Spec == Init /\ [][Next]_vars

-----------------------------------------------------------------------------
(* What a listing of the FS shows *)

\* The <<path, content>> of every file reached from meta m through dir refs.
RECURSIVE Listed(_, _)
Listed(m, prefix) ==
    IF m.type = "file" THEN {<<prefix, m.refs[1]>>}
    ELSE UNION {Listed(m.refs[j], Append(prefix, m.refs[j].name)) : j \in DOMAIN m.refs}

Files == IF fsRef = NoRef THEN {} ELSE Listed(fsRef, <<>>)

FS == INSTANCE FsMap WITH files <- Files, Paths <- PostPaths

\* The FS behaves as a map from paths to contents: every kv Put of a new
\* root sets the posted path to the posted content and leaves the listing
\* of every other path as it was (Update replaces each ancestor's entry for
\* the old version of the node it rewrote).
FsRefinement == FS!Spec

====
