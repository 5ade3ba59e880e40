-------------------------------- MODULE Lists --------------------------------
(***************************************************************************)
(* The indexed lists of the DB (src/db/list.go).  A list is a set of KV    *)
(* entries List | len(key) | key | BigEndian uint32(index) => value, kept *)
(* sorted by the ordered KV store, and a separate counter                  *)
(* Meta | ListLen | key => uint32, the list length.  Ladd and Ldel are     *)
(* sequences of KV calls (get, put, incrUint32, GetRange, del), each of    *)
(* which may return an error that ends the call; nothing makes a call      *)
(* atomic, so calls from several connections interleave.                   *)
(*                                                                         *)
(* A key stands for its bytes; a value is a model value.  An index is the  *)
(* uint32 keyList encodes; TLC's integers are 32-bit signed, so the model  *)
(* takes indexes in 0 .. 2^31-1, where uint32(i) is i and every index lies *)
(* below 0xff000000, the end of the range Liter and Ldel read (keyList of  *)
(* "\xff").  Negative and larger indexes are left out (see the README).    *)
(***************************************************************************)
EXTENDS Integers, FiniteSets, Sequences

SE == INSTANCE SequencesExt

CONSTANTS
    Keys,           \* list keys
    Indexes,        \* the int indexes callers pass to Ladd
    Values,         \* list values
    Nil,            \* no value (get of a missing key)
    Callers,        \* connections issuing list calls
    MaxCalls,       \* bound on the number of list calls
    ErrorsEnabled   \* whether a KV call may fail

ASSUME Indexes \subseteq Nat /\ Nil \notin Values /\ MaxCalls \in Nat

VARIABLES
    kv,      \* kv[k][u]: the value of the entry of list k at uint32 index u
    llen,    \* llen[k]: the ListLen counter of list k
    lc,      \* lc[c]: the list call in progress on connection c
    calls    \* number of list calls made

vars == <<kv, llen, lc, calls>>

\* keyList's int case: binary.BigEndian.PutUint32(indexbyte, uint32(k)),
\* for 0 <= k < 2^31.
KeyIndex(i) == i

U32Indexes == {KeyIndex(i) : i \in Indexes}

\* GetRange(start, end) from keyList(key, []byte{}) (index 0) to
\* keyList(key, "\xff") (index 0xff000000): the entries of list k.
Listed(k) == {u \in U32Indexes : kv[k][u] # Nil}

\* Llen: the counter (getUint32 of a missing key is 0).
Llen(k) == llen[k]

\* Liter: the values of the listed entries by ascending index.
Liter(k) ==
    LET us == SE!SetToSortSeq(Listed(k), <)
    IN  [j \in DOMAIN us |-> kv[k][us[j]]]

\* decodeListIndex: the index read back from an entry's key.
decodeListIndex(u) == u

\* LiterWithIndex: the (index, value) pairs by ascending index.
LiterWithIndex(k) ==
    LET us == SE!SetToSortSeq(Listed(k), <)
    IN  [j \in DOMAIN us |-> [Index |-> decodeListIndex(us[j]), Value |-> kv[k][us[j]]]]

-----------------------------------------------------------------------------
(* A call: op and pc say where it is; "ok" and "err" are its return.      *)

CallIdle == [op |-> "none", pc |-> "idle", key |-> CHOOSE k \in Keys : TRUE,
             idx |-> 0, val |-> Nil, cval |-> Nil, kvs |-> {}]

Init ==
    /\ kv = [k \in Keys |-> [u \in U32Indexes |-> Nil]]
    /\ llen = [k \in Keys |-> 0]
    /\ lc = [c \in Callers |-> CallIdle]
    /\ calls = 0

Returns(c, r) == lc' = [lc EXCEPT ![c].pc = r]

\* Ladd(key, index, value) is called on connection c.
LaddCall(c, k, i, v) ==
    /\ lc[c].pc = "idle" /\ calls < MaxCalls
    /\ lc' = [lc EXCEPT ![c] = [CallIdle EXCEPT !.op = "ladd", !.pc = "get",
                                  !.key = k, !.idx = KeyIndex(i), !.val = v]]
    /\ calls' = calls + 1
    /\ UNCHANGED <<kv, llen>>

\* cval, err := db.get(kmember)
LaddGet(c) ==
    /\ lc[c].pc = "get"
    /\ lc' = [lc EXCEPT ![c].cval = kv[lc[c].key][lc[c].idx], ![c].pc = "put"]
    /\ UNCHANGED <<kv, llen, calls>>

\* db.put(kmember, value); the length is incremented only if get saw nil.
LaddPut(c) ==
    LET x == lc[c] IN
    /\ x.pc = "put"
    /\ kv' = [kv EXCEPT ![x.key][x.idx] = x.val]
    /\ IF x.cval = Nil THEN lc' = [lc EXCEPT ![c].pc = "incr"] ELSE Returns(c, "ok")
    /\ UNCHANGED <<llen, calls>>

\* db.incrUint32(listLen(key), 1)
LaddIncr(c) ==
    /\ lc[c].pc = "incr"
    /\ llen' = [llen EXCEPT ![lc[c].key] = @ + 1]
    /\ Returns(c, "ok")
    /\ UNCHANGED <<kv, calls>>

\* Ldel(key) is called on connection c.
LdelCall(c, k) ==
    /\ lc[c].pc = "idle" /\ calls < MaxCalls
    /\ lc' = [lc EXCEPT ![c] = [CallIdle EXCEPT !.op = "ldel", !.pc = "range", !.key = k]]
    /\ calls' = calls + 1
    /\ UNCHANGED <<kv, llen>>

\* kvs, err := GetRange(db.db, start, end, 0)
LdelRange(c) ==
    /\ lc[c].pc = "range"
    /\ lc' = [lc EXCEPT ![c].kvs = Listed(lc[c].key), ![c].pc = "del"]
    /\ UNCHANGED <<kv, llen, calls>>

\* db.del of the next entry read, in key order.
LdelDel(c) ==
    LET x == lc[c]
        u == CHOOSE m \in x.kvs : \A o \in x.kvs : m <= o
    IN  /\ x.pc = "del" /\ x.kvs # {}
        /\ kv' = [kv EXCEPT ![x.key][u] = Nil]
        /\ lc' = [lc EXCEPT ![c].kvs = @ \ {u}]
        /\ UNCHANGED <<llen, calls>>

\* db.del(listLen(key)) once every entry read is deleted.
LdelLen(c) ==
    /\ lc[c].pc = "del" /\ lc[c].kvs = {}
    /\ llen' = [llen EXCEPT ![lc[c].key] = 0]
    /\ Returns(c, "ok")
    /\ UNCHANGED <<kv, calls>>

\* The KV call the list call is making returns an error, which the list
\* call returns at once (what earlier KV calls wrote stays written).
KvFails(c) ==
    /\ ErrorsEnabled /\ lc[c].pc \in {"get", "put", "incr", "range", "del"}
    /\ Returns(c, "err")
    /\ UNCHANGED <<kv, llen, calls>>

\* The steps of the call in progress on connection c.
CallStep(c) ==
    \/ LaddGet(c) \/ LaddPut(c) \/ LaddIncr(c)
    \/ LdelRange(c) \/ LdelDel(c) \/ LdelLen(c) \/ KvFails(c)

\* A client of the list commands calls Ladd or Ldel and reads the answer.
ClientCall(c) ==
    \/ \E k \in Keys, i \in Indexes, v \in Values : LaddCall(c, k, i, v)
    \/ \E k \in Keys : LdelCall(c, k)

ClientAck(c) ==
    /\ lc[c].pc \in {"ok", "err"}
    /\ lc' = [lc EXCEPT ![c] = CallIdle]
    /\ UNCHANGED <<kv, llen, calls>>

Next == \E c \in Callers : ClientCall(c) \/ CallStep(c) \/ ClientAck(c)

Spec == Init /\ [][Next]_vars

-----------------------------------------------------------------------------
(* Properties *)

Quiet == \A c \in Callers : lc[c].pc = "idle"

\* The ListLen counter is the length of the list (the layout comment of
\* list.go): when no list call is in progress, Llen(key) is the number of
\* values Liter(key) returns.
LenCountsMembers == Quiet => \A k \in Keys : Llen(k) = Len(Liter(k))

====
