------------------------------ MODULE BlobsEnum ------------------------------
(***************************************************************************)
(* Enumerate and Enumerate2 of the BlobsFile backend                       *)
(* (src/pkg/filetree/filetree.go): each holds the backend lock, Seeks the  *)
(* BlobsIndex to a position key (of "" or of the decoded start) and sends  *)
(* the hashes of the keys that follow, in key order, until io.EOF, or for  *)
(* Enumerate2 until the end bound or the limit stops it.  The spec's       *)
(* enumerate() and enumerate_range(start, end, limit) are the reference:   *)
(* the stored hashes in lexicographic order, start inclusive, end          *)
(* exclusive, capped by limit (0 = unlimited).                             *)
(*                                                                         *)
(* A hash is its raw bytes; a string (start, end, hex.EncodeToString's     *)
(* result) is its sequence of byte values.  The index is modelled by its   *)
(* position keys BlobPosKey | hash and by the key of its counter n, which  *)
(* saveN writes at every load; its prefix is another byte (spec 3).        *)
(***************************************************************************)
EXTENDS Integers, Sequences, FiniteSets

CONSTANTS
    Hashes,       \* the hashes that may be stored (byte sequences)
    BlobPosKey,   \* the prefix byte of a position key
    CounterKey,   \* the key of the counter n (its own prefix byte first)
    Starts,       \* start arguments (strings)
    Ends,         \* end arguments (strings)
    Limits        \* limit arguments

ASSUME /\ BlobPosKey \in 0 .. 255 /\ Limits \subseteq Nat
       /\ CounterKey[1] # BlobPosKey

VARIABLES
    stored,   \* the hashes with a position record in the index
    arg,      \* the call: Enumerate or Enumerate2, and its start, end, limit
    en        \* the enumerator loop: pc, the last key read, i, the refs sent

vars == <<stored, arg, en>>

-----------------------------------------------------------------------------
(* Bytes and strings *)

\* bytes.Compare: -1, 0 or 1, lexicographic on bytes.
RECURSIVE Compare(_, _)
Compare(a, b) ==
    CASE a = <<>> /\ b = <<>> -> 0
      [] a = <<>> -> -1
      [] b = <<>> -> 1
      [] Head(a) < Head(b) -> -1
      [] Head(a) > Head(b) -> 1
      [] OTHER -> Compare(Tail(a), Tail(b))

\* The character hex.EncodeToString writes for a digit 0 .. 15.
HexChar(d) == IF d < 10 THEN 48 + d ELSE 87 + d

\* hex.EncodeToString: two lower-case digits per byte.
EncodeToString(s) ==
    [j \in 1 .. 2 * Len(s) |->
        IF j % 2 = 1 THEN HexChar(s[(j + 1) \div 2] \div 16)
                     ELSE HexChar(s[j \div 2] % 16)]

IsHexChar(c) == c \in (48 .. 57) \cup (65 .. 70) \cup (97 .. 102)
HexVal(c) == CASE c <= 57 -> c - 48 [] c <= 70 -> c - 55 [] OTHER -> c - 87

\* hex.DecodeString succeeds on an even number of hex digits.
DecodeOK(str) == Len(str) % 2 = 0 /\ \A j \in DOMAIN str : IsHexChar(str[j])
DecodeString(str) ==
    [j \in 1 .. Len(str) \div 2 |-> 16 * HexVal(str[2 * j - 1]) + HexVal(str[2 * j])]

\* formatKey(BlobPosKey, h)
formatKey(h) == <<BlobPosKey>> \o h

\* The index's keys: a position record per stored hash, and the counter.
Keys == {formatKey(h) : h \in stored} \cup {CounterKey}

\* The enumerator's next key: the least key after the last one read (at or
\* after the Seek key for the first Next), or none at io.EOF.
Following(last, incl) ==
    {k \in Keys : Compare(k, last) > 0 \/ (incl /\ Compare(k, last) = 0)}
Least(S) == CHOOSE k \in S : \A o \in S : Compare(k, o) <= 0

-----------------------------------------------------------------------------

EnIdle == [pc |-> "call", last |-> <<>>, incl |-> TRUE, i |-> 0, sent |-> <<>>]

\* Any set of stored hashes, and any call.
Init ==
    /\ stored \in SUBSET Hashes
    /\ arg \in [fn : {"Enumerate"}, start : {<<>>}, end : {<<>>}, limit : {0}]
              \cup [fn : {"Enumerate2"}, start : Starts, end : Ends, limit : Limits]
    /\ en = EnIdle

\* Enumerate: the lock is taken and the enumerator Seeks formatKey("").
EnumerateSeek ==
    /\ en.pc = "call" /\ arg.fn = "Enumerate"
    /\ en' = [en EXCEPT !.pc = "loop", !.last = formatKey(<<>>)]
    /\ UNCHANGED <<stored, arg>>

\* Enumerate's loop: enum.Next (io.EOF ends it), and the hex of the key
\* without its first byte is sent.
EnumerateNext ==
    LET ks == Following(en.last, en.incl)
        k  == Least(ks)
    IN  /\ en.pc = "loop" /\ arg.fn = "Enumerate"
        /\ en' = IF ks = {} THEN [en EXCEPT !.pc = "done"]
                 ELSE [en EXCEPT !.last = k, !.incl = FALSE,
                                 !.sent = Append(@, EncodeToString(Tail(k)))]
        /\ UNCHANGED <<stored, arg>>

\* Enumerate2: the lock is taken; hex.DecodeString(start), then Seek(formatKey(s)); a
\* start that does not decode returns the error (the channel is closed).
Seek ==
    /\ en.pc = "call" /\ arg.fn = "Enumerate2"
    /\ en' = IF DecodeOK(arg.start)
             THEN [en EXCEPT !.pc = "loop", !.last = formatKey(DecodeString(arg.start))]
             ELSE [en EXCEPT !.pc = "done"]
    /\ UNCHANGED <<stored, arg>>

\* One pass of the loop: enum.Next (io.EOF ends it); the key is compared
\* with []byte(end), and i with limit; BlobPos(hash) finds the entry the
\* key is (the lock is held); the ref is sent and i incremented.
Next1 ==
    LET ks == Following(en.last, en.incl)
        k  == Least(ks)
    IN  /\ en.pc = "loop" /\ arg.fn = "Enumerate2"
        /\ en' = IF ks = {} \/ Compare(k, arg.end) > 0
                    \/ (arg.limit # 0 /\ en.i > arg.limit)
                 THEN [en EXCEPT !.pc = "done"]
                 ELSE [en EXCEPT !.last = k, !.incl = FALSE, !.i = @ + 1,
                                 !.sent = Append(@, EncodeToString(Tail(k)))]
        /\ UNCHANGED <<stored, arg>>

Next == EnumerateSeek \/ EnumerateNext \/ Seek \/ Next1

Spec == Init /\ [][Next]_vars

-----------------------------------------------------------------------------
(* Properties *)

\* enumerate_range(start, end, limit) of the spec: the hex hashes h with
\* start <= h < end, in order, at most limit of them when limit > 0.
RECURSIVE SortedHex(_)
SortedHex(S) ==
    IF S = {} THEN <<>>
    ELSE LET m == CHOOSE x \in S : \A o \in S : Compare(x, o) <= 0
         IN  <<m>> \o SortedHex(S \ {m})

EnumerateRange(start, end, limit) ==
    LET inRange == SortedHex({x \in {EncodeToString(h) : h \in stored} :
                                Compare(start, x) <= 0 /\ Compare(x, end) < 0})
    IN  IF limit = 0 \/ Len(inRange) <= limit THEN inRange
        ELSE SubSeq(inRange, 1, limit)

\* When Enumerate returns it has sent what enumerate() promises, every
\* stored hash in order; when Enumerate2 returns, what enumerate_range
\* promises for its start, end and limit.
EnumeratesRange ==
    en.pc = "done" =>
        en.sent = IF arg.fn = "Enumerate"
                  THEN SortedHex({EncodeToString(h) : h \in stored})
                  ELSE EnumerateRange(arg.start, arg.end, arg.limit)

====
