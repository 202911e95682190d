---------------------------- MODULE BinaryPlist ----------------------------
(***************************************************************************)
(* The binary property lists of the bridge: the decoder that reads what    *)
(* the T1 sends and the encoder of what it is sent                         *)
(* (src/crates/t1-bridge/src/bplist.rs).                                   *)
(*                                                                         *)
(* A value is a tree of records [kind, n, keys, kids]; a file is the       *)
(* object table as it lies in the bytes: where each object starts, how     *)
(* long it is, and the objects it refers to.  A byte holds one bit, so     *)
(* that the integers of 1, 2, 4, 8 and 16 bytes are small enough to try    *)
(* them all; the limits are constants.                                     *)
(***************************************************************************)
EXTENDS Integers, FiniteSets, SequencesExt, Relation

CONSTANTS
    Files,        \* the files to decode
    Values,       \* the values to encode
    Header,       \* bytes before the first object
    MaxPlist,     \* MAX_PLIST_SIZE and MAX_VALUE_BYTES
    MaxObjects, MaxReferences, MaxDepth, MaxNodes,
    Inline        \* 15, the first length that is not written in the marker

VARIABLES input, result

vars == <<input, result>>

Scalar(n) == [kind |-> "int", n |-> n, keys |-> <<>>, kids |-> <<>>]
Bad == [ok |-> FALSE, value |-> Scalar(0), nodes |-> 0, bytes |-> 0]
Strings == {"string", "wide"}

-----------------------------------------------------------------------------
(* Integers and lengths.                                                   *)

Min64 == -128
Max64 == 127
MaxU64 == 255

(* integer_storage_width *)
StorageWidth(v) == CHOOSE w \in {1, 2, 4, 8} :
                       /\ v < 2 ^ w
                       /\ \A x \in {1, 2, 4, 8} : v < 2 ^ x => w <= x

(* encode_integer: negative numbers and those of the signed range take the *)
(* signed form, larger ones sixteen bytes.                                 *)
EncodeInteger(v) ==
    IF v < 0 THEN [width |-> 8, raw |-> v + 2 ^ 8]
    ELSE [width |-> IF v > Max64 THEN 16 ELSE StorageWidth(v), raw |-> v]

(* decode_integer *)
DecodeInteger(e) ==
    IF e.width = 8 /\ e.raw > Max64 THEN e.raw - 2 ^ 8 ELSE e.raw

(* encode_length and read_length: the bytes a marker and a length take. *)
LengthBytes(n) == IF n < Inline THEN 1 ELSE 2 + StorageWidth(n)

(* The bytes of the characters of a value: as Rust keeps them, and on the  *)
(* wire.                                                                   *)
Utf8Bytes(v) == IF v.kind = "wide" THEN v.n + 1 ELSE IF v.kind = "int" THEN 0 ELSE v.n
WireBytes(v) == IF v.kind = "wide" THEN 2 * v.n ELSE IF v.kind = "int" THEN 0 ELSE v.n

(* The length of an object on the wire. *)
ObjectBytes(o) ==
    CASE o.kind = "int"   -> 1 + EncodeInteger(o.n).width
      [] o.kind = "array" -> LengthBytes(Len(o.kids)) + Len(o.kids)
      [] o.kind = "dict"  -> LengthBytes(Len(o.keys)) + Len(o.keys) + Len(o.kids)
      [] OTHER            -> LengthBytes(o.n) + WireBytes(o)

-----------------------------------------------------------------------------
(* decode                                                                  *)

Objects(f) == DOMAIN f.offsets
Refs(f, i) == f.objects[i].keys \o f.objects[i].kids

(* The trailer: counts, the top object and the extent of the offset table. *)
TrailerOk(f) ==
    /\ f.size <= MaxPlist
    /\ Len(f.offsets) \in 1 .. MaxObjects /\ f.top \in Objects(f)
    /\ f.table >= Header
    /\ f.table + Len(f.offsets) = f.size

(* The offsets: inside the object area, distinct, the first at its start. *)
OffsetsOk(f) ==
    /\ \A i \in Objects(f) : f.offsets[i] \in Header .. f.table - 1
    /\ \E i \in Objects(f) : f.offsets[i] = Header
    /\ IsInjective(f.offsets)

(* Where an object ends: where the next one starts. *)
EndOf(f, i) ==
    LET later == {f.offsets[j] : j \in {k \in Objects(f) : f.offsets[k] > f.offsets[i]}}
    IN  IF later = {} THEN f.table ELSE CHOOSE e \in later : \A x \in later : e <= x

(* An object of kind "bad" has an unknown marker or width, an integer out  *)
(* of range, or characters that are not those of its string type.          *)
Readable(f, i) == f.objects[i].kind # "bad"

(* A variant that lets an object end before the next one starts. *)
MutScanOk(f, i) ==
    /\ Readable(f, i) /\ f.offsets[i] + f.lengths[i] <= EndOf(f, i)
    /\ \A k \in DOMAIN Refs(f, i) : Refs(f, i)[k] \in Objects(f)

(* scan_object: the object can be read, fills its place and refers to      *)
(* objects only.                                                           *)
ScanOk(f, i) ==
    /\ Readable(f, i) /\ f.offsets[i] + f.lengths[i] = EndOf(f, i)
    /\ \A k \in DOMAIN Refs(f, i) : Refs(f, i)[k] \in Objects(f)

ReferencesOk(f) ==
    FoldLeft(LAMBDA n, i : n + Len(Refs(f, i)), 0, [i \in Objects(f) |-> i]) <= MaxReferences

KeysOk(f) ==
    \A i \in Objects(f) : \A k \in DOMAIN f.objects[i].keys :
        f.objects[f.objects[i].keys[k]].kind \in Strings

(* A variant that takes an object it meets again for a cycle. *)
RECURSIVE MutValidateAcyclic(_, _, _, _)
MutValidateAcyclic(f, i, s, depth) ==
    IF ~s.ok THEN s
    ELSE IF depth > MaxDepth \/ s.color[i] # 0 THEN [s EXCEPT !.ok = FALSE]
    ELSE LET t == FoldLeft(LAMBDA u, k : MutValidateAcyclic(f, k, u, depth + 1),
                           [s EXCEPT !.color[i] = 1], Refs(f, i))
         IN  [t EXCEPT !.color[i] = 2]

(* validate_acyclic: a depth-first search with colours; s is the state of  *)
(* the search.                                                             *)
RECURSIVE ValidateAcyclic(_, _, _, _)
ValidateAcyclic(f, i, s, depth) ==
    IF ~s.ok \/ (depth <= MaxDepth /\ s.color[i] = 2) THEN s
    ELSE IF depth > MaxDepth \/ s.color[i] = 1 THEN [s EXCEPT !.ok = FALSE]
    ELSE LET t == FoldLeft(LAMBDA u, k : ValidateAcyclic(f, k, u, depth + 1),
                           [s EXCEPT !.color[i] = 1], Refs(f, i))
         IN  [t EXCEPT !.color[i] = 2]

Acyclic(f) ==
    FoldLeft(LAMBDA s, i : ValidateAcyclic(f, i, s, 0),
             [ok |-> TRUE, color |-> [i \in Objects(f) |-> 0]],
             [i \in Objects(f) |-> i]).ok

(* What decoding a node adds to the budget. *)
Charge(d, o) ==
    LET n == [d EXCEPT !.nodes = @ + 1, !.bytes = @ + WireBytes(o)]
    IN  [n EXCEPT !.ok = @ /\ n.nodes <= MaxNodes /\ n.bytes <= MaxPlist]

(* decode_object: d carries the budget in and the value out; the kids of a *)
(* dictionary are decoded key by key, and a key must not come back.        *)
RECURSIVE DecodeObject(_, _, _, _)
DecodeObject(f, i, depth, d) ==
    LET o == f.objects[i]
        c == Charge(d, o)
        pair(u, k) ==
            LET x == DecodeObject(f, o.keys[k], depth + 1, u.d)
                y == DecodeObject(f, o.kids[k], depth + 1, x)
                new == <<x.value.kind, x.value.n>> \notin Range(u.keys)
            IN  [d |-> [y EXCEPT !.ok = @ /\ new],
                 keys |-> Append(u.keys, <<x.value.kind, x.value.n>>),
                 kids |-> Append(u.kids, y.value)]
        item(u, k) ==
            LET y == DecodeObject(f, o.kids[k], depth + 1, u.d)
            IN  [u EXCEPT !.d = y, !.kids = Append(@, y.value)]
        none == [d |-> c, keys |-> <<>>, kids |-> <<>>]
        all == FoldLeft(LAMBDA u, k : IF o.kind = "dict" THEN pair(u, k) ELSE item(u, k),
                        none, [k \in DOMAIN o.kids |-> k])
    IN  IF ~d.ok THEN d
        ELSE IF ~c.ok \/ depth > MaxDepth THEN [Bad EXCEPT !.nodes = c.nodes]
        ELSE [all.d EXCEPT !.value = [kind |-> o.kind, n |-> o.n, keys |-> all.keys,
                                      kids |-> all.kids]]

(* decode: every check in turn, then the value of the top object. *)
Decode(f) ==
    IF /\ TrailerOk(f) /\ OffsetsOk(f)
       /\ \A i \in Objects(f) : ScanOk(f, i)
       /\ ReferencesOk(f) /\ KeysOk(f) /\ Acyclic(f)
    THEN DecodeObject(f, f.top, 0, [Bad EXCEPT !.ok = TRUE])
    ELSE Bad

-----------------------------------------------------------------------------
(* encode                                                                  *)

(* A variant that numbers the keys of a dictionary after its values. *)
RECURSIVE MutAdd(_, _, _)
MutAdd(e, v, depth) ==
    LET i == Len(e.objects) + 1
        pair(u, k) ==
            LET y == MutAdd(u, v.kids[k], depth + 1)
                x == [y EXCEPT !.objects = Append(@, [kind |-> v.keys[k][1], n |-> v.keys[k][2],
                                                      keys |-> <<>>, kids |-> <<>>])]
            IN  [x EXCEPT !.objects[i].keys = Append(@, Len(u.objects) + 1),
                          !.objects[i].kids = Append(@, Len(u.objects) + 2)]
        item(u, k) ==
            [MutAdd(u, v.kids[k], depth + 1) EXCEPT
                !.objects[i].kids = Append(@, Len(u.objects) + 1)]
        start == [e EXCEPT !.objects = Append(@, [kind |-> v.kind, n |-> v.n,
                                                  keys |-> <<>>, kids |-> <<>>])]
    IN  IF ~e.ok \/ depth > MaxDepth THEN [start EXCEPT !.ok = FALSE]
        ELSE FoldLeft(LAMBDA u, k : IF v.kind = "dict" THEN pair(u, k) ELSE item(u, k),
                      start, [k \in DOMAIN v.kids |-> k])

(* Encoder::add: objects are numbered as they are met, a key before its    *)
(* value; references and bytes are charged.                                *)
RECURSIVE Add(_, _, _)
Add(e, v, depth) ==
    LET i == Len(e.objects) + 1
        leaf(w) == [kind |-> w[1], n |-> w[2], keys |-> <<>>, kids |-> <<>>]
        pair(u, k) ==
            LET x == [u EXCEPT !.objects = Append(@, leaf(v.keys[k])),
                               !.bytes = @ + Utf8Bytes(leaf(v.keys[k])),
                               !.ok = @ /\ Len(u.objects) < MaxObjects]
            IN  [Add(x, v.kids[k], depth + 1) EXCEPT
                    !.objects[i].keys = Append(@, Len(u.objects) + 1),
                    !.objects[i].kids = Append(@, Len(u.objects) + 2)]
        item(u, k) ==
            [Add(u, v.kids[k], depth + 1) EXCEPT
                !.objects[i].kids = Append(@, Len(u.objects) + 1)]
        start == [e EXCEPT !.objects = Append(@, leaf(<<v.kind, v.n>>)),
                           !.refs = @ + Len(v.keys) + Len(v.kids),
                           !.bytes = @ + Utf8Bytes(v)]
        fits == /\ depth <= MaxDepth /\ i <= MaxObjects
                /\ start.refs <= MaxReferences /\ start.bytes <= MaxPlist
                /\ v.kind = "int" => v.n \in Min64 .. MaxU64
    IN  IF ~e.ok \/ ~fits THEN [start EXCEPT !.ok = FALSE]
        ELSE FoldLeft(LAMBDA u, k : IF v.kind = "dict" THEN pair(u, k) ELSE item(u, k),
                      start, [k \in DOMAIN v.kids |-> k])

(* encode: the objects one after the other, then the offset table. *)
Encode(v) ==
    LET e == Add([ok |-> TRUE, objects |-> <<>>, refs |-> 0, bytes |-> 0], v, 0)
        wire(o) == IF o.kind = "int" THEN [o EXCEPT !.n = DecodeInteger(EncodeInteger(o.n))] ELSE o
        lengths == [i \in DOMAIN e.objects |-> ObjectBytes(e.objects[i])]
        start(i) == FoldLeft(LAMBDA a, x : a + x, Header, SubSeq(lengths, 1, i - 1))
        table == start(Len(lengths) + 1)
        size == table + Len(lengths)
    IN  IF ~e.ok \/ size > MaxPlist THEN [ok |-> FALSE, file |-> <<>>]
        ELSE [ok |-> TRUE,
              file |-> [size |-> size, table |-> table, top |-> 1, lengths |-> lengths,
                        offsets |-> [i \in DOMAIN lengths |-> start(i)],
                        objects |-> [i \in DOMAIN e.objects |-> wire(e.objects[i])]]]

-----------------------------------------------------------------------------
Init ==
    /\ \/ \E f \in Files : input = [op |-> "decode", file |-> f, value |-> Scalar(0)]
       \/ \E v \in Values : input = [op |-> "encode", file |-> <<>>, value |-> v]
    /\ result = [done |-> FALSE, out |-> Bad]

Run ==
    /\ ~result.done
    /\ result' = [done |-> TRUE,
                  out |-> IF input.op = "decode" THEN Decode(input.file)
                          ELSE LET e == Encode(input.value)
                               IN  IF e.ok THEN Decode(e.file) ELSE [Bad EXCEPT !.nodes = 1]]
    /\ UNCHANGED input

Spec == Init /\ [][Run]_vars

-----------------------------------------------------------------------------
(* What a file means, without the algorithm.                               *)

Edges(f) == {<<i, j>> \in Objects(f) \X Objects(f) : j \in Range(Refs(f, i))}
Depth(f, i) ==
    LET below(S) == UNION {{j \in Objects(f) : <<k, j>> \in Edges(f)} : k \in S}
        level[n \in 0 .. Len(f.offsets) + 1] == IF n = 0 THEN {i} ELSE below(level[n - 1])
    IN  CHOOSE n \in 0 .. Len(f.offsets) + 1 :
            (n = Len(f.offsets) + 1 \/ level[n + 1] = {}) /\ \A m \in 0 .. n : level[m] # {}

RECURSIVE Nodes(_)
Nodes(v) == 1 + Len(v.keys) + FoldLeft(LAMBDA n, k : n + Nodes(k), 0, v.kids)

RECURSIVE Meaning(_, _)
Meaning(f, i) ==
    LET o == f.objects[i]
    IN  [kind |-> o.kind, n |-> o.n,
         keys |-> [k \in DOMAIN o.keys |-> <<f.objects[o.keys[k]].kind, f.objects[o.keys[k]].n>>],
         kids |-> [k \in DOMAIN o.kids |-> Meaning(f, o.kids[k])]]

Place(f, i) == f.offsets[i] .. f.offsets[i] + f.lengths[i] - 1
Tiled(f) ==
    /\ UNION {Place(f, i) : i \in Objects(f)} = Header .. f.table - 1
    /\ \A i, j \in Objects(f) : i # j => Place(f, i) \cap Place(f, j) = {}
Closed(f) == \A i \in Objects(f) : Range(Refs(f, i)) \subseteq Objects(f)
NoCycle(f) == \A i \in Objects(f) : <<i, i>> \notin Edges(f)
              /\ Depth(f, i) <= Len(f.offsets)
DistinctKeys(f) ==
    \A i \in Objects(f) : IsInjective([k \in DOMAIN f.objects[i].keys |->
        <<f.objects[f.objects[i].keys[k]].kind, f.objects[f.objects[i].keys[k]].n>>])

(* A file that is decoded is what it says, with nothing hidden: its        *)
(* objects, all of them readable, also those no value refers to, cover the *)
(* bytes between header and offset table exactly, they form no cycle, and  *)
(* the value is the meaning of the top object, however often objects are   *)
(* shared, within the limit on nodes.                                      *)
DecodedIsMeant ==
    result.done /\ input.op = "decode" /\ result.out.ok =>
        LET f == input.file
        IN  /\ f.top \in Objects(f) /\ Closed(f) /\ Tiled(f) /\ NoCycle(f)
            /\ \A i \in Objects(f) : Readable(f, i)
            /\ f.table + Len(f.offsets) = f.size
            /\ result.out.value = Meaning(f, f.top)
            /\ Nodes(result.out.value) <= MaxNodes
            /\ Depth(f, f.top) <= MaxDepth

(* No work beyond the limit: whether decoding succeeds or not, the nodes   *)
(* it made are at most one more than the limit.                            *)
WorkBounded == result.out.nodes <= MaxNodes + 1

(* A file that is well formed and within every limit is decoded; sharing   *)
(* and the order of the offset table do not matter.                        *)
WellFormedDecoded ==
    result.done /\ input.op = "decode" =>
        LET f == input.file
        IN  (/\ f.top \in Objects(f) /\ Closed(f)
             /\ f.table + Len(f.offsets) = f.size /\ f.size <= MaxPlist
             /\ (\A i \in Objects(f) : Readable(f, i))
             /\ Tiled(f) /\ NoCycle(f) /\ KeysOk(f) /\ DistinctKeys(f)
             /\ \A i \in Objects(f) : Depth(f, i) <= MaxDepth
             /\ Nodes(Meaning(f, f.top)) <= MaxNodes
             /\ ReferencesOk(f))
            => result.out.ok

(* Whatever the encoder accepts, the decoder gives back: their limits do   *)
(* not disagree, and every integer keeps its sign and value.               *)
RoundTrip ==
    result.done /\ input.op = "encode" =>
        \/ result.out = [Bad EXCEPT !.nodes = 1]
        \/ result.out.ok /\ result.out.value = input.value
=============================================================================
