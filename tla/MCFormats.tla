----------------------------- MODULE MCFormats -----------------------------
(***************************************************************************)
(* The parts that read what a peer sends, one explored at a time on every  *)
(* input of a small set: the camera's streaming descriptors (desc), its    *)
(* units and terminals (topo), an application that lists and chooses       *)
(* formats (choice), the negotiation of them over an isochronous and a     *)
(* bulk endpoint and with the quirks of old cameras (negotiate, nbulk,     *)
(* quirks); and, on the T1's connection, property lists (plist), the hello *)
(* body (hello), the commands and their answers (cmds) and the message     *)
(* stream (msgs).  The variables of the other parts are 0.                 *)
(***************************************************************************)
EXTENDS Integers, FiniteSets, SequencesExt, FiniteSetsExt

VARIABLES
  part,
  input, pc, pos, cnt, out, ftype, claimed, listed, descs, gpio, w, at,
  prev, chains, guessed, frames, want, sizes, ivals, phase, result, task,
  outcome, stage, cmd, packet, reply, stream, received, acks, events,
  verdicts, neg, hw, vb, ask, peer, spent

-----------------------------------------------------------------------------
(* Descriptors of every kind the parser tells apart, whole and too short. *)

Descriptor(sub, len) == [cs |-> TRUE, sub |-> sub, len |-> len, n |-> 0, ok |-> TRUE,
                    ints |-> <<1>>, default |-> 1, w |-> 1, h |-> 1]

FormatDescs ==
    {Descriptor("uncompressed", 27), [Descriptor("uncompressed", 27) EXCEPT !.ok = FALSE],
     Descriptor("mjpeg", 11), Descriptor("based", 28), Descriptor("h264", 52), Descriptor("h264", 20),
     Descriptor("dv", 9), [Descriptor("dv", 9) EXCEPT !.ok = FALSE]}

FrameDescs ==
    {[Descriptor("frame_u", 38) EXCEPT !.ints = <<2, 1, 3>>, !.default = 0],
     [Descriptor("frame_u", 30) EXCEPT !.n = 1, !.ints = <<0>>, !.default = 2],
     [Descriptor("frame_j", 34) EXCEPT !.n = 2, !.ints = <<1, 2>>, !.default = 3],
     [Descriptor("frame_b", 30) EXCEPT !.n = 1, !.default = 2],
     [Descriptor("frame_h", 48) EXCEPT !.n = 1, !.ints = <<0>>, !.default = 0],
     [Descriptor("frame_h", 52) EXCEPT !.n = 2, !.w = 3, !.h = 3],
     [Descriptor("frame_h", 46) EXCEPT !.n = 1]}

OtherDescs == {Descriptor("still", 6), Descriptor("color", 6), Descriptor("color", 4),
               Descriptor("mpeg2ts", 7), [Descriptor("other", 9) EXCEPT !.cs = FALSE]}

AllDescs == FormatDescs \cup FrameDescs \cup OtherDescs

Parsing == INSTANCE UvcDescriptors WITH
  Descriptors <- AllDescs, MaxDescs <- 3, Cuts <- {0, 5},
  Headers <- {"input", "bad"}, Quirks <- {TRUE, FALSE}, Side <- 4, Word <- 16

-----------------------------------------------------------------------------
(* Cameras in which ids collide and are missing, and units come before and *)
(* after what they refer to.                                               *)

(* Descriptors by short names: su2 and xu2 have two input pins. *)
Entity(kind, id) ==
    [kind |-> CASE kind = "su2" -> "su" [] kind = "xu2" -> "xu" [] OTHER -> kind,
     id |-> id,
     pins |-> CASE kind \in {"it", "its", "itx", "void", "short"} -> 0
                [] kind \in {"su2", "xu2"} -> 2
                [] OTHER -> 1]

Shape(kinds, ids) == [k \in DOMAIN kinds |-> Entity(kinds[k], ids[k])]

Ids == <<1, 2, 3, 4, 5>>

SmallCameras ==
    {Shape(<<"it", "pu", "xu", "ots">>, Ids),
     Shape(<<"it", "pu", "xu", "xu", "ots">>, <<1, 2, 3, 4, 4>>),
     Shape(<<"ots", "pu", "otd", "it">>, Ids),
     Shape(<<"it", "it", "su2", "ots">>, Ids),
     Shape(<<"it", "su2", "su2", "ots">>, Ids),
     Shape(<<"it", "xu2", "pu", "ots">>, Ids),
     Shape(<<"it", "pu", "pu", "ots">>, <<1, 2, 2, 4>>),
     Shape(<<"it", "xu", "pu", "ots">>, <<1, 0, 3, 4>>),
     Shape(<<"its", "su", "otd", "ots">>, Ids),
     Shape(<<"it", "void", "xu", "otx">>, Ids),
     Shape(<<"itx", "pu", "ots">>, Ids),
     Shape(<<"itx", "it", "su2", "ots">>, Ids),
     Shape(<<"it", "ots", "short">>, Ids)}

Topology == INSTANCE UvcTopology WITH
  Shapes <- SmallCameras, Gpios <- {FALSE, TRUE}, OutBit <- 32768,
  Invalid <- 65535, ByteSize <- 256

-----------------------------------------------------------------------------
(* A camera of two formats and its applications. *)

Frame(i, width, size, offers) ==
  [index |-> i, w |-> width, h |-> 2, size |-> size, listed |-> TRUE,
   ivals |-> offers, def |-> offers[1]]
TwoFormats ==
  <<[index |-> 1, compressed |-> FALSE,
     frames |-> <<Frame(1, 2, 4, <<2>>), Frame(2, 4, 8, <<4>>), Frame(3, 2, 4, <<4>>)>>],
    [index |-> 2, compressed |-> TRUE, frames |-> <<Frame(1, 4, 5, <<2, 4>>)>>]>>

Negotiate == INSTANCE UvcNegotiation WITH
  Word <- 64, Side <- 8, Formats <- TwoFormats, Psizes <- <<2, 4, 4>>,
  Bulk <- FALSE, MaxpBulk <- 2, Quirks <- {}, Payloads <- {9, 58},
  Kinds <- {"substitutes", "zeroes"}, Urbs <- 2, MaxPackets <- 2,
  MinEstimate <- 3, Brief <- 2, MaxCalls <- 4, MaxFaults <- 1, MaxSleeps <- 1,
  st <- neg, call <- ask, cam <- peer, used <- spent
NegotiateBulk == INSTANCE UvcNegotiation WITH
  Word <- 64, Side <- 8, Formats <- TwoFormats, Psizes <- <<2, 4, 4>>,
  Bulk <- TRUE, MaxpBulk <- 2, Quirks <- {"minmax", "old"}, Payloads <- {0, 9, 58},
  Kinds <- {"substitutes", "zeroes"}, Urbs <- 2, MaxPackets <- 2,
  MinEstimate <- 3, Brief <- 2, MaxCalls <- 3, MaxFaults <- 1, MaxSleeps <- 1,
  st <- neg, call <- ask, cam <- peer, used <- spent
NegotiateQuirks == INSTANCE UvcNegotiation WITH
  Word <- 64, Side <- 8, Formats <- TwoFormats, Psizes <- <<2, 4, 4>>,
  Bulk <- FALSE, MaxpBulk <- 2, Quirks <- {"minmax", "fixbandwidth"},
  Payloads <- {0, 9, 58}, Kinds <- {"substitutes", "zeroes"}, Urbs <- 2,
  MaxPackets <- 2, MinEstimate <- 3, Brief <- 2, MaxCalls <- 3, MaxFaults <- 1,
  MaxSleeps <- 1, st <- neg, call <- ask, cam <- peer, used <- spent

Negotiating == {"negotiate", "nbulk", "quirks"}

-----------------------------------------------------------------------------
(* An application lists the sizes of a format, then the intervals of each  *)
(* size, each by counting up until the driver says that there are no more. *)

Sizes == {<<2, 4>>, <<4, 2>>, <<4, 4>>}
Lists == {<<2, 7, 12>>}
Ranges == {<<8, 18, 5>>}

SmallFrames ==
    {[w |-> s[1], h |-> s[2], listed |-> l \in Lists, ivals |-> l] :
        s \in Sizes, l \in Lists \cup Ranges}
Wishes == {1, 4, 7, 16}

ChoiceInit ==
  /\ frames \in UNION {[1 .. n -> SmallFrames] : n \in 1 .. 3}
  /\ want \in {[w |-> s[1], h |-> s[2], ival |-> 7] : s \in Sizes \cup {<<2, 2>>}}
             \cup {[w |-> 4, h |-> 4, ival |-> i] : i \in Wishes}
  /\ sizes = <<>> /\ ivals = <<>> /\ phase = "sizes"

(* The application asks for the next size. *)
ListSize ==
    LET i == Negotiate!EnumFrameSize(frames, Len(sizes))
    IN  /\ phase = "sizes"
        /\ IF i = 0
             THEN phase' = "intervals" /\ ivals' = <<<<>>>> /\ UNCHANGED sizes
             ELSE sizes' = Append(sizes, i) /\ UNCHANGED <<phase, ivals>>
        /\ UNCHANGED <<frames, want>>

(* It asks for the next interval of the size it has come to. *)
ListInterval ==
    LET n == Len(ivals)
        found == Negotiate!EnumFrameInterval(frames, frames[sizes[n]], Len(ivals[n]))
    IN  /\ phase = "intervals"
        /\ CASE found # <<>> -> ivals' = [ivals EXCEPT ![n] = Append(@, found)]
                                /\ UNCHANGED phase
             [] found = <<>> /\ n < Len(sizes)
                             -> ivals' = Append(ivals, <<>>) /\ UNCHANGED phase
             [] OTHER        -> phase' = "done" /\ UNCHANGED ivals
        /\ UNCHANGED <<frames, want, sizes>>

-----------------------------------------------------------------------------
(* Property lists. *)

PlistShape == INSTANCE BinaryPlist WITH
  Files <- {}, Values <- {}, Header <- 2, MaxPlist <- 30, MaxObjects <- 5,
  MaxReferences <- 4, MaxDepth <- 2, MaxNodes <- 5, Inline <- 3

Object(kind, n, keys, kids) == [kind |-> kind, n |-> n, keys |-> keys, kids |-> kids]

Array(kids) == Object("array", 0, <<>>, kids)

Upto(S, n) == UNION {[1 .. k -> S] : k \in 0 .. n}

Leaves == {Object("int", 1, <<>>, <<>>), Object("string", 1, <<>>, <<>>),
           Object("wide", 1, <<>>, <<>>)}

(* The objects of a file of n objects; the richer set has dictionaries of  *)
(* two keys and references that lead nowhere.                              *)
PlainObjects(n) ==
    {Object("int", 1, <<>>, <<>>), Object("string", 1, <<>>, <<>>)}
    \cup {Object("array", 0, <<>>, k) : k \in Upto(1 .. n, 2)}
    \cup {Object("dict", 0, <<a>>, <<b>>) : a, b \in 1 .. n}
RichObjects(n) ==
    Leaves \cup PlainObjects(n)
    \cup {Object("bad", 1, <<>>, <<>>), Object("array", 0, <<>>, <<n + 1>>)}
    \cup {Object("dict", 0, <<a, b>>, <<a, b>>) : a, b \in 1 .. n}

(* A file with its objects in order, and what may be wrong with it. *)
File(objects, flaw) ==
    LET lengths == [i \in DOMAIN objects |-> PlistShape!ObjectBytes(objects[i])]
        gap(i) == IF flaw = "gap" /\ i > 1 THEN 1 ELSE 0
        start(i) == FoldLeft(LAMBDA a, x : a + x, 2 + gap(i), SubSeq(lengths, 1, i - 1))
        n == Len(objects)
        table == start(n + 1)
        offsets == [i \in 1 .. n |-> CASE flaw = "same" -> start(1)
                                       [] flaw = "inside" -> start(i) + (IF i = n THEN 1 ELSE 0)
                                       [] OTHER -> start(i)]
        turned(s) == IF flaw = "turned" THEN Reverse(s) ELSE s
        back(r) == IF flaw = "turned" /\ r <= n THEN n + 1 - r ELSE r
        same(o) == [o EXCEPT !.keys = [k \in DOMAIN @ |-> back(@[k])],
                             !.kids = [k \in DOMAIN @ |-> back(@[k])]]
    IN  [size |-> table + n + (IF flaw = "long" THEN 1 ELSE 0), table |-> table,
         top |-> IF flaw = "top" THEN n + 1 ELSE back(1),
         offsets |-> turned(offsets), lengths |-> turned(lengths),
         objects |-> turned([i \in DOMAIN objects |-> same(objects[i])])]

Flaws == {"none", "gap", "same", "inside", "turned", "long", "top"}

SmallFiles ==
    {File(o, flaw) : o \in UNION {[1 .. n -> RichObjects(n)] : n \in 1 .. 2}, flaw \in Flaws}
    \cup {File(o, flaw) : o \in {<<a, b, c>> : a \in PlainObjects(3) \ Leaves, b \in PlainObjects(3),
                             c \in Leaves}, flaw \in {"none", "turned"}}
    \cup {File(<<Array(<<2>>), Array(<<3>>), Array(k), Object("int", 1, <<>>, <<>>)>>, flaw) :
              k \in Upto(1 .. 4, 2), flaw \in {"none", "turned"}}

Small == Leaves \cup {Object("data", n, <<>>, <<>>) : n \in {0, 2, 9}}
              \cup {Object("wide", 7, <<>>, <<>>), Object("int", 200, <<>>, <<>>)}
Shallow ==
    Small \cup {Object("array", 0, <<>>, k) : k \in Upto(Small, 2)}
          \cup {Object("dict", 0, <<<<"string", 1>>, <<"wide", 2>>>>, <<a, b>>) : a, b \in Small}
          \cup {Object("dict", 0, <<<<"string", 1>>>>, <<a>>) : a \in Small}

SmallValues ==
    Shallow
    \cup {Object("int", n, <<>>, <<>>) : n \in -129 .. 256}
    \cup {Object("array", 0, <<>>, <<a>>) : a \in Shallow}
    \cup {Object("array", 0, <<>>, <<Object("array", 0, <<>>, <<a>>)>>) :
              a \in Shallow \ Small}

Plist == INSTANCE BinaryPlist WITH
  Files <- SmallFiles, Values <- SmallValues, Header <- 2, MaxPlist <- 30,
  MaxObjects <- 5, MaxReferences <- 4, MaxDepth <- 2, MaxNodes <- 5, Inline <- 3

-----------------------------------------------------------------------------
(* Hello bodies of up to three pieces, cut from keys, values and           *)
(* separators that fit together or not, and names of up to three           *)
(* characters.                                                             *)

HelloShape == INSTANCE HelloBody WITH
  MaxDepth <- 2, MaxKeyLen <- 6, MaxNameLen <- 6, MaxBody <- 34, VersionKey <- <<4, 5>>,
  Bodies <- {}, Names <- {}

\* The version key written plainly, with an escape, and a longer or shorter key.
VersionPlain == HelloShape!Str(<<HelloShape!Plain(4), HelloShape!Plain(5)>>)
VersionEscaped == HelloShape!Str(<<HelloShape!U(4), HelloShape!Plain(5)>>)
KeyA == HelloShape!Str(<<HelloShape!Plain(4)>>)
KeyLong == HelloShape!Str(<<HelloShape!U(HelloShape!HighStart), HelloShape!U(HelloShape!LowStart + 1), HelloShape!Plain(4), HelloShape!Plain(6)>>)
KeyHalf == HelloShape!Str(<<HelloShape!U(HelloShape!HighStart), HelloShape!Plain(4)>>)
KeyRaw == HelloShape!Str(<<HelloShape!Plain(HelloShape!NewLine)>>)
Deep == <<HelloShape!Tok("["), HelloShape!Tok("["), HelloShape!Tok("["), HelloShape!Tok("]"), HelloShape!Tok("]"), HelloShape!Tok("]")>>

Pieces ==
    { <<HelloShape!Tok(",")>>, <<HelloShape!Tok("ws")>>, <<VersionPlain, HelloShape!Tok(":")>>, <<HelloShape!Num(TRUE)>>,
      <<VersionPlain, HelloShape!Tok(":"), HelloShape!Num(TRUE)>>, <<VersionEscaped, HelloShape!Tok("ws"), HelloShape!Tok(":"), HelloShape!Num(TRUE)>>,
      <<VersionPlain, HelloShape!Tok(":"), HelloShape!Num(FALSE)>>, <<VersionPlain, HelloShape!Tok(":"), HelloShape!Str(<<HelloShape!Plain(4)>>)>>,
      <<KeyA, HelloShape!Tok(":"), HelloShape!Tok("{"), VersionPlain, HelloShape!Tok(":"), HelloShape!Num(TRUE), HelloShape!Tok("}")>>,
      <<KeyA, HelloShape!Tok(":"), HelloShape!Tok("["), HelloShape!Tok("lit"), HelloShape!Tok(","), HelloShape!Num(FALSE), HelloShape!Tok("]")>>,
      <<KeyA, HelloShape!Tok(":"), HelloShape!Tok("{"), KeyLong, HelloShape!Tok(":"), Deep[1], HelloShape!Tok("]"), HelloShape!Tok("ws"), HelloShape!Tok("}")>>,
      <<KeyA, HelloShape!Tok(":")>> \o Deep, <<KeyA, HelloShape!Tok(":"), HelloShape!Tok("["), HelloShape!Tok("ws")>>, <<HelloShape!Tok("]")>>,
      <<KeyLong, HelloShape!Tok(":"), HelloShape!Tok("lit")>>, <<KeyHalf, HelloShape!Tok(":"), HelloShape!Tok("lit")>>, <<KeyA, HelloShape!Tok(":"), KeyHalf>>,
      <<KeyRaw, HelloShape!Tok(":"), HelloShape!Tok("{"), HelloShape!Tok("}")>>, <<KeyA, HelloShape!Tok(":"), HelloShape!Tok("bad")>>, <<HelloShape!Tok("}")>> }

\* The last piece: none, one that closes, opens or continues what came before.
Ends ==
    {<<>>, <<HelloShape!Tok(",")>>, <<HelloShape!Tok("]")>>, <<HelloShape!Tok("}")>>, <<HelloShape!Num(TRUE)>>,
     <<VersionPlain, HelloShape!Tok(":"), HelloShape!Num(TRUE)>>, <<KeyA, HelloShape!Tok(":")>> \o Deep,
     <<KeyA, HelloShape!Tok(":"), HelloShape!Tok("lit")>>}

McBodies ==
    {<<HelloShape!Tok("{")>> \o p \o q \o r \o end :
        p \in Pieces, q \in Pieces \cup {<<>>}, r \in Ends, end \in {<<HelloShape!Tok("}")>>, <<>>, <<HelloShape!Tok("}"), HelloShape!Tok("ws")>>}}
    \cup Pieces \cup {<<>>, <<HelloShape!Tok("{"), HelloShape!Tok("ws"), HelloShape!Tok("}")>>}

McNames == UNION {[1 .. n -> HelloShape!Chars] : n \in 0 .. 3}

Hello == INSTANCE HelloBody WITH
  MaxDepth <- 2, MaxKeyLen <- 6, MaxNameLen <- 6, MaxBody <- 34, VersionKey <- <<4, 5>>,
  Bodies <- McBodies, Names <- McNames

-----------------------------------------------------------------------------
(* User numbers around every boundary, and records around the limits of a  *)
(* record, of a reply and of a request.                                    *)

CommandShape == INSTANCE MesaCommands WITH
  Users <- {}, Sizes <- {}, Counts <- {}, I32Max <- 3, U32Max <- 7

McUsers == {-9, -2, -1, 0, 1, 3, 4, 7, 8, 15}
McSizes == {0, 1, 100, CommandShape!MaxRecord - 140, CommandShape!MaxRecord - 139, CommandShape!MaxRecord - 118, CommandShape!MaxRecord - 117, CommandShape!MaxRecord, CommandShape!MaxRecord + 1}
McCounts == {0, 1, 64, 65}

Commands == INSTANCE MesaCommands WITH
  Users <- McUsers, Sizes <- McSizes, Counts <- McCounts, I32Max <- 3, U32Max <- 7

-----------------------------------------------------------------------------
(* Streams of up to three frames of every kind, and one callback with      *)
(* every combination of the fields of a message around its boundaries,     *)
(* followed by the reply.                                                  *)

MessageShape == INSTANCE MesaMessages WITH
  Streams <- {}, Identities <- {}, RequestedUser <- 1, MyId <- "mine"

Callback ==
    [magic |-> TRUE, version |-> TRUE, declared |-> 200, available |-> 200, kind |-> "plist",
     fields |-> <<"version", "boolean", "string", "array">>, reply |-> FALSE, id |-> "t1",
     arity |-> 5, ordinal |-> 9, service |-> "mesa", data |-> "data", timing |-> TRUE,
     result |-> 0, status |-> "matchResult", type |-> 1, inValue |-> 0, payload |-> MessageShape!MatchSize,
     declaredPayload |-> MessageShape!MatchSize, items |-> 0, user |-> 1, identity |-> 1]

MyReply == [Callback EXCEPT !.reply = TRUE, !.id = "mine", !.arity = 2]

WireFrames ==
    { Callback, MyReply, [MyReply EXCEPT !.id = "stale"], [Callback EXCEPT !.kind = "hello"],
      [Callback EXCEPT !.available = 199], [Callback EXCEPT !.declared = MessageShape!MaxBody + 1, !.available = MessageShape!MaxBody + 1],
      [Callback EXCEPT !.version = FALSE], [Callback EXCEPT !.magic = FALSE],
      [Callback EXCEPT !.fields = <<"version", "boolean", "string">>], [MyReply EXCEPT !.kind = "other"],
      [Callback EXCEPT !.ordinal = 8, !.id = "t2"], [Callback EXCEPT !.arity = 4],
      [Callback EXCEPT !.service = "invalid"], [Callback EXCEPT !.timing = FALSE, !.ordinal = 10],
      [Callback EXCEPT !.data = "invalid"], [Callback EXCEPT !.service = "other", !.id = "t3"],
      [Callback EXCEPT !.data = "nil", !.id = "t4"] }

MessageSet ==
    { [Callback EXCEPT !.status = s, !.type = t, !.result = r, !.payload = p, !.declaredPayload = p + d,
                       !.items = n, !.user = u, !.identity = i, !.inValue = v] :
        s \in {"enrollmentStatus", "enrollmentComplete", "matchResult", "other"}, t \in {1, 2}, r \in {0, 1},
        p \in {0, MessageShape!CompletionSize - 1, MessageShape!CompletionSize, MessageShape!MatchSize - 1, MessageShape!MatchSize, MessageShape!MatchSize + 4}, d \in {0, 1},
        n \in {0, 1, 2}, u \in {-1, 0, 1, 2}, i \in {0, 1, 2, 3}, v \in {99, 100, 355, 356} }

McStreams ==
    UNION {[1 .. n -> WireFrames] : n \in 1 .. 3}
    \cup {<<m, MyReply>> :
            m \in {x \in MessageSet : (x.status = "enrollmentStatus" \/ x.inValue = 99) /\ (x.status = "matchResult" \/ x.items = 0)}}

McIdentities == {[user |-> 1, id |-> 1], [user |-> 1, id |-> 3], [user |-> 2, id |-> 2]}

Messages == INSTANCE MesaMessages WITH
  Streams <- McStreams, Identities <- McIdentities, RequestedUser <- 1, MyId <- "mine"

-----------------------------------------------------------------------------
NotDesc == <<descs, gpio, w, at, prev, chains, guessed, frames, want, sizes,
             ivals, phase, result, task, outcome, stage, cmd, packet, reply,
             stream, received, acks, events, verdicts>>
NotTopo == <<input, cnt, out, ftype, claimed, listed, frames, want, sizes,
             ivals, phase, result, task, outcome, stage, cmd, packet, reply,
             stream, received, acks, events, verdicts>>
NotChoice == <<input, pc, pos, cnt, out, ftype, claimed, listed, descs,
               gpio, w, at, prev, chains, guessed, result, task, outcome,
               stage, cmd, packet, reply, stream, received, acks, events,
               verdicts>>
NotPlist == <<pc, pos, cnt, out, ftype, claimed, listed, descs, gpio, w, at,
              prev, chains, guessed, frames, want, sizes, ivals, phase,
              task, outcome, stage, cmd, packet, reply, stream, received,
              acks, events, verdicts>>
NotHello == <<pc, pos, cnt, out, ftype, claimed, listed, descs, gpio, w, at,
              prev, chains, guessed, frames, want, sizes, ivals, phase,
              result, stage, cmd, packet, reply, stream, received, acks,
              events, verdicts>>
NotCmds == <<input, pc, pos, cnt, out, ftype, claimed, listed, descs, gpio,
             w, at, prev, chains, guessed, frames, want, sizes, ivals,
             phase, result, task, stream, received, acks, events, verdicts>>
NotMsgs == <<input, pc, pos, cnt, out, ftype, claimed, listed, descs, gpio,
             w, at, prev, chains, guessed, frames, want, sizes, ivals,
             phase, task, outcome, stage, cmd, packet, reply>>

askVars == <<neg, hw, vb, ask, peer, spent>>
readVars == <<NotMsgs, result, stream, received, acks, events, verdicts>>

ReadInit ==
  \/ /\ part = "desc" /\ Parsing!Init
     /\ descs = 0 /\ gpio = 0 /\ w = 0 /\ at = 0 /\ prev = 0 /\ chains = 0
     /\ guessed = 0 /\ frames = 0 /\ want = 0 /\ sizes = 0 /\ ivals = 0 /\ phase = 0
     /\ result = 0 /\ task = 0 /\ outcome = 0 /\ stage = 0 /\ cmd = 0 /\ packet = 0
     /\ reply = 0 /\ stream = 0 /\ received = 0 /\ acks = 0 /\ events = 0 /\ verdicts = 0
  \/ /\ part = "topo" /\ Topology!Init
     /\ input = 0 /\ cnt = 0 /\ out = 0 /\ ftype = 0 /\ claimed = 0 /\ listed = 0
     /\ frames = 0 /\ want = 0 /\ sizes = 0 /\ ivals = 0 /\ phase = 0 /\ result = 0
     /\ task = 0 /\ outcome = 0 /\ stage = 0 /\ cmd = 0 /\ packet = 0 /\ reply = 0
     /\ stream = 0 /\ received = 0 /\ acks = 0 /\ events = 0 /\ verdicts = 0
  \/ /\ part = "choice" /\ ChoiceInit
     /\ input = 0 /\ pc = 0 /\ pos = 0 /\ cnt = 0 /\ out = 0 /\ ftype = 0
     /\ claimed = 0 /\ listed = 0 /\ descs = 0 /\ gpio = 0 /\ w = 0 /\ at = 0
     /\ prev = 0 /\ chains = 0 /\ guessed = 0 /\ result = 0 /\ task = 0 /\ outcome = 0
     /\ stage = 0 /\ cmd = 0 /\ packet = 0 /\ reply = 0 /\ stream = 0 /\ received = 0
     /\ acks = 0 /\ events = 0 /\ verdicts = 0
  \/ /\ part = "plist" /\ Plist!Init
     /\ pc = 0 /\ pos = 0 /\ cnt = 0 /\ out = 0 /\ ftype = 0 /\ claimed = 0
     /\ listed = 0 /\ descs = 0 /\ gpio = 0 /\ w = 0 /\ at = 0 /\ prev = 0
     /\ chains = 0 /\ guessed = 0 /\ frames = 0 /\ want = 0 /\ sizes = 0 /\ ivals = 0
     /\ phase = 0 /\ task = 0 /\ outcome = 0 /\ stage = 0 /\ cmd = 0 /\ packet = 0
     /\ reply = 0 /\ stream = 0 /\ received = 0 /\ acks = 0 /\ events = 0 /\ verdicts = 0
  \/ /\ part = "hello" /\ Hello!Init
     /\ pc = 0 /\ pos = 0 /\ cnt = 0 /\ out = 0 /\ ftype = 0 /\ claimed = 0
     /\ listed = 0 /\ descs = 0 /\ gpio = 0 /\ w = 0 /\ at = 0 /\ prev = 0
     /\ chains = 0 /\ guessed = 0 /\ frames = 0 /\ want = 0 /\ sizes = 0 /\ ivals = 0
     /\ phase = 0 /\ result = 0 /\ stage = 0 /\ cmd = 0 /\ packet = 0 /\ reply = 0
     /\ stream = 0 /\ received = 0 /\ acks = 0 /\ events = 0 /\ verdicts = 0
  \/ /\ part = "cmds" /\ Commands!Init
     /\ input = 0 /\ pc = 0 /\ pos = 0 /\ cnt = 0 /\ out = 0 /\ ftype = 0
     /\ claimed = 0 /\ listed = 0 /\ descs = 0 /\ gpio = 0 /\ w = 0 /\ at = 0
     /\ prev = 0 /\ chains = 0 /\ guessed = 0 /\ frames = 0 /\ want = 0 /\ sizes = 0
     /\ ivals = 0 /\ phase = 0 /\ result = 0 /\ task = 0 /\ stream = 0 /\ received = 0
     /\ acks = 0 /\ events = 0 /\ verdicts = 0
  \/ /\ part = "msgs" /\ Messages!Init
     /\ input = 0 /\ pc = 0 /\ pos = 0 /\ cnt = 0 /\ out = 0 /\ ftype = 0
     /\ claimed = 0 /\ listed = 0 /\ descs = 0 /\ gpio = 0 /\ w = 0 /\ at = 0
     /\ prev = 0 /\ chains = 0 /\ guessed = 0 /\ frames = 0 /\ want = 0 /\ sizes = 0
     /\ ivals = 0 /\ phase = 0 /\ task = 0 /\ outcome = 0 /\ stage = 0 /\ cmd = 0
     /\ packet = 0 /\ reply = 0

NegotiateInit ==
  /\ part \in Negotiating /\ Negotiate!Init
  /\ input = 0 /\ pc = 0 /\ pos = 0 /\ cnt = 0 /\ out = 0 /\ ftype = 0
  /\ claimed = 0 /\ listed = 0 /\ descs = 0 /\ gpio = 0 /\ w = 0 /\ at = 0
  /\ prev = 0 /\ chains = 0 /\ guessed = 0 /\ frames = 0 /\ want = 0 /\ sizes = 0
  /\ ivals = 0 /\ phase = 0 /\ result = 0 /\ task = 0 /\ outcome = 0 /\ stage = 0
  /\ cmd = 0 /\ packet = 0 /\ reply = 0 /\ stream = 0 /\ received = 0 /\ acks = 0
  /\ events = 0 /\ verdicts = 0

Init ==
  \/ NegotiateInit
  \/ ReadInit /\ neg = 0 /\ hw = 0 /\ vb = 0 /\ ask = 0 /\ peer = 0 /\ spent = 0

NextRead ==
  \/ part = "desc" /\ Parsing!Next /\ UNCHANGED NotDesc
  \/ part = "topo" /\ Topology!Next /\ UNCHANGED NotTopo
  \/ part = "choice" /\ (ListSize \/ ListInterval) /\ UNCHANGED NotChoice
  \/ part = "plist" /\ Plist!Run /\ UNCHANGED NotPlist
  \/ part = "hello" /\ Hello!Next /\ UNCHANGED NotHello
  \/ part = "cmds" /\ Commands!Next /\ UNCHANGED NotCmds
  \/ part = "msgs" /\ Messages!Next /\ UNCHANGED NotMsgs

NextNegotiation ==
  \/ part = "negotiate" /\ Negotiate!Next
  \/ part = "nbulk" /\ NegotiateBulk!Next
  \/ part = "quirks" /\ NegotiateQuirks!Next

Next ==
  /\ UNCHANGED part
  /\ \/ NextRead /\ UNCHANGED askVars
     \/ NextNegotiation /\ UNCHANGED readVars

Spec == Init /\ [][Next]_<<part, readVars, askVars>>

-----------------------------------------------------------------------------
\* UvcDescriptors: the arrays hold what the second pass writes, every interval
\* is usable, and a registered stream has exactly the formats and frames its
\* descriptors group together.  UvcTopology: no entity is in two chains, each
\* chain has the structure the control code takes for granted, and a camera
\* with one input terminal and one output terminal, both of supported types,
\* and at most one processing unit gets a chain.
StreamIsWhatWasDescribed ==
  /\ part = "desc" => /\ Parsing!FitsTheCount /\ Parsing!IntervalsUsable
                      /\ Parsing!H264SizeExact /\ Parsing!StreamIsWhatWasDescribed
  /\ part = "topo" => /\ Topology!ChainsDisjoint /\ Topology!ChainStructure
                      /\ Topology!ChainConnected /\ Topology!OneCameraOneChain

\* UvcNegotiation: while the stream runs, the camera was committed to the very
\* format, frame and interval that G_FMT and G_PARM report, and the
\* applications' buffers hold the frame, unless the camera answered an S_PARM
\* since the last S_FMT with another frame; the alternate setting is the
\* narrowest that carries the payload and every URB has a place for all of its
\* packets.
CommitIsReported ==
  /\ part = "negotiate" => /\ Negotiate!TypeOK /\ Negotiate!CommitIsReported /\ Negotiate!BandwidthReserved
                           /\ Negotiate!KnownFrameFits /\ Negotiate!UrbsHavePlace
                           /\ Negotiate!NothingHeld /\ Negotiate!BuffersHoldFrame
  /\ part = "nbulk" => /\ NegotiateBulk!CommitIsReported /\ NegotiateBulk!UrbsHavePlace
                       /\ NegotiateBulk!NothingHeld
  /\ part = "quirks" => NegotiateQuirks!BandwidthReserved /\ NegotiateQuirks!KnownFrameFits

(* What a frame offers: the listed intervals, or its range. *)
Offers(i) ==
    IF frames[i].listed THEN {<<i, x>> : x \in Range(frames[i].ivals)} ELSE {<<i, 0>>}

(* The frames of one size stand together. *)
Grouped ==
    \A i, j, k \in DOMAIN frames :
        i < j /\ j < k /\ Negotiate!SameSize(frames[i], frames[k])
            => Negotiate!SameSize(frames[i], frames[j])

(* An application that counts up until EINVAL has seen every size of the   *)
(* format, none twice if the frames of one size stand together, and under  *)
(* each size every interval of every frame of that size, none twice.       *)
ListingComplete ==
    phase = "done" =>
        /\ \A i \in DOMAIN frames : \E k \in DOMAIN sizes :
               Negotiate!SameSize(frames[sizes[k]], frames[i])
        /\ Grouped => \A j, k \in DOMAIN sizes :
               Negotiate!SameSize(frames[sizes[j]], frames[sizes[k]]) => j = k
        /\ \A k \in DOMAIN sizes :
               /\ Range(ivals[k]) = UNION {Offers(i) : i \in
                      {j \in DOMAIN frames : Negotiate!SameSize(frames[j], frames[sizes[k]])}}
               /\ IsInjective(ivals[k])

Grid(f) == {x \in f.ivals[1] .. f.ivals[2] : (x - f.ivals[1]) % f.ivals[3] = 0}
Possible(f) == IF f.listed THEN Range(f.ivals) ELSE Grid(f)
Short(f) == ~f.listed /\ want.ival < f.ivals[1] - f.ivals[3] \div 2
Ordered(f) == ~f.listed \/ \A i, j \in DOMAIN f.ivals : i < j => f.ivals[i] < f.ivals[j]

Nearest(f, got) ==
    /\ got \in Possible(f)
    /\ \A x \in Possible(f) : Negotiate!Distance(got, want.ival) <= Negotiate!Distance(x, want.ival)

(* uvc_try_frame_interval gives an interval the frame has, and of those    *)
(* one nearest to the wish, for lists in the order UVC asks for and for    *)
(* ranges the wish does not fall short of by more than half a step.  A     *)
(* wish further below the minimum wraps around: it ends less than a step   *)
(* from the wish, below the minimum, or at the maximum.                    *)
NearestInterval ==
    \A i \in DOMAIN frames :
        LET f == frames[i]
            got == Negotiate!TryFrameInterval(f, want.ival)
        IN  /\ Ordered(f) /\ ~Short(f) => Nearest(f, got)
            /\ Short(f) => \/ got = f.ivals[2]
                           \/ got < f.ivals[1] /\ Negotiate!Distance(got, want.ival) < f.ivals[3]

(* A size the camera has is given exactly, and no frame covers the wish    *)
(* better than the one chosen.                                             *)
NearestSize ==
    LET f == frames[Negotiate!NearestFrame(frames, want.w, want.h)]
        d(g) == g.w * g.h + want.w * want.h
                - 2 * Min({g.w, want.w}) * Min({g.h, want.h})
    IN  /\ \A g \in Range(frames) : d(f) <= d(g)
        /\ (\E g \in Range(frames) : g.w = want.w /\ g.h = want.h)
               => f.w = want.w /\ f.h = want.h

(* Setting the frame interval never changes the picture size, and ends at  *)
(* least as near to the wish as any frame of that size would.              *)
ParmKeepsSize ==
    \A cur \in DOMAIN frames :
        LET i == Negotiate!ParmFrame(frames, cur, want.ival)
            d(k) == Negotiate!Distance(Negotiate!TryFrameInterval(frames[k], want.ival), want.ival)
        IN  /\ Negotiate!SameSize(frames[i], frames[cur])
            /\ \A j \in DOMAIN frames : Negotiate!SameSize(frames[j], frames[cur]) => d(i) <= d(j)

\* uvc_v4l2.c: counting up until EINVAL shows every size and interval, each
\* size once if the camera lists its frames by size; the size an application
\* gets is the nearest to its wish, and so is the interval, unless the wish is
\* more than half a step below a range: then it is off by less than a step or
\* is the maximum of the range.
ChoiceIsNearest ==
  part = "choice" => ListingComplete /\ NearestInterval /\ NearestSize /\ ParmKeepsSize


\* BinaryPlist, HelloBody, MesaCommands, MesaMessages: what is accepted from
\* the T1 is what the bytes say, what the host writes it can read back, every
\* request is answered once and in order, and a verdict is reported only from
\* a whole message about the requested user.
AcceptedIsSaid ==
  /\ part = "plist" => /\ Plist!DecodedIsMeant /\ Plist!WorkBounded
                       /\ Plist!WellFormedDecoded /\ Plist!RoundTrip
  /\ part = "hello" => Hello!AcceptedIsHello /\ Hello!NameSurvives
  /\ part = "cmds" => /\ Commands!CapacityIsTight /\ Commands!WireUserIsMeant
                      /\ Commands!AcceptedIsSaid
  /\ part = "msgs" => /\ Messages!AnsweredInOrder /\ Messages!ConfirmedIsKept
                      /\ Messages!OwnReplyFirst /\ Messages!VerdictIsSaid
=============================================================================
