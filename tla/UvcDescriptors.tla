-------------------------- MODULE UvcDescriptors --------------------------
(***************************************************************************)
(* The streaming-interface descriptors of the camera: uvc_parse_streaming  *)
(* walks them twice, once to count formats, frames and frame intervals and *)
(* once to fill the three arrays it allocated for that count               *)
(* (src/kernel/uvcvideo-t1/uvc_driver.c, uvc_h264.c).                      *)
(*                                                                         *)
(* A descriptor is a record of the fields the parser looks at: cs (it is a *)
(* CS_INTERFACE descriptor), sub (its subtype), len (bLength), n (the      *)
(* interval count it states) and the few values the properties tell apart. *)
(* The buffer is the sequence of descriptors, its last one cut short by    *)
(* "cut" bytes.  32-bit products are taken modulo Word.                    *)
(***************************************************************************)
EXTENDS Integers, SequencesExt, FiniteSetsExt

CONSTANTS
    Descriptors,   \* the descriptors an interface may carry
    MaxDescs,      \* how many of them
    Cuts,          \* how many bytes the last one may lack
    Headers,       \* the header descriptors it may start with
    Quirks,        \* whether UVC_QUIRK_RESTRICT_FRAME_RATE may be set
    Side,          \* image dimensions are below Side
    Word           \* 2^32

VARIABLES
    input,   \* [descs, cut, header, restrict]
    pc,      \* where uvc_parse_streaming is
    pos,     \* the descriptor it looks at
    cnt,     \* what the first pass counted: formats, frames, intervals
    out,     \* streaming->formats, each with its frames
    ftype,   \* the frame subtype of the format being read
    claimed, \* the interface is claimed for the driver
    listed   \* the stream is in dev->streams

vars == <<input, pc, pos, cnt, out, ftype, claimed, listed>>

NoCount == [formats |-> 0, frames |-> 0, intervals |-> 0]

Init ==
    /\ input \in [descs : BoundedSeq(Descriptors, MaxDescs), cut : Cuts,
                  header : Headers, restrict : Quirks]
    /\ input.descs = <<>> => input.cut = 0
    /\ input.descs # <<>> => input.cut < Last(input.descs).len
    /\ pc = "start" /\ pos = 1 /\ cnt = NoCount /\ out = <<>>
    /\ ftype = "none" /\ claimed = FALSE /\ listed = FALSE

-----------------------------------------------------------------------------
(* buflen at descriptor p. *)
Left(p) ==
    IF p > Len(input.descs) THEN 0
    ELSE FoldLeft(LAMBDA a, d : a + d.len, 0,
                  SubSeq(input.descs, p, Len(input.descs))) - input.cut

D(p) == input.descs[p]
InClass(p) == Left(p) > 2 /\ D(p).cs
Of(p, sub) == InClass(p) /\ D(p).sub = sub

Formats == {"uncompressed", "mjpeg", "based", "h264", "dv"}
FrameOf == [uncompressed |-> "frame_u", mjpeg |-> "frame_j",
            based |-> "frame_b", h264 |-> "frame_h", dv |-> "none"]

(* The error path releases the interface and frees the stream. *)
Fail == /\ pc' = "error" /\ claimed' = FALSE
        /\ UNCHANGED <<input, pos, cnt, out, ftype, listed>>

(* uvc_parse_streaming up to the header descriptor. *)
Start ==
    /\ pc = "start"
    /\ \/ /\ pc' = "error"                    \* not a streaming interface,
          /\ UNCHANGED claimed                \* or claimed by another
       \/ pc' = "header" /\ claimed' = TRUE
    /\ UNCHANGED <<input, pos, cnt, out, ftype, listed>>

Header ==
    /\ pc = "header"
    /\ IF input.header = "input" \/ input.header = "output"
       THEN /\ pc' = "count"
            /\ UNCHANGED <<input, pos, cnt, out, ftype, claimed, listed>>
       ELSE Fail

-----------------------------------------------------------------------------
(* First pass. *)

Stated(d) == IF d.n = 0 THEN 3 ELSE d.n

Counted(c, d, left) ==
    CASE d.sub \in {"uncompressed", "mjpeg", "based", "h264"} ->
           [c EXCEPT !.formats = @ + 1]
      [] d.sub = "dv" ->
           [formats |-> c.formats + 1, frames |-> c.frames + 1,
            intervals |-> c.intervals + 1]
      [] d.sub \in {"frame_u", "frame_j"} ->
           [c EXCEPT !.frames = @ + 1,
                     !.intervals = @ + IF left > 25 THEN Stated(d) ELSE 0]
      [] d.sub = "frame_b" ->
           [c EXCEPT !.frames = @ + 1,
                     !.intervals = @ + IF left > 21 THEN Stated(d) ELSE 0]
      [] d.sub = "frame_h" ->
           [c EXCEPT !.frames = @ + 1, !.intervals = @ + d.n]
      [] OTHER -> c

CountFails(d, left) ==
    \/ d.len < 3 \/ d.len > left
    \/ d.sub = "frame_h" /\ (d.n = 0 \/ d.len < 44 + 4 * d.n)

Count ==
    /\ pc = "count" /\ InClass(pos)
    /\ IF CountFails(D(pos), Left(pos)) THEN Fail
       ELSE /\ cnt' = Counted(cnt, D(pos), Left(pos))
            /\ pos' = pos + 1
            /\ UNCHANGED <<input, pc, out, ftype, claimed, listed>>

(* The allocation between the passes; it may fail. *)
Allocate ==
    /\ pc = "count" /\ ~InClass(pos)
    /\ \/ Fail
       \/ /\ cnt.formats > 0
          /\ pc' = "fill" /\ pos' = 1
          /\ UNCHANGED <<input, cnt, out, ftype, claimed, listed>>

-----------------------------------------------------------------------------
(* Second pass. *)

FormatSize(d) ==
    CASE d.sub = "uncompressed" -> 27 [] d.sub = "based" -> 28
      [] d.sub = "mjpeg" -> 11 [] d.sub = "h264" -> 52 [] d.sub = "dv" -> 9

FormatFails(d, left) ==
    \/ left < FormatSize(d)
    \/ d.sub = "h264" /\ (d.len < 52 \/ d.len > left)
    \/ d.sub = "dv" /\ ~d.ok

DummyFrame == [intervals |-> <<1>>, default |-> 1, size |-> 0, at |-> 0]

MutParseFormat ==
    /\ pc = "fill" /\ InClass(pos) /\ D(pos).sub \in Formats
    /\ IF FormatFails(D(pos), Left(pos)) THEN Fail
       ELSE /\ out' = Append(out, [at |-> pos, frames |->
                         IF D(pos).sub = "dv" THEN <<DummyFrame>> ELSE <<>>])
            /\ ftype' = FrameOf[D(pos).sub]
            /\ pc' = "frames"
            /\ pos' = pos + 1
            /\ UNCHANGED <<input, cnt, claimed, listed>>

(* A format whose GUID is not known is skipped. *)
ParseFormat ==
    /\ pc = "fill" /\ InClass(pos) /\ D(pos).sub \in Formats
    /\ IF FormatFails(D(pos), Left(pos)) THEN Fail
       ELSE /\ IF D(pos).sub \in {"uncompressed", "based"} /\ ~D(pos).ok
               THEN UNCHANGED <<pc, out, ftype>>
               ELSE /\ out' = Append(out, [at |-> pos, frames |->
                                 IF D(pos).sub = "dv" THEN <<DummyFrame>>
                                 ELSE <<>>])
                    /\ ftype' = FrameOf[D(pos).sub]
                    /\ pc' = "frames"
            /\ pos' = pos + 1
            /\ UNCHANGED <<input, cnt, claimed, listed>>

SkipDescriptor ==
    /\ pc = "fill" /\ InClass(pos) /\ D(pos).sub \notin Formats
    /\ pos' = pos + 1
    /\ UNCHANGED <<input, pc, cnt, out, ftype, claimed, listed>>

Clamp(v, lo, hi) ==
    LET a == IF v < lo THEN lo ELSE v IN IF a > hi THEN hi ELSE a

NonZero(k) == IF k = 0 THEN 1 ELSE k

(* The intervals as they end up in memory: the ones the descriptor lists,  *)
(* null ones set to 1, the first replaced by the default under the quirk.   *)
Intervals(d, n) == [k \in 1 .. n |-> NonZero(d.ints[((k - 1) % Len(d.ints)) + 1])]

FrameRecord(d, n, last, size) ==
    LET ints == Intervals(d, n)
        default == Clamp(d.default, ints[1], ints[last])
    IN  [intervals |-> IF input.restrict THEN [ints EXCEPT ![1] = default] ELSE ints,
         default |-> default, size |-> size, at |-> pos]

(* uvc_parse_frame: which of its intervals is the maximum depends on the   *)
(* kind of range the descriptor states.                                    *)
FrameFails(d, left) ==
    left < 26 + 4 * (IF left > (IF d.sub = "frame_b" THEN 21 ELSE 25)
                     THEN Stated(d) ELSE 3)

ParseFrame(d) ==
    FrameRecord(d, Stated(d), IF d.n = 0 THEN 2 ELSE d.n, 0)

(* uvc_h264_parse_frame_descriptor. *)
H264Fails(d, left) ==
    \/ left < 44 \/ d.n = 0 \/ d.len < 44 + 4 * d.n \/ d.len > left
    \/ d.w = 0 \/ d.h = 0 \/ d.w > (Word - 1) \div d.h
    \/ d.w * d.h > (Word - 1) \div 2

ParseFrameH264(d) ==
    FrameRecord(d, d.n, d.n, (d.w * d.h * 2) % Word)

AddFrame(f) == [out EXCEPT ![Len(out)].frames = Append(@, f)]

Frame ==
    /\ pc = "frames" /\ ftype # "none" /\ Of(pos, ftype)
    /\ IF IF ftype = "frame_h" THEN H264Fails(D(pos), Left(pos))
          ELSE FrameFails(D(pos), Left(pos))
       THEN Fail
       ELSE /\ out' = AddFrame(IF ftype = "frame_h" THEN ParseFrameH264(D(pos))
                               ELSE ParseFrame(D(pos)))
            /\ pos' = pos + 1
            /\ UNCHANGED <<input, pc, cnt, ftype, claimed, listed>>

(* The still-image and colour descriptors that may end a format. *)
FormatEnd ==
    /\ pc = "frames" /\ (ftype = "none" \/ ~Of(pos, ftype))
    /\ LET p == IF Of(pos, "still") THEN pos + 1 ELSE pos
       IN  IF Of(p, "color") /\ Left(p) < 6 THEN Fail
           ELSE /\ pos' = IF Of(p, "color") THEN p + 1 ELSE p
                /\ pc' = "fill"
                /\ UNCHANGED <<input, cnt, out, ftype, claimed, listed>>

(* The widest alternate setting is noted and the stream listed. *)
End ==
    /\ pc = "fill" /\ ~InClass(pos)
    /\ pc' = "done" /\ listed' = TRUE
    /\ UNCHANGED <<input, pos, cnt, out, ftype, claimed>>

Over == pc \in {"done", "error"} /\ UNCHANGED vars

Next == \/ Start \/ Header \/ Count \/ Allocate \/ ParseFormat
        \/ SkipDescriptor \/ Frame \/ FormatEnd \/ End \/ Over

Spec == Init /\ [][Next]_vars

-----------------------------------------------------------------------------
(* Properties. *)

Frames == FoldLeft(LAMBDA a, f : a \o f.frames, <<>>, out)

(* The arrays allocated after the first pass hold everything the second    *)
(* pass writes, at every step and for every sequence of descriptors.       *)
FitsTheCount ==
    /\ Len(out) <= cnt.formats
    /\ Len(Frames) <= cnt.frames
    /\ FoldLeft(LAMBDA a, f : a + Len(f.intervals), 0, Frames) <= cnt.intervals

(* Every frame has usable intervals: none is zero, and the default (by     *)
(* which the driver divides) lies between the first and the last of them   *)
(* whenever the camera lists them in order.                                *)
IntervalsUsable ==
    \A k \in 1 .. Len(Frames) :
      LET f == Frames[k]
          last == f.intervals[IF input.restrict \/ f.at = 0 THEN 1
                              ELSE IF D(f.at).n = 0 THEN 2
                              ELSE Len(f.intervals)]
      IN  /\ \A j \in 1 .. Len(f.intervals) : f.intervals[j] > 0
          /\ f.default > 0
          /\ f.intervals[1] <= last => f.default \in f.intervals[1] .. last

(* The frame size computed for H.264 is twice the number of pixels; the    *)
(* 32-bit product never wraps.                                             *)
H264SizeExact ==
    \A k \in 1 .. Len(Frames) :
      LET f == Frames[k]
      IN  f.at # 0 /\ D(f.at).sub = "frame_h" =>
            f.size = 2 * D(f.at).w * D(f.at).h

(* The formats a descriptor sequence stands for: each known format, with   *)
(* the frames of its own kind that follow it without a break.              *)
Known(p) == D(p).sub \in Formats /\ (D(p).sub \in {"uncompressed", "based"} => D(p).ok)

Group(p) ==
    LET run == {q \in p + 1 .. Len(input.descs) :
                  \A r \in p + 1 .. q : D(r).cs /\ D(r).sub = FrameOf[D(p).sub]}
    IN  [at |-> p, frames |-> SetToSortSeq(run, LAMBDA a, b : a < b)]

Readable == {p \in 1 .. Len(input.descs) : \A q \in 1 .. p : InClass(q)}

Reference ==
    LET fs == SetToSortSeq({p \in Readable : Known(p)}, LAMBDA a, b : a < b)
    IN  [k \in DOMAIN fs |-> Group(fs[k])]

(* A stream that is registered has exactly the formats and frames its      *)
(* descriptors group together, and one that is not has been given up: the  *)
(* interface is claimed just while the stream exists.                      *)
StreamIsWhatWasDescribed ==
    /\ pc = "done" =>
         /\ listed /\ claimed
         /\ [k \in DOMAIN out |->
               [at |-> out[k].at,
                frames |-> [j \in DOMAIN out[k].frames |->
                              out[k].frames[j].at]]] =
            [k \in DOMAIN Reference |->
               IF D(Reference[k].at).sub = "dv"
               THEN [Reference[k] EXCEPT !.frames = <<0>>] ELSE Reference[k]]
    /\ pc = "error" => ~listed /\ ~claimed

=============================================================================
