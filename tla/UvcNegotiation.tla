--------------------------- MODULE UvcNegotiation ---------------------------
(***************************************************************************)
(* Streaming parameters in the camera driver: what is negotiated with the  *)
(* camera through the probe control, what the applications that share the  *)
(* node set and read back, what is committed, and the bandwidth, URBs and  *)
(* transfer buffers reserved to carry it                                   *)
(* (src/kernel/uvcvideo-t1: uvc_video.c, uvc_v4l2.c, uvc_queue.c).         *)
(*                                                                         *)
(* The lock of the node serialises the calls of applications, and they are *)
(* frozen while the system sleeps, so one call runs at a time; each        *)
(* request to the camera and each allocation may fail.  A streaming        *)
(* control keeps the fields the driver looks at.                           *)
(*                                                                         *)
(* A frame is a record: its index, its size, its default interval and its  *)
(* intervals, either a list or <<minimum, maximum, step>>.  Word stands    *)
(* for 2^32, the modulus of an interval, and Side for 2^16, that of a      *)
(* width or a height; a payload size whose upper half is all ones stands   *)
(* for its lower half.                                                     *)
(***************************************************************************)
EXTENDS Integers, SequencesExt, FiniteSets, FiniteSetsExt

CONSTANTS
    Word, Side,   \* the moduli of an interval and of a width or height
    Formats,      \* the formats of the stream, each with its frames
    Psizes,       \* bytes in a packet under each alternate setting
    Bulk,         \* the interface has alternate setting 0 only
    MaxpBulk,     \* bytes in a packet of the bulk endpoint
    Quirks,       \* the quirks of the device
    Payloads,     \* dwMaxPayloadTransferSize values the camera may answer
    Kinds,        \* kinds of cameras: "keeps", "substitutes", "zeroes"
    Urbs,         \* UVC_URBS
    MaxPackets,   \* UVC_MAX_PACKETS
    MinEstimate,  \* 1024, the least bandwidth UVC_QUIRK_FIX_BANDWIDTH gives
    Brief,        \* 100000, an interval not above it is not believed
    MaxCalls, MaxFaults, MaxSleeps

VARIABLES
    st,    \* the uvc_streaming fields that describe the stream
    hw,    \* what is reserved and allocated for the transfers
    vb,    \* the size of the smallest buffer applications have allocated, or 0
    call,  \* the call in progress
    cam,   \* the camera: its kind, what was committed to it and, as a history,
           \* whether it answered S_PARM with another frame since the last S_FMT
    used   \* what the bounds have let happen so far

vars == <<st, hw, vb, call, cam, used>>

-----------------------------------------------------------------------------
(* How the driver chooses among the frames and intervals a camera          *)
(* describes, and how it lists them to applications.                       *)

Distance(a, b) == IF a > b THEN a - b ELSE b - a

(* The loop over a list ends at the first interval that is further away    *)
(* than the one before it.                                                 *)
NearestListed(ivals, want) ==
    ivals[CHOOSE i \in DOMAIN ivals :
            /\ i = Len(ivals) \/ Distance(ivals[i + 1], want) > Distance(ivals[i], want)
            /\ \A j \in 1 .. i - 1 : Distance(ivals[j + 1], want) <= Distance(ivals[j], want)]

(* A variant that rounds down instead of to the nearest step. *)
MutNearestStep(ivals, want) ==
    LET step == ivals[3]
        ival == (ivals[1] + (((want - ivals[1]) % Word) \div step) * step) % Word
    IN  IF ival > ivals[2] THEN ivals[2] ELSE ival

(* The arithmetic is unsigned: a wish below the minimum wraps around. *)
NearestStep(ivals, want) ==
    LET step == ivals[3]
        ival == (ivals[1]
                 + (((want - ivals[1] + step \div 2) % Word) \div step) * step) % Word
    IN  IF ival > ivals[2] THEN ivals[2] ELSE ival

TryFrameInterval(frame, want) ==
    IF frame.listed THEN NearestListed(frame.ivals, want)
                    ELSE NearestStep(frame.ivals, want)

(* The size in pixels of what only one of two pictures covers. *)
Uncovered(frame, w, h) ==
    LET least(a, b) == IF a < b THEN a ELSE b
    IN  frame.w * frame.h + w * h - 2 * (least(frame.w, w) * least(frame.h, h))

(* The first of the frames that leave least uncovered; the wish is cut to  *)
(* the width of the descriptor's fields.                                   *)
NearestFrame(frames, w, h) ==
    LET d(i) == Uncovered(frames[i], w % Side, h % Side)
    IN  CHOOSE i \in DOMAIN frames :
            /\ \A j \in DOMAIN frames : d(i) <= d(j)
            /\ \A j \in 1 .. i - 1 : d(j) > d(i)

SameSize(f, g) == f.w = g.w /\ f.h = g.h

(* The other frames a frame interval may be taken from. *)
ParmFrames(frames, cur) ==
    {i \in DOMAIN frames \ {cur} : SameSize(frames[i], frames[cur])}

(* The frame of the current size whose interval comes nearest; the current *)
(* frame wins a tie, then the first.                                       *)
ParmFrame(frames, cur, want) ==
    LET d(i) == Distance(TryFrameInterval(frames[i], want), want)
        better == {i \in ParmFrames(frames, cur) : d(i) < d(cur)}
    IN  IF better = {} THEN cur
        ELSE CHOOSE i \in better :
                 /\ \A j \in better : d(i) <= d(j)
                 /\ \A j \in better : j < i => d(j) > d(i)

(* The frames uvc_ioctl_enum_framesizes counts. *)
Offered(frames) ==
    SelectSeq([i \in DOMAIN frames |-> i],
              LAMBDA i : i = 1 \/ ~SameSize(frames[i], frames[i - 1]))

(* uvc_ioctl_enum_framesizes: the index-th size, or 0 for EINVAL. *)
EnumFrameSize(frames, index) ==
    IF index < Len(Offered(frames)) THEN Offered(frames)[index + 1] ELSE 0

(* One frame of the loop in uvc_ioctl_enum_frameintervals: it is passed    *)
(* over with its intervals, or it holds the index asked for.               *)
PassFrame(frames, frame, s, i) ==
    LET n == IF frames[i].listed THEN Len(frames[i].ivals) ELSE 1
    IN  IF s.at # 0 \/ ~SameSize(frames[i], frame) THEN s
        ELSE IF s.left < n THEN [s EXCEPT !.at = i]
        ELSE [s EXCEPT !.left = @ - n]

(* uvc_ioctl_enum_frameintervals: the frame and the listed interval, 0     *)
(* for a range, or <<>> for EINVAL.                                        *)
EnumFrameInterval(frames, frame, index) ==
    LET s == FoldLeft(LAMBDA t, i : PassFrame(frames, frame, t, i),
                      [at |-> 0, left |-> index], [i \in DOMAIN frames |-> i])
    IN  CASE s.at = 0             -> <<>>
          [] frames[s.at].listed  -> <<s.at, frames[s.at].ivals[s.left + 1]>>
          [] OTHER                -> <<s.at, 0>>

-----------------------------------------------------------------------------
Control == [format : Nat, frame : Nat, ival : Nat, quality : {"asked", "max"},
            size : Nat, payload : Nat]
NoControl == [format |-> 0, frame |-> 0, ival |-> 0, quality |-> "asked",
              size |-> 0, payload |-> 0]
Idle == [op |-> "none", stage |-> "none", probe |-> NoControl, fmt |-> 1,
         frame |-> 1, pass |-> 0, swapped |-> FALSE]
Nothing == [alt |-> 0, clock |-> FALSE, bufs |-> 0, bufsize |-> 0, urbsize |-> 0,
            urbs |-> 0, packets |-> 0, running |-> FALSE]

(* Every variable has its type, and the current frame is one of the        *)
(* current format's.                                                       *)
TypeOK ==
    /\ st.fmt \in DOMAIN Formats /\ st.def \in DOMAIN Formats
    /\ st.frame \in DOMAIN Formats[st.fmt].frames
    /\ st.ctrl \in Control /\ {st.on, st.up} \subseteq BOOLEAN
    /\ hw.alt \in 0 .. Len(Psizes) /\ hw.urbs \in 0 .. Urbs /\ hw.bufs \in 0 .. Urbs
    /\ vb \in Nat
    /\ cam.kind \in Kinds /\ cam.commit \in Control

Init ==
    /\ st = [ctrl |-> NoControl, fmt |-> 1, frame |-> 1, def |-> 1, on |-> FALSE,
             up |-> FALSE]
    /\ hw = Nothing /\ vb = 0
    /\ call = [Idle EXCEPT !.op = "init", !.stage = "def"]
    /\ \E k \in Kinds : cam = [kind |-> k, commit |-> NoControl, swapped |-> FALSE]
    /\ used = [calls |-> 0, faults |-> 0, sleeps |-> 0]

Fault == used.faults < MaxFaults /\ used' = [used EXCEPT !.faults = @ + 1]

-----------------------------------------------------------------------------
(* The probe control.                                                      *)

MaxPsize == IF Bulk THEN MaxpBulk ELSE Max(Range(Psizes))

(* The positions that carry an index, as a set with at most one member. *)
FormatAt(c) == {i \in DOMAIN Formats : Formats[i].index = c.format}
FrameAt(i, c) == {j \in DOMAIN Formats[i].frames : Formats[i].frames[j].index = c.frame}
Known(c) == \E i \in FormatAt(c) : FrameAt(i, c) # {}

(* The bandwidth the driver reckons itself for uncompressed video, in units *)
(* that make the frame's bytes, the packets in a second and the header one. *)
Estimate(frame, ival) ==
    LET interval == IF ival > Brief THEN ival ELSE frame.ivals[1]
    IN  Max({(frame.w * frame.h) \div interval + 1, MinEstimate})

(* uvc_fixup_video_ctrl: a control that names a frame gets a usable frame  *)
(* size and a payload size the interface can carry.                        *)
Fixup(c) ==
    IF ~Known(c) THEN c
    ELSE LET i == CHOOSE i \in FormatAt(c) : TRUE
             frame == Formats[i].frames[CHOOSE j \in FrameAt(i, c) : TRUE]
             packed == Formats[i].compressed
             low == IF c.payload \div Side = Side - 1 THEN c.payload % Side ELSE c.payload
             wide == IF ~packed /\ "fixbandwidth" \in Quirks /\ ~Bulk
                     THEN Estimate(frame, c.ival) ELSE low
         IN  [c EXCEPT !.size = IF ~packed \/ (@ = 0 /\ "old" \in Quirks) THEN frame.size ELSE @,
                       !.payload = IF ~Bulk /\ wide > MaxPsize THEN MaxPsize ELSE wide]

Current == Formats[st.fmt].frames[st.frame]

(* What the camera may answer to a request it was sent: it keeps the frame *)
(* asked for or gives another one of any format; some cameras answer with  *)
(* index zero.  The size of compressed frames depends on the picture only; *)
(* an uncompressed one is often left at zero.                              *)
Answers(c) ==
    LET named == UNION {{<<i, j>> : j \in FrameAt(i, c)} : i \in FormatAt(c)}
        all == UNION {{<<i, j>> : j \in DOMAIN Formats[i].frames} : i \in DOMAIN Formats}
        sizes(f, frame) == IF f.compressed THEN {frame.size} ELSE {0, frame.size}
        ival(frame) == IF c.ival \in Range(frame.ivals) THEN c.ival ELSE frame.def
        answer(f, frame) ==
            {[c EXCEPT !.format = f.index, !.frame = frame.index, !.size = s,
                       !.ival = ival(frame), !.payload = p] :
                 s \in sizes(f, frame), p \in Payloads}
    IN  IF cam.kind = "zeroes" \/ ~Known(c)
        THEN {[c EXCEPT !.format = 0, !.frame = 0, !.size = s, !.payload = p] :
                  s \in {0, Current.size}, p \in Payloads}
        ELSE UNION {answer(Formats[x[1]], Formats[x[1]].frames[x[2]]) :
                        x \in IF cam.kind = "substitutes" THEN all ELSE named}

(* uvc_video_init, the default parameters: GET_DEF and then SET_CUR, whose *)
(* failure is ignored.                                                     *)
InitDefault ==
    /\ call.op = "init" /\ call.stage = "def"
    /\ \E f \in DOMAIN Formats :
         call' = [call EXCEPT !.stage = "cur",
                    !.probe = [NoControl EXCEPT !.format = Formats[f].index,
                                 !.frame = Formats[f].frames[1].index,
                                 !.ival = Formats[f].frames[1].def]]
    /\ UNCHANGED <<st, hw, vb, cam, used>>

(* uvc_video_init, GET_CUR: the format and the frame the camera names, or  *)
(* else the first, become the defaults.                                    *)
InitCurrent ==
    /\ call.op = "init" /\ call.stage = "cur"
    /\ \E a \in Answers(call.probe) :
         LET c == Fixup(a)
             f == IF FormatAt(c) # {} THEN CHOOSE i \in FormatAt(c) : TRUE ELSE 1
             j == IF FrameAt(f, c) # {} THEN CHOOSE j \in FrameAt(f, c) : TRUE ELSE 1
         IN  st' = [st EXCEPT !.ctrl = [c EXCEPT !.format = Formats[f].index,
                                                 !.frame = Formats[f].frames[j].index],
                              !.fmt = f, !.frame = j, !.def = f, !.up = TRUE]
    /\ call' = Idle
    /\ UNCHANGED <<hw, vb, cam, used>>

(* uvc_video_init fails when the camera does not answer. *)
InitFails ==
    /\ call.op = "init" /\ call.stage = "cur"
    /\ call' = [Idle EXCEPT !.op = "dead"]
    /\ UNCHANGED <<st, hw, vb, cam, used>>

Free == call = Idle /\ st.up
Begin(c) ==
    /\ Free /\ used.calls < MaxCalls
    /\ used' = [used EXCEPT !.calls = @ + 1]
    /\ call' = c
    /\ UNCHANGED <<st, hw, vb, cam>>

(* uvc_v4l2_try_format up to the probe, for TRY_FMT and S_FMT: an unknown  *)
(* format, 0, stands for the default one.                                  *)
TryFormat(op) ==
    \E want \in 0 .. Len(Formats), w \in {f.w : f \in Range(Formats[1].frames)} :
        LET f == IF want = 0 THEN st.def ELSE want
            frames == Formats[f].frames
            j == NearestFrame(frames, w, frames[1].h)
        IN  Begin([op |-> op, stage |-> "set", fmt |-> f, frame |-> j, pass |-> 1,
                   swapped |-> FALSE,
                   probe |-> [NoControl EXCEPT !.format = Formats[f].index,
                                !.frame = frames[j].index,
                                !.ival = TryFrameInterval(frames[j], frames[j].def)]])

(* uvc_ioctl_s_parm up to the probe. *)
SetParm ==
    \E want \in {2, 4} :
        LET frames == Formats[st.fmt].frames
            j == ParmFrame(frames, st.frame, want)
        IN  /\ ~st.on
            /\ Begin([op |-> "parm", stage |-> "set", fmt |-> st.fmt, frame |-> j,
                      pass |-> 1, swapped |-> FALSE,
                      probe |-> [st.ctrl EXCEPT
                                   !.frame = IF j = st.frame THEN @ ELSE frames[j].index,
                                   !.ival = TryFrameInterval(frames[j], want)]])

Probing(stage) == call.op \in {"try", "sfmt", "parm"} /\ call.stage = stage

(* uvc_probe_video: the first SET_CUR. *)
ProbeSet ==
    /\ Probing("set")
    /\ call' = [call EXCEPT !.stage = IF "minmax" \in Quirks THEN "pass" ELSE "minmax"]
    /\ UNCHANGED <<st, hw, vb, cam, used>>

(* uvc_probe_video: GET_MIN and GET_MAX; the best quality is asked for. *)
ProbeMinMax ==
    /\ Probing("minmax")
    /\ call' = [call EXCEPT !.stage = "pass", !.probe.quality = "max"]
    /\ UNCHANGED <<st, hw, vb, cam, used>>

TooWide(c) == ~Bulk /\ c.payload > MaxPsize

(* uvc_probe_video: SET_CUR and GET_CUR; an answer that is too wide is     *)
(* tried once more, and then taken as it is.                               *)
ProbePass ==
    /\ Probing("pass")
    /\ \E a \in Answers(call.probe) :
         LET c == Fixup(a)
             now == [call EXCEPT !.probe = c,
                       !.swapped = @ \/ (call.op = "parm" /\ <<a.format, a.frame>> #
                                            <<call.probe.format, call.probe.frame>>)]
         IN  CASE TooWide(c) /\ "minmax" \in Quirks -> call' = Idle
               [] TooWide(c) /\ "minmax" \notin Quirks /\ call.pass = 1
                    -> call' = [now EXCEPT !.pass = 2, !.probe.quality = "max"]
               [] OTHER -> call' = [now EXCEPT !.stage = "take"]
    /\ UNCHANGED <<st, hw, vb, cam, used>>

(* Any request of the negotiation may fail; the call returns the error. *)
ProbeFails ==
    /\ \E s \in {"set", "minmax", "pass"} : Probing(s)
    /\ Fault
    /\ call' = Idle
    /\ UNCHANGED <<st, hw, vb, cam>>

(* TRY_FMT only reports what was negotiated. *)
TakeTry ==
    /\ Probing("take") /\ call.op = "try"
    /\ call' = Idle
    /\ UNCHANGED <<st, hw, vb, cam, used>>

(* The format and the frame the camera answered, or those asked for. *)
AnsweredFormat == IF FormatAt(call.probe) # {}
                  THEN CHOOSE i \in FormatAt(call.probe) : TRUE ELSE call.fmt
AnsweredFrame ==
    LET js == FrameAt(AnsweredFormat, call.probe)
    IN  IF js # {} THEN CHOOSE j \in js : TRUE ELSE call.frame

(* A variant that takes the control before it looks whether the queue is   *)
(* busy.                                                                   *)
MutTakeFormat ==
    /\ Probing("take") /\ call.op = "sfmt"
    /\ st' = IF vb > 0 THEN [st EXCEPT !.ctrl = call.probe]
             ELSE [st EXCEPT !.ctrl = call.probe, !.fmt = AnsweredFormat,
                             !.frame = AnsweredFrame]
    /\ call' = Idle
    /\ UNCHANGED <<hw, vb, cam, used>>

(* S_FMT takes it unless buffers are allocated. *)
TakeFormat ==
    /\ Probing("take") /\ call.op = "sfmt"
    /\ st' = IF vb > 0 THEN st
             ELSE [st EXCEPT !.ctrl = call.probe, !.fmt = AnsweredFormat,
                             !.frame = AnsweredFrame]
    /\ cam' = [cam EXCEPT !.swapped = @ /\ vb > 0]
    /\ call' = Idle
    /\ UNCHANGED <<hw, vb, used>>

(* S_PARM takes the control the camera answered and the frame that was     *)
(* asked for, even if the camera named another.                            *)
TakeParm ==
    /\ Probing("take") /\ call.op = "parm"
    /\ st' = [st EXCEPT !.ctrl = call.probe, !.frame = call.frame]
    /\ cam' = [cam EXCEPT !.swapped = @ \/ call.swapped]
    /\ call' = Idle
    /\ UNCHANGED <<hw, vb, used>>

-----------------------------------------------------------------------------
(* Buffers, bandwidth and URBs.                                            *)

Instant(op) ==
    /\ Free /\ used.calls < MaxCalls
    /\ used' = [used EXCEPT !.calls = @ + 1]
    /\ UNCHANGED <<call, cam>>

(* uvc_queue_setup for REQBUFS: buffers hold a frame as it is negotiated   *)
(* now.                                                                    *)
RequestBuffers ==
    /\ Instant("reqbufs")
    /\ ~st.on /\ vb = 0 /\ st.ctrl.size > 0
    /\ vb' = st.ctrl.size
    /\ UNCHANGED <<st, hw>>

(* REQBUFS with a count of zero. *)
ReleaseBuffers ==
    /\ Instant("reqbufs")
    /\ ~st.on /\ vb > 0
    /\ vb' = 0
    /\ UNCHANGED <<st, hw>>

Psize == IF Bulk THEN MaxpBulk ELSE Psizes[hw.alt]

(* uvc_free_urb_buffers *)
FreeUrbBuffers(h) == [h EXCEPT !.bufs = 0, !.bufsize = 0, !.urbsize = 0]

(* uvc_video_stop_transfer: the URBs are cancelled and freed, the buffers  *)
(* too unless the stop is for a suspend.                                   *)
StopTransfer(h, free) ==
    LET s == [h EXCEPT !.running = FALSE, !.urbs = 0]
    IN  IF free THEN FreeUrbBuffers(s) ELSE s

(* uvc_video_stop_streaming *)
StopStreaming(h) == [StopTransfer(h, TRUE) EXCEPT !.alt = 0, !.clock = FALSE]

(* VIDIOC_STREAMON: uvc_video_start_streaming sets up the clock. *)
StreamOn ==
    /\ ~st.on /\ vb > 0
    /\ Free /\ used.calls < MaxCalls
    /\ used' = [used EXCEPT !.calls = @ + 1]
    /\ hw' = [hw EXCEPT !.clock = TRUE]
    /\ call' = [Idle EXCEPT !.op = "on", !.stage = "commit"]
    /\ UNCHANGED <<st, vb, cam>>

Starting(stage) == call.op \in {"on", "resume"} /\ call.stage = stage

(* The ends of a start that fails: uvc_video_start_streaming undoes what   *)
(* it did, and a resume is followed by vb2_streamoff.                      *)
StartFailed(h) ==
    /\ hw' = IF call.op = "on" THEN [h EXCEPT !.alt = 0, !.clock = FALSE]
                               ELSE StopStreaming(h)
    /\ st' = [st EXCEPT !.on = FALSE]
    /\ call' = Idle
    /\ UNCHANGED <<vb, cam>>

(* uvc_commit_video *)
Commit ==
    /\ Starting("commit")
    /\ cam' = [cam EXCEPT !.commit = st.ctrl]
    /\ call' = [call EXCEPT !.stage = IF Bulk THEN "alloc" ELSE "alt"]
    /\ UNCHANGED <<st, hw, vb, used>>

(* The alternate settings that carry the bandwidth with the least packets; *)
(* the first of them is taken, and one that asks for none gets the least.  *)
BestAlt(bandwidth) ==
    LET need == IF bandwidth = 0 THEN 1 ELSE bandwidth
        enough == {i \in DOMAIN Psizes : Psizes[i] >= need}
    IN  {i \in enough : \A j \in enough : /\ Psizes[i] <= Psizes[j]
                                          /\ (Psizes[i] = Psizes[j] => i <= j)}

(* uvc_video_start_transfer: the alternate setting of an isochronous       *)
(* endpoint.                                                               *)
SelectAlt ==
    /\ Starting("alt")
    /\ \E i \in BestAlt(st.ctrl.payload) : hw' = [hw EXCEPT !.alt = i]
    /\ call' = [call EXCEPT !.stage = "alloc"]
    /\ UNCHANGED <<st, vb, cam, used>>

(* No alternate setting is fast enough. *)
NoAlt ==
    /\ Starting("alt") /\ BestAlt(st.ctrl.payload) = {}
    /\ StartFailed(hw)
    /\ UNCHANGED used

(* What uvc_init_video_isoc and uvc_init_video_bulk ask for. *)
TransferSize == IF Bulk THEN st.ctrl.payload ELSE st.ctrl.size

(* uvc_alloc_urb_buffers: the number of packets, which buffers kept over   *)
(* a suspend decide.                                                       *)
CountPackets ==
    /\ Starting("alloc")
    /\ LET kept == hw.urbsize > 0
           n == IF kept THEN hw.urbsize \div Psize
                ELSE Min({(TransferSize + Psize - 1) \div Psize, MaxPackets})
       IN  IF n = 0 THEN StartFailed(hw)
           ELSE /\ hw' = [hw EXCEPT !.packets = n]
                /\ call' = [call EXCEPT !.stage = IF kept THEN "urbs" ELSE "memory"]
                /\ UNCHANGED <<st, vb, cam>>
    /\ UNCHANGED used

(* uvc_alloc_urb_buffers: every URB gets a buffer. *)
AllocBuffers ==
    /\ Starting("memory")
    /\ hw' = [hw EXCEPT !.bufs = Urbs, !.bufsize = hw.packets * Psize,
                        !.urbsize = hw.packets * Psize]
    /\ call' = [call EXCEPT !.stage = "urbs"]
    /\ UNCHANGED <<st, vb, cam, used>>

(* One of them does not: all are freed and half as many packets tried. *)
HalveBuffers ==
    /\ Starting("memory") /\ Fault
    /\ LET h == [FreeUrbBuffers(hw) EXCEPT !.packets = @ \div 2]
       IN  IF h.packets = 0 THEN StartFailed(h)
           ELSE hw' = h /\ UNCHANGED <<st, vb, cam, call>>

(* The URBs themselves. *)
AllocUrbs ==
    /\ Starting("urbs")
    /\ hw' = [hw EXCEPT !.urbs = Urbs]
    /\ call' = [call EXCEPT !.stage = "submit"]
    /\ UNCHANGED <<st, vb, cam, used>>

(* An URB cannot be allocated or submitted: the transfer is stopped. *)
UrbsFail ==
    /\ Starting("urbs") \/ Starting("submit")
    /\ Fault
    /\ StartFailed(StopTransfer(hw, TRUE))

Submit ==
    /\ Starting("submit")
    /\ hw' = [hw EXCEPT !.running = TRUE]
    /\ st' = [st EXCEPT !.on = TRUE]
    /\ call' = Idle
    /\ UNCHANGED <<vb, cam, used>>

(* The commit request or SET_INTERFACE fails. *)
StartFails ==
    /\ Starting("commit") \/ Starting("alt")
    /\ Fault
    /\ StartFailed(hw)

(* VIDIOC_STREAMOFF *)
StreamOff ==
    /\ Instant("off") /\ st.on
    /\ st' = [st EXCEPT !.on = FALSE]
    /\ hw' = StopStreaming(hw)
    /\ UNCHANGED vb

(* uvc_video_suspend; the stream stays on. *)
Suspend ==
    /\ Free /\ used.sleeps < MaxSleeps
    /\ used' = [used EXCEPT !.sleeps = @ + 1]
    /\ hw' = IF st.on THEN [StopTransfer(hw, FALSE) EXCEPT !.alt = 0] ELSE hw
    /\ call' = [Idle EXCEPT !.op = "asleep"]
    /\ UNCHANGED <<st, vb, cam>>

(* uvc_video_resume; the camera may have lost what was committed to it. *)
Resume ==
    /\ call.op = "asleep"
    /\ cam' \in {cam, [cam EXCEPT !.commit = NoControl]}
    /\ call' = IF st.on THEN [Idle EXCEPT !.op = "resume", !.stage = "commit"] ELSE Idle
    /\ UNCHANGED <<st, hw, vb, used>>

Next ==
    \/ InitDefault \/ InitCurrent \/ InitFails
    \/ TryFormat("try") \/ TryFormat("sfmt") \/ SetParm
    \/ ProbeSet \/ ProbeMinMax \/ ProbePass \/ ProbeFails
    \/ TakeTry \/ TakeFormat \/ TakeParm
    \/ RequestBuffers \/ ReleaseBuffers \/ StreamOn \/ StreamOff
    \/ Commit \/ SelectAlt \/ NoAlt \/ CountPackets
    \/ AllocBuffers \/ HalveBuffers \/ AllocUrbs \/ UrbsFail \/ Submit \/ StartFails
    \/ Suspend \/ Resume

Spec == Init /\ [][Next]_vars

-----------------------------------------------------------------------------
(* While the stream runs, the camera was committed to the negotiated       *)
(* control, whatever was tried or refused in between, a sleep included.    *)
(* That is the very format, frame, interval and size that G_FMT and G_PARM *)
(* report to the applications, unless the camera answered an S_PARM since  *)
(* the last S_FMT with another frame than the one asked for: the driver    *)
(* then reports the frame it asked for.  Cameras that answer with index    *)
(* zero are left out.                                                      *)
CommitIsReported ==
    /\ hw.running => cam.commit = st.ctrl
    /\ hw.running /\ cam.kind # "zeroes" /\ ~cam.swapped =>
        /\ st.ctrl.format = Formats[st.fmt].index /\ st.ctrl.frame = Current.index
        /\ st.ctrl.size = Current.size
        /\ st.ctrl.ival \in Range(Current.ivals)

(* While the stream runs, the alternate setting carries the payload that   *)
(* was committed, and no narrower one would.                               *)
BandwidthReserved ==
    hw.running /\ ~Bulk =>
        /\ Psizes[hw.alt] >= cam.commit.payload
        /\ \A i \in DOMAIN Psizes : Psizes[i] >= cam.commit.payload /\ Psizes[i] > 0
                                     => Psizes[hw.alt] <= Psizes[i]

(* A frame the driver knows can always be carried: the start does not fail *)
(* for want of an alternate setting.                                       *)
KnownFrameFits ==
    Starting("alt") /\ cam.kind # "zeroes" /\ Known(st.ctrl) => BestAlt(st.ctrl.payload) # {}

(* Every URB in flight has a buffer for all of its packets, whether the    *)
(* buffers are new, smaller than wished or kept from before a sleep.       *)
UrbsHavePlace ==
    hw.running => /\ hw.bufs = Urbs /\ hw.urbs = Urbs
                  /\ hw.packets > 0
                  /\ hw.packets * Psize <= hw.bufsize

(* When no stream is on and no call is under way, nothing is held: no      *)
(* bandwidth, no clock, no URB and no transfer buffer.                     *)
NothingHeld ==
    ~st.on /\ call.op \in {"none", "try", "sfmt", "parm"} =>
        [hw EXCEPT !.packets = 0] = Nothing

(* The buffers of the applications hold the frames the camera was told to  *)
(* send, with the same exception.                                          *)
BuffersHoldFrame ==
    hw.running /\ cam.kind # "zeroes" /\ ~cam.swapped => cam.commit.size <= vb
=============================================================================
