---------------------------- MODULE UvcStream ----------------------------
(***************************************************************************)
(* The video stream of the camera driver: the buffers videobuf2 lends to   *)
(* the driver, the URBs the camera fills, the decoder that runs in the URB *)
(* completion handler, the work items that copy the payloads into the      *)
(* buffers afterwards, and the calls that start, stop, freeze and end it   *)
(* (src/kernel/uvcvideo-t1: uvc_queue.c, uvc_video.c, uvc_driver.c).       *)
(*                                                                         *)
(* A frame is FrameLen payload packets; the byte counts of the code are    *)
(* counted in packets.  A URB completes with Slots isochronous packets, or *)
(* with one part of a bulk payload of Parts parts.  videobuf2's lists and  *)
(* buffer states, the USB core and the camera are external.                *)
(***************************************************************************)
EXTENDS Integers, FiniteSets, SequencesExt

CONSTANTS
    Bufs,          \* the buffers the application has allocated
    Urbs,          \* the URBs, 1..UVC_URBS
    FrameLen,      \* packets in a frame (dwMaxVideoFrameSize)
    Slots,         \* isochronous packets in a URB
    Parts,         \* URBs a bulk payload takes
    Bulk,          \* the endpoint is a bulk endpoint
    EofBit,        \* the camera marks the end of a frame
    Compressed,    \* UVC_FMT_FLAG_COMPRESSED
    NoDrop,        \* the module parameter nodrop
    MaxFrames, MaxFaults, MaxUrbErrors, MaxCalls, MaxSleeps, Unplug

VARIABLES
    buf,     \* the uvc_buffers, with videobuf2's view of each in "at"
    vbq,     \* videobuf2's queued_list
    done,    \* videobuf2's done_list
    irq,     \* queue->irqqueue
    urb,     \* the uvc_urbs, each with its copy operations
    fly,     \* the URBs the host controller holds, in submission order
    str,     \* the uvc_streaming fields
    call,    \* the call that holds queue->mutex, or the sleep
    cam,     \* the next packet of the camera
    used     \* what the bounds have let happen so far

vars == <<buf, vbq, done, irq, urb, fly, str, call, cam, used>>

None == "none"
NoPacket == [f |-> 0, i |-> 0, bad |-> FALSE]
Packet == [f : 0 .. MaxFrames + 1, i : 0 .. FrameLen, bad : BOOLEAN]
Idle == [op |-> "none", stage |-> "none", n |-> 0]

BufferRecord ==
    [at : {"user", "queued", "active", "done"},
     st : {"idle", "queued", "active", "ready", "done", "error"},
     err : BOOLEAN, len : 0 .. FrameLen, ref : Nat, seq : Int, ep : Nat,
     mem : [1 .. FrameLen -> Packet]]

(* Every variable has its type. *)
TypeOK ==
    /\ buf \in [Bufs -> BufferRecord]
    /\ {vbq, done, irq} \subseteq Seq(Bufs)
    /\ \A u \in Urbs :
         /\ urb[u].at \in {"free", "idle", "flying", "work"}
         /\ urb[u].poison \in BOOLEAN
         /\ \A k \in 1 .. Len(urb[u].ops) :
              /\ urb[u].ops[k].b \in Bufs
              /\ urb[u].ops[k].off \in 1 .. FrameLen + 1
    /\ fly \in Seq(Urbs)
    /\ call.op \in {"none", "qbuf", "on", "off", "suspend", "asleep", "resume"}
    /\ str.fid \in -1 .. 1 /\ str.seq \in Int

Init ==
    /\ buf = [b \in Bufs |->
                [at |-> "user", st |-> "idle", err |-> FALSE, len |-> 0,
                 ref |-> 0, seq |-> -1, ep |-> 0,
                 mem |-> [k \in 1 .. FrameLen |-> NoPacket]]]
    /\ vbq = <<>> /\ done = <<>> /\ irq = <<>> /\ fly = <<>>
    /\ urb = [u \in Urbs |-> [at |-> "free", poison |-> FALSE, ops |-> <<>>]]
    /\ str = [on |-> FALSE, frozen |-> FALSE, seq |-> -1, fid |-> -1, ep |-> 0,
              head |-> None, skip |-> FALSE, disc |-> FALSE, gone |-> FALSE,
              reg |-> TRUE]
    /\ call = Idle
    /\ cam = [f |-> 1, i |-> 1]
    /\ used = [faults |-> 0, errors |-> 0, calls |-> 0, sleeps |-> 0]

-----------------------------------------------------------------------------
(* The queue.  The operators below act on a record of the state the         *)
(* interrupt side shares with videobuf2:                                    *)
(*   buf, done, irq, str; ops, the copy operations of the URB in hand; and  *)
(*   cur, the buffer its decoder is filling.                                *)

Now == [buf |-> buf, done |-> done, irq |-> irq, str |-> str,
        ops |-> <<>>, cur |-> None]

(* vb2_buffer_done. *)
VbDone(s, b, as) ==
    IF as = "queued" THEN [s EXCEPT !.buf[b].at = "queued"]
    ELSE [s EXCEPT !.buf[b].at = "done", !.done = Append(@, b)]

ReturnBuffers(s, as) ==
    FoldLeft(LAMBDA t, b : VbDone([t EXCEPT !.buf[b].st = as], b, as),
             [s EXCEPT !.irq = <<>>], s.irq)

Cancel(s, disconnect) ==
    LET t == ReturnBuffers(s, "error")
    IN  [t EXCEPT !.str.disc = @ \/ disconnect]

BufferQueue(s, b) ==
    IF s.str.disc
    THEN VbDone([s EXCEPT !.buf[b].st = "error"], b, "error")
    ELSE [s EXCEPT !.buf[b].ref = 1, !.buf[b].at = "active",
                   !.irq = Append(@, b)]

BufferRequeue(s, b) ==
    BufferQueue([s EXCEPT !.buf[b].err = FALSE, !.buf[b].st = "queued",
                          !.buf[b].len = 0], b)

MutComplete(s, b) ==
    IF s.buf[b].err /\ ~NoDrop THEN s
    ELSE VbDone([s EXCEPT !.buf[b].st =
                    IF s.buf[b].err THEN "error" ELSE "done"], b, "done")

BufferComplete(s, b) ==
    IF s.buf[b].err /\ ~NoDrop THEN BufferRequeue(s, b)
    ELSE VbDone([s EXCEPT !.buf[b].st =
                    IF s.buf[b].err THEN "error" ELSE "done"], b, "done")

BufferRelease(s, b) ==
    LET t == [s EXCEPT !.buf[b].ref = @ - 1]
    IN  IF t.buf[b].ref = 0 THEN BufferComplete(t, b) ELSE t

CurrentBuffer(s) == IF s.irq = <<>> THEN None ELSE Head(s.irq)

(* The next buffer is looked up before the old one is released. *)
NextBuffer(s) ==
    LET b == s.cur
        t == [s EXCEPT !.irq = SelectSeq(@, LAMBDA x : x # b)]
    IN  [BufferRelease(t, b) EXCEPT !.cur = CurrentBuffer(t)]

-----------------------------------------------------------------------------
(* The decoder. *)

ValidateBuffer(s, b) ==
    IF s.buf[b].len # FrameLen /\ ~Compressed
    THEN [s EXCEPT !.buf[b].err = TRUE] ELSE s

NextBuffers(s) == NextBuffer(ValidateBuffer(s, s.cur))

Fid(p) == p.f % 2

(* The fields of decode_start that one pass sets; "again" asks the caller  *)
(* for the next buffer, "nodata" drops the payload.                        *)
NewFrame(s, p) ==
    IF s.str.fid = Fid(p) THEN s
    ELSE LET seq == s.str.seq + 1
         IN  IF s.cur = None THEN [s EXCEPT !.str.seq = seq]
             ELSE [s EXCEPT !.str.seq = seq, !.buf[s.cur].seq = seq,
                            !.buf[s.cur].ep = s.str.ep]

MarkBad(s, p) == IF p.bad THEN [s EXCEPT !.buf[s.cur].err = TRUE] ELSE s

DecodeStartOnce(s, p) ==
    LET b == s.cur
        flip == s.str.fid # Fid(p)
    IN  CASE b = None ->
               [s |-> [NewFrame(s, p) EXCEPT !.str.fid = Fid(p)], ret |-> "nodata"]
          [] b # None /\ flip /\ s.buf[b].len # 0 ->
               [s |-> [s EXCEPT !.buf[b].st = "ready"], ret |-> "again"]
          [] b # None /\ ~flip /\ s.buf[b].st # "active" ->
               [s |-> MarkBad(s, p), ret |-> "nodata"]
          [] OTHER ->
               [s |-> [MarkBad(NewFrame(s, p), p) EXCEPT !.buf[b].st = "active",
                                                         !.str.fid = Fid(p)],
                ret |-> "ok"]

(* A buffer that is next in the queue is empty, so one retry is enough. *)
StartAgain(r, p) ==
    IF r.ret = "again" THEN DecodeStartOnce(NextBuffers(r.s), p) ELSE r

DecodeStart(s, p) == StartAgain(DecodeStartOnce(s, p), p)

MutDecodeData(s, p) ==
    LET b == s.cur
        full == s.buf[b].len = FrameLen
        t == [s EXCEPT !.ops = Append(@, [b |-> b, off |-> s.buf[b].len + 1,
                                          p |-> p, none |-> full])]
    IN  IF full
        THEN [t EXCEPT !.buf[b].err = TRUE, !.buf[b].st = "ready"]
        ELSE [t EXCEPT !.buf[b].len = @ + 1]

DecodeData(s, p) ==
    LET b == s.cur
        full == s.buf[b].len = FrameLen
        t == [s EXCEPT !.buf[b].ref = @ + 1,
                       !.ops = Append(@, [b |-> b, off |-> s.buf[b].len + 1,
                                          p |-> p, none |-> full])]
    IN  IF full
        THEN [t EXCEPT !.buf[b].err = TRUE, !.buf[b].st = "ready"]
        ELSE [t EXCEPT !.buf[b].len = @ + 1]

DecodeEnd(s, eof) ==
    IF eof /\ s.buf[s.cur].len # 0
    THEN [s EXCEPT !.buf[s.cur].st = "ready"] ELSE s

ReadyNext(s) == IF s.buf[s.cur].st = "ready" THEN NextBuffers(s) ELSE s

Payload(x) == [f |-> x.f, i |-> x.i, bad |-> x.kind = "bad"]

IsocData(r, x) ==
    IF r.ret # "ok" THEN r.s
    ELSE ReadyNext(DecodeEnd(DecodeData(r.s, Payload(x)),
                             EofBit /\ x.i = FrameLen))

(* One packet of an isochronous URB: "empty" carries no payload header,    *)
(* "lost" has a status below zero, "bad" the payload's error bit.          *)
IsocPacket(s, x) ==
    CASE x.kind = "empty" -> s
      [] x.kind = "lost" ->
           IF s.cur = None THEN s ELSE [s EXCEPT !.buf[s.cur].err = TRUE]
      [] OTHER -> IsocData(DecodeStart(s, Payload(x)), x)

DecodeIsoc(s, xs) == FoldLeft(IsocPacket, s, xs)

(* One URB of a bulk stream: the header of its first URB, the data of each *)
(* and the end of the payload.  str.head is the saved header of the payload *)
(* under way: whether it ends a frame, or None between payloads.           *)
SaveHeader(r, x) ==
    IF r.ret # "ok" THEN [r.s EXCEPT !.str.skip = TRUE]
    ELSE [r.s EXCEPT !.str.head =
            IF EofBit /\ (x.i - 1) \div Parts = (FrameLen - 1) \div Parts
            THEN "eof" ELSE "more"]

BulkHeader(s, x) ==
    IF s.str.head = None /\ ~s.str.skip
    THEN SaveHeader(DecodeStart(s, Payload(x)), x) ELSE s

Live(s) == ~s.str.skip /\ s.cur # None

BulkData(s, x) == IF Live(s) THEN DecodeData(s, Payload(x)) ELSE s

BulkEnd(s) ==
    [IF Live(s) THEN ReadyNext(DecodeEnd(s, s.str.head = "eof")) ELSE s
     EXCEPT !.str.head = None, !.str.skip = FALSE]

DecodeBulk(s, x) ==
    CASE x.kind = "empty" -> s
      [] x.kind # "empty" /\ (x.i % Parts = 0 \/ x.i = FrameLen) ->
           BulkEnd(BulkData(BulkHeader(s, x), x))
      [] OTHER -> BulkData(BulkHeader(s, x), x)

-----------------------------------------------------------------------------
(* The camera (external): what the next URB brings.  A bulk payload has    *)
(* one header, so only its first URB can carry the error bit, and URBs     *)
(* without data come between payloads.                                     *)

After(c) == IF c.i = FrameLen THEN [f |-> c.f + 1, i |-> 1]
            ELSE [c EXCEPT !.i = @ + 1]

Fill(c, kinds) ==
    FoldLeft(LAMBDA a, k :
               [xs |-> Append(a.xs, [f |-> a.c.f, i |-> a.c.i, kind |-> k]),
                c |-> IF k = "empty" THEN a.c ELSE After(a.c)],
             [xs |-> <<>>, c |-> c], kinds)

Kinds == IF Bulk THEN {"whole", "bad", "empty"}
         ELSE {"whole", "bad", "lost", "empty"}

Faulty(kinds) == Cardinality({k \in DOMAIN kinds : kinds[k] \in {"bad", "lost"}})

Put(s) == /\ buf' = s.buf /\ done' = s.done /\ irq' = s.irq /\ str' = s.str

(* usb_submit_urb on the way back to the camera: refused for a poisoned    *)
(* URB and for an endpoint that has been disabled.                         *)
Resubmit(u, ops) ==
    IF urb[u].poison \/ str.gone
    THEN /\ urb' = [urb EXCEPT ![u] = [@ EXCEPT !.at = "idle", !.ops = ops]]
         /\ UNCHANGED fly
    ELSE /\ urb' = [urb EXCEPT ![u] = [@ EXCEPT !.at = "flying", !.ops = ops]]
         /\ fly' = Append(fly, u)

(* uvc_video_complete with status 0. *)
Complete(u) ==
    /\ fly # <<>> /\ Head(fly) = u /\ ~str.gone
    /\ \E kinds \in [1 .. IF Bulk THEN 1 ELSE Slots -> Kinds] :
         LET q == Fill(cam, kinds)
             s == [Now EXCEPT !.cur = CurrentBuffer(Now)]
             t == IF Bulk THEN DecodeBulk(s, q.xs[1]) ELSE DecodeIsoc(s, q.xs)
         IN  /\ Bulk /\ kinds[1] # "whole" => cam.i % Parts = 1 % Parts
             /\ q.c.f <= MaxFrames + 1
             /\ (q.c.f = MaxFrames + 1) => (q.c.i = 1)
             /\ used.faults + Faulty(kinds) <= MaxFaults
             /\ used' = [used EXCEPT !.faults = @ + Faulty(kinds)]
             /\ cam' = q.c
             /\ Put(t)
             /\ IF t.ops = <<>>
                THEN /\ fly' = Append(Tail(fly), u)
                     /\ UNCHANGED urb
                ELSE /\ fly' = Tail(fly)
                     /\ urb' = [urb EXCEPT ![u] = [@ EXCEPT !.at = "work",
                                                            !.ops = t.ops]]
    /\ UNCHANGED <<vbq, call>>

(* uvc_video_complete with another status: the endpoint was disabled       *)
(* (-ESHUTDOWN), or the transfer failed.                                   *)
FailedStatus(s, shutdown) ==
    IF s.str.frozen /\ ~shutdown THEN s ELSE Cancel(s, shutdown)

CompleteFailed(u) ==
    /\ fly # <<>> /\ Head(fly) = u
    /\ str.gone \/ used.errors < MaxUrbErrors
    /\ used' = IF str.gone THEN used ELSE [used EXCEPT !.errors = @ + 1]
    /\ Put(FailedStatus(Now, str.gone))
    /\ fly' = Tail(fly)
    /\ urb' = [urb EXCEPT ![u].at = "idle"]
    /\ UNCHANGED <<vbq, call, cam>>

(* One operation of uvc_video_copy_data_work, and the resubmission that    *)
(* follows the last one.                                                   *)
CopyDataWork(u) ==
    /\ urb[u].at = "work"
    /\ LET op == Head(urb[u].ops)
           s == IF op.none THEN Now
                ELSE [Now EXCEPT !.buf[op.b].mem[op.off] = op.p]
       IN  Put(BufferRelease(s, op.b))
    /\ IF Len(urb[u].ops) = 1 THEN Resubmit(u, <<>>)
       ELSE /\ urb' = [urb EXCEPT ![u].ops = Tail(@)]
            /\ UNCHANGED fly
    /\ UNCHANGED <<vbq, call, cam, used>>

-----------------------------------------------------------------------------
(* The calls.  Each holds queue->mutex; user tasks are frozen for a sleep. *)

(* VIDIOC_QBUF: uvc_buffer_prepare, then uvc_buffer_queue when streaming.  *)
QBuf(b) ==
    /\ call = Idle /\ str.reg /\ buf[b].at = "user"
    /\ ~str.disc
    /\ buf' = [buf EXCEPT ![b] = [@ EXCEPT
                 !.at = "queued", !.st = "queued", !.err = FALSE, !.len = 0,
                 !.seq = -1, !.ep = 0,
                 !.mem = [k \in 1 .. FrameLen |-> NoPacket]]]
    /\ vbq' = Append(vbq, b)
    /\ call' = IF str.on THEN [Idle EXCEPT !.op = "qbuf"] ELSE Idle
    /\ UNCHANGED <<done, irq, urb, fly, str, cam, used>>

QBufInDriver ==
    /\ call.op = "qbuf"
    /\ Put(BufferQueue(Now, Last(vbq)))
    /\ call' = Idle
    /\ UNCHANGED <<vbq, urb, fly, cam, used>>

(* VIDIOC_DQBUF. *)
DQBuf ==
    /\ call = Idle /\ str.reg /\ str.on /\ done # <<>>
    /\ buf' = [buf EXCEPT ![Head(done)].at = "user"]
    /\ vbq' = SelectSeq(vbq, LAMBDA x : x # Head(done))
    /\ done' = Tail(done)
    /\ UNCHANGED <<irq, urb, fly, str, call, cam, used>>

(* uvc_video_start_transfer up to the URBs: alternate setting, transfer    *)
(* buffers and URBs, from a new frame of the camera.                       *)
StartTransfer(s, op) ==
    /\ Put([s EXCEPT !.str.seq = -1, !.str.fid = -1, !.str.head = None,
                     !.str.skip = FALSE, !.str.ep = @ + 1, !.str.on = TRUE])
    /\ urb' = [u \in Urbs |-> [at |-> "idle", poison |-> FALSE, ops |-> <<>>]]
    /\ cam' = IF cam.i = 1 THEN cam ELSE [f |-> cam.f + 1, i |-> 1]
    /\ call' = [op |-> op, stage |-> "submit", n |-> 1]
    /\ UNCHANGED fly

(* videobuf2 gives the driver every queued buffer before start_streaming.  *)
(* A queue that still holds buffers of a failed start is stopped first.    *)
StreamOn ==
    /\ call = Idle /\ str.reg /\ ~str.on /\ done = <<>>
    /\ used.calls < MaxCalls
    /\ LET s == FoldLeft(BufferQueue, Now, vbq)
       IN  \/ /\ ~str.gone
              /\ StartTransfer(s, "on")
              /\ used' = [used EXCEPT !.calls = @ + 1]
           \/ /\ str.gone \/ used.faults < MaxFaults
              /\ Put(ReturnBuffers(s, "queued"))
              /\ used' = [used EXCEPT !.calls = @ + 1,
                            !.faults = IF str.gone THEN @ ELSE @ + 1]
              /\ UNCHANGED <<urb, fly, call, cam>>
    /\ UNCHANGED vbq

SubmitUrb ==
    /\ call.stage = "submit"
    /\ LET u == call.n
           stop == [call EXCEPT !.stage = "poison", !.n = 1]
       IN  \/ /\ ~str.gone
              /\ urb' = [urb EXCEPT ![u].at = "flying"]
              /\ fly' = Append(fly, u)
              /\ call' = IF u = Cardinality(Urbs) THEN Idle
                         ELSE [call EXCEPT !.n = u + 1]
              /\ UNCHANGED used
           \/ /\ str.gone \/ used.faults < MaxFaults
              /\ used' = IF str.gone THEN used ELSE [used EXCEPT !.faults = @ + 1]
              /\ call' = stop
              /\ UNCHANGED <<urb, fly>>
    /\ UNCHANGED <<buf, vbq, done, irq, str, cam>>

(* uvc_video_stop_transfer, one usb_poison_urb at a time: a URB in flight  *)
(* completes with -ENOENT, and none can be submitted again.                *)
PoisonUrb ==
    /\ call.stage = "poison"
    /\ LET u == call.n
       IN  /\ IF urb[u].at = "flying"
              THEN Put(FailedStatus(Now, FALSE))
              ELSE UNCHANGED <<buf, done, irq, str>>
           /\ fly' = SelectSeq(fly, LAMBDA x : x # u)
           /\ urb' = [urb EXCEPT ![u] = [@ EXCEPT !.poison = TRUE,
                          !.at = IF @ = "flying" THEN "idle" ELSE @]]
           /\ call' = IF u = Cardinality(Urbs) THEN [call EXCEPT !.stage = "flush"]
                      ELSE [call EXCEPT !.n = u + 1]
    /\ UNCHANGED <<vbq, cam, used>>

(* __vb2_queue_cancel: every buffer goes back to the application. *)
QueueCancel(s) ==
    /\ Put([s EXCEPT !.done = <<>>, !.str.on = FALSE,
                     !.buf = [b \in Bufs |-> [s.buf[b] EXCEPT !.at =
                                IF @ = "active" THEN @ ELSE "user"]]])
    /\ vbq' = <<>>
    /\ call' = Idle

StopStreaming(s) == QueueCancel(ReturnBuffers(s, "error"))

(* flush_workqueue has returned: the URBs are freed and the call goes on.  *)
Flushed ==
    /\ call.stage = "flush"
    /\ \A u \in Urbs : urb[u].at # "work"
    /\ urb' = [u \in Urbs |-> [urb[u] EXCEPT !.at =
                                 IF @ = "flying" THEN @ ELSE "free"]]
    /\ \/ /\ call.op = "on"
          /\ Put([ReturnBuffers(Now, "queued") EXCEPT !.str.on = FALSE])
          /\ call' = Idle
          /\ UNCHANGED vbq
       \/ /\ call.op \in {"off", "resume"}
          /\ StopStreaming(Now)
       \/ /\ call.op = "suspend"
          /\ call' = [Idle EXCEPT !.op = "asleep"]
          /\ UNCHANGED <<buf, vbq, done, irq, str>>
    /\ UNCHANGED <<fly, cam, used>>

Stop(op) == call' = [op |-> op, stage |-> "poison", n |-> 1]

StreamOff ==
    /\ call = Idle /\ str.reg /\ used.calls < MaxCalls
    /\ used' = [used EXCEPT !.calls = @ + 1]
    /\ IF str.on THEN Stop("off") /\ UNCHANGED <<buf, vbq, done, irq, str>>
       ELSE QueueCancel(Now)
    /\ UNCHANGED <<urb, fly, cam>>

Suspend ==
    /\ call = Idle /\ str.reg /\ str.on /\ used.sleeps < MaxSleeps
    /\ used' = [used EXCEPT !.sleeps = @ + 1]
    /\ str' = [str EXCEPT !.frozen = TRUE]
    /\ Stop("suspend")
    /\ UNCHANGED <<buf, vbq, done, irq, urb, fly, cam>>

(* uvc_video_resume, and vb2_streamoff when it fails. *)
Resume ==
    /\ call.op = "asleep"
    /\ LET s == [Now EXCEPT !.str.frozen = FALSE]
       IN  \/ /\ ~str.gone
              /\ StartTransfer(s, "resume")
              /\ UNCHANGED <<vbq, used>>
           \/ /\ str.gone \/ used.faults < MaxFaults
              /\ used' = IF str.gone THEN used ELSE [used EXCEPT !.faults = @ + 1]
              /\ StopStreaming(s)
              /\ UNCHANGED <<urb, fly, cam>>

(* The camera leaves the bus, and later uvc_disconnect unregisters it. *)
Leave ==
    /\ Unplug /\ ~str.gone
    /\ str' = [str EXCEPT !.gone = TRUE]
    /\ UNCHANGED <<buf, vbq, done, irq, urb, fly, call, cam, used>>

Disconnect ==
    /\ str.gone /\ str.reg
    /\ call = Idle \/ call.op = "asleep"
    /\ IF str.on
       THEN /\ Stop("off")
            /\ str' = [str EXCEPT !.reg = FALSE]
            /\ UNCHANGED <<buf, vbq, done, irq>>
       ELSE QueueCancel([Now EXCEPT !.str.reg = FALSE])
    /\ UNCHANGED <<urb, fly, cam, used>>

Next ==
    \/ \E u \in Urbs : Complete(u) \/ CompleteFailed(u) \/ CopyDataWork(u)
    \/ \E b \in Bufs : QBuf(b)
    \/ QBufInDriver \/ DQBuf \/ StreamOn \/ SubmitUrb \/ PoisonUrb \/ Flushed
    \/ StreamOff \/ Suspend \/ Resume \/ Leave \/ Disconnect

Spec == Init /\ [][Next]_vars


-----------------------------------------------------------------------------
(* Properties. *)

Pending(b) == {x \in {<<u, k>> : u \in Urbs, k \in 1 .. Slots} :
                 x[2] <= Len(urb[x[1]].ops) /\ urb[x[1]].ops[x[2]].b = b}

(* A buffer the driver owns is either in its queue or still being written  *)
(* by a copy that will give it back, and the queue holds only buffers the  *)
(* driver owns, each once: no buffer is lost or completed while queued.    *)
DriverHoldsItsBuffers ==
    /\ \A b \in Bufs :
         buf[b].at = "active" => b \in Range(irq) \/ Pending(b) # {}
    /\ \A b \in Range(irq) : buf[b].at = "active"
    /\ Cardinality(Range(irq)) = Len(irq)

(* A buffer that was given back as a good frame has no copy outstanding    *)
(* and holds consecutive packets of one frame, none of them marked bad by  *)
(* the camera; in an uncompressed format it holds the whole frame.         *)
DoneIsOneFrame ==
    \A b \in Bufs :
      buf[b].at \in {"done", "user"} /\ buf[b].st = "done" =>
        LET m == buf[b].mem
        IN  /\ Pending(b) = {}
            /\ buf[b].len > 0
            /\ \A k \in 1 .. buf[b].len :
                 m[k].f = m[1].f /\ m[k].i = m[1].i + k - 1 /\ ~m[k].bad
            /\ ~Compressed => buf[b].len = FrameLen /\ m[1].f > 0

(* The sequence numbers of good frames follow the camera's frames: a later *)
(* frame has a later number, and the numbers skip exactly the frames that  *)
(* found no buffer (a packet lost on the bus can hide more, never fewer).  *)
NumbersFollowFrames ==
    \A b, c \in Bufs :
      LET B == buf[b]
          C == buf[c]
          gap == C.mem[1].f - B.mem[1].f
      IN  /\ B.at \in {"done", "user"} /\ B.st = "done"
          /\ C.at \in {"done", "user"} /\ C.st = "done"
          /\ B.ep = C.ep /\ gap > 0
          => /\ C.seq - B.seq \in 1 .. gap
             /\ used.faults = 0 => C.seq - B.seq = gap

(* Once a stream has stopped, or the camera sleeps, no URB is with the     *)
(* host controller and no copy is pending.                                 *)
StoppedIsQuiet ==
    (call = Idle /\ ~str.on) \/ call.op = "asleep" =>
      /\ fly = <<>>
      /\ \A u \in Urbs : urb[u].at = "free"

(* Once a stream has stopped, the driver owns no buffer. *)
StopReturnsBuffers ==
    call = Idle /\ ~str.on => \A b \in Bufs : buf[b].at # "active"


=============================================================================
