---------------------------- MODULE UvcLifetime ----------------------------
(***************************************************************************)
(* The life of the camera's uvc_device: the steps of uvc_probe with the    *)
(* error path behind each of them, the video and metadata nodes it makes   *)
(* visible while it is still running, applications that open, use it         *)
(* and close, uvc_disconnect, and the reference count that decides when    *)
(* uvc_delete frees everything (src/kernel/uvcvideo-t1/uvc_driver.c).      *)
(***************************************************************************)
EXTENDS Integers, FiniteSets

CONSTANTS
    Streams,    \* the streaming interfaces, by number
    MaxOpens    \* bound on opens of one node

Nodes == Streams \X {"video", "meta"}

VARIABLES
    pc,       \* the step of probe or disconnect, "bound" or "over"
    k,        \* the stream that step is about
    streams,  \* dev->streams: the interfaces whose descriptors were good
    claimed,  \* streaming interfaces claimed for the driver
    node,     \* node -> [state, opens, held: power references of its files]
    dev       \* [ref, freed, v4l2, media, irq, status, urb, users]

vars == <<pc, k, streams, claimed, node, dev>>

Init ==
    /\ pc = "parse" /\ k = 0 /\ streams = {} /\ claimed = {}
    /\ node = [n \in Nodes |-> [state |-> "none", opens |-> 0, held |-> 0]]
    /\ dev = [ref |-> 1, freed |-> FALSE, v4l2 |-> FALSE, media |-> FALSE,
              irq |-> FALSE, status |-> FALSE, urb |-> FALSE, users |-> 0]

-----------------------------------------------------------------------------
(* References. *)

(* uvc_delete releases the streaming interfaces and frees the device. *)
Delete(d, c) == [d |-> [d EXCEPT !.freed = TRUE], c |-> {}]

(* kref_put *)
Put(d, c) ==
    LET e == [d EXCEPT !.ref = @ - 1]
    IN  IF e.ref = 0 THEN Delete(e, c) ELSE [d |-> e, c |-> c]

(* The last reference to an unregistered node is gone: uvc_release. *)
Drop(n, d) ==
    LET r == Put(d, claimed)
    IN  IF node'[n].state = "dead" /\ node'[n].opens = 0
        THEN dev' = r.d /\ claimed' = r.c
        ELSE dev' = d /\ UNCHANGED claimed

-----------------------------------------------------------------------------
(* uvc_probe *)

Go(step) == pc' = step
Next1(s) == IF \E t \in streams : t > s
            THEN CHOOSE t \in streams : t > s /\ \A u \in streams : u > s => t <= u
            ELSE 0

(* The error path starts with uvc_unregister_video; the GPIO interrupt is  *)
(* the first thing it gives back.                                          *)
Error == /\ pc' = "unregister" /\ k' = Next1(0)
         /\ dev' = [dev EXCEPT !.irq = FALSE]
         /\ UNCHANGED <<streams, claimed, node>>

(* Bad streaming descriptors are not an error of the whole. *)
ParseControl ==
    /\ pc = "parse"
    /\ \E s \in SUBSET Streams : streams' = s /\ claimed' = s
    /\ pc' \in {"gpio", "parsefailed"}
    /\ UNCHANGED <<k, node, dev>>

ParseFailed == pc = "parsefailed" /\ Error

GpioParse == /\ pc = "gpio"
             /\ \/ Go("v4l2") /\ UNCHANGED <<k, streams, claimed, node, dev>>
                \/ Error

V4l2Register ==
    /\ pc = "v4l2"
    /\ \/ /\ Go("scan") /\ dev' = [dev EXCEPT !.v4l2 = TRUE]
          /\ UNCHANGED <<k, streams, claimed, node>>
       \/ Error

(* uvc_scan_device and uvc_ctrl_init_device *)
Scan == /\ pc = "scan"
        /\ \/ /\ k' = Next1(0)
              /\ pc' = IF k' = 0 THEN "media" ELSE "video"
              /\ UNCHANGED <<streams, claimed, node, dev>>
           \/ Error

(* uvc_register_video_device: the node is visible before the reference is  *)
(* taken.                                                                  *)
RegisterVideo ==
    /\ pc = "video"
    /\ \/ /\ node' = [node EXCEPT ![<<k, "video">>].state = "live"]
          /\ Go("videoref") /\ UNCHANGED <<k, streams, claimed, dev>>
       \/ Error

MutVideoReference ==
    /\ pc = "videoref" /\ Go("meta")
    /\ UNCHANGED <<k, streams, claimed, node, dev>>

VideoReference ==
    /\ pc = "videoref" /\ Go("meta")
    /\ dev' = [dev EXCEPT !.ref = @ + 1]
    /\ UNCHANGED <<k, streams, claimed, node>>

AfterStream == /\ k' = Next1(k)
               /\ pc' = IF k' = 0 THEN "media" ELSE "video"

(* The result of uvc_meta_register is ignored. *)
RegisterMeta ==
    /\ pc = "meta"
    /\ \/ /\ node' = [node EXCEPT ![<<k, "meta">>].state = "live"]
          /\ Go("metaref") /\ UNCHANGED k
       \/ UNCHANGED node /\ AfterStream
    /\ UNCHANGED <<streams, claimed, dev>>

MetaReference ==
    /\ pc = "metaref" /\ AfterStream
    /\ dev' = [dev EXCEPT !.ref = @ + 1]
    /\ UNCHANGED <<streams, claimed, node>>

MediaRegister ==
    /\ pc = "media"
    /\ \/ /\ Go("status") /\ dev' = [dev EXCEPT !.media = TRUE]
          /\ UNCHANGED <<k, streams, claimed, node>>
       \/ Error

(* uvc_status_init may fail, or find no status endpoint. *)
StatusInit ==
    /\ pc = "status" /\ Go("irq")
    /\ \E s \in BOOLEAN : dev' = [dev EXCEPT !.status = s]
    /\ UNCHANGED <<k, streams, claimed, node>>

(* uvc_gpio_init_irq; without a GPIO there is nothing to do. *)
GpioInitIrq ==
    /\ pc = "irq"
    /\ \/ /\ Go("metainit")
          /\ \E i \in BOOLEAN : dev' = [dev EXCEPT !.irq = i]
          /\ UNCHANGED <<k, streams, claimed, node>>
       \/ Error

MetaInit == /\ pc = "metainit"
            /\ \/ Go("bound") /\ UNCHANGED <<k, streams, claimed, node, dev>>
               \/ Error

-----------------------------------------------------------------------------
(* uvc_disconnect of the control interface, and the way out it shares with *)
(* the error path.                                                         *)
Disconnect == pc = "bound" /\ Error

(* The USB core unbinds the streaming interfaces too; uvc_disconnect does  *)
(* nothing for them.                                                       *)
StreamingUnbound ==
    /\ pc = "over" /\ ~dev.freed
    /\ \E s \in claimed : claimed' = claimed \ {s}
    /\ UNCHANGED <<pc, k, streams, node, dev>>

(* vb2_video_unregister_device *)
Unregister(n) == /\ node' = [node EXCEPT ![n].state = "dead"]
                 /\ Drop(n, dev)

(* A stream whose video node was never registered is passed over. *)
UnregisterVideo ==
    /\ pc = "unregister" /\ k # 0
    /\ IF node[<<k, "video">>].state = "live"
       THEN /\ Unregister(<<k, "video">>) /\ Go("unregmeta") /\ UNCHANGED k
       ELSE /\ k' = Next1(k) /\ UNCHANGED <<pc, node, dev, claimed>>
    /\ UNCHANGED streams

UnregisterMeta ==
    /\ pc = "unregmeta"
    /\ IF node[<<k, "meta">>].state = "live" THEN Unregister(<<k, "meta">>)
       ELSE UNCHANGED <<node, dev, claimed>>
    /\ Go("unregister") /\ k' = Next1(k)
    /\ UNCHANGED streams

(* uvc_status_unregister, v4l2_device_unregister, media_device_unregister. *)
UnregisterRest ==
    /\ pc = "unregister" /\ k = 0
    /\ dev' = [dev EXCEPT !.v4l2 = FALSE, !.media = FALSE,
                          !.urb = IF @ /\ dev.status /\ dev.users > 0
                                  THEN FALSE ELSE @]
    /\ Go("put")
    /\ UNCHANGED <<k, streams, claimed, node>>

LastPut ==
    /\ pc = "put" /\ Go("over")
    /\ dev' = Put(dev, claimed).d /\ claimed' = Put(dev, claimed).c
    /\ UNCHANGED <<k, streams, node>>

-----------------------------------------------------------------------------
(* Applications. *)

(* uvc_v4l2_open *)
Open(n) ==
    /\ node[n].state = "live" /\ node[n].opens < MaxOpens
    /\ node' = [node EXCEPT ![n].opens = @ + 1]
    /\ UNCHANGED <<pc, k, streams, claimed, dev>>

(* uvc_pm_get in a call: for the length of an ioctl, while streaming, or   *)
(* until an asynchronous control is answered.  Before uvc_status_init      *)
(* there is no URB to start.  Calls on an unregistered node fail earlier.  *)
PmGet(n) ==
    /\ node[n].state = "live" /\ n[2] = "video"
    /\ node[n].held < node[n].opens
    /\ node' = [node EXCEPT ![n].held = @ + 1]
    /\ dev' = [dev EXCEPT !.users = @ + 1,
                          !.urb = @ \/ (dev.users = 0 /\ dev.status)]
    /\ UNCHANGED <<pc, k, streams, claimed>>

(* uvc_pm_put, also at the end of a call that began before the node was    *)
(* unregistered.                                                           *)
PmPut(n) ==
    /\ node[n].held > 0
    /\ node' = [node EXCEPT ![n].held = @ - 1]
    /\ dev' = [dev EXCEPT !.users = @ - 1, !.urb = @ /\ dev.users # 1]
    /\ UNCHANGED <<pc, k, streams, claimed>>

(* uvc_v4l2_release: what the application still holds of the status        *)
(* endpoint is given back.                                                 *)
Close(n) ==
    /\ node[n].opens > 0
    /\ \E sub \in 0 .. 1 :
         /\ sub <= node[n].held
         /\ sub = 1 \/ node[n].held < node[n].opens
         /\ node' = [node EXCEPT ![n].opens = @ - 1, ![n].held = @ - sub]
         /\ Drop(n, [dev EXCEPT !.users = @ - sub,
                                !.urb = @ /\ ~(sub = 1 /\ dev.users = 1)])
    /\ UNCHANGED <<pc, k, streams>>

Over == pc = "over" /\ dev.freed /\ UNCHANGED vars

Next ==
    \/ ParseControl \/ ParseFailed \/ GpioParse \/ V4l2Register \/ Scan
    \/ RegisterVideo \/ VideoReference \/ RegisterMeta \/ MetaReference
    \/ MediaRegister \/ StatusInit \/ GpioInitIrq \/ MetaInit
    \/ Disconnect \/ StreamingUnbound \/ UnregisterVideo \/ UnregisterMeta
    \/ UnregisterRest \/ LastPut
    \/ \E n \in Nodes : Open(n) \/ PmGet(n) \/ PmPut(n) \/ Close(n)
    \/ Over

Spec == Init /\ [][Next]_vars

-----------------------------------------------------------------------------
(* Properties. *)

TypeOK ==
    /\ k \in Streams \cup {0} /\ streams \subseteq Streams
    /\ claimed \subseteq Streams
    /\ node \in [Nodes -> [state : {"none", "live", "dead"},
                           opens : 0 .. MaxOpens, held : 0 .. MaxOpens]]
    /\ dev.ref \in 0 .. 1 + Cardinality(Nodes) /\ dev.users \in Nat

(* The device is not freed while anyone can still reach it: probe or       *)
(* disconnect running, a node registered, or a file open on a node that    *)
(* has gone.                                                               *)
HeldWhileUsed ==
    dev.freed => /\ pc = "over"
                 /\ \A n \in Nodes : node[n].state # "live" /\ node[n].opens = 0

(* Whatever step of probe failed, and however applications interfered,     *)
(* freeing the device leaves nothing behind: no interface claimed, no      *)
(* registration, no interrupt handler, no status URB in flight.            *)
NothingLeftBehind ==
    dev.freed => /\ claimed = {} /\ ~dev.v4l2 /\ ~dev.media
                 /\ ~dev.irq /\ ~dev.urb /\ dev.users = 0

(* Once probe has failed or disconnect has returned, the device is freed   *)
(* as soon as no file is open: no failure path keeps a reference.          *)
FreedWhenLetGo ==
    pc = "over" /\ (\A n \in Nodes : node[n].opens = 0) => dev.freed

(* After the driver lets go of the camera the status URB is not in flight, *)
(* even while applications still hold their files.                         *)
QuietAfterDisconnect == pc \in {"put", "over"} => ~dev.urb

=============================================================================
