----------------------------- MODULE MCRenderer -----------------------------
(***************************************************************************)
(* The built-in renderer, one load at a time: the protocol with request    *)
(* ids that wrap (wire) and with lost connections (lost), what is drawn    *)
(* while overlays fade (picture), one finger under an overlay and a        *)
(* display that goes off (finger), two fingers (fingers), and layouts that *)
(* change under a finger (layout).                                         *)
(***************************************************************************)
EXTENDS Naturals

VARIABLES part, link, probe, loop, r, buf, svc, events, hand, desktop, overlay, budget, past

Plain == [audio |-> FALSE, off |-> FALSE, volume |-> 0]
Off == [audio |-> FALSE, off |-> TRUE, volume |-> 0]
Audio == [audio |-> TRUE, off |-> FALSE, volume |-> 1]
AudioOff == [audio |-> TRUE, off |-> TRUE, volume |-> 1]
Authenticate == [state |-> "authenticate", progress |-> 0]
Enrollment(p) == [state |-> "enrollment", progress |-> p]

Wire == INSTANCE RendererSession WITH
  Contacts <- {1}, Controls <- {"escape"}, Overlays <- {}, Desktops <- {Plain},
  Offers <- {{"display"}}, FnKey <- FALSE, Ids <- 3, FrameIds <- 2, MaxPending <- 2,
  MaxSessions <- 1, MaxFaults <- 0, Opaque <- 1, Lockstep <- FALSE
Lost == INSTANCE RendererSession WITH
  Contacts <- {}, Controls <- {"escape"}, Overlays <- {}, Desktops <- {Plain},
  Offers <- SUBSET {"display", "keyboard"}, FnKey <- FALSE, Ids <- 3, FrameIds <- 2, MaxPending <- 2,
  MaxSessions <- 2, MaxFaults <- 1, Opaque <- 1, Lockstep <- FALSE
Picture == INSTANCE RendererSession WITH
  Contacts <- {}, Controls <- {"brighter"}, Overlays <- {Enrollment(0), Enrollment(1)},
  Desktops <- {Plain, Off}, Offers <- {{"display"}}, FnKey <- TRUE, Ids <- 3,
  FrameIds <- 2, MaxPending <- 2, MaxSessions <- 1, MaxFaults <- 0, Opaque <- 2,
  Lockstep <- TRUE
Finger == INSTANCE RendererSession WITH
  Contacts <- {1}, Controls <- {"brighter"}, Overlays <- {Authenticate},
  Desktops <- {Plain, Off}, Offers <- {{"display"}}, FnKey <- FALSE, Ids <- 3,
  FrameIds <- 2, MaxPending <- 2, MaxSessions <- 1, MaxFaults <- 0, Opaque <- 1,
  Lockstep <- TRUE
Fingers == INSTANCE RendererSession WITH
  Contacts <- {1, 2}, Controls <- {"brighter"}, Overlays <- {},
  Desktops <- {Plain, Off}, Offers <- {{"display"}}, FnKey <- FALSE, Ids <- 3,
  FrameIds <- 2, MaxPending <- 2, MaxSessions <- 1, MaxFaults <- 0, Opaque <- 1,
  Lockstep <- TRUE
Layout == INSTANCE RendererSession WITH
  Contacts <- {1}, Controls <- {"mute", "louder"}, Overlays <- {},
  Desktops <- {Plain, Audio, AudioOff}, Offers <- {{"display"}},
  FnKey <- FALSE, Ids <- 3, FrameIds <- 2, MaxPending <- 2, MaxSessions <- 1,
  MaxFaults <- 1, Opaque <- 1, Lockstep <- TRUE

vars == <<part, link, probe, loop, r, buf, svc, events, hand, desktop, overlay, budget, past>>

Init ==
  \/ part = "wire" /\ Wire!Init
  \/ part = "lost" /\ Lost!Init
  \/ part = "picture" /\ Picture!Init
  \/ part = "finger" /\ Finger!Init
  \/ part = "fingers" /\ Fingers!Init
  \/ part = "layout" /\ Layout!Init

Next ==
  /\ UNCHANGED part
  /\ \/ part = "wire" /\ Wire!Next
     \/ part = "lost" /\ Lost!Next
     \/ part = "picture" /\ Picture!Next
     \/ part = "finger" /\ Finger!Next
     \/ part = "fingers" /\ Fingers!Next
     \/ part = "layout" /\ Layout!Next

Spec == Init /\ [][Next]_vars

\* RendererSession: an answer on its way names a request that is pending and
\* of the kind that was answered, also after the request ids wrapped, and the
\* renderer takes no message of the service for a protocol error.
AnswersMatch == Wire!AnswersMatch /\ Wire!NoFalseProtocolError

\* RendererSession: when the session holds no unsubmitted change, the buffer
\* shows its present state, and a layout that was put off because of a touch
\* does not outlive that touch.
CleanMeansCurrent ==
  /\ Wire!CleanMeansCurrent /\ Wire!DeferredOnlyDuringTouch
  /\ CASE part = "wire" -> Wire!TypeOK
       [] part = "lost" -> Lost!TypeOK
       [] part = "picture" -> Picture!TypeOK
       [] part = "finger" -> Finger!TypeOK
       [] part = "fingers" -> Fingers!TypeOK
       [] part = "layout" -> Layout!TypeOK

\* RendererSession: while the desktop's display is off, and until every finger
\* that was down meanwhile has lifted, touches do nothing; under an overlay
\* only Escape acts; and under a contact the controls stay where they were
\* when it came down.  The shared buffer is redrawn only while no submitted
\* frame is queued at or held by the service.
DarkIsInert ==
  [][/\ Wire!RedrawsOwnBuffer
     /\ link = "up" /\ link' = "up" /\ DOMAIN r.active # {} /\ DOMAIN r'.active # {}
          => r'.stock = r.stock
     /\ (r.off \/ past.dim) /\ link = "up" => r'.did = {}
     /\ r.overlay.state # "none" /\ link = "up" => r'.did \subseteq {"escape", "cancel"}]_vars
=============================================================================
