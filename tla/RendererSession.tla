-------------------------- MODULE RendererSession --------------------------
(***************************************************************************)
(* The built-in Touch Bar renderer (crates/t1-touchbar): the session it    *)
(* keeps with the hardware service, the touches it interprets, the Touch   *)
(* ID overlay and desktop state it follows, and the one frame buffer it    *)
(* lends out.                                                              *)
(*                                                                         *)
(* The main loop runs four steps in turn: advance the clock, take the      *)
(* newest desktop state, take the newest overlay, receive one message.     *)
(* Each is one action here, sends and redraws included.  The hardware      *)
(* service, the hand on the bar, the desktop provider and the overlay      *)
(* watcher are the environment.                                            *)
(***************************************************************************)
EXTENDS Naturals, Sequences, FiniteSets, FiniteSetsExt, SequencesExt, TLC

CONSTANTS
    Contacts,      \* contact ids, a set of naturals
    Controls,      \* the controls in play, a subset of AllControls
    Overlays,      \* overlay records the watcher can report besides NoOverlay
    Desktops,      \* desktop states the provider can report
    Offers,        \* feature sets the service may offer when asked
    FnKey,         \* TRUE when the Fn key is in play
    Ids,           \* request ids are 1..Ids and wrap (2^32 in the code)
    FrameIds,      \* frame ids are 1..FrameIds and wrap (2^64 in the code)
    MaxPending,    \* MAX_PENDING_REQUESTS
    MaxSessions,   \* connections made in one behaviour
    MaxFaults,     \* requests refused or connections lost in one behaviour
    Opaque,        \* opacity of an overlay once faded in (255 in the code)
    Lockstep       \* TRUE: the service answers before the loop goes on, and the
                   \* environment acts just before the loop looks at it

AllControls == {"escape", "brighter", "louder", "mute"}

VARIABLES
    link,      \* "down", "probing" or "up"
    probe,     \* the hello being tried: its number and the features found
    loop,      \* the step of run_once's loop that comes next
    r,         \* RendererSession with its InputInterpreter and GestureEngine
    buf,       \* what the shared frame buffer shows
    svc,       \* the hardware service: requests not answered, frame held
    events,    \* messages on their way to the renderer
    hand,      \* the fingers and the Fn key, and the report last made of them
    desktop,   \* the provider's newest state and whether it is still to be taken
    overlay,   \* the same for the overlay watcher
    budget,    \* sessions and faults left
    past       \* history, see Remember

vars == <<link, probe, loop, r, buf, svc, events, hand, desktop, overlay, budget, past>>

None == "none"
NoOverlay == [state |-> None, progress |-> 0]
DefaultDesktop == [audio |-> FALSE, off |-> FALSE, volume |-> 0]
NoRepeat == [action |-> None, fired |-> FALSE]
NoFrame == [id |-> 0, acked |-> FALSE]

-----------------------------------------------------------------------------
(* The stock bar and the Touch ID overlay as seen by a contact.            *)

\* The capability a control needs: display brightness or audio.
Owner == [brighter |-> "display", louder |-> "audio", mute |-> "audio"]

\* Escape keeps its slot in both rows; with Fn held the other slots are keys.
ActionAt(control, fn, stock) ==
    IF control = "escape" THEN "escape"
    ELSE IF fn THEN "function"
    ELSE IF Owner[control] \in stock THEN control
    ELSE None

Repeatable == {"brighter", "louder"}

\* Everything right of Escape is covered while an overlay is published.
Covers(over, control) == over.state # None /\ control # "escape"

\* A press inside the overlay's own bounds; the mute control lies outside.
Cancels(over, control) ==
    /\ over.state = "authenticate"
    /\ control \in {"brighter", "louder"}

-----------------------------------------------------------------------------
(* Requests.                                                               *)

\* The first id from `next` on, wrapping past zero, that is not pending.
NextId(s) ==
    LET ahead(k) == ((s.next - 1 + k) % Ids) + 1
    IN  ahead(Min({k \in 0..MaxPending : ahead(k) \notin DOMAIN s.pending}))

Fail(s, why) == [s EXCEPT !.verdict = why]

\* Without a limit and without looking for an id that is still pending.
SendUnchecked(s, kind, frame) ==
    [s EXCEPT !.pending = (s.next :> [kind |-> kind, frame |-> frame]) @@ @,
              !.next = (s.next % Ids) + 1,
              !.out = Append(@, [id |-> s.next, kind |-> kind, frame |-> frame])]

\* allocate_request and send_request: past the limit the session is over.
Send(s, kind, frame) ==
    IF s.verdict # "ok" THEN s
    ELSE IF Cardinality(DOMAIN s.pending) >= MaxPending THEN Fail(s, "overrun")
    ELSE LET id == NextId(s) IN
         [s EXCEPT !.pending = (id :> [kind |-> kind, frame |-> frame]) @@ @,
                   !.next = (id % Ids) + 1,
                   !.out = Append(@, [id |-> id, kind |-> kind, frame |-> frame])]

Visual(s) ==
    IF s.off
    THEN [dark |-> TRUE, fn |-> FALSE, stock |-> {}, pressed |-> None,
          overlay |-> None, opacity |-> 0, progress |-> 0]
    ELSE [dark |-> FALSE, fn |-> s.fn /\ s.visual = None, stock |-> s.stock,
          pressed |-> s.pressed, overlay |-> s.visual, opacity |-> s.opacity,
          progress |-> IF s.visual = "enrollment" THEN s.progress ELSE 0]

\* A frame that is out when the picture changes is taken to show the change.
SubmitForgetful(s) ==
    IF s.verdict # "ok" \/ ~s.registered \/ ~s.dirty THEN s
    ELSE IF s.inFlight # NoFrame THEN [s EXCEPT !.dirty = FALSE]
    ELSE LET sent == Send([s EXCEPT !.drawn = TRUE], "submit", s.frameId)
         IN  [sent EXCEPT !.frameId = (@ % FrameIds) + 1,
                          !.inFlight = [id |-> s.frameId, acked |-> FALSE],
                          !.dirty = FALSE]

SubmitIfReady(s) ==
    IF s.verdict # "ok" \/ ~s.registered \/ ~s.dirty \/ s.inFlight # NoFrame THEN s
    ELSE LET sent == Send([s EXCEPT !.drawn = TRUE], "submit", s.frameId)
         IN  [sent EXCEPT !.frameId = (@ % FrameIds) + 1,
                          !.inFlight = [id |-> s.frameId, acked |-> FALSE],
                          !.dirty = FALSE]

\* A stock action: a key or a hardware step is a request, the rest goes to
\* the desktop provider.  A volume step starts from the level last known.
Dispatch(s, action) ==
    LET did == [s EXCEPT !.did = @ \union {action}]
    IN  CASE action \in {"escape", "function"} -> Send(did, "keys", 0)
          [] action = "brighter" -> Send(did, "hardware", 0)
          [] action = "louder" -> [did EXCEPT !.volume = Min({@ + 1, 2}), !.dirty = TRUE]
          [] action = "mute" -> [did EXCEPT !.dirty = TRUE]

-----------------------------------------------------------------------------
(* Touch input.                                                            *)

Idle(s) == ~s.wait /\ DOMAIN s.active = {}

\* One contact leaves: a tap unless it dragged, was covered, or only ends a
\* hold that has repeated.
Tap(s, c) ==
    LET control == s.active[c].control
        action == ActionAt(control, s.fn, s.stock)
    IN  IF s.active[c].dragging \/ Covers(s.overlay, control) \/ action = None THEN s
        ELSE IF s.suppress = action THEN [s EXCEPT !.suppress = None]
        ELSE [s EXCEPT !.taps = IF action \in ToSet(@) THEN @ ELSE Append(@, action)]

\* What the first contact presses now, and the hold it starts.
Press(s, f) ==
    LET tips == DOMAIN f.at
        under == f.at[Min(tips)].control
        pressed == IF tips = {} \/ Covers(s.overlay, under) THEN None
                   ELSE ActionAt(under, f.fn, s.stock)
    IN  IF pressed = s.pressed THEN [s EXCEPT !.fn = f.fn, !.dirty = @ \/ s.fn # f.fn]
        ELSE [s EXCEPT
                !.fn = f.fn, !.dirty = TRUE, !.pressed = pressed,
                !.suppress = IF pressed = None /\ s.repeat.fired THEN s.repeat.action ELSE @,
                !.repeat = IF pressed \in Repeatable
                           THEN [action |-> pressed, fired |-> FALSE] ELSE NoRepeat]

\* Contacts that are gone come first, in the order of their ids.
Gone(s, f) == SetToSortSeq(DOMAIN s.active \ DOMAIN f.at, <)

\* A contact drags from the first time it is far from where it came down.
Track(s, f) ==
    [c \in DOMAIN f.at |->
        [control |-> f.at[c].control,
         dragging |-> c \in DOMAIN s.active /\ (s.active[c].dragging \/ f.at[c].far)]]

Gestures(s, f) ==
    LET still == Track(s, f)
        drags == \E c \in DOMAIN still : still[c].dragging
        presses == DOMAIN f.at \ DOMAIN s.active
    IN  [FoldLeft(Tap, s, Gone(s, f)) EXCEPT
            !.active = still,
            !.repeat = IF drags THEN NoRepeat ELSE @,
            !.suppress = IF drags THEN None ELSE @,
            !.cancel = \E c \in presses : Cancels(s.overlay, f.at[c].control)]

\* Contacts of a dark bar, or held since it was dark, are dropped.
ObserveInput(s, f) ==
    LET drop == s.off \/ s.wait
        kept == IF drop THEN [f EXCEPT !.at = <<>>] ELSE f
        held == IF drop THEN [s EXCEPT !.wait = DOMAIN f.at # {}] ELSE s
    IN  Gestures(Press(held, kept), kept)

CancelRepeat(s) == [s EXCEPT !.repeat = NoRepeat, !.suppress = None]

\* Forgetting that a finger is still down.
CancelTouchesNoWait(s) ==
    CancelRepeat([s EXCEPT !.active = <<>>, !.pressed = None])

CancelTouches(s) ==
    CancelRepeat([s EXCEPT !.wait = @ \/ DOMAIN s.active # {},
                           !.active = <<>>, !.pressed = None])

-----------------------------------------------------------------------------
(* Desktop state and overlay.                                              *)

ApplyDesktop(s, d) ==
    [s EXCEPT !.stock = (@ \ {"audio"}) \union (IF d.audio THEN {"audio"} ELSE {}),
              !.volume = d.volume, !.desktop = d, !.deferred = FALSE,
              !.dirty = TRUE]

ApplyPending(s) == IF Idle(s) /\ s.deferred THEN ApplyDesktop(s, s.later) ELSE s

\* Display power is followed at once.
SetPower(s, d) ==
    IF s.off = d.off THEN s
    ELSE LET turned == [s EXCEPT !.off = d.off, !.dirty = TRUE]
         IN  IF d.off THEN CancelTouches(turned) ELSE turned

\* The layout waits for the touch in progress, the power does not.
SetDesktop(s, d) ==
    LET powered == SetPower(s, d)
    IN  IF s.desktop = d /\ ~s.deferred
        THEN IF s.volume = d.volume THEN powered
             ELSE [powered EXCEPT !.volume = d.volume, !.dirty = TRUE]
        ELSE IF Idle(powered) THEN ApplyDesktop(powered, d)
        ELSE [powered EXCEPT !.deferred = TRUE, !.later = d]

SetOverlay(s, o) ==
    IF s.overlay = o THEN s
    ELSE LET shown == [s EXCEPT !.overlay = o, !.dirty = TRUE]
         IN  IF s.overlay.state = o.state THEN shown
             ELSE IF o.state = None THEN [shown EXCEPT !.target = 0]
             ELSE CancelRepeat([shown EXCEPT !.visual = o.state, !.target = Opaque])

\* The fade and the progress arc move towards their targets by an amount
\* that depends on the time gone by.
Between(a, b) == Min({a, b})..Max({a, b})

Fade(s, opacity) ==
    IF s.opacity = s.target THEN s
    ELSE [s EXCEPT !.opacity = opacity, !.dirty = TRUE,
                   !.visual = IF opacity = 0 /\ s.target = 0 THEN None ELSE @]

Progress(s, progress) ==
    IF s.progress = s.overlay.progress THEN s
    ELSE [s EXCEPT !.progress = progress, !.dirty = TRUE]

\* take_repeat: at most one step of the held control each time round.
Repeat(s) ==
    IF ~s.off /\ ~s.wait /\ s.repeat.action # None /\ s.pressed = s.repeat.action
    THEN Dispatch([s EXCEPT !.repeat.fired = TRUE], s.repeat.action)
    ELSE s

-----------------------------------------------------------------------------
(* Messages from the service.                                              *)

\* FrameReleased: the frame is back, and what changed meanwhile is sent.
Released(s, frame) ==
    IF s.inFlight = NoFrame \/ ~s.inFlight.acked \/ s.inFlight.id # frame
    THEN Fail(s, "protocol")
    ELSE SubmitIfReady([s EXCEPT !.inFlight = NoFrame])

Answer(s, id) == [s EXCEPT !.pending = Restrict(@, DOMAIN @ \ {id})]

HandleAck(s, id) ==
    IF id \notin DOMAIN s.pending THEN Fail(s, "protocol")
    ELSE LET kind == s.pending[id].kind
             done == Answer(s, id)
         IN  CASE kind = "register" ->
                    IF s.registered THEN Fail(done, "protocol")
                    ELSE SubmitIfReady([done EXCEPT !.registered = TRUE])
               [] kind = "submit" ->
                    IF \/ s.inFlight = NoFrame \/ s.inFlight.acked
                       \/ s.inFlight.id # s.pending[id].frame
                    THEN Fail(done, "protocol")
                    ELSE [done EXCEPT !.inFlight.acked = TRUE]
               [] OTHER -> done

HandleError(s, id) ==
    IF id \notin DOMAIN s.pending THEN Fail(s, "protocol")
    ELSE IF s.pending[id].kind \in {"register", "submit"} THEN Fail(Answer(s, id), "rejected")
    ELSE Answer(s, id)

HandleInput(s, f) ==
    LET seen == ObserveInput(s, f)
        acted == FoldLeft(Dispatch, seen, seen.taps)
        told == IF acted.cancel THEN Send([acted EXCEPT !.did = @ \union {"cancel"}], "cancel", 0)
                ELSE acted
    IN  IF told.verdict # "ok" THEN told ELSE SubmitIfReady(ApplyPending(told))

Handle(s, m) ==
    CASE m.type = "ack" -> HandleAck(s, m.id)
      [] m.type = "error" -> HandleError(s, m.id)
      [] m.type = "released" -> Released(s, m.frame)
      [] m.type = "input" -> HandleInput(s, m)

-----------------------------------------------------------------------------
(* The session and its loop.                                               *)

NewSession(features, next) ==
    [registered |-> FALSE, dirty |-> TRUE, inFlight |-> NoFrame, frameId |-> 1,
     next |-> next, pending |-> <<>>,
     stock |-> features, desktop |-> DefaultDesktop, later |-> DefaultDesktop,
     deferred |-> FALSE, off |-> FALSE, volume |-> 0,
     overlay |-> NoOverlay, visual |-> None, opacity |-> 0, target |-> 0, progress |-> 0,
     fn |-> FALSE, wait |-> FALSE, pressed |-> None, repeat |-> NoRepeat,
     suppress |-> None, active |-> <<>>,
     did |-> {}, out |-> <<>>, taps |-> <<>>, cancel |-> FALSE, drawn |-> FALSE,
     verdict |-> "ok"]

Begin(s) == [s EXCEPT !.did = {}]

NoService == [queue |-> <<>>, held |-> 0]

\* What the properties need to know of earlier steps: the fingers last seen,
\* whether one of them was down in the dark, the power last reported by the
\* desktop, and the action each contact has repeated.
Past(s, tips, repeated) ==
    [tips |-> tips, off |-> past.off,
     dim |-> tips # {} /\ (past.dim \/ r.off \/ s.off),
     repeated |-> Restrict(repeated, DOMAIN repeated \intersect DOMAIN s.active)]

EndSession(why) ==
    /\ link' = "down"
    /\ r' = Fail(NewSession({}, 1), why)
    /\ svc' = NoService
    /\ events' = <<>>
    /\ loop' = "advance"
    /\ hand' = [hand EXCEPT !.told = FALSE]
    /\ UNCHANGED <<probe, buf>>

\* A step of the loop ends: its requests are on their way, or the session is
\* over (run_once returns and run_forever reconnects).
Finish(s, rest, next, history) ==
    \/ /\ s.verdict = "ok"
       /\ r' = [s EXCEPT !.out = <<>>, !.taps = <<>>, !.cancel = FALSE, !.drawn = FALSE]
       /\ buf' = IF s.drawn THEN Visual(s) ELSE buf
       /\ svc' = [svc EXCEPT !.queue = @ \o s.out]
       /\ events' = rest
       /\ loop' = next
       /\ past' = history
       /\ UNCHANGED <<link, probe, hand, budget>>
    \/ /\ s.verdict # "ok"
       /\ EndSession(s.verdict)
       /\ past' = [history EXCEPT !.tips = {}, !.dim = FALSE, !.repeated = <<>>]
       /\ UNCHANGED budget
    \/ /\ s.verdict = "ok" /\ s.out # <<>> /\ budget.faults > 0
       /\ EndSession("transport")
       /\ past' = [history EXCEPT !.tips = {}, !.dim = FALSE, !.repeated = <<>>]
       /\ budget' = [budget EXCEPT !.faults = @ - 1]

Turn(step) == link = "up" /\ loop = step /\ (Lockstep => svc.queue = <<>>)

Advance ==
    /\ Turn("advance")
    /\ \E opacity \in Between(r.opacity, r.target),
          progress \in Between(r.progress, r.overlay.progress),
          due \in {FALSE, Lockstep => r.pending = <<>>} :
         LET faded == Progress(Fade(Begin(r), opacity), progress)
             moved == IF due THEN Repeat(faded) ELSE faded
             held == IF moved.did = {} THEN past.repeated
                     ELSE (Min(DOMAIN r.active) :> r.repeat.action) @@ past.repeated
         IN  Finish(SubmitIfReady(moved), events, "desktop", Past(moved, past.tips, held))
    /\ UNCHANGED <<desktop, overlay>>

TakeDesktop ==
    /\ Turn("desktop")
    /\ LET s == IF desktop.fresh THEN SubmitIfReady(SetDesktop(Begin(r), desktop.now)) ELSE Begin(r)
           seen == [Past(s, past.tips, past.repeated) EXCEPT
                        !.off = IF desktop.fresh THEN desktop.now.off ELSE @]
       IN  Finish(s, events, "overlay", seen)
    /\ desktop' = [desktop EXCEPT !.fresh = FALSE]
    /\ UNCHANGED overlay

TakeOverlay ==
    /\ Turn("overlay")
    /\ LET s == IF overlay.fresh THEN SubmitIfReady(SetOverlay(Begin(r), overlay.now)) ELSE Begin(r)
       IN  Finish(s, events, "receive", Past(s, past.tips, past.repeated))
    /\ overlay' = [overlay EXCEPT !.fresh = FALSE]
    /\ UNCHANGED desktop

\* One message, or none yet.
Receive ==
    /\ Turn("receive")
    /\ IF events = <<>>
       THEN Finish(Begin(r), events, "advance", Past(r, past.tips, past.repeated))
       ELSE LET m == Head(events)
                s == Handle(Begin(r), m)
                tips == IF m.type = "input" THEN DOMAIN m.at ELSE past.tips
            IN  Finish(s, Tail(events), "advance", Past(s, tips, past.repeated))
    /\ UNCHANGED <<desktop, overlay>>

-----------------------------------------------------------------------------
(* Connecting: all optional features at once, else each one alone and then *)
(* those that were accepted.                                               *)

Optional == {"display", "keyboard"}

Asked == [n \in 1..4 |-> CASE n = 1 -> Optional
                           [] n = 2 -> {"display"}
                           [] n = 3 -> {"keyboard"}
                           [] n = 4 -> probe.found]

Connect ==
    /\ link = "down" /\ budget.sessions > 0
    /\ link' = "probing"
    /\ probe' = [n |-> 1, found |-> {}]
    /\ budget' = [budget EXCEPT !.sessions = @ - 1]
    /\ UNCHANGED <<loop, r, buf, svc, events, hand, desktop, overlay, past>>

\* The hello of the last connection used request id 1; a new watcher
\* reports whatever overlay it finds.
Accepted(features) ==
    LET s == Send(NewSession(features, 2), "register", 0)
    IN  /\ link' = "up"
        /\ r' = [s EXCEPT !.out = <<>>]
        /\ svc' = [NoService EXCEPT !.queue = s.out]
        /\ overlay' = [overlay EXCEPT !.fresh = TRUE]
        /\ UNCHANGED <<probe, loop, buf, events, hand, desktop, budget, past>>

Probe(offer) ==
    LET asked == Asked[probe.n]
        ok == asked \subseteq offer
    IN  /\ link = "probing"
        /\ \/ /\ ok /\ probe.n \in {1, 4}
              /\ Accepted(asked)
           \/ /\ probe.n < 4 /\ ~(ok /\ probe.n = 1)
              /\ probe' = [n |-> probe.n + 1, found |-> probe.found \union (IF ok THEN asked ELSE {})]
              /\ UNCHANGED <<link, loop, r, buf, svc, events, hand, desktop, overlay, budget, past>>
           \/ /\ ~ok /\ probe.n = 4
              /\ EndSession("negotiation")
              /\ UNCHANGED <<desktop, overlay, budget, past>>

-----------------------------------------------------------------------------
(* The environment.                                                        *)

Message(type, id, kind, frame) ==
    [type |-> type, id |-> id, kind |-> kind, frame |-> frame, fn |-> FALSE, at |-> <<>>]

\* Requests are answered in order; a frame taken is held until released.
ServiceAcks ==
    /\ svc.queue # <<>>
    /\ LET q == Head(svc.queue) IN
         /\ (q.kind = "submit" => svc.held = 0)
         /\ svc' = [svc EXCEPT !.queue = Tail(@),
                               !.held = IF q.kind = "submit" THEN q.frame ELSE @]
         /\ events' = Append(events, Message("ack", q.id, q.kind, 0))
    /\ UNCHANGED <<link, probe, loop, r, buf, hand, desktop, overlay, budget, past>>

ServiceRefuses ==
    /\ svc.queue # <<>> /\ budget.faults > 0
    /\ LET q == Head(svc.queue) IN
         /\ svc' = [svc EXCEPT !.queue = Tail(@)]
         /\ events' = Append(events, Message("error", q.id, q.kind, 0))
    /\ budget' = [budget EXCEPT !.faults = @ - 1]
    /\ UNCHANGED <<link, probe, loop, r, buf, hand, desktop, overlay, past>>

\* The panel has read the buffer.
ServiceReleases ==
    /\ svc.held # 0
    /\ svc' = [svc EXCEPT !.held = 0]
    /\ events' = Append(events, Message("released", 0, None, svc.held))
    /\ UNCHANGED <<link, probe, loop, r, buf, hand, desktop, overlay, budget, past>>

\* Input is held back, and the newest kept, until the last report is read.
ServiceReports ==
    /\ link = "up" /\ ~hand.told
    /\ \A i \in DOMAIN events : events[i].type # "input"
    /\ events' = Append(events, [Message("input", 0, None, 0) EXCEPT
                                    !.fn = hand.fn, !.at = hand.at])
    /\ hand' = [hand EXCEPT !.told = TRUE]
    /\ UNCHANGED <<link, probe, loop, r, buf, svc, desktop, overlay, budget, past>>

\* In lockstep the environment waits for the frame and the answers that are
\* out, and acts when the loop is about to look.
Settled(step) ==
    Lockstep /\ link = "up" =>
        loop = step /\ events = <<>> /\ svc.queue = <<>> /\ svc.held = 0

Positions == [control : Controls, far : BOOLEAN]

\* Fingers come down, move (near or far from where they came down) or leave,
\* and the Fn key changes, in any combination between two reports.
HandMoves ==
    /\ Settled("receive") /\ (Lockstep => hand.told \/ link # "up")
    /\ \E D \in SUBSET Contacts : \E at \in [D -> Positions], fn \in {FALSE, FnKey} :
         hand' = [told |-> FALSE, at |-> at, fn |-> fn]
    /\ UNCHANGED <<link, probe, loop, r, buf, svc, events, desktop, overlay, budget, past>>

ProviderReports ==
    /\ Settled("desktop")
    /\ \E d \in Desktops : desktop' = [now |-> d, fresh |-> TRUE]
    /\ UNCHANGED <<link, probe, loop, r, buf, svc, events, hand, overlay, budget, past>>

WatcherReports ==
    /\ Settled("overlay")
    /\ \E o \in (Overlays \union {NoOverlay}) \ {overlay.now} :
         overlay' = [now |-> o, fresh |-> TRUE]
    /\ UNCHANGED <<link, probe, loop, r, buf, svc, events, hand, desktop, budget, past>>

-----------------------------------------------------------------------------
Init ==
    /\ link = "down" /\ probe = [n |-> 1, found |-> {}] /\ loop = "advance"
    /\ r = NewSession({}, 1)
    /\ buf = Visual(r)
    /\ svc = NoService /\ events = <<>>
    /\ hand = [fn |-> FALSE, at |-> <<>>, told |-> FALSE]
    /\ desktop = [now |-> DefaultDesktop, fresh |-> FALSE]
    /\ overlay = [now |-> NoOverlay, fresh |-> FALSE]
    /\ budget = [sessions |-> MaxSessions, faults |-> MaxFaults]
    /\ past = [tips |-> {}, off |-> FALSE, dim |-> FALSE, repeated |-> <<>>]

Loop == Advance \/ TakeDesktop \/ TakeOverlay \/ Receive

Probing == \E offer \in Offers : Probe(offer)

Next ==
    \/ Connect \/ Probing \/ Loop
    \/ ServiceAcks \/ ServiceRefuses \/ ServiceReleases \/ ServiceReports
    \/ HandMoves \/ ProviderReports \/ WatcherReports

Spec == Init /\ [][Next]_vars


-----------------------------------------------------------------------------
Verdicts == {"ok", "overrun", "protocol", "rejected", "transport", "negotiation"}

TypeOK ==
    /\ link \in {"down", "probing", "up"}
    /\ loop \in {"advance", "desktop", "overlay", "receive"}
    /\ r.verdict \in Verdicts /\ (link = "up" => r.verdict = "ok")
    /\ DOMAIN r.pending \subseteq 1..Ids /\ r.next \in 1..Ids /\ r.frameId \in 1..FrameIds
    /\ r.pressed \in AllControls \union {"function", None}
    /\ DOMAIN r.active \subseteq Contacts
    /\ r.opacity \in 0..Opaque /\ r.target \in {0, Opaque}
    /\ Len(events) <= MaxPending + 2 /\ svc.held \in 0..FrameIds

\* An answer on its way to the renderer names a request that is still
\* pending and of the kind the service answered, also after the request ids
\* have wrapped round (RequestIds::next skips zero and pending values), so an
\* answer is never taken for another request's.
AnswersMatch ==
    \A i \in DOMAIN events :
        events[i].type \in {"ack", "error"} =>
            /\ events[i].id \in DOMAIN r.pending
            /\ r.pending[events[i].id].kind = events[i].kind

\* Against a service that acknowledges before it releases, the renderer
\* never takes a message for a protocol error: handle_ack, handle_error and
\* the release check agree with what submit_if_ready and register sent.
NoFalseProtocolError == r.verdict # "protocol"

\* The shared buffer is redrawn only while no submitted frame is queued at
\* or held by the service, which reads it until it sends FrameReleased.
RedrawsOwnBuffer ==
    buf' # buf =>
        /\ svc.held = 0
        /\ \A i \in DOMAIN svc.queue : svc.queue[i].kind # "submit"

\* When the session holds no unsubmitted change, the buffer shows its present
\* state: no handler changes what is visible without setting `dirty`.
CleanMeansCurrent == link = "up" /\ r.registered /\ ~r.dirty => buf = Visual(r)

\* While the desktop's display is off, and afterwards until every finger
\* that was down meanwhile has lifted, touches neither press, type, repeat
\* nor cancel Touch ID.
DarkIsInert == [][(r.off \/ past.dim) /\ link = "up" => r'.did = {}]_vars

\* A layout that was put off because of a touch never outlives that touch:
\* it is applied, and the controls change, in the step that ends it.
DeferredOnlyDuringTouch == r.deferred => ~Idle(r)

=============================================================================
