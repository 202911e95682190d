-------------------------- MODULE TouchBarService --------------------------
(***************************************************************************)
(* The root Touch Bar service: the loop of t1-touchbar-hw/src/service.rs   *)
(* with the frame buffers (frame_state.rs), the input state                *)
(* (input_state.rs), the synthesized keyboard (t1_touchbar_uinput.c), the  *)
(* logind session watch (t1_touchbar_session.c), the panel                 *)
(* (t1_touchbar_drm.c) and the phases of the wire protocol (wire.rs).      *)
(*                                                                         *)
(* One round of the loop is the sequence of steps                          *)
(*   check, flush, input frame, receive, accept, admit, input              *)
(* and between any two of them a renderer may connect, send, read or close,*)
(* the active session of seat0 may change, a finger or the Fn key may move *)
(* and time may pass.  A revocation, wherever it starts, runs through two  *)
(* further steps and returns to the loop.                                  *)
(***************************************************************************)
EXTENDS Naturals, Sequences, FiniteSets

CONSTANTS Clients,     \* renderer processes
          Sessions,    \* graphical sessions of seat0
          None,
          UserOf,      \* the user of each client and session
          Buffers,     \* buffer identifiers a client uses
          MaxBuffers,  \* MAX_REGISTERED_BUFFERS
          Regions,     \* parts of the panel
          Damages,     \* sets of regions a submission names
          Kinds,       \* brightness classes
          Minors,      \* protocol minors a client offers
          Ops,         \* requests the clients send
          Room,        \* packets a client's socket holds
          HwEvents,    \* "finger", "silent" (a lift without a report), "fn"
          MaxFaults    \* bound: failures of the hardware

VARIABLES pc,      \* the next step of the loop
          back,    \* where the loop continues after a revocation
          due,     \* SESSION_REVALIDATE_INTERVAL passed since the last check
          seat,    \* the active graphical session of seat0
          watch,   \* the session the watch admitted
          first,   \* the first of the two snapshots of an admission
          listen,  \* connections waiting in the listener
          cl,      \* the clients and their sockets
          conn,    \* the service's connection
          pend,    \* the client being revoked
          kb,      \* the synthesized key: believed held, really down
          bright,  \* brightness classes: available, used a moment ago
          panel,   \* whose pixels each part of the panel shows
          lit,     \* the panel was switched on
          inp,     \* InputState
          hw,      \* finger, unread digitizer report, Fn key
          faults

vars == <<pc, back, due, seat, watch, first, listen, cl, conn, pend, kb,
          bright, panel, lit, inp, hw, faults>>

\* PendingPacket: a message and what follows its sending (AfterSend).  An
\* answer names the buffer of its request, as request_id does.
Packet(m, a, b) ==
  [msg |-> m, after |-> a, buf |-> b, dmg |-> {}, minor |-> 0, close |-> FALSE]

NoPacket == Packet("none", "none", None)

Request(op) == [op |-> op, buf |-> None, dmg |-> {}, kind |-> "none", minor |-> 0]

\* The requests a client may send; a hello may require a brightness class.
RequestsOf(op) ==
  CASE op = "hello" -> {[Request(op) EXCEPT !.kind = k, !.minor = m] :
                          k \in Kinds \cup {"none"}, m \in Minors}
    [] op = "register" -> {[Request(op) EXCEPT !.buf = b] : b \in Buffers}
    [] op = "submit" -> {[Request(op) EXCEPT !.buf = b, !.dmg = d] :
                           b \in Buffers, d \in Damages}
    [] op \in {"set", "step"} -> {[Request(op) EXCEPT !.kind = k] : k \in Kinds}
    [] OTHER -> {Request(op)}

NoInput == [fn |-> FALSE, tip |-> FALSE, some |-> FALSE]

Off == [st |-> "off", req |-> Request("none"), rsp |-> <<>>,
        view |-> [b \in Buffers |-> "mine"], tip |-> FALSE]

\* Connection::new.
NewConnection(c) ==
  [client |-> c, est |-> FALSE, minor |-> 0,
   frames |-> [b \in Buffers |-> "unknown"],
   ctl |-> NoPacket, input |-> NoInput, full |-> TRUE,
   shown |-> FALSE, told |-> NoInput]

Dark == [r \in Regions |-> None]

Init ==
  /\ pc = "check" /\ back = "check" /\ due = FALSE
  /\ seat \in Sessions \cup {None}
  /\ watch = None /\ first = None
  /\ listen = <<>>
  /\ cl = [c \in Clients |-> Off]
  /\ conn = None /\ pend = None
  /\ kb = [held |-> FALSE, down |-> FALSE]
  /\ \E a \in SUBSET Kinds : bright = [avail |-> a, recent |-> {}]
  /\ panel = Dark /\ lit = FALSE
  /\ inp = [fn |-> FALSE, tip |-> FALSE]
  /\ hw = [finger |-> FALSE, report |-> "none", fn |-> FALSE]
  /\ faults = 0

Step(from, to) == pc = from /\ pc' = to

Input == <<inp, hw>>
Session == <<seat, watch, first, due>>
Screen == <<panel, lit>>
Rest == <<back, listen, pend, faults>>

-----------------------------------------------------------------------------
(* Revocation, and the end of the process. *)

\* The peer of a closed socket reads what was sent and then the end.
Hangup(c) == cl' = [cl EXCEPT ![c].st = IF @ = "gone" THEN "off" ELSE "closed",
                              ![c].req = Request("none")]

\* revoke, first half: connection.take() and Connection::disconnect.
Revoke(from, to) ==
  /\ Step(from, "keys") /\ back' = to
  /\ pend' = conn.client /\ conn' = None
  /\ Hangup(conn.client)

\* t1_touchbar_uinput_release_all: a failed write leaves the key held.
ReleaseAll ==
  \/ kb' = [held |-> FALSE, down |-> FALSE] /\ UNCHANGED faults
  \/ kb.held /\ faults < MaxFaults /\ faults' = faults + 1 /\ UNCHANGED kb

ReleaseKeys ==
  /\ Step("keys", "session")
  /\ ReleaseAll
  /\ UNCHANGED <<back, listen, cl, conn, pend, bright, Session, Screen, Input>>

\* The process ends: the kernel closes its descriptors, destroys the
\* synthesized keyboard and switches the panel off.
Exit ==
  /\ pc' = "down"
  /\ conn' = None /\ pend' = None /\ watch' = None /\ first' = None
  /\ kb' = [held |-> FALSE, down |-> FALSE]
  /\ panel' = Dark /\ lit' = FALSE

\* revoke, second half: session.release() and touch_idle; a key that could
\* not be released ends the service.
ReleaseWithoutSession ==
  /\ pc = "session" /\ ~kb.held
  /\ pc' = back
  /\ pend' = None
  /\ inp' = [inp EXCEPT !.tip = FALSE]
  /\ UNCHANGED <<back, due, seat, watch, first, listen, cl, conn, kb, bright,
                 panel, lit, hw, faults>>

\* The service goes on although the key could not be released.
ReleaseRegardless ==
  /\ pc = "session"
  /\ pc' = back /\ watch' = None /\ pend' = None
  /\ inp' = [inp EXCEPT !.tip = FALSE]
  /\ UNCHANGED <<back, due, seat, first, listen, cl, conn, kb, bright, panel, lit,
                 hw, faults>>

ReleaseSession ==
  /\ pc = "session"
  /\ inp' = [inp EXCEPT !.tip = FALSE]
  /\ \/ /\ ~kb.held
        /\ pc' = back /\ watch' = None /\ pend' = None
        /\ UNCHANGED <<first, conn, kb, panel, lit>>
     \/ kb.held /\ Exit
  /\ UNCHANGED <<back, due, seat, listen, cl, bright, hw, faults>>

\* An input device fails or the T1 disappears: the service returns an error.
Fault ==
  /\ pc = "input" /\ faults < MaxFaults
  /\ faults' = faults + 1
  /\ Exit
  /\ IF conn = None THEN UNCHANGED cl ELSE Hangup(conn.client)
  /\ UNCHANGED <<back, due, seat, listen, bright, inp, hw>>

\* Restart=on-failure: run discovers the hardware anew.
Restart ==
  /\ Step("down", "check")
  /\ due' = FALSE
  /\ \E a \in SUBSET Kinds : bright' = [avail |-> a, recent |-> {}]
  /\ inp' = [fn |-> hw.fn, tip |-> FALSE]
  /\ UNCHANGED <<back, seat, watch, first, listen, cl, conn, pend, kb, panel,
                 lit, hw, faults>>

-----------------------------------------------------------------------------
(* run: the session check. *)

\* Not yet due, or nothing to check.
CheckNothing ==
  /\ Step("check", "flush")
  /\ conn = None \/ ~due
  /\ UNCHANGED <<cl, conn, kb, bright, Session, Screen, Input, Rest>>

\* t1_touchbar_session_watch_refresh: the same session is still the active
\* one of seat0.
CheckRetained ==
  /\ Step("check", "flush")
  /\ conn # None /\ due /\ seat = watch
  /\ due' = FALSE
  /\ UNCHANGED <<seat, watch, first, cl, conn, kb, bright, Screen, Input, Rest>>

\* It is not, or the monitor failed.
CheckRevoked ==
  /\ conn # None /\ due
  /\ \/ seat # watch /\ UNCHANGED faults
     \/ seat = watch /\ faults < MaxFaults /\ faults' = faults + 1
  /\ Revoke("check", "flush")
  /\ watch' = None /\ due' = FALSE
  /\ UNCHANGED <<seat, first, listen, kb, bright, Screen, Input>>

-----------------------------------------------------------------------------
(* flush_connection. *)

CanSend(c) == cl[c].st = "on" /\ Len(cl[c].rsp) < Room

\* What the client receives of a packet.
Sent(p) == [msg |-> p.msg, buf |-> p.buf, tip |-> FALSE]

Deliver(c, m) == cl' = [cl EXCEPT ![c].rsp = Append(@, m)]

\* expand_first_present_damage, and t1_touchbar_drm_present_rectangles, whose
\* first call switches the panel on with the whole frame.
DamageAsSubmitted == IF lit THEN conn.ctl.dmg ELSE Regions
PresentDamage == IF conn.full \/ ~lit THEN Regions ELSE conn.ctl.dmg

Painted == [r \in Regions |-> IF r \in PresentDamage THEN conn.client ELSE panel[r]]

\* AfterSend::None and AfterSend::Establish.
SendAnswer ==
  /\ pc = "flush" /\ conn # None /\ conn.ctl.after \in {"none", "establish"}
  /\ conn.ctl # NoPacket
  /\ CanSend(conn.client)
  /\ pc' = "sendinput"
  /\ Deliver(conn.client, Sent(conn.ctl))
  /\ conn' = IF conn.ctl.after = "none" THEN [conn EXCEPT !.ctl = NoPacket]
             ELSE [conn EXCEPT !.ctl = NoPacket, !.est = TRUE, !.minor = conn.ctl.minor]
  /\ UNCHANGED <<kb, bright, Session, Screen, Input, Rest>>

\* AfterSend::Present: copy the client's buffer, present it, queue the release
\* of the buffer; a failure closes the connection after the release was sent.
SendPresent ==
  /\ pc = "flush" /\ conn # None /\ conn.ctl.after = "present"
  /\ CanSend(conn.client)
  /\ pc' = "receive"
  /\ Deliver(conn.client, Sent(conn.ctl))
  /\ \E ok \in BOOLEAN :
       /\ IF ok THEN panel' = Painted /\ lit' = TRUE /\ UNCHANGED faults
          ELSE /\ faults < MaxFaults /\ faults' = faults + 1
               /\ panel' \in {panel, Painted} /\ UNCHANGED lit
       /\ conn' = [conn EXCEPT !.full = FALSE, !.shown = @ \/ ok,
                    !.ctl = [Packet("released", "release", conn.ctl.buf)
                               EXCEPT !.close = ~ok]]
  /\ UNCHANGED <<back, listen, pend, kb, bright, Session, Input>>

SendRelease ==
  /\ pc = "flush" /\ conn # None /\ conn.ctl.after = "release" /\ ~conn.ctl.close
  /\ CanSend(conn.client)
  /\ pc' = "sendinput"
  /\ Deliver(conn.client, Sent(conn.ctl))
  /\ conn' = [conn EXCEPT !.ctl = NoPacket, !.frames[conn.ctl.buf] = "free"]
  /\ UNCHANGED <<kb, bright, Session, Screen, Input, Rest>>

\* AfterSend::Close, a release after a failed present, and a send that failed
\* because the peer is gone: the connection is revoked.
SendAndRevoke ==
  /\ pc = "flush" /\ conn # None /\ conn.ctl # NoPacket
  /\ LET c == conn.client IN
     /\ \/ cl[c].st = "gone" /\ cl' = [cl EXCEPT ![c] = Off]
        \/ /\ CanSend(c) /\ (conn.ctl.after = "close" \/ conn.ctl.close)
           /\ cl' = [cl EXCEPT ![c].st = "closed", ![c].req = Request("none"),
                               ![c].rsp = Append(@, Sent(conn.ctl))]
     /\ pend' = c
  /\ pc' = "keys" /\ back' = "receive" /\ conn' = None
  /\ UNCHANGED <<listen, kb, bright, faults, Session, Screen, Input>>

\* Nothing to send, or the client's socket is full.
SendLater ==
  /\ pc = "flush"
  /\ \/ conn = None /\ pc' = "receive"
     \/ /\ conn # None /\ conn.ctl = NoPacket
        /\ pc' = "sendinput"
     \/ /\ conn # None /\ conn.ctl # NoPacket
        /\ cl[conn.client].st = "on" /\ ~CanSend(conn.client)
        /\ pc' = "receive"
  /\ UNCHANGED <<cl, conn, kb, bright, Session, Screen, Input, Rest>>

\* The pending input frame, once no control packet is left.
SendInput ==
  /\ pc = "sendinput"
  /\ \/ /\ conn.input.some /\ CanSend(conn.client)
        /\ pc' = "receive"
        /\ Deliver(conn.client, [msg |-> "input", buf |-> None, tip |-> conn.input.tip])
        /\ conn' = [conn EXCEPT !.input = NoInput, !.told = conn.input]
        /\ UNCHANGED <<back, pend>>
     \/ /\ ~conn.input.some \/ (cl[conn.client].st = "on" /\ ~CanSend(conn.client))
        /\ pc' = "receive"
        /\ UNCHANGED <<cl, conn, back, pend>>
     \/ conn.input.some /\ cl[conn.client].st = "gone" /\ Revoke("sendinput", "receive")
  /\ UNCHANGED <<listen, kb, bright, faults, Session, Screen, Input>>

-----------------------------------------------------------------------------
(* receive_request and handle_request. *)

\* Take the request and queue its answer.
Answer(p) ==
  LET c == conn.client IN
  /\ pc = "receive" /\ pc' = "accept"
  /\ cl' = [cl EXCEPT ![c].req = Request("none")]
  /\ conn' = [conn EXCEPT !.ctl = p]

\* The same, with the buffer's new state.
AnswerAnd(p, b, frame) ==
  /\ pc = "receive" /\ pc' = "accept"
  /\ cl' = [cl EXCEPT ![conn.client].req = Request("none")]
  /\ conn' = [conn EXCEPT !.ctl = p, !.frames[b] = frame]

Error(b) == Packet("error", "none", b)
Ack == Packet("ack", "none", None)

Req == cl[conn.client].req

Asks(op) ==
  /\ pc = "receive" /\ conn # None /\ conn.ctl = NoPacket
  /\ Req.op = op

\* validate_phase and the decoding of the payload.
WrongPhase == (Req.op = "hello") = conn.est

\* Nothing to receive, or a control packet still waits to be sent.
ReceiveNothing ==
  /\ Step("receive", "accept")
  /\ \/ conn = None
     \/ conn # None /\ conn.ctl # NoPacket
     \/ conn # None /\ Req.op = "none" /\ cl[conn.client].st = "on"
  /\ UNCHANGED <<cl, conn, kb, bright, Session, Screen, Input, Rest>>

\* The peer closed, or sent what the protocol forbids: the connection ends.
ReceiveRefused ==
  /\ pc = "receive" /\ conn # None /\ conn.ctl = NoPacket
  /\ \/ Req.op = "none" /\ cl[conn.client].st = "gone"
     \/ Req.op # "none" /\ (WrongPhase \/ Req.op = "malformed")
  /\ Revoke("receive", "accept")
  /\ UNCHANGED <<listen, kb, bright, faults, Session, Screen, Input>>

\* queue_hello: PROTOCOL_MINOR is 1.
Hello ==
  /\ Asks("hello") /\ ~WrongPhase
  /\ Answer(IF Req.kind \in bright.avail \cup {"none"}
            THEN [Packet("helloack", "establish", None) EXCEPT !.minor = Req.minor]
            ELSE Packet("error", "close", None))
  /\ UNCHANGED <<kb, bright, Session, Screen, Input, Rest>>

\* FrameState::register_buffer.
RegisterBuffer(b) ==
  LET known == {x \in Buffers : conn.frames[x] # "unknown"}
  IN b \notin known /\ Cardinality(known) < MaxBuffers

\* t1_frame_memfd: the descriptor is a sealed memory file of the right length
\* and is mapped, or it is refused.
FrameAccepted == BOOLEAN

\* queue_buffer_registration.
Register ==
  /\ Asks("register") /\ ~WrongPhase
  /\ \E accepted \in FrameAccepted :
       IF accepted /\ RegisterBuffer(Req.buf)
       THEN AnswerAnd(Ack, Req.buf, "free")
       ELSE Answer(Error(None))
  /\ UNCHANGED <<kb, bright, Session, Screen, Input, Rest>>

\* FrameState::validate_damage: no rectangle means the whole panel.
ValidateDamage(d) == IF d = {} THEN Regions ELSE d

\* queue_frame_submission and FrameState::submit_frame.
Submit ==
  /\ Asks("submit") /\ ~WrongPhase
  /\ IF conn.frames[Req.buf] = "free"
     THEN AnswerAnd([Packet("ack", "present", Req.buf) EXCEPT
                       !.dmg = ValidateDamage(Req.dmg)], Req.buf, "busy")
     ELSE Answer(Error(Req.buf))
  /\ UNCHANGED <<kb, bright, Session, Screen, Input, Rest>>

\* t1_touchbar_uinput_tap: press, then release; a failed write of the press
\* is followed by a release.  After a failure release_all is tried; if that
\* fails as well the connection is revoked.
Tap ==
  /\ Asks("tap") /\ ~WrongPhase
  /\ \/ Answer(Ack) /\ UNCHANGED <<kb, faults, back, pend>>
     \/ /\ faults < MaxFaults /\ faults' = faults + 1
        /\ Answer(Error(None)) /\ UNCHANGED <<kb, back, pend>>
     \/ /\ faults + 1 < MaxFaults /\ faults' = faults + 2
        /\ \E d \in BOOLEAN : kb' = [held |-> TRUE, down |-> d]
        /\ Revoke("receive", "accept")
  /\ UNCHANGED <<listen, bright, Session, Screen, Input>>

\* HardwareActions::set_brightness and step_brightness; a step needs the
\* protocol's minor 1.  A failed call of logind disables the class, a failed
\* conversion does not.
BrightnessDenied == Req.op = "step" /\ conn.minor < 1

Brightness ==
  /\ Asks("set") \/ Asks("step")
  /\ ~WrongPhase
  /\ LET k == Req.kind IN
     \/ /\ BrightnessDenied \/ k \notin bright.avail \/ k \in bright.recent
        /\ Answer(Error(None)) /\ UNCHANGED <<bright, faults>>
     \/ /\ ~BrightnessDenied /\ k \in bright.avail \ bright.recent
        /\ \/ /\ Answer(Ack) /\ UNCHANGED faults
              /\ bright' = [bright EXCEPT !.recent = @ \cup {k}]
           \/ /\ faults < MaxFaults /\ faults' = faults + 1
              /\ Answer(Error(None))
              /\ \E a \in {bright.avail, bright.avail \ {k}} :
                   bright' = [avail |-> a, recent |-> bright.recent \cup {k}]
  /\ UNCHANGED <<back, listen, pend, kb, Session, Screen, Input>>

\* t1_touchid_cancel_with_ops ends within its deadline with the broker's
\* answer or an error.
CancelOutcome == {Ack, Error(None)}

\* queue_cancellation; an unknown request is refused.
CancelTouchId ==
  /\ Asks("cancel") \/ Asks("unknown")
  /\ ~WrongPhase
  /\ \E p \in IF Req.op = "cancel" THEN CancelOutcome ELSE {Error(None)} : Answer(p)
  /\ UNCHANGED <<kb, bright, Session, Screen, Input, Rest>>

-----------------------------------------------------------------------------
(* run: accepting the next client, and t1_touchbar_session_watch_admit with *)
(* its two snapshots of logind's state.                                     *)

ActiveFor(c) == seat # None /\ UserOf[seat] = UserOf[c]

AcceptNothing ==
  /\ Step("accept", "input")
  /\ conn # None \/ listen = <<>>
  /\ UNCHANGED <<cl, conn, kb, bright, Session, Screen, Input, Rest>>

\* A client that is refused finds its connection closed.
Refuse(c) ==
  /\ pc' = "input" /\ first' = None
  /\ listen' = Tail(listen)
  /\ cl' = [cl EXCEPT ![c] = IF @.st = "gone" THEN Off
                             ELSE [@ EXCEPT !.st = "closed", !.req = Request("none")]]
  /\ UNCHANGED <<watch, conn, due>>

Accept ==
  /\ pc = "accept" /\ conn = None /\ listen # <<>>
  /\ LET c == Head(listen) IN
     \/ /\ ActiveFor(c) /\ watch = None
        /\ pc' = "admit" /\ first' = seat
        /\ UNCHANGED <<listen, cl, watch, conn, due>>
     \/ /\ ~ActiveFor(c) \/ watch # None
        /\ Refuse(c)
  /\ UNCHANGED <<back, seat, pend, kb, bright, faults, Screen, Input>>

Admit ==
  /\ pc = "admit"
  /\ LET c == Head(listen) IN
     \/ /\ ActiveFor(c) /\ seat = first
        /\ pc' = "input"
        /\ watch' = seat /\ first' = None /\ due' = FALSE
        /\ listen' = Tail(listen)
        /\ conn' = NewConnection(c)
        /\ cl' = [cl EXCEPT ![c].st = IF @ = "gone" THEN @ ELSE "on"]
     \/ ~(ActiveFor(c) /\ seat = first) /\ Refuse(c)
  /\ UNCHANGED <<back, seat, pend, kb, bright, faults, Screen, Input>>

-----------------------------------------------------------------------------
(* process_input and Connection::queue_input: the newest state replaces an *)
(* unsent one.                                                             *)

QueueInput(i) == i

\* The last of the reports read, and the Fn key after its edges or a resync.
ReadDigitizer == IF hw.report = "none" THEN inp.tip ELSE hw.report = "down"
ReadFn == hw.fn

ProcessInput ==
  /\ Step("input", "check")
  /\ inp' = [fn |-> ReadFn, tip |-> ReadDigitizer]
  /\ conn' = IF conn = None THEN None
             ELSE IF ~conn.est \/ (hw.report = "none" /\ inp.fn = ReadFn) THEN conn
             ELSE [conn EXCEPT !.input = QueueInput(
                     [fn |-> ReadFn, tip |-> ReadDigitizer, some |-> TRUE])]
  /\ hw' = [hw EXCEPT !.report = "none"]
  /\ UNCHANGED <<cl, kb, bright, Session, Screen, Rest>>

-----------------------------------------------------------------------------
(* The environment. *)

Service == <<pc, back, watch, first, conn, pend, kb, panel, lit, inp, faults>>

\* A renderer connects, sends, reads, closes and notices a closed socket.  It
\* submits no buffer it has not got back.
Connect(c) ==
  /\ cl[c].st = "off"
  /\ cl' = [cl EXCEPT ![c] = [Off EXCEPT !.st = "wait"]]
  /\ listen' = Append(listen, c)
  /\ UNCHANGED <<Service, seat, due, bright, hw>>

Send(c) ==
  /\ cl[c].st \in {"wait", "on"} /\ cl[c].req.op = "none"
  /\ \E op \in IF cl[c].st = "wait" THEN Ops \cap {"hello"} ELSE Ops : \E q \in RequestsOf(op) :
       /\ op = "submit" => cl[c].view[q.buf] = "mine"
       /\ cl' = [cl EXCEPT ![c].req = q,
            ![c].view = IF op = "submit" THEN [@ EXCEPT ![q.buf] = "asked"] ELSE @]
  /\ UNCHANGED <<Service, seat, due, listen, bright, hw>>

\* A buffer is the client's again when its submission was refused or the
\* frame was released.
Receive(view, m) ==
  IF m.buf = None THEN view
  ELSE [view EXCEPT ![m.buf] =
          CASE m.msg = "ack" -> "lent"
            [] m.msg = "error" -> IF @ = "asked" THEN "mine" ELSE @
            [] m.msg = "released" -> "mine"]

Read(c) ==
  /\ cl[c].st \in {"on", "closed"} /\ cl[c].rsp # <<>>
  /\ LET m == Head(cl[c].rsp) IN
     cl' = [cl EXCEPT ![c].rsp = Tail(@), ![c].view = Receive(@, m),
                      ![c].tip = IF m.msg = "input" THEN m.tip ELSE @]
  /\ UNCHANGED <<Service, seat, due, listen, bright, hw>>

Close(c) ==
  /\ \/ cl[c].st \in {"wait", "on"}
        /\ cl' = [cl EXCEPT ![c] = [Off EXCEPT !.st = "gone", !.req = cl[c].req]]
     \/ cl[c].st = "closed" /\ cl' = [cl EXCEPT ![c] = Off]
  /\ UNCHANGED <<Service, seat, due, listen, bright, hw>>

\* logind makes another session the active one of seat0.
Switch ==
  /\ \E s \in (Sessions \cup {None}) \ {seat} : seat' = s
  /\ UNCHANGED <<Service, due, cl, listen, bright, hw>>

\* 50 ms pass since the last session check, 20 ms since a brightness action.
Elapse ==
  /\ ~due /\ due' = TRUE
  /\ UNCHANGED <<Service, seat, cl, listen, bright, hw>>

Settle ==
  /\ bright.recent # {} /\ bright' = [bright EXCEPT !.recent = {}]
  /\ UNCHANGED <<Service, seat, due, cl, listen, hw>>

Touch ==
  /\ \/ /\ "finger" \in HwEvents
        /\ hw' = [hw EXCEPT !.finger = ~@, !.report = IF hw.finger THEN "up" ELSE "down"]
     \/ /\ "silent" \in HwEvents /\ hw.finger /\ hw.report = "none"
        /\ hw' = [hw EXCEPT !.finger = FALSE]
     \/ "fn" \in HwEvents /\ hw' = [hw EXCEPT !.fn = ~@]
  /\ UNCHANGED <<Service, seat, due, cl, listen, bright>>

-----------------------------------------------------------------------------
ServiceStep ==
  \/ ReleaseKeys \/ ReleaseSession \/ Restart
  \/ CheckNothing \/ CheckRetained \/ CheckRevoked
  \/ SendAnswer \/ SendPresent \/ SendRelease \/ SendAndRevoke \/ SendLater
  \/ SendInput
  \/ ReceiveNothing \/ ReceiveRefused
  \/ Hello \/ Register \/ Submit \/ Tap \/ Brightness \/ CancelTouchId
  \/ AcceptNothing \/ Accept \/ Admit \/ ProcessInput

Environment ==
  \/ \E c \in Clients : Connect(c) \/ Send(c) \/ Read(c) \/ Close(c)
  \/ Switch \/ Elapse \/ Settle \/ Touch \/ Fault

Next == ServiceStep \/ Environment

Spec == Init /\ [][Next]_vars


-----------------------------------------------------------------------------
(* Properties. *)

TypeOK ==
  /\ pc \in {"check", "flush", "sendinput", "receive", "accept", "admit", "input",
             "keys", "session", "down"}
  /\ back \in {"check", "flush", "receive", "accept"}
  /\ due \in BOOLEAN /\ lit \in BOOLEAN
  /\ {seat, watch, first} \subseteq Sessions \cup {None}
  /\ pend \in Clients \cup {None}
  /\ \A c \in Clients : Len(cl[c].rsp) <= Room
  /\ conn # None => conn.client \in Clients
                    /\ \A b \in Buffers : conn.frames[b] \in {"unknown", "free", "busy"}
  /\ bright.recent \subseteq Kinds /\ bright.avail \subseteq Kinds
  /\ panel \in [Regions -> Clients \cup {None}]

\* Once a client's first frame was presented, no pixel of another client is
\* left on the panel, whatever damage its frames name.
NoForeignPixels ==
  conn # None /\ conn.shown => \A r \in Regions : panel[r] = conn.client

\* A key the kernel holds down belongs to a client that is being revoked: no
\* sequence of failed writes leaves it down while the loop goes on.
KeyNeverStuck == kb.down => pend # None

\* The service has a connection exactly while the session watch is admitted,
\* and to a client of that session's user.
SessionFollowsConnection ==
  /\ (conn # None) = (watch # None /\ pend = None)
  /\ conn # None => UserOf[conn.client] = UserOf[watch]

\* While the service has yet to read a submitted frame, its client does not
\* regard the buffer as its own.
DrawnBufferNotRead ==
  conn # None /\ conn.ctl.after = "present"
    => cl[conn.client].st = "gone" \/ cl[conn.client].view[conn.ctl.buf] # "mine"

\* A client that was told of a release can submit the buffer again: the
\* accounting of FrameState agrees with what the client knows.
ReleasedMeansFree ==
  conn # None /\ cl[conn.client].st = "on" =>
    \A b \in Buffers : cl[conn.client].view[b] = "mine" => conn.frames[b] # "busy"

\* The frame waiting for the client, or else the last one sent to it, is the
\* current state of the finger and the Fn key.
LatestInputKept ==
  conn # None =>
    LET i == IF conn.input.some THEN conn.input ELSE conn.told
    IN i.some => i.fn = inp.fn /\ i.tip = inp.tip

\* The first snapshot taken for a client is not of the session active now.
Misjudged(c) == pc = "admit" /\ listen[1] = c /\ first # seat

\* A waiting client of a user whose session is active and stays so is admitted
\* unless it closes, and never refused, even when the previous client, of
\* another user, never reads, closes or answers; unless the session became
\* active between the two snapshots of its admission.
HandOver ==
  \A c \in Clients : \A s \in {t \in Sessions : UserOf[t] = UserOf[c]} :
    (cl[c].st = "wait" /\ seat = s /\ ~Misjudged(c))
      ~> (cl[c].st \in {"on", "gone"} \/ seat # s)

=============================================================================
