------------------------------- MODULE SepLink -------------------------------
(***************************************************************************)
(* One SEP operation over one USB session, as the C library runs it: two   *)
(* usbfs URBs (sep_urb.c), the session that negotiates and exchanges       *)
(* requests over them (sep_session.c), the relay header that pairs a reply *)
(* with a request (sep_relay.c), the credential manager's context          *)
(* (sep_acm.c) and the operation around them (sep_operation.c).            *)
(*                                                                         *)
(* The kernel owns an URB and its buffer from submission until it is       *)
(* reaped or the descriptor is closed; the SEP answers each request once,  *)
(* as late as it likes, and may send notifications of its own.  A deadline *)
(* or a signal is a choice of the step that observes it.                   *)
(***************************************************************************)
EXTENDS Naturals, Sequences, FiniteSets

CONSTANTS Kinds,          \* the operations run: see Script
          Notifications,  \* bound: unsolicited messages of one session
          SkipLimit       \* SEP_RELAY_DEFAULT_SKIP_LIMIT, scaled down

ASSUME SepLinkAssumption ==
  /\ Kinds \subseteq {"authentication", "enrollment", "relay"}
  /\ Notifications \in Nat
  /\ SkipLimit \in Nat \ {0}

VARIABLES op,       \* struct sep_operation and the position of its callback
          session,  \* struct sep_session: phase, unrelated messages skipped
          acm,      \* struct sep_acm_state: phase, pending command
          urb,      \* struct sep_urb_transport: its state and its two slots
          usb,      \* the kernel's side of the two URBs
          memory,   \* the URB buffers: "held" or "freed"
          sep,      \* the coprocessor: requests, messages, ACM contexts
          matched   \* history: the last request and the reply taken for it

vars == <<op, session, acm, urb, usb, memory, sep, matched>>

(* The commands of a callback in order.  The keystore commands that come   *)
(* to the same kind of exchange stand for one.                             *)
Negotiation == <<"version", "status", "enable", "enable", "enable">>

Authorization ==
  <<"environment", "initialize", "create", "externalize", "verify", "uuid">>

Script(kind) ==
  CASE kind = "authentication" -> Negotiation \o Authorization \o <<"state">>
    [] kind = "enrollment" ->
         Negotiation \o Authorization \o
           <<"contains", "contains", "replace", "contains", "contains",
             "preflight", "policy">>
    [] kind = "relay" ->
         Negotiation \o <<"environment", "load", "initialize", "state">>

AcmCommands == {"initialize", "create", "externalize", "contains", "replace",
                "preflight", "policy", "delete"}

Endpoint(command) ==
  IF command \in {"version", "status", "enable"} THEN "control"
  ELSE IF command \in AcmCommands THEN "acm" ELSE "keystore"

Id == IF op.closing THEN Len(Script(op.kind)) + 1 ELSE op.at

Command == IF op.closing THEN "delete" ELSE Script(op.kind)[op.at]

Request == [command |-> Command, id |-> Id]

NoRequest == [command |-> "none", id |-> 0]

Notification ==
  [endpoint |-> "keystore", command |-> "notification", id |-> 0,
   status |-> "ok"]

Stages == {"issue", "receive", "ready", "lease", "lend", "drain", "close",
           "destroy", "closefd", "abandon", "ended"}

Slots == {"in", "out"}

Init ==
  /\ \E kind \in Kinds :
       op = [kind |-> kind, at |-> 1, stage |-> "issue", busy |-> FALSE,
             closing |-> FALSE, clean |-> TRUE, cancelled |-> FALSE,
             refused |-> FALSE, result |-> "none"]
  /\ session = [phase |-> "new", skipped |-> 0]
  /\ acm = [phase |-> "new", pending |-> FALSE]
  /\ urb = [state |-> "ready", slot |-> [s \in Slots |-> "idle"]]
  /\ usb = [at |-> [s \in Slots |-> "none"], msg |-> Notification,
            req |-> NoRequest]
  /\ memory = "held"
  /\ sep = [inbox |-> <<>>, outbox |-> <<>>, context |-> FALSE, sent |-> 0]
  /\ matched = <<0, 0>>

(***************************************************************************)
(* The kernel and the coprocessor.                                         *)
(***************************************************************************)
\* A completed OUT transfer is in the SEP's queue; an acknowledgement and an
\* enable have no reply.
OutCompletes ==
  /\ usb.at["out"] = "pending"
  /\ usb' = [usb EXCEPT !.at["out"] = "done"]
  /\ sep' = IF usb.req.command \in {"none", "enable"} THEN sep
            ELSE [sep EXCEPT !.inbox = Append(@, usb.req)]
  /\ UNCHANGED <<op, session, acm, urb, memory, matched>>

InCompletes ==
  /\ usb.at["in"] = "pending"
  /\ sep.outbox # <<>>
  /\ usb' = [usb EXCEPT !.at["in"] = "done", !.msg = Head(sep.outbox)]
  /\ sep' = [sep EXCEPT !.outbox = Tail(@)]
  /\ UNCHANGED <<op, session, acm, urb, memory, matched>>

\* The SEP runs a request and answers it: done, refused, or done with an
\* answer that does not decode.
SepAnswers ==
  /\ sep.inbox # <<>>
  /\ LET q == Head(sep.inbox) IN
     \E status \in {"ok", "remote", "bad"} :
       sep' = [sep EXCEPT
         !.inbox = Tail(@),
         !.outbox = Append(@, [endpoint |-> Endpoint(q.command),
                               command |-> q.command, id |-> q.id,
                               status |-> status]),
         !.context = IF status = "remote" THEN @
                     ELSE IF q.command = "create" THEN TRUE
                     ELSE @ /\ q.command # "delete"]
  /\ UNCHANGED <<op, session, acm, urb, usb, memory, matched>>

SepNotifies ==
  /\ sep.sent < Notifications
  /\ session.phase = "ready"
  /\ sep' = [sep EXCEPT !.sent = @ + 1, !.outbox = Append(@, Notification)]
  /\ UNCHANGED <<op, session, acm, urb, usb, memory, matched>>

Cancel ==
  /\ ~op.cancelled
  /\ op.stage # "ended"
  /\ op' = [op EXCEPT !.cancelled = TRUE]
  /\ UNCHANGED <<session, acm, urb, usb, memory, sep, matched>>

(***************************************************************************)
(* Results of a command, applied to the operation.                         *)
(***************************************************************************)
\* A command that fails ends the callback; a failed context delete makes the
\* teardown unclean.
Failed(result) ==
  op' = [op EXCEPT !.busy = FALSE,
                   !.stage = IF op.closing THEN "destroy" ELSE "close",
                   !.result = IF op.closing THEN @ ELSE result,
                   !.clean = @ /\ ~op.closing]

\* The command is done: the next one, the lease, or the end of the deletion.
Advance ==
  op' = [op EXCEPT !.busy = FALSE,
                   !.at = IF op.closing THEN @ ELSE @ + 1,
                   !.stage = IF op.closing THEN "destroy"
                             ELSE IF op.at = Len(Script(op.kind)) THEN "lease"
                             ELSE "issue"]

\* sep_acm_mark_ambiguous, for a command whose reply is awaited.
Ambiguous ==
  IF acm.pending /\ op.stage \in {"issue", "receive"}
  THEN [phase |-> "failed", pending |-> FALSE] ELSE acm

\* transport_failure, or a reply that cannot be trusted: the session is
\* poisoned and the command's outcome unknown.
PoisonForgotten ==
  /\ session' = session
  /\ acm' = [acm EXCEPT !.pending = FALSE]
  /\ Failed("error")

Poison ==
  /\ session' = [session EXCEPT !.phase = "poisoned"]
  /\ acm' = Ambiguous
  /\ Failed("error")

(***************************************************************************)
(* sep_urb.c.                                                              *)
(***************************************************************************)
Active == {s \in Slots : urb.slot[s] = "submitted"}

\* cleanup_active_urbs: every active URB is discarded and reaped, or some
\* stay with the kernel and the transport is poisoned.
Cleanup(left, state) ==
  /\ left \subseteq Active
  /\ urb' = IF left = {}
            THEN [state |-> state, slot |-> [s \in Slots |-> "idle"]]
            ELSE [state |-> "poisoned",
                  slot |-> [s \in Slots |-> IF s \in left THEN "submitted"
                              ELSE IF s \in Active THEN "reaped"
                              ELSE urb.slot[s]]]
  /\ usb' = [usb EXCEPT !.at = [s \in Slots |->
               IF s \in Active \ left THEN "none" ELSE @[s]]]

\* The URBs a stage needs, IN submitted before OUT.
Transfers ==
  CASE op.stage = "issue" -> IF Command = "enable" THEN {"out"} ELSE Slots
    [] op.stage \in {"receive", "drain"} -> {"in"}
    [] op.stage = "ready" -> {"out"}

\* validate_transfer_ready: nothing active, the transport usable.
Usable == Active = {} /\ urb.state \notin {"busy", "poisoned"}

\* submit_slot for each of them.
Submit ==
  /\ Usable
  /\ urb' = [state |-> "busy",
             slot |-> [s \in Slots |-> IF s \in Transfers THEN "submitted"
                                       ELSE "idle"]]
  /\ usb' = [usb EXCEPT
       !.at = [s \in Slots |-> IF s \in Transfers THEN "pending" ELSE "none"],
       !.req = IF op.stage = "issue" THEN Request ELSE NoRequest]

\* The kernel refuses one: the IN already submitted is cleaned up, or stays.
Refused ==
  /\ Usable
  /\ \E left \in SUBSET (Transfers \ {"out"}) :
       /\ urb' = [state |-> IF left = {} THEN "error" ELSE "poisoned",
                  slot |-> [s \in Slots |-> IF s \in left THEN "submitted"
                                            ELSE "idle"]]
       /\ usb' = [usb EXCEPT !.at = [s \in Slots |->
                    IF s \in left THEN "pending" ELSE "none"]]

\* The session's clock is already past the deadline, or an URB is refused.
TransferRefused ==
  /\ op.stage \in {"receive", "ready"} \/ (op.stage = "drain" /\ ~op.cancelled)
  /\ ~op.busy
  /\ Poison
  /\ Refused
  /\ UNCHANGED <<memory, sep, matched>>

\* The second transfer of a command: the next receive, the acknowledgement,
\* or a relay's poll.
Transfer ==
  /\ op.stage \in {"receive", "ready"} \/ (op.stage = "drain" /\ ~op.cancelled)
  /\ ~op.busy
  /\ Submit
  /\ op' = [op EXCEPT !.busy = TRUE]
  /\ UNCHANGED <<session, acm, memory, sep, matched>>

\* record_reap of a completed URB.
Reap(s) ==
  /\ op.busy
  /\ urb.slot[s] = "submitted"
  /\ usb.at[s] = "done"
  /\ urb' = [urb EXCEPT !.slot[s] = "reaped"]
  /\ usb' = [usb EXCEPT !.at[s] = "none"]
  /\ UNCHANGED <<op, session, acm, memory, sep, matched>>

\* finish_failure after a timeout, a signal, or a transfer error.  A relay's
\* poll that merely timed out or was interrupted is idle, not broken.
TransferFails ==
  /\ op.busy
  /\ \E left \in SUBSET Active, state \in {"timed_out", "interrupted", "error"} :
       /\ state \in {"timed_out", "interrupted"} => Active # {}
       /\ Cleanup(left, state)
       /\ IF op.stage = "drain" /\ left = {} /\ state # "error"
          THEN op' = [op EXCEPT !.busy = FALSE] /\ UNCHANGED <<session, acm>>
          ELSE Poison
  /\ UNCHANGED <<memory, sep, matched>>

(***************************************************************************)
(* sep_session.c.                                                          *)
(***************************************************************************)
\* Which commands the credential manager's state admits (begin_command,
\* require_active).
AcmAdmits(command) ==
  /\ ~acm.pending
  /\ CASE command = "initialize" -> acm.phase = "new"
       [] command = "create" -> acm.phase = "ready"
       [] OTHER -> acm.phase = "active"

\* An exchange begins.  The operation looks at cancellation and the deadline
\* (not at cancellation while closing), the session at its phase and the
\* deadline; the ACM command becomes pending before anything is submitted.
IssueCancelled ==
  /\ op.stage = "issue"
  /\ ~op.busy
  /\ ~op.closing
  /\ Endpoint(Command) # "control" \/ op.at = 1
  /\ \/ op.cancelled /\ Failed("cancelled")
     \/ Failed("timeout")
  /\ UNCHANGED <<session, acm, urb, usb, memory, sep, matched>>

Issue ==
  /\ op.stage = "issue"
  /\ ~op.busy
  /\ op.cancelled =>
       (op.closing \/ (Endpoint(Command) = "control" /\ op.at > 1))
  /\ session.phase = IF Endpoint(Command) = "control" THEN "new" ELSE "ready"
  /\ Endpoint(Command) = "acm" => AcmAdmits(Command)
  /\ session' = [session EXCEPT !.skipped = 0]
  /\ acm' = [acm EXCEPT !.pending = (Endpoint(Command) = "acm")]
  /\ Submit
  /\ op' = [op EXCEPT !.busy = TRUE]
  /\ UNCHANGED <<memory, sep, matched>>

\* The same, with the deadline gone before the submission or an URB refused;
\* an ACM command is ambiguous once it was built.
IssueFails ==
  /\ op.stage = "issue"
  /\ ~op.busy
  /\ op.cancelled =>
       (op.closing \/ (Endpoint(Command) = "control" /\ op.at > 1))
  /\ session' = [session EXCEPT !.phase = "poisoned"]
  /\ acm' \in {acm, IF Endpoint(Command) = "acm"
                    THEN [phase |-> "failed", pending |-> FALSE] ELSE acm}
  /\ Failed("error")
  /\ \/ UNCHANGED <<urb, usb>>
     \/ Refused /\ (Endpoint(Command) = "acm" => acm'.phase = "failed")
  /\ UNCHANGED <<memory, sep, matched>>

\* sep_relay_matches: the endpoint, the selector, and for the keystore the
\* transaction.  The token is not compared.
Matches(m) ==
  /\ m.endpoint = Endpoint(Command)
  /\ CASE m.endpoint = "control" -> m.command = Command
       [] m.endpoint = "keystore" -> m.command = Command /\ m.id = Id
       [] m.endpoint = "acm" -> TRUE

\* The transfers of a stage are all reaped; make_slots_reusable.
Completed ==
  /\ op.busy
  /\ Active = {}
  /\ urb' = [state |-> "ready", slot |-> [s \in Slots |-> "idle"]]
  /\ UNCHANGED <<usb, memory, sep>>

\* A send-only transfer is done: an enable (the last one makes the session
\* ready) or the acknowledgement of an ACM reply.
Sent ==
  /\ op.stage = "ready" \/ (op.stage = "issue" /\ Command = "enable")
  /\ Completed
  /\ session' = IF op.stage = "issue" /\ op.at = Len(Negotiation)
                THEN [session EXCEPT !.phase = "ready"] ELSE session
  /\ IF op.stage = "ready" /\ op.refused
     THEN Failed("remote") ELSE Advance
  /\ UNCHANGED <<acm, matched>>

Received ==
  \/ op.stage = "receive"
  \/ op.stage = "issue" /\ Command # "enable"

\* wait_for_reply: an unrelated message is skipped, up to the limit.
Unrelated ==
  /\ Received
  /\ Completed
  /\ ~Matches(usb.msg)
  /\ IF Endpoint(Command) = "control" \/ session.skipped + 1 >= SkipLimit
     THEN Poison
     ELSE /\ session' = [session EXCEPT !.skipped = @ + 1]
          /\ op' = [op EXCEPT !.busy = FALSE, !.stage = "receive"]
          /\ UNCHANGED acm
  /\ UNCHANGED matched

\* The two control replies: anything but the expected answer is fatal.
ControlReply ==
  /\ Received
  /\ Endpoint(Command) = "control"
  /\ Completed
  /\ Matches(usb.msg)
  /\ matched' = <<Id, usb.msg.id>>
  /\ IF usb.msg.status = "ok" THEN Advance /\ UNCHANGED <<session, acm>>
     ELSE Poison

\* sep_keystore_parse_reply: a remote error leaves the session usable; a reply
\* that does not decode poisons it.
KeystoreReply ==
  /\ Received
  /\ Endpoint(Command) = "keystore"
  /\ Completed
  /\ Matches(usb.msg)
  /\ matched' = <<Id, usb.msg.id>>
  /\ CASE usb.msg.status = "ok" -> Advance /\ UNCHANGED <<session, acm>>
       [] usb.msg.status = "remote" -> Failed("remote") /\ UNCHANGED <<session, acm>>
       [] OTHER -> Poison

\* accept_success.
Accepted ==
  [pending |-> FALSE,
   phase |-> CASE Command \in {"initialize", "delete"} -> "ready"
               [] Command = "create" -> "active"
               [] OTHER -> acm.phase]

\* sep_acm_accept_reply, then the acknowledgement (endpoint ready) that both
\* an accepted and a refused command send.
AcmReply ==
  /\ Received
  /\ Endpoint(Command) = "acm"
  /\ Completed
  /\ Matches(usb.msg)
  /\ matched' = <<Id, usb.msg.id>>
  /\ IF usb.msg.status = "bad"
     THEN Poison
     ELSE /\ acm' = IF usb.msg.status = "ok" THEN Accepted
                    ELSE [acm EXCEPT !.pending = FALSE]
          /\ op' = [op EXCEPT !.busy = FALSE, !.stage = "ready",
                              !.refused = (usb.msg.status # "ok")]
          /\ UNCHANGED session

\* sep_session_drain_notification: anything but a notification is fatal.
Drained ==
  /\ op.stage = "drain"
  /\ Completed
  /\ IF usb.msg.command = "notification"
     THEN op' = [op EXCEPT !.busy = FALSE] /\ UNCHANGED <<session, acm>>
     ELSE Poison
  /\ UNCHANGED matched

(***************************************************************************)
(* sep_operation.c: the lease, and the teardown.                           *)
(***************************************************************************)
\* sep_operation_release_acquisition_deadline.
Lease ==
  /\ op.stage = "lease"
  /\ \/ /\ ~op.cancelled
        /\ op' = [op EXCEPT !.stage = IF op.kind = "relay" THEN "drain"
                                      ELSE "lend"]
        /\ UNCHANGED session
     \/ /\ Failed(IF op.cancelled THEN "cancelled" ELSE "timeout")
        /\ session' \in {session, [session EXCEPT !.phase = "poisoned"]}
  /\ UNCHANGED <<acm, urb, usb, memory, sep, matched>>

\* The credential callback, or a cancelled relay's loop, returns; a success
\* is looked at once more for cancellation.
CallbackReturns ==
  /\ \/ op.stage = "lend"
     \/ op.stage = "drain" /\ ~op.busy /\ op.cancelled
  /\ \E result \in {"ok", "callback"} :
       /\ op.stage = "drain" => result = "ok"
       /\ op' = [op EXCEPT !.stage = "close",
                   !.result = IF result = "ok" /\ op.cancelled
                              THEN "cancelled" ELSE result]
  /\ UNCHANGED <<session, acm, urb, usb, memory, sep, matched>>

\* close_product_session deletes an active context under a fresh deadline,
\* whatever the cancellation; it cannot through a poisoned session.
CloseContext ==
  /\ op.stage = "close"
  /\ LET delete == acm.phase = "active" /\ session.phase = "ready" IN
     \E run \in {delete, FALSE} :
       op' = [op EXCEPT !.closing = run,
                        !.clean = @ /\ (acm.phase = "active" => run),
                        !.stage = IF run THEN "issue" ELSE "destroy"]
  /\ UNCHANGED <<session, acm, urb, usb, memory, sep, matched>>

\* sep_session_destroy: URBs the kernel still owns keep their buffers.
DestroyFreesAnyway ==
  /\ op.stage = "destroy"
  /\ \E left \in SUBSET Active : Cleanup(left, "uninitialized")
  /\ memory' = "freed"
  /\ acm' = [phase |-> "failed", pending |-> FALSE]
  /\ session' = [session EXCEPT !.phase = "closed"]
  /\ op' = [op EXCEPT !.stage = "closefd"]
  /\ UNCHANGED <<sep, matched>>

Destroy ==
  /\ op.stage = "destroy"
  /\ \E left \in SUBSET Active, released \in BOOLEAN :
       /\ Cleanup(left, "uninitialized")
       /\ memory' = IF left = {} THEN "freed" ELSE "held"
       /\ op' = [op EXCEPT !.stage = "closefd",
                           !.clean = @ /\ left = {} /\ released]
  /\ acm' = [phase |-> "failed", pending |-> FALSE]
  /\ session' = [session EXCEPT !.phase = "closed"]
  /\ UNCHANGED <<sep, matched>>

\* Closing the descriptor takes every URB from the kernel; only then are the
\* buffers of an abandoned transport freed.
CloseDescriptor ==
  /\ op.stage = "closefd"
  /\ usb' = [usb EXCEPT !.at = [s \in Slots |-> "none"]]
  /\ op' = [op EXCEPT !.stage = "abandon"]
  /\ UNCHANGED <<session, acm, urb, memory, sep, matched>>

Abandon ==
  /\ op.stage = "abandon"
  /\ memory' = "freed"
  /\ urb' = [state |-> "uninitialized", slot |-> [s \in Slots |-> "idle"]]
  /\ op' = [op EXCEPT !.stage = "ended",
              !.result = IF ~op.clean /\ @ \in {"ok", "cancelled"}
                         THEN "teardown" ELSE @]
  /\ UNCHANGED <<session, acm, usb, sep, matched>>

Ended == op.stage = "ended" /\ UNCHANGED vars

Next ==
  \/ OutCompletes \/ InCompletes \/ SepAnswers \/ SepNotifies \/ Cancel
  \/ IssueCancelled \/ Issue \/ IssueFails
  \/ TransferRefused \/ Transfer \/ TransferFails
  \/ \E s \in Slots : Reap(s)
  \/ Sent \/ Unrelated \/ ControlReply \/ KeystoreReply \/ AcmReply \/ Drained
  \/ Lease \/ CallbackReturns
  \/ CloseContext \/ Destroy \/ CloseDescriptor \/ Abandon \/ Ended

Spec == Init /\ [][Next]_vars

(***************************************************************************)
(* Properties.                                                             *)
(***************************************************************************)
Commands == {"version", "status", "enable", "environment", "verify", "uuid", "load", "state"}
            \cup AcmCommands

Results == {"none", "ok", "cancelled", "timeout", "remote", "error", "callback", "teardown"}

Operations == [kind : Kinds, at : Nat \ {0}, stage : Stages, busy : BOOLEAN, closing : BOOLEAN,
               clean : BOOLEAN, cancelled : BOOLEAN, refused : BOOLEAN, result : Results]

Requests == [command : Commands, id : Nat]

Messages == {Notification} \cup
  [endpoint : {"control", "acm", "keystore"}, command : Commands, id : Nat,
   status : {"ok", "remote", "bad"}]

\* The types of the variables.
TypeOK ==
  /\ op \in Operations
  /\ session \in [phase : {"new", "ready", "poisoned", "closed"}, skipped : 0..(SkipLimit - 1)]
  /\ acm \in [phase : {"new", "ready", "active", "failed"}, pending : BOOLEAN]
  /\ urb \in [state : {"ready", "busy", "timed_out", "interrupted", "error", "poisoned",
                       "uninitialized"},
              slot : [Slots -> {"idle", "submitted", "reaped"}]]
  /\ usb \in [at : [Slots -> {"none", "pending", "done"}], msg : Messages,
              req : Requests \cup {NoRequest}]
  /\ memory \in {"held", "freed"}
  /\ sep \in [inbox : Seq(Requests), outbox : Seq(Messages), context : BOOLEAN, sent : Nat]
  /\ matched \in Nat \X Nat

(***************************************************************************)
(* The inductive invariant.                                                *)
(***************************************************************************)
Live == session.phase \in {"new", "ready"}

Exchanging == {"issue", "receive", "ready", "lease", "lend", "drain"}

Torn == {"closefd", "abandon", "ended"}

\* A reply is awaited.
Awaiting == op.stage = "receive" \/ (op.stage = "issue" /\ op.busy /\ Command # "enable")

\* Where the callback may be, and what it may hold there.
Progress ==
  /\ op.stage \in Exchanging => Live
  /\ op.stage \in {"issue", "receive", "ready"} /\ ~op.closing => op.at \in 1..Len(Script(op.kind))
  /\ op.busy => op.stage \in {"issue", "receive", "ready", "drain"}
  /\ op.closing => op.stage \notin {"lease", "lend", "drain", "close"}
  /\ op.stage = "receive" => Command # "enable"

\* The library's view of its two URBs.
UrbsTracked ==
  /\ \A s \in Slots : urb.slot[s] # "submitted" => usb.at[s] = "none"
  /\ op.busy => \A s \in Transfers : urb.slot[s] # "idle"
  /\ op.stage = "receive" /\ ~op.busy => urb.slot["in"] # "reaped"
  /\ memory = "freed" => op.stage \in Torn /\ \A s \in Slots : usb.at[s] = "none"
  /\ op.stage \in {"abandon", "ended"} => \A s \in Slots : usb.at[s] = "none"

\* The session is usable, and the operation may still use it.
InOrder == op.stage \in Exchanging \cup {"close"} /\ Live

IsReply(m) == m.command # "notification"

\* The four places a request or its reply can be.
Going == usb.at["out"] = "pending" /\ usb.req.command \notin {"none", "enable"}

Queued == sep.inbox # <<>>

Coming == \E i \in 1..Len(sep.outbox) : IsReply(sep.outbox[i])

Landed == (usb.at["in"] = "done" \/ urb.slot["in"] = "reaped") /\ IsReply(usb.msg)

Answers(m) == m.endpoint = Endpoint(Command) /\ m.command = Command /\ m.id = Id

\* While the session can be used, whatever is under way belongs to the command
\* whose reply is awaited, and it is in one place.
OneExchange ==
  InOrder =>
    /\ Going \/ Queued \/ Coming \/ Landed => Awaiting
    /\ Going => usb.req = Request
    /\ Queued => sep.inbox = <<Request>>
    /\ \A i \in 1..Len(sep.outbox) : IsReply(sep.outbox[i]) => Answers(sep.outbox[i])
    /\ Landed => Answers(usb.msg)
    /\ \A i, j \in 1..Len(sep.outbox) : IsReply(sep.outbox[i]) /\ IsReply(sep.outbox[j]) => i = j
    /\ Going => ~Queued /\ ~Coming /\ ~Landed
    /\ Queued => ~Coming /\ ~Landed
    /\ Coming => ~Landed

\* The reply on its way, if it is for a command the SEP carried out.
Done(m) == IsReply(m) /\ m.status # "remote"

CarriedOut ==
  \/ \E i \in 1..Len(sep.outbox) : Done(sep.outbox[i])
  \/ Landed /\ Done(usb.msg)

\* The credential manager's state against the SEP's context.
Context ==
  /\ InOrder =>
       /\ acm.phase # "failed"
       /\ acm.pending <=> Awaiting /\ Endpoint(Command) = "acm"
       /\ Awaiting /\ Command = "initialize" => acm.phase = "new"
       /\ Awaiting /\ Command = "create" => acm.phase = "ready"
       /\ Awaiting /\ Command = "delete" => acm.phase = "active"
       /\ sep.context => acm.phase = "active" \/ (Awaiting /\ Command = "create" /\ CarriedOut)
       /\ Awaiting /\ Command = "delete" /\ CarriedOut => ~sep.context
  /\ ~InOrder /\ sep.context => acm.phase \in {"active", "failed"} \/ op.stage \in Torn

\* A creation that may still reach the SEP after its session broke is reported.
CreationUnderWay ==
  \/ Going /\ usb.req.command = "create"
  \/ \E i \in 1..Len(sep.inbox) : sep.inbox[i].command = "create"

BrokenIsReported ==
  /\ op.stage \notin Exchanging /\ CreationUnderWay => op.result = "error" /\ acm.phase = "failed"
  /\ op.stage = "close" /\ acm.phase = "failed" => op.result = "error"
  /\ op.stage \in {"destroy"} \cup Torn /\ sep.context => ~op.clean \/ op.result \notin {"ok", "cancelled"}
  /\ op.stage = "close" /\ sep.context => acm.phase = "active" \/ op.result = "error"
  /\ op.closing /\ op.stage = "ready" /\ ~op.refused => ~sep.context
  /\ op.stage = "ended" /\ op.result \in {"ok", "cancelled"} => op.clean

\* Until the teardown, the credential manager's state accounts for a context
\* the SEP holds: active, or a command pending, or failed because a command's
\* outcome is unknown.  It is never mistaken for one that was not created.
ContextIsTracked ==
  sep.context /\ op.stage \notin {"closefd", "abandon", "ended"} =>
    acm.phase \in {"active", "failed"} \/ acm.pending

\* An operation that reports success, or a mere cancellation, has left no
\* authorization context behind in the SEP.
SuccessLeavesNoContext ==
  op.stage = "ended" /\ op.result \in {"ok", "cancelled"} => ~sep.context

\* All of it: the invariant the proofs are by.
SepInv ==
  /\ TypeOK /\ Progress /\ UrbsTracked /\ OneExchange /\ Context /\ BrokenIsReported
  /\ matched[1] = matched[2]

\* Every reply the session hands to a caller answers the request that caller
\* made.  sep_relay_matches compares no token, and every ACM reply matches
\* every ACM request, so this rests on the session being poisoned by the first
\* exchange whose reply did not arrive.  The context the replies are about is
\* accounted for until the end.
ReplyAnswersRequest ==
  /\ SepInv
  /\ matched[1] = matched[2] /\ ContextIsTracked /\ SuccessLeavesNoContext

\* A slot the library thinks idle is not with the kernel, so that no buffer is
\* filled with a new request while an old transfer still uses it.
IdleSlotIsOurs ==
  memory = "held" =>
    \A s \in Slots : urb.slot[s] # "submitted" => usb.at[s] = "none"

\* The kernel never holds an URB whose buffer has been freed: a cleanup that
\* could not reap it leaves the buffers to abandon_after_close.  And it holds
\* none that the library thinks idle.
BuffersOutliveUrbs ==
  /\ TypeOK /\ IdleSlotIsOurs
  /\ (\E s \in Slots : usb.at[s] # "none") => memory = "held"
=============================================================================
