-------------------------- MODULE BridgeOperation --------------------------
(***************************************************************************)
(* One biometric operation over a BridgeXPC connection to the T1           *)
(* (crates/t1-bridge/src): session and request ids (session.rs,            *)
(* control.rs, rpc.rs), callbacks and deadline (live_operation.rs), the    *)
(* policy, user, match and enrollment workflows, and the products that     *)
(* chain them (t1-daemons: auth_operation.rs, enrollment_transaction.rs,   *)
(* catacomb_restore.rs, live_standard_fingerprint.rs).                     *)
(*                                                                         *)
(* The host is one thread that makes one call at a time; the T1 answers    *)
(* late, answers with a failure, or not at all, and sends callbacks of     *)
(* its own at any time.  The pair of files is seen from above: Paired is   *)
(* what loading it makes live.                                             *)
(***************************************************************************)
EXTENDS Naturals, Sequences, FiniteSets

CONSTANTS
    Products,     \* among "direct", "standard", "enroll"
    Fingers,      \* identities; loading the pair makes Paired live
    Paired,
    BusyRetries,  \* Len(USER_POLICY_BUSY_RETRY_DELAYS)
    MaxBusy,      \* EBUSY answers of the T1
    MaxFails,     \* failed, lost or torn answers, and lost links
    MaxEvents     \* callbacks sent


VARIABLES
    h,          \* the host's worker
    toT1,       \* requests on the way
    toHost,     \* frames on the way
    link,       \* "up" or "down"
    t1,         \* the T1
    cancelled,  \* the operation's cancellation flag
    first       \* history: policy and live identities at the beginning

vars == <<h, toT1, toHost, link, t1, cancelled, first>>

Policy == [touch : {0, 1}, pay : {0, 1}]     \* a user's protected configuration
Matching == {"direct", "standard"}

\* The command each step of a product sends.
Command ==
    [version |-> "version", serial |-> "serial", info |-> "info",
     load |-> "load", reinfo |-> "info",
     uread |-> "uread", uwrite |-> "uwrite", uback |-> "uread",
     live |-> "list", master |-> "master", rstates |-> "states",
     loadmaster |-> "loadmaster", mstates |-> "states",
     loaduser |-> "loaduser", ustates |-> "states", list |-> "list",
     lock |-> "lock",
     select |-> "select", estates |-> "states", elist |-> "list",
     check |-> "states", empty |-> "list", remove |-> "remove",
     unselect |-> "master", nstates |-> "states", reselect |-> "select",
     pstates |-> "states", relist |-> "list", recheck |-> "states",
     sread |-> "sread", swrite |-> "swrite", sback |-> "sread",
     start |-> "start", enroll |-> "enroll", continue |-> "continue",
     verify |-> "list", cancel |-> "cancel"]

Calls == DOMAIN Command

Idle(product, pass) ==
    [product |-> product, pass |-> pass, pc |-> "hello", id |-> 0,
     events |-> <<>>, ids |-> {}, want |-> [touch |-> 0, pay |-> 0],
     busy |-> 0, exact |-> FALSE, restored |-> FALSE, accepted |-> FALSE,
     new |-> "none", out |-> "none", expired |-> FALSE, torn |-> FALSE,
     why |-> "none"]

Init ==
    /\ \E p \in Products : h = Idle(p, 1)
    /\ toT1 = <<>> /\ link = "up"
    /\ toHost = <<[kind |-> "hello", id |-> 0]>>
    /\ \E ids \in {{}, Paired}, pol \in Policy, lag, sec, cal \in BOOLEAN :
          /\ sec => h.product = "enroll"      \* matching does not look at it
          /\ t1 = [op |-> "idle", ids |-> ids, secure |-> sec, master |-> ids # {},
                   cal |-> cal, sys |-> FALSE, pol |-> pol,
                   eff |-> IF lag THEN [touch |-> 0, pay |-> 0] ELSE pol,
                   said |-> {}, busy |-> 0, fails |-> 0, sent |-> 0]
    /\ cancelled = FALSE
    /\ first = [pol |-> t1.pol, ids |-> t1.ids]

-----------------------------------------------------------------------------
(* The host.  A step ends by sending the command of the place it reaches.  *)

\* The worker g, now with its next request sent.
Send(g) ==
    /\ h' = [g EXCEPT !.id = IF g.pc \in Calls THEN @ + 1 ELSE @]
    /\ toT1' = IF g.pc \in Calls /\ link = "up"
               THEN Append(toT1, [id |-> g.id + 1, cmd |-> Command[g.pc], arg |-> g.want])
               ELSE toT1

At(g, pc) == [g EXCEPT !.pc = pc]

\* The end of an operation: a cancellation overrides what the direct product
\* found, and what the standard one failed with.
Finish(g, out) ==
    [g EXCEPT !.pc = "done",
       !.out = IF cancelled /\ ( \/ g.product = "direct" /\ out # "error"
                                 \/ g.product = "standard" /\ out = "error" )
               THEN "cancelled" ELSE out]

\* Started work is cancelled on every failure; earlier failures just end.
Fail(g, why) ==
    LET e == [g EXCEPT !.why = why]
    IN  IF g.pc \in {"start", "enroll", "continue", "verify", "wait"}
        THEN [e EXCEPT !.pc = "cancel", !.out = "error"]
        ELSE Finish(e, "error")

\* The wait is over with an outcome: the T1's operation is cancelled first.
Conclude(g, out) == [g EXCEPT !.pc = "cancel", !.out = out]

\* The identities are live: matching starts, except in the standard product
\* after a restore, which takes a fresh lease, once.
Prepared(g) ==
    IF g.restored /\ g.product = "standard"
    THEN IF g.pass = 1 THEN At(g, "relink") ELSE Finish(g, "error")
    ELSE [g EXCEPT !.pc = "start"]

\* verify_user_readback.
Readback(g, see) == see.pol = g.want /\ (g.exact => see.eff = g.want)

\* UserPolicyRetry::observe.
Observe(g, status) ==
    CASE status \in {"ok", "timeout"} -> [g EXCEPT !.pc = "uback", !.accepted = TRUE]
      [] status = "busy" /\ g.busy < BusyRetries -> [g EXCEPT !.busy = @ + 1]
      [] status = "busy" -> [g EXCEPT !.pc = "uback", !.exact = TRUE]
      [] OTHER -> Fail(g, "status")

\* The values to submit: matching repeats those it read, enrollment turns
\* Touch ID on and keeps the payment value.
Requested(g, see) ==
    IF g.product \in Matching THEN see.pol ELSE [touch |-> 1, pay |-> see.pol.pay]

\* enable_user_touch_id writes nothing when Touch ID is on already.
ReadPolicy(g, see) ==
    IF g.product \in Matching \/ see.pol.touch = 0
    THEN [g EXCEPT !.pc = "uwrite", !.want = Requested(g, see)]
    ELSE [g EXCEPT !.pc = "enroll", !.accepted = TRUE]

\* restore_pair: live identities end it, otherwise master, user, identities
\* and lock state are loaded and checked in turn.
Restore(g, see) ==
    CASE g.pc = "live" /\ see.ids # {} -> Prepared([g EXCEPT !.ids = see.ids])
      [] g.pc = "live" -> At(g, "master")
      [] g.pc = "master" -> At(g, "rstates")
      [] g.pc = "rstates" -> At(g, "loadmaster")
      [] g.pc = "loadmaster" -> At(g, "mstates")
      [] g.pc = "mstates" -> IF see.master THEN At(g, "loaduser") ELSE Fail(g, "restore")
      [] g.pc = "loaduser" -> At(g, "ustates")
      [] g.pc = "ustates" -> IF see.secure THEN At(g, "list") ELSE Fail(g, "restore")
      [] g.pc = "list" -> IF see.ids # {} THEN [g EXCEPT !.pc = "lock", !.ids = see.ids]
                          ELSE Fail(g, "restore")
      [] g.pc = "lock" -> Prepared([g EXCEPT !.restored = TRUE])

\* rebind_empty_user, and prepare_user at its end.
Rebind(g, see) ==
    CASE g.pc = "empty" -> IF see.ids = {} THEN At(g, "remove") ELSE Fail(g, "rebind")
      [] g.pc = "remove" -> At(g, "unselect")
      [] g.pc = "unselect" -> At(g, "nstates")
      [] g.pc = "nstates" -> At(g, "reselect")
      [] g.pc = "reselect" -> At(g, "pstates")
      [] g.pc = "pstates" -> At(g, "relist")
      [] g.pc = "relist" -> [g EXCEPT !.pc = "recheck", !.ids = see.ids]

\* run_reserved_enrollment up to the policies: a user that is not securely
\* loaded is bound again, once.
PrepareEnrollment(g, see) ==
    CASE g.pc = "select" -> At(g, "estates")
      [] g.pc = "estates" -> At(g, "elist")
      [] g.pc = "elist" -> [g EXCEPT !.pc = "check", !.ids = see.ids]
      [] g.pc = "check" -> At(g, IF see.secure THEN "sread" ELSE "empty")
      [] g.pc = "recheck" -> IF see.secure THEN At(g, "sread") ELSE Fail(g, "secure")

\* enable_system_touch_id.
SystemPolicy(g, see) ==
    CASE g.pc = "sread" -> At(g, IF see.sys THEN "uread" ELSE "swrite")
      [] g.pc = "swrite" -> At(g, "sback")
      [] g.pc = "sback" -> IF see.sys THEN At(g, "uread") ELSE Fail(g, "system")

\* select_client_version and ensure_fdr_calibration_loaded.
Prepare(g, see) ==
    CASE g.pc = "version" -> At(g, "serial")
      [] g.pc = "serial" -> At(g, "info")
      [] g.pc = "info" -> At(g, IF see.cal THEN "reinfo" ELSE "load")
      [] g.pc = "load" -> At(g, "reinfo")
      [] g.pc = "reinfo" -> IF ~see.cal THEN Fail(g, "calibration")
                            ELSE IF g.product = "direct" /\ cancelled
                            THEN Finish(g, "cancelled")
                            ELSE At(g, IF g.product \in Matching THEN "uread" ELSE "select")

\* verify_fresh_identity: a completed enrollment is looked up before it counts.
VerifyFresh(g, see) ==
    IF g.new \in see.ids THEN Finish(g, "completed") ELSE Fail(g, "absent")

\* What the host does with a successful answer.
Answered(g, see) ==
    CASE g.pc \in {"version", "serial", "info", "load", "reinfo"} -> Prepare(g, see)
      [] g.pc = "uread" -> ReadPolicy(g, see)
      [] g.pc = "uback" ->
            IF ~Readback(g, see) THEN Fail(g, "readback")
            ELSE At(g, IF g.product \in Matching THEN "live" ELSE "enroll")
      [] g.pc \in {"live", "master", "rstates", "loadmaster", "mstates", "loaduser",
                   "ustates", "list", "lock"} -> Restore(g, see)
      [] g.pc \in {"select", "estates", "elist", "check", "recheck"} ->
            PrepareEnrollment(g, see)
      [] g.pc \in {"empty", "remove", "unselect", "nstates", "reselect", "pstates",
                   "relist"} -> Rebind(g, see)
      [] g.pc \in {"sread", "swrite", "sback"} -> SystemPolicy(g, see)
      [] g.pc \in {"start", "enroll", "continue"} -> At(g, "wait")
      [] g.pc = "verify" -> VerifyFresh(g, see)
      [] g.pc = "cancel" -> Finish(g, g.out)

\* A call that got no answer, or a failed one.
CallFailed(g, why) == IF g.pc = "cancel" THEN Finish(g, "error") ELSE Fail(g, why)

OwnReply(g, f) == f.id = g.id

\* acknowledge_request: a callback that arrives during a call is kept.
Acknowledge(g, f) == [g EXCEPT !.events = Append(@, f.event)]

\* BridgeXpcSession::call: other frames and other answers are passed over,
\* requests of the T1 are acknowledged and kept.
Receive ==
    /\ h.pc \in Calls /\ toHost # <<>>
    /\ LET f == Head(toHost)
           mine == f.kind = "reply" /\ OwnReply(h, f)
       IN  \/ /\ h.torn
              /\ Send(CallFailed(h, "torn"))
           \/ /\ ~h.torn /\ f.kind = "event"
              /\ h' = Acknowledge(h, f)
              /\ UNCHANGED toT1
           \/ /\ ~h.torn /\ mine
              /\ Send(CASE h.pc = "uwrite" -> Observe(h, f.status)
                        [] f.status = "ok" -> Answered(h, f.see)
                        [] OTHER -> CallFailed(h, "status"))
           \/ /\ ~h.torn /\ f.kind # "event" /\ ~mine
              /\ UNCHANGED <<h, toT1>>
    /\ toHost' = Tail(toHost)
    /\ UNCHANGED <<link, t1, cancelled, first>>

\* The socket timeout, possibly in the middle of a frame; a wait for callbacks
\* begins to read only when there is something to read.
CallTimesOut ==
    /\ h.pc \in Calls \union {"hello", "wait"} /\ toHost = <<>> /\ link = "up"
    /\ \E torn \in BOOLEAN :
          /\ h.pc = "wait" => torn /\ ~h.expired /\ ~cancelled /\ h.events = <<>>
          /\ Send(CallFailed([h EXCEPT !.torn = torn], "timeout"))
    /\ UNCHANGED <<toHost, link, t1, cancelled, first>>

\* ConnectionClosed, or an error of the socket.
LinkLost ==
    /\ h.pc \in Calls \union {"hello", "wait"} /\ toHost = <<>> /\ link = "down"
    /\ Send(CallFailed(h, "closed"))
    /\ UNCHANGED <<toHost, link, t1, cancelled, first>>

\* connect: the peer speaks first.
Hello ==
    /\ h.pc = "hello" /\ toHost # <<>>
    /\ Send(At(h, "version"))
    /\ toHost' = Tail(toHost)
    /\ UNCHANGED <<link, t1, cancelled, first>>

\* Accepts the T1's word for the identity.
EvaluateAny(g, e) == Conclude(g, IF e.k = "matched" THEN "matched" ELSE "nomatch")

\* evaluate_matched_identity against the identities read before the start.
Evaluate(g, e) ==
    Conclude(g, IF e.k = "matched" /\ e.f \in g.ids THEN "matched" ELSE "nomatch")

\* wait_for_outcome, on one callback.
HandleMatch(g, e) ==
    CASE e.k = "bad" -> Fail(g, "mesa")
      [] e.k \in {"matched", "nomatch"} -> Evaluate(g, e)
      [] OTHER -> g

\* wait_for_completion, on one callback.
HandleEnrollment(g, e) ==
    CASE e.k = "bad" -> Fail(g, "mesa")
      [] e.k = "progress" -> At(g, "continue")
      [] e.k = "completed" -> [g EXCEPT !.pc = "verify", !.new = e.f]
      [] OTHER -> g

Handle(g, e) ==
    IF g.product \in Matching THEN HandleMatch(g, e) ELSE HandleEnrollment(g, e)

\* An enrollment is told of a cancellation as of a timeout.
StopOutcome(g) == IF g.product = "enroll" THEN "timedout" ELSE "cancelled"

\* next_decision without reading: cancellation, then callbacks kept from
\* earlier calls, then the deadline.
Decide ==
    /\ h.pc = "wait"
    /\ \/ cancelled /\ Send(Conclude(h, StopOutcome(h)))
       \/ /\ ~cancelled /\ h.events # <<>>
          /\ Send(Handle([h EXCEPT !.events = Tail(@)], Head(h.events)))
       \/ ~cancelled /\ h.events = <<>> /\ h.expired /\ Send(Conclude(h, "timedout"))
    /\ UNCHANGED <<toHost, link, t1, cancelled, first>>

\* service_inbound_request: a readable socket before the deadline.  The flag
\* is looked at again after the read.
ServiceInbound ==
    /\ h.pc = "wait" /\ h.events = <<>> /\ ~h.expired /\ toHost # <<>>
    /\ LET f == Head(toHost)
       IN  Send(CASE h.torn -> Fail(h, "torn")
                  [] f.kind = "reply" -> Fail(h, "unsolicited")
                  [] cancelled -> Conclude(h, StopOutcome(h))
                  [] f.kind = "event" -> Handle(h, f.event)
                  [] OTHER -> h)
    /\ toHost' = Tail(toHost)
    /\ UNCHANGED <<link, t1, cancelled, first>>

DeadlinePasses ==
    /\ h.pc = "wait" /\ ~h.expired
    /\ h' = [h EXCEPT !.expired = TRUE]
    /\ UNCHANGED <<toT1, toHost, link, t1, cancelled, first>>

\* complete_match_after_restore: the lease is given back and a second one,
\* with a connection of its own, is taken.
SecondLease ==
    /\ h.pc = "relink"
    /\ h' = IF cancelled THEN Finish(h, "error") ELSE Idle(h.product, 2)
    /\ toT1' = <<>> /\ toHost' = <<[kind |-> "hello", id |-> 0]>> /\ link' = "up"
    /\ UNCHANGED <<t1, cancelled, first>>

Host ==
    \/ Receive \/ CallTimesOut \/ LinkLost \/ Hello \/ Decide \/ ServiceInbound
    \/ SecondLease

-----------------------------------------------------------------------------
(* The client and the monitor thread.                                      *)

Cancel ==
    /\ ~cancelled /\ h.pc # "done" /\ cancelled' = TRUE
    /\ UNCHANGED <<h, toT1, toHost, link, t1, first>>

\* The standard monitor shuts the connection down.
Interrupt ==
    /\ cancelled /\ h.product = "standard" /\ link = "up" /\ h.pc # "done"
    /\ link' = "down"
    /\ UNCHANGED <<h, toT1, toHost, t1, cancelled, first>>

-----------------------------------------------------------------------------
(* The T1.                                                                 *)

\* What a command does when it is carried out.
Effect(c) ==
    CASE c.cmd = "load" -> [t1 EXCEPT !.cal = TRUE]
      [] c.cmd = "uwrite" -> [t1 EXCEPT !.pol = c.arg]
      [] c.cmd = "loadmaster" -> [t1 EXCEPT !.master = TRUE]
      [] c.cmd = "loaduser" -> [t1 EXCEPT !.ids = Paired, !.secure = TRUE]
      [] c.cmd = "remove" -> [t1 EXCEPT !.ids = {}, !.secure = FALSE]
      [] c.cmd = "select" -> [t1 EXCEPT !.secure = @ \/ t1.ids = {}]
      [] c.cmd = "swrite" -> [t1 EXCEPT !.sys = TRUE]
      [] c.cmd = "start" -> [t1 EXCEPT !.op = "match", !.said = {}]
      [] c.cmd = "enroll" -> [t1 EXCEPT !.op = "enroll"]
      [] c.cmd = "continue" /\ t1.op = "paused" -> [t1 EXCEPT !.op = "enroll"]
      [] c.cmd = "cancel" -> [t1 EXCEPT !.op = "idle"]
      [] OTHER -> t1

Reply(c, status, t) ==
    toHost' = Append(toHost,
        [kind |-> "reply", id |-> c.id, status |-> status,
         see |-> [ids |-> t.ids, secure |-> t.secure, master |-> t.master,
                  cal |-> t.cal, sys |-> t.sys, pol |-> t.pol, eff |-> t.eff]])

\* The next request is carried out, refused, found busy, or carried out with
\* a failure reported.
Serve ==
    /\ toT1 # <<>> /\ link = "up"
    /\ LET c == Head(toT1)
       IN  \/ /\ t1' = Effect(c) /\ Reply(c, "ok", Effect(c))
           \/ /\ c.cmd = "uwrite" /\ t1.busy < MaxBusy
              /\ t1' = [t1 EXCEPT !.busy = @ + 1] /\ Reply(c, "busy", t1)
           \/ /\ t1.fails < MaxFails
              /\ \E t \in {t1, Effect(c)}, s \in {"fail", "timeout"} :
                    /\ t1' = [t EXCEPT !.fails = @ + 1]
                    /\ Reply(c, s, t)
    /\ toT1' = Tail(toT1)
    /\ UNCHANGED <<h, link, cancelled, first>>

\* A callback of the running operation, or one about something else.
Callback ==
    /\ link = "up" /\ t1.sent < MaxEvents /\ h.pc \notin {"hello", "done"}
    /\ \E e \in [k : {"matched", "nomatch", "progress", "completed", "other", "bad"},
                 f : Fingers \union {"none"}] :
          /\ e.k \in {"matched", "completed"} <=> e.f # "none"
          /\ e.k = "matched" => t1.op = "match"
          /\ e.k = "nomatch" => t1.op = "match"
          /\ e.k = "progress" => t1.op = "enroll"
          /\ e.k = "completed" => t1.op = "enroll" /\ e.f \notin t1.ids
          /\ e.k = "bad" => t1.fails < MaxFails
          /\ t1' = [t1 EXCEPT !.sent = @ + 1,
                      !.said = IF e.k = "matched" THEN @ \union {e.f} ELSE @,
                      !.ids = IF e.k = "completed" THEN @ \union {e.f} ELSE @,
                      !.fails = IF e.k = "bad" THEN @ + 1 ELSE @,
                      !.op = IF e.k = "completed" THEN "idle"
                             ELSE IF e.k = "progress" THEN "paused" ELSE @]
          /\ toHost' = Append(toHost, [kind |-> "event", id |-> 0, event |-> e])
    /\ UNCHANGED <<h, toT1, link, cancelled, first>>

\* The submitted policy takes effect.
Settle ==
    /\ t1.eff # t1.pol /\ t1' = [t1 EXCEPT !.eff = t1.pol]
    /\ UNCHANGED <<h, toT1, toHost, link, cancelled, first>>

\* The connection breaks; requests on the way are lost.
Break ==
    /\ link = "up" /\ t1.fails < MaxFails /\ h.pc # "done"
    /\ link' = "down" /\ toT1' = <<>>
    /\ t1' = [t1 EXCEPT !.fails = @ + 1]
    /\ UNCHANGED <<h, toHost, cancelled, first>>

Environment == Cancel \/ Interrupt \/ Serve \/ Callback \/ Settle \/ Break

Next == Host \/ DeadlinePasses \/ Environment

Spec == Init /\ [][Next]_vars


-----------------------------------------------------------------------------
Outcomes == {"none", "error", "cancelled", "timedout", "matched", "nomatch", "completed"}

TypeOK ==
    /\ h.pc \in Calls \union {"hello", "wait", "relink", "done"}
    /\ h.out \in Outcomes /\ h.ids \subseteq Fingers /\ h.busy \in 0..BusyRetries
    /\ t1.op \in {"idle", "match", "enroll", "paused"} /\ t1.pol \in Policy
    /\ link \in {"up", "down"}

\* A finished operation with an outcome leaves no sensor work running on the
\* T1, also when a callback crossed the cancel.  (The standard product's
\* cancellation closes the connection instead.)
SensorReleased ==
    h.pc = "done" /\ h.out \notin {"error", "none"}
        /\ (h.out = "cancelled" => h.product = "direct")
    => t1.op = "idle"

\* A match was reported by the T1 during this operation, for an identity the
\* host had read as live.
MatchedTruth == h.out = "matched" => \E f \in h.ids : f \in t1.said

\* Matching changes no policy; enrollment turns Touch ID on and nothing else.
PolicyKept ==
    \/ t1.pol = first.pol
    \/ h.product = "enroll" /\ t1.pol = [touch |-> 1, pay |-> first.pol.pay]

\* The sensor is started only when the T1 took this lease's policy update, or,
\* busy to the end, was seen to have it in effect.
PolicyInForce ==
    h.pc \in {"start", "enroll", "wait"} => h.accepted \/ t1.eff = h.want

\* A T1 that answers only what it was asked, however late, is never taken
\* for one that sends answers unasked.
NoFalseAlarm == h.why # "unsolicited"

=============================================================================
