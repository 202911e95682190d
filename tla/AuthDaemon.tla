------------------------------ MODULE AuthDaemon ------------------------------
(***************************************************************************)
(* The broker process (auth_daemon.rs): one event-loop thread that accepts *)
(* direct and standard clients, admits at most one operation through       *)
(* BrokerAuthority, and one worker thread that reports over a channel of   *)
(* capacity one.  A step of the loop is one call run_event_loop makes, or  *)
(* one connection of a call that walks a list, so the worker acts between  *)
(* any two of them; a call with nothing to do is skipped.                  *)
(* Clients, signals and clocks are seen only through the calls that read   *)
(* them, so each is a choice of what that call returns: a connection is    *)
(* there to accept or not; a receive finds nothing, a packet, or a closed  *)
(* peer; a send succeeds, would block or fails; a deadline has passed.     *)
(***************************************************************************)
EXTENDS BrokerAuthority

CONSTANTS
  Direct,       \* slots for connections to /run/t1-touchid/auth.sock
  Standard,     \* slots for connections to /run/t1bridge/fingerprint.sock
  MaxProgress,  \* progress events of one enrollment
  Reports       \* results a worker reports

ASSUME SlotsAssumption == Direct \cap Standard = {}
ASSUME MaxProgressAssumption == MaxProgress \in Nat
ASSUME ReportsAssumption == Reports \subseteq DirectResults \cup StandardResults

Connections == Direct \cup Standard
Peers == {"root", "owner", "other"}
KindOf(req) == IF req = "Enroll" THEN "Enrollment" ELSE "Authenticate"
Requests == {"Cancel", "Malformed"} \cup {r \in {"Authenticate", "Enroll"} : KindOf(r) \in Kinds}
Packets == {"Open", "GetCapabilities", "Cancel", "Malformed"} \cup (Kinds \cap StandardKinds)
Policies == {"owner", "missing", "unreadable"}   \* EnrollmentOwnerStore::access_policy
Targets == {"owner", "other", "unresolved"}      \* the account a packet's user name names

VARIABLES
  pc,        \* the event loop's next call
  todo,      \* connections the current walk has not visited yet
  exit,      \* run_event_loop's result
  stopping,  \* shutdown_deadline is set
  run,       \* the ActiveRun: its connection, token and disconnect_observed
  direct,    \* each direct connection
  standard,  \* each standard connection
  thread,    \* the worker thread
  chan,      \* its sync_channel(1)
  mine       \* the token each connection's request started or cancelled,
             \* and what that operation's worker reported

loopVars == <<pc, todo, exit, stopping, run>>
connVars == <<direct, standard, mine>>
threadVars == <<thread, chan>>
vars == <<authorityVars, loopVars, connVars, threadVars>>

NoRun == [conn |-> "none", token |-> None, gone |-> FALSE]
NoThread == [st |-> "none", progress |-> 0, report |-> "none"]
NoClaim == [token |-> None, report |-> "none"]

(* st: "free", accepted and "pending", set aside for the "active" run, or   *)
(* (direct) in the "replies" list.  timed: the request deadline is set;     *)
(* heard: a reply was sent, and may lie unread when the client closes.      *)
FreeDirect == [st |-> "free", req |-> "none", reply |-> "none"]
FreeStandard ==
  [st |-> "free", opened |-> FALSE, timed |-> TRUE, heard |-> FALSE, out |-> "none"]

Init ==
  /\ AuthorityInit
  /\ pc = "top" /\ todo = {} /\ exit = "none" /\ stopping = FALSE /\ run = NoRun
  /\ direct = [c \in Direct |-> FreeDirect]
  /\ standard = [c \in Standard |-> FreeStandard]
  /\ thread = NoThread /\ chan = "empty"
  /\ mine = [c \in Connections |-> NoClaim]

DirectIn(st) == {c \in Direct : direct[c].st = st}
StandardIn(st) == {c \in Standard : standard[c].st = st}
HasReply(c) == standard[c].out # "none"
Running == run # NoRun
RunIs(conns) == Running /\ run.conn \in conns

-----------------------------------------------------------------------------
(* The worker thread: it runs while its token is the run's. *)

Mutating == {"Enrollment", "Enroll", "DeleteIdentity"}

Working(st) ==
  /\ exit = "none" /\ thread.st = st
  /\ UNCHANGED <<loopVars, connVars>>

(* A progress callback: the bounded send blocks while the channel is full. *)
WorkerProgress ==
  /\ Working("running") /\ UNCHANGED authorityVars
  /\ kindOf[run.token] = "Enroll" /\ thread.progress < MaxProgress
  /\ chan = "empty" /\ chan' = "progress"
  /\ thread' = [thread EXCEPT !.progress = @ + 1]

WorkerCutoff ==
  /\ Working("running") /\ UNCHANGED threadVars
  /\ kindOf[run.token] \in Mutating
  /\ CloseCancellation(run.token)

(* BrokerWorker::run returns. *)
WorkerReport(r) ==
  /\ Working("running") /\ UNCHANGED <<authorityVars, chan>>
  /\ r \in Results(kindOf[run.token])
  /\ thread' = [thread EXCEPT !.st = "reporting", !.report = r]

WorkerSend ==
  /\ Working("reporting") /\ UNCHANGED authorityVars
  /\ chan = "empty" /\ chan' = "completion"
  /\ thread' = [thread EXCEPT !.st = "sent"]

WorkerFinish ==
  /\ Working("sent") /\ UNCHANGED <<authorityVars, chan>>
  /\ thread' = [thread EXCEPT !.st = "finished"]

(* The worker panics: its sender is dropped and no completion is sent. *)
WorkerPanic ==
  /\ Working("running") /\ UNCHANGED <<authorityVars, chan>>
  /\ thread' = [thread EXCEPT !.st = "finished"]

-----------------------------------------------------------------------------
(* Which call of the tick is next: the first that has something to do. *)

Flushable == {c \in StandardIn("pending") : HasReply(c)}
Flushing == RunIs(Standard) /\ ~run.gone /\ HasReply(run.conn)
Pollable == Running /\ (run.conn \in Standard => ~HasReply(run.conn))

ToEnd == IF stopping THEN "end" ELSE "top"
ToFlushDirect == IF DirectIn("replies") # {} THEN "flushDirect" ELSE ToEnd
ToPoll == IF Pollable THEN "poll" ELSE ToFlushDirect
ToFlushActive == IF Flushing THEN "flushActive" ELSE ToPoll
ToFlushStandard == IF Flushable # {} THEN "flushStandard" ELSE ToFlushActive
ToWatch == IF Running /\ ~run.gone THEN "watch" ELSE "decide"
ToWalk == IF todo # {} THEN "walk" ELSE ToWatch

At(call) == exit = "none" /\ pc = call
Go(call) == pc' = call /\ UNCHANGED exit
Exit(result) == exit' = result /\ pc' = "done"

Cancellable(t) == Owns(t) /\ active.token = t /\ slot = t
TryCancelMarking(t) ==
  /\ active' = [active EXCEPT !.cancelled = TRUE]
  /\ UNCHANGED <<nextToken, slot, event, worker, nextLease, poisoned, leaseOf, kindOf,
                 acked, cutoff, answer>>

TryCancel(t) == IF Cancellable(t) THEN CancelExact(t) ELSE UNCHANGED authorityVars

FreedDirect(gone) == [c \in Direct |-> IF c \in gone THEN FreeDirect ELSE direct[c]]
FreedStandard(gone) == [c \in Standard |-> IF c \in gone THEN FreeStandard ELSE standard[c]]
Forget(gone) == mine' = [c \in Connections |-> IF c \in gone THEN NoClaim ELSE mine[c]]

(* The first tick after a signal drops every waiting connection and cancels *)
(* the active operation; from then on nothing is accepted.                  *)
Top(signal) ==
  LET first == signal /\ ~stopping
      dropped == DirectIn("pending") \cup StandardIn("pending")
  IN /\ At("top")
     /\ stopping' = (stopping \/ signal)
     /\ IF first
        THEN /\ direct' = FreedDirect(dropped) /\ standard' = FreedStandard(dropped)
             /\ Forget(dropped)
             /\ IF Running THEN TryCancel(run.token) ELSE UNCHANGED authorityVars
        ELSE UNCHANGED <<connVars, authorityVars>>
     /\ UNCHANGED <<todo, run, threadVars>>
     /\ Go(IF stopping' THEN ToWatch' ELSE "accept")

(* accept_connections, accept_standard_connections: the clients in new were *)
(* waiting on the listeners.                                                *)
Accept(new) ==
  /\ At("accept") /\ new \subseteq DirectIn("free") \cup StandardIn("free")
  /\ direct' = [c \in Direct |->
       IF c \in new THEN [FreeDirect EXCEPT !.st = "pending"] ELSE direct[c]]
  /\ standard' = [c \in Standard |->
       IF c \in new THEN [FreeStandard EXCEPT !.st = "pending"] ELSE standard[c]]
  /\ todo' = DirectIn("pending")' \cup StandardIn("pending")'
  /\ UNCHANGED <<authorityVars, stopping, run, mine, threadVars>>
  /\ Go(ToWalk')

-----------------------------------------------------------------------------
(* Requests. *)

(* dispatch_connection and handle_packet: the peer is checked against the   *)
(* owner policy before its packet is read.                                  *)
DirectVerdict(peer, policy, req) ==
  CASE policy = "owner" /\ peer = "other" -> "DENY"
    [] policy = "unreadable" /\ peer # "root" -> "FAIL"
    [] OTHER ->
       CASE req \in {"none", "closed"} -> req
         [] req = "Malformed" -> "DENY"
         [] req = "Cancel" -> IF peer = "root" THEN "cancel" ELSE "DENY"
         [] req = "Enroll" -> IF peer = "root" THEN "DENY" ELSE "start"
         [] req = "Authenticate" -> IF policy = "owner" THEN "start" ELSE "FAIL"

(* What a direct connection's turn can bring: the verdict, and the request  *)
(* it grants.  "closed" is a closed peer, a failed receive or a request     *)
(* deadline.                                                                *)
DirectOutcomes ==
  LET verdicts == {<<DirectVerdict(peer, policy, req), req>> :
                     peer \in Peers, policy \in Policies, req \in Requests \cup {"none", "closed"}}
  IN {<<v[1], IF v[1] \in {"start", "cancel"} THEN v[2] ELSE "none">> : v \in verdicts}

(* A walk admits an operation of kind k; handing it to a worker is next. *)
Start(c, k) ==
  /\ Admit(k, TRUE)
  /\ run' = [conn |-> c, token |-> nextToken, gone |-> FALSE]
  /\ mine' = [mine EXCEPT ![c].token = nextToken]
  /\ UNCHANGED <<stopping, threadVars>>
  /\ Go("spawn")

CanStart == active = NoOperation /\ nextToken # None

(* One connection of process_connections. *)
ProcessDirect(c, verdict, req) ==
  LET starts == verdict = "start" /\ CanStart
      cancels == verdict = "cancel" /\ active.token # None /\ slot = active.token
      reply == CASE verdict = "start" -> IF active = NoOperation THEN "FAIL" ELSE "BUSY"
                 [] verdict = "cancel" -> IF cancels THEN "OKAY" ELSE "DENY"
                 [] OTHER -> verdict
  IN /\ At("walk") /\ c \in todo /\ todo' = todo \ {c}
     /\ UNCHANGED standard
     /\ \/ /\ starts
           /\ direct' = [direct EXCEPT ![c] = [@ EXCEPT !.st = "active", !.req = req]]
           /\ Start(c, KindOf(req))
        \/ /\ ~starts
           /\ direct' = CASE verdict = "none" -> direct
                          [] verdict = "closed" -> FreedDirect({c})
                          [] OTHER -> [direct EXCEPT ![c] =
                               [st |-> "replies", req |-> req, reply |-> reply]]
           /\ IF cancels THEN CancelForRoot ELSE UNCHANGED authorityVars
           /\ mine' = IF cancels THEN [mine EXCEPT ![c].token = active.token] ELSE mine
           /\ UNCHANGED <<stopping, run, threadVars>>
           /\ Go(ToWalk')

(* dispatch_packet_with and dispatch_standard for a connection with no      *)
(* operation; its peer is root.                                             *)
StandardVerdict(opened, policy, target, packet) ==
  CASE packet = "GetCapabilities" -> "Capabilities"
    [] packet = "Open" -> "Opened"
    [] packet \in {"Cancel", "Malformed"} -> "Error"
    [] OTHER ->
       CASE policy = "unreadable" \/ ~opened -> "Error"
         [] packet = "ListIdentities" -> "start"
         [] target = "unresolved" -> "Error"
         [] policy = "missing" -> IF packet = "Enroll" THEN "start" ELSE "Error"
         [] target = "other" -> IF packet = "Enroll" THEN "SecondOwner" ELSE "Error"
         [] OTHER -> "start"

(* What a standard connection's turn can bring: a packet and its verdict.   *)
(* A client that closes with replies unread resets the connection, which is *)
(* a receive error; "closed" is also a request or reply deadline.           *)
StandardOutcomes == [opened \in BOOLEAN |->
  {<<StandardVerdict(opened, policy, target, packet), packet>> :
     policy \in Policies, target \in Targets, packet \in Packets}]
Quiet == {<<"none", "none">>, <<"closed", "none">>}
Reset(c) == IF standard[c].heard THEN {<<"reset", "none">>} ELSE {}

(* One connection of process_standard_connections.  It has a request        *)
(* deadline until its first packet and a reply deadline while its outbound  *)
(* slot is taken; a receive error ends the event loop.                      *)
ProcessStandard(c, verdict, packet) ==
  LET starts == verdict = "start" /\ CanStart
      reply == CASE verdict = "start" -> IF active = NoOperation THEN "Error" ELSE "Busy"
                 [] OTHER -> verdict
  IN /\ At("walk") /\ todo \cap Direct = {}
     /\ c \in todo /\ todo' = todo \ {c}
     /\ HasReply(c) => <<verdict, packet>> \in Quiet
     /\ UNCHANGED direct
     /\ \/ /\ starts
           /\ standard' = [standard EXCEPT ![c] = [@ EXCEPT !.st = "active", !.timed = FALSE]]
           /\ Start(c, packet)
        \/ /\ ~starts
           /\ standard' =
                CASE verdict \in {"none", "reset"} -> standard
                  [] verdict = "closed" -> FreedStandard({c})
                  [] OTHER -> [standard EXCEPT ![c] = [@ EXCEPT
                       !.timed = FALSE, !.out = reply, !.opened = @ \/ packet = "Open"]]
           /\ IF verdict = "closed" THEN Forget({c}) ELSE UNCHANGED mine
           /\ UNCHANGED <<authorityVars, stopping, run, threadVars>>
           /\ IF verdict = "reset" THEN Exit("Scheduler") ELSE Go(ToWalk')

(* WorkerThread::spawn, StandardWorkerThread::spawn. *)
Spawn ==
  /\ At("spawn")
  /\ thread' = [NoThread EXCEPT !.st = "running"]
  /\ UNCHANGED <<authorityVars, todo, stopping, run, connVars, chan>>
  /\ Go(ToWalk')

HandbackOfReport ==
  LET c == run.conn
  IN /\ direct' = IF c \in Direct
                  THEN [direct EXCEPT ![c] = [@ EXCEPT !.st = "replies",
                          !.reply = IF thread.report = "Matched" THEN "OKAY" ELSE "FAIL"]]
                  ELSE direct
     /\ standard' = IF c \in Standard
                    THEN [standard EXCEPT ![c] =
                            [@ EXCEPT !.st = "pending", !.out = thread.report]]
                    ELSE standard
     /\ mine' = [mine EXCEPT ![c].report = thread.report]
     /\ run' = NoRun

(* The run's connection leaves it with the broker's answer, or is dropped   *)
(* if its client was seen to disconnect.                                    *)
Handback ==
  LET c == run.conn
      reply == answer'[run.token]
  IN /\ direct' = CASE c \notin Direct -> direct
                    [] run.gone -> FreedDirect({c})
                    [] OTHER -> [direct EXCEPT ![c] =
                         [@ EXCEPT !.st = "replies", !.reply = reply]]
     /\ standard' = CASE c \notin Standard -> standard
                      [] run.gone -> FreedStandard({c})
                      [] OTHER -> [standard EXCEPT ![c] =
                           [@ EXCEPT !.st = "pending", !.out = reply]]
     /\ IF run.gone THEN Forget({c}) ELSE mine' = [mine EXCEPT ![c].report = thread.report]
     /\ run' = NoRun

(* The thread could not be created. *)
SpawnFails ==
  /\ At("spawn")
  /\ IF run.conn \in Direct THEN Abandon(run.token) ELSE Finish(run.token, run.token, "Error")
  /\ Handback
  /\ UNCHANGED <<todo, stopping, threadVars>>
  /\ Go(ToWalk')

-----------------------------------------------------------------------------
(* The active run's client. *)

(* observe_active_disconnect: direct clients only. *)
Observe(closed) ==
  /\ At("watch") /\ run.conn \in Direct
  /\ run' = [run EXCEPT !.gone = closed]
  /\ IF closed THEN TryCancel(run.token) ELSE UNCHANGED authorityVars
  /\ UNCHANGED <<todo, stopping, connVars, threadVars>>
  /\ IF closed /\ ~Owns(run.token) THEN Exit("Scheduler") ELSE Go("decide")

(* disconnect_standard_run, then the loop's next call. *)
DisconnectStandard ==
  /\ TryCancel(run.token)
  /\ standard' = [standard EXCEPT ![run.conn].out = "none"]
  /\ run' = [run EXCEPT !.gone = TRUE]

(* dispatch_packet_with on the connection whose operation runs: it may only *)
(* cancel that operation; every other request is refused.                   *)
ActiveVerdict(policy, packet) ==
  CASE packet = "Cancel" -> "cancel"
    [] packet = "Malformed" -> "Error"
    [] packet \in StandardKinds /\ policy = "unreadable" -> "Error"
    [] OTHER -> "Busy"

ActiveOutcomes == {ActiveVerdict(policy, packet) : policy \in Policies, packet \in Packets}

(* process_active_standard_control. *)
Control(verdict) ==
  /\ At("watch") /\ run.conn \in Standard
  /\ HasReply(run.conn) => verdict = "none"
  /\ verdict = "reset" => standard[run.conn].heard
  /\ UNCHANGED <<todo, stopping, direct, mine, threadVars>>
  /\ \/ /\ verdict = "closed" /\ DisconnectStandard
     \/ /\ verdict # "closed" /\ UNCHANGED run
        /\ IF verdict = "cancel" THEN TryCancel(run.token) ELSE UNCHANGED authorityVars
        /\ standard' = IF verdict \in {"Busy", "Error"}
                       THEN [standard EXCEPT ![run.conn].out = verdict] ELSE standard
  /\ IF verdict = "reset" \/ (verdict = "closed" /\ ~Owns(run.token))
     THEN Exit("Scheduler") ELSE Go("decide")

-----------------------------------------------------------------------------
(* service.decide, and what the loop does with the decision. *)

Decide ==
  /\ At("decide")
  /\ UNCHANGED <<authorityVars, todo, stopping, run, connVars, threadVars>>
  /\ IF poisoned THEN Exit("Scheduler") ELSE Go(ToFlushStandard')

(* The active worker's deadline has passed; cancelling it is next. *)
DecideDeadline ==
  /\ At("decide")
  /\ DecideCancel
  /\ UNCHANGED <<todo, stopping, run, connVars, threadVars>>
  /\ Go("deadline")

(* The idle timeout has passed and neither listener is ready. *)
DecideIdle ==
  /\ At("decide")
  /\ ~poisoned /\ worker = NoWorker
  /\ DirectIn("pending") \cup StandardIn("pending") = {}
  /\ UNCHANGED <<authorityVars, todo, stopping, run, connVars, threadVars>>
  /\ IF ~Running /\ DirectIn("replies") = {} THEN Exit("Ok") ELSE Go(ToFlushStandard')

(* cancel_or_await_completion. *)
Deadline ==
  /\ At("deadline")
  /\ TryCancel(run.token)
  /\ UNCHANGED <<todo, stopping, run, connVars, threadVars>>
  /\ IF Running /\ Owns(run.token) THEN Go(ToFlushStandard') ELSE Exit("Scheduler")

-----------------------------------------------------------------------------
(* Replies and the worker's events. *)

(* flush_standard_replies: each waiting reply is sent, dropped with its     *)
(* connection (deadline passed, or the send failed) or kept.                *)
FlushStandard(sent, dropped) ==
  /\ At("flushStandard")
  /\ sent \cup dropped \subseteq Flushable /\ sent \cap dropped = {}
  /\ standard' = [c \in Standard |->
       IF c \in sent THEN [standard[c] EXCEPT !.out = "none", !.heard = TRUE]
       ELSE FreedStandard(dropped)[c]]
  /\ Forget(sent \cup dropped)
  /\ UNCHANGED <<authorityVars, todo, stopping, run, direct, threadVars>>
  /\ Go(ToFlushActive')

FlushActiveForever(outcome) ==
  /\ At("flushActive")
  /\ standard' = IF outcome = "sent"
                 THEN [standard EXCEPT ![run.conn] = [@ EXCEPT !.out = "none", !.heard = TRUE]]
                 ELSE standard
  /\ UNCHANGED <<authorityVars, run, todo, stopping, direct, mine, threadVars>>
  /\ Go(ToPoll')

(* flush_active_standard_reply: a reply deadline or a failed send counts as *)
(* a disconnect.                                                            *)
FlushActive(outcome) ==
  /\ At("flushActive")
  /\ \/ /\ outcome = "blocked"
        /\ UNCHANGED <<authorityVars, run, standard>>
     \/ /\ outcome = "sent"
        /\ standard' = [standard EXCEPT ![run.conn] =
             [@ EXCEPT !.out = "none", !.heard = TRUE]]
        /\ UNCHANGED <<authorityVars, run>>
     \/ /\ outcome = "failed"
        /\ DisconnectStandard
  /\ UNCHANGED <<todo, stopping, direct, mine, threadVars>>
  /\ IF outcome = "failed" /\ ~Owns(run.token) THEN Exit("Scheduler") ELSE Go(ToPoll')

(* poll_active_worker: try_recv finds the channel empty. *)
PollEmpty ==
  /\ At("poll") /\ chan = "empty"
  /\ UNCHANGED <<authorityVars, todo, stopping, run, connVars, threadVars>>
  /\ Go("probe")

PollProgress ==
  /\ At("poll")
  /\ chan = "progress" /\ chan' = "empty"
  /\ standard' = IF run.gone THEN standard ELSE [standard EXCEPT ![run.conn].out = "Progress"]
  /\ UNCHANGED <<authorityVars, todo, stopping, run, direct, mine, thread>>
  /\ Go(ToFlushDirect')

(* A completion is used once its thread is joined. *)
PollCompleted ==
  /\ At("poll")
  /\ chan = "completion" /\ chan' = "empty"
  /\ thread.st = "finished" /\ thread' = NoThread
  /\ Finish(run.token, run.token, thread.report)
  /\ Handback
  /\ UNCHANGED <<todo, stopping>>
  /\ Go(ToFlushDirect')

(* is_finished, after try_recv found the channel empty: a finished thread   *)
(* is a lost worker, whatever it has sent in between.                       *)
Probe ==
  /\ At("probe")
  /\ UNCHANGED <<todo, stopping, run, connVars, threadVars>>
  /\ IF thread.st = "finished"
     THEN WorkerLost(run.token) /\ Exit("WorkerLost")
     ELSE UNCHANGED authorityVars /\ Go(ToFlushDirect')

(* flush_replies: done are the replies sent or given up. *)
FlushDirect(done) ==
  /\ At("flushDirect") /\ done \subseteq DirectIn("replies")
  /\ direct' = FreedDirect(done) /\ Forget(done)
  /\ UNCHANGED <<authorityVars, todo, stopping, run, standard, threadVars>>
  /\ Go(ToEnd')

(* The end of a tick of a stopping broker: late is the end of               *)
(* SHUTDOWN_GRACE.                                                          *)
End(late) ==
  LET idle == ~Running /\ DirectIn("replies") = {}
  IN /\ At("end")
     /\ IF ~idle /\ late /\ Running THEN WorkerLost(run.token) ELSE UNCHANGED authorityVars
     /\ UNCHANGED <<todo, stopping, run, connVars, threadVars>>
     /\ CASE idle -> Exit("Ok")
          [] ~idle /\ late -> Exit("Shutdown")
          [] OTHER -> Go("top")

-----------------------------------------------------------------------------
EventLoop ==
  \/ \E signal \in BOOLEAN : Top(signal)
  \/ \E new \in SUBSET Connections : Accept(new)
  \/ \E c \in Direct, o \in DirectOutcomes : ProcessDirect(c, o[1], o[2])
  \/ \E c \in Standard :
       \E o \in StandardOutcomes[standard[c].opened] \cup Quiet \cup Reset(c) :
         ProcessStandard(c, o[1], o[2])
  \/ Spawn \/ SpawnFails
  \/ \E closed \in BOOLEAN : Observe(closed)
  \/ \E verdict \in ActiveOutcomes \cup {"none", "closed", "reset"} : Control(verdict)
  \/ Decide \/ DecideDeadline \/ DecideIdle \/ Deadline
  \/ \E sent \in SUBSET Standard : \E dropped \in SUBSET Standard : FlushStandard(sent, dropped)
  \/ \E outcome \in {"sent", "blocked", "failed"} : FlushActive(outcome)
  \/ PollEmpty \/ PollProgress \/ PollCompleted \/ Probe
  \/ \E done \in SUBSET Direct : FlushDirect(done)
  \/ \E late \in BOOLEAN : End(late)

WorkerReturns == WorkerPanic \/ \E r \in Reports : WorkerReport(r)

WorkerThread == WorkerProgress \/ WorkerCutoff \/ WorkerReturns \/ WorkerSend \/ WorkerFinish

(* The process has ended, and its worker thread with it. *)
Ended == exit # "none" /\ UNCHANGED vars

Next == EventLoop \/ WorkerThread \/ Ended

Spec == Init /\ [][Next]_vars


-----------------------------------------------------------------------------
(* Properties. *)

(* Loop, connections, worker thread and channel keep their shape. *)
DaemonTypeOK ==
  /\ AuthorityTypeOK
  /\ exit \in {"none", "Ok", "Scheduler", "WorkerLost", "Shutdown"}
  /\ todo \subseteq Connections /\ stopping \in BOOLEAN
  /\ run \in [conn : Connections \cup {"none"}, token : Counters, gone : BOOLEAN]
  /\ \A c \in Direct : direct[c].st \in {"free", "pending", "active", "replies"}
  /\ \A c \in Standard : standard[c].st \in {"free", "pending", "active"}
  /\ thread.st \in {"none", "running", "reporting", "sent", "finished"}
  /\ chan \in {"empty", "progress", "completion"}
  /\ thread.report \in DirectResults \cup StandardResults \cup {"none"}
  /\ \A c \in Connections : mine[c].token \in Counters

(* Until the loop ends, its run, the authority's operation and the one      *)
(* connection set aside for it are the same, and a thread exists only for   *)
(* it: a second Start is never met with a run in place, and a new worker is *)
(* never spawned beside an old one.                                         *)
RunIsTheOperation ==
  /\ exit = "none" => run.token = active.token
  /\ DirectIn("active") \cup StandardIn("active") = IF Running THEN {run.conn} ELSE {}
  /\ ~Running \/ pc = "spawn" => thread = NoThread /\ chan = "empty"

(* The broker ends well only with nothing in flight: no worker thread, no   *)
(* operation unanswered, no direct client waiting for its reply.            *)
CleanExit ==
  exit = "Ok" =>
    /\ ~Running /\ thread = NoThread /\ ~poisoned
    /\ \A c \in Direct : direct[c].st = "free"
    /\ \A t \in Issued : answer[t] # "none"

(* Whatever success waits to be sent to a client, the hardware worker of    *)
(* its own request reported; and OKAY for a root Cancel names an operation  *)
(* that is cancelled and has not succeeded.  The worker works for the one   *)
(* operation of the authority, and the broker ends cleanly.                 *)
HonestReplies ==
  /\ DaemonTypeOK /\ RunIsTheOperation /\ CleanExit
  /\ \A c \in DirectIn("replies") : direct[c].reply \in Success =>
       LET t == mine[c].token IN
       IF direct[c].req = "Cancel"
       THEN t \in acked /\ answer[t] \notin Success
       ELSE t \in Issued /\ answer[t] = "OKAY" /\ mine[c].report = "Matched"
  /\ \A c \in Standard : standard[c].out \in Success =>
       LET t == mine[c].token IN
       /\ t \in Issued \ acked
       /\ answer[t] = standard[c].out /\ mine[c].report = standard[c].out

(* A reply waiting in a standard connection's one outbound slot is sent or  *)
(* discarded, never replaced by progress, a refusal or a completion.        *)
ReplyNeverOverwritten ==
  [][\A c \in Standard : HasReply(c) /\ standard'[c].out # standard[c].out
                           => standard'[c].out = "none"]_vars

(* Every step of the daemon is a step of its authority, or leaves it alone: *)
(* what is proved of BrokerAuthority holds of the daemon.  And a reply that *)
(* waits is never overwritten.                                              *)
DaemonUsesAuthority == AuthoritySpec /\ ReplyNeverOverwritten

(* Every admitted operation is answered, or the broker ends: a standard     *)
(* client that stops reading, and a worker blocked on the full channel,     *)
(* never hold the hardware for ever.                                        *)
EveryOperationEnds == \A t \in Tokens : t \in Issued ~> answer[t] # "none" \/ exit # "none"

=============================================================================
