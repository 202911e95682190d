------------------------------ MODULE UsbCycle ------------------------------
(***************************************************************************)
(* The guarded USB cycle of the T1 (crates/t1-import/src/usb_cycle.rs, the *)
(* locks and the deferred signal of t1_usb_cycle_guard.c): the command     *)
(* `validate usb-cycle` stops the dependent services, takes the SEP lock   *)
(* and unbinds and rebinds the configuration selector; `validate           *)
(* usb-live-loss` unbinds under a running fingerprint operation and        *)
(* rebinds when that operation let go of SEP.                              *)
(*                                                                         *)
(* Around the command move systemd (dependencies, udev's wants, restarts), *)
(* the keybag relay and an operation of the broker, which claim interface  *)
(* 7 through usbfs under the SEP lock, and clients that activate services. *)
(***************************************************************************)
EXTENDS Naturals, Sequences, SequencesExt

CONSTANTS Tools,      \* running commands
          Commands,   \* among "cycle" and "loss"
          MaxFaults,  \* commands of systemctl, sysfs writes and waits that fail
          MaxSignals,
          MaxClients  \* activations by clients

VARIABLES
    tool,      \* the commands
    cycleLock, \* /run/lock/t1bridge-usb-cycle.lock
    lock,      \* /run/lock/t1-touchid-sep.lock: ex, sh
    dev,       \* the selector and its interfaces: up, leaving, down, arriving
    seven,     \* who claims interface 7 through usbfs
    svc,       \* the services systemctl calls active
    wanted,    \* the relay's unit has a start job or waits for its restart
    arrived,   \* udev has announced the present interfaces
    budget

vars == <<tool, cycleLock, lock, dev, seven, svc, wanted, arrived, budget>>

Services == {"fprintd", "broker", "authsocket", "fpsocket", "keybag", "touchbar",
             "tbsocket", "xart", "ncm"}

StopOrder == <<"fprintd", "authsocket", "fpsocket", "broker", "tbsocket", "touchbar",
               "keybag", "xart", "ncm">>

StartOrder == <<"ncm", "xart", "keybag", "authsocket", "fpsocket", "broker", "fprintd",
                "tbsocket", "touchbar">>

LiveRequired == <<"fprintd", "broker", "authsocket", "fpsocket", "tbsocket", "touchbar",
                  "xart", "ncm", "keybag">>

SteadyOrder == <<"ncm", "xart", "keybag", "authsocket", "fpsocket", "fprintd",
                 "tbsocket", "touchbar">>

DeviceUnits == {"ncm", "xart", "touchbar", "tbsocket"}

Idle(c) ==
    [cmd |-> c, pc |-> "inspect", queue |-> <<>>, snap |-> {}, sep |-> FALSE,
     dirty |-> FALSE, lost |-> FALSE, failed |-> FALSE, primary |-> "ok",
     signal |-> FALSE, result |-> "none"]

Steady == Services \ {"broker", "fprintd"}

Init ==
    /\ \E c \in [Tools -> Commands] : tool = [t \in Tools |-> Idle(c[t])]
    /\ cycleLock = "none" /\ lock = [ex |-> "none", sh |-> TRUE]
    /\ dev = "up" /\ seven = "relay" /\ svc = Steady /\ wanted = FALSE /\ arrived = TRUE
    /\ budget = [faults |-> 0, signals |-> 0, clients |-> 0]

-----------------------------------------------------------------------------
(* The command.                                                            *)

At(t, pc) == tool[t].pc = pc

Become(t, g) == tool' = [tool EXCEPT ![t] = g]

Go(t, pc) == Become(t, [tool[t] EXCEPT !.pc = pc])

Unmoved == UNCHANGED <<lock, dev, seven, svc, wanted, arrived>>
Outside == UNCHANGED <<cycleLock, lock, dev, seven, svc, wanted, arrived>>

Fault == budget.faults < MaxFaults /\ budget' = [budget EXCEPT !.faults = @ + 1]

\* inspect_unique_device: selector bound, all interfaces there, interface 7
\* claimed through usbfs or, in the quiesced phase, unclaimed.
InspectDevice(claimed) == dev = "up" /\ (seven # "none") = claimed

Operational == InspectDevice(TRUE)
Quiesced == InspectDevice(FALSE)

\* validate_rebind_target: no driver is bound; interfaces may still be leaving.
Rebindable == dev \in {"down", "leaving"}

\* flock(LOCK_EX | LOCK_NB) on the SEP lock would succeed.
SepFree == lock.ex = "none" /\ ~lock.sh

\* The guard is dropped on return.
End(t, g, result) ==
    /\ Become(t, [g EXCEPT !.pc = "done", !.result = result, !.sep = FALSE])
    /\ cycleLock' = IF cycleLock = t THEN "none" ELSE cycleLock
    /\ lock' = IF lock.ex = t THEN [lock EXCEPT !.ex = "none"] ELSE lock
    /\ UNCHANGED <<dev, seven, svc, wanted, arrived>>

Inspect(t) ==
    /\ At(t, "inspect")
    /\ \/ Operational /\ Go(t, "guard") /\ Outside
       \/ ~Operational /\ End(t, tool[t], "hardware")
    /\ UNCHANGED budget

\* acquire_cycle_guard: one lock for all commands; signals are deferred from
\* here on.
CycleGuard(t) ==
    /\ At(t, "guard")
    /\ \/ /\ cycleLock = "none" /\ cycleLock' = t
          /\ Become(t, [tool[t] EXCEPT
                          !.pc = IF tool[t].cmd = "cycle" THEN "snapshot" ELSE "require",
                          !.queue = IF tool[t].cmd = "cycle" THEN StopOrder
                                    ELSE LiveRequired])
          /\ Unmoved
       \/ cycleLock # "none" /\ End(t, tool[t], "busy")
    /\ UNCHANGED budget

\* The primary part of a cycle failed: what follows depends on what was done.
CycleFailed(t, err) ==
    LET g == [tool[t] EXCEPT !.primary = err, !.queue = StopOrder]
    IN  Become(t, IF g.dirty THEN [g EXCEPT !.pc = "rebound"] ELSE [g EXCEPT !.pc = "release"])

\* snapshot_services, one by one; nothing was changed when it fails.
Snapshot(t) ==
    LET g == tool[t] IN
    /\ At(t, "snapshot")
    /\ \/ /\ g.queue # <<>>
          /\ Become(t, [g EXCEPT !.queue = Tail(@),
                          !.snap = IF Head(g.queue) \in svc THEN @ \union {Head(g.queue)}
                                   ELSE @])
          /\ Outside /\ UNCHANGED budget
       \/ /\ g.queue = <<>>
          /\ Become(t, [g EXCEPT !.pc = "stop", !.queue = StopOrder])
          /\ Outside /\ UNCHANGED budget
       \/ g.queue # <<>> /\ Fault /\ End(t, g, "service")

\* What systemd stops along with a unit, by Requires= and BindsTo=.
StopsWith(s) ==
    CASE s = "ncm" -> {"ncm", "xart"}
      [] s \in {"authsocket", "fpsocket"} -> {s, "broker"}
      [] s = "tbsocket" -> {s, "touchbar"}
      [] OTHER -> {s}

\* systemctl stop and the wait for it: the processes of the units are gone,
\* and with the broker its operation.
Stopped(s) ==
    LET gone == StopsWith(s)
        op == "broker" \in gone
        rl == "keybag" \in gone
    IN  /\ svc' = svc \ gone
        /\ seven' = IF (op /\ seven = "op") \/ (rl /\ seven = "relay") THEN "none" ELSE seven
        /\ lock' = [ex |-> IF op /\ lock.ex = "op" THEN "none" ELSE lock.ex,
                    sh |-> lock.sh /\ ~rl]
        /\ wanted' = (wanted /\ ~rl)
        /\ UNCHANGED <<cycleLock, dev, arrived>>

StopServices(t) ==
    LET g == tool[t] IN
    /\ At(t, "stop")
    /\ \/ /\ g.queue # <<>> /\ Stopped(Head(g.queue))
          /\ Become(t, [g EXCEPT !.queue = Tail(@)]) /\ UNCHANGED budget
       \/ g.queue # <<>> /\ Fault /\ CycleFailed(t, "service") /\ Outside
       \/ g.queue = <<>> /\ Go(t, "sep") /\ Outside /\ UNCHANGED budget

\* Unbinds without the SEP lock.
SepGuardSkipped(t) ==
    /\ At(t, "sep")
    /\ Become(t, [tool[t] EXCEPT !.pc = "unbind", !.dirty = TRUE])
    /\ Outside /\ UNCHANGED budget

\* acquire_sep_guard, without waiting, and the first look at the signal.
SepGuard(t) ==
    /\ At(t, "sep")
    /\ \/ /\ SepFree /\ ~tool[t].signal
          /\ lock' = [lock EXCEPT !.ex = t]
          /\ Become(t, [tool[t] EXCEPT !.pc = "unbind", !.sep = TRUE, !.dirty = TRUE])
          /\ UNCHANGED <<cycleLock, dev, seven, svc, wanted, arrived>>
       \/ /\ SepFree /\ tool[t].signal
          /\ lock' = [lock EXCEPT !.ex = t]
          /\ tool' = [tool EXCEPT ![t].pc = "release", ![t].sep = TRUE,
                                  ![t].primary = "interrupted", ![t].queue = StopOrder]
          /\ UNCHANGED <<cycleLock, dev, seven, svc, wanted, arrived>>
       \/ ~SepFree /\ CycleFailed(t, "busy") /\ Outside
    /\ UNCHANGED budget

\* The write to the selector's unbind file: drivers leave and every claim of
\* an interface ends.
Unbound == dev' = "leaving" /\ seven' = "none" /\ arrived' = FALSE

Unbind(t) ==
    /\ At(t, "unbind")
    /\ \/ /\ Quiesced /\ Unbound /\ Go(t, "gone")
          /\ UNCHANGED <<cycleLock, lock, svc, wanted, budget>>
       \/ ~Quiesced /\ CycleFailed(t, "unbind") /\ Outside /\ UNCHANGED budget
       \/ Fault /\ CycleFailed(t, "unbind") /\ Outside

\* wait_removed, and the second look at the signal.
WaitRemoved(t) ==
    /\ At(t, "gone")
    /\ \/ dev = "down" /\ ~tool[t].signal /\ Go(t, "bind") /\ UNCHANGED budget
       \/ dev = "down" /\ tool[t].signal /\ CycleFailed(t, "interrupted") /\ UNCHANGED budget
       \/ dev # "down" /\ Fault /\ CycleFailed(t, "unbind")
    /\ Outside

\* bind after validate_rebind_target: the selector is not bound.
Bind(t) ==
    /\ At(t, "bind")
    /\ \/ /\ Rebindable /\ dev' = "arriving" /\ Go(t, "back")
          /\ UNCHANGED <<cycleLock, lock, seven, svc, wanted, arrived, budget>>
       \/ Fault /\ CycleFailed(t, "rebind") /\ Outside

\* wait_reappeared: from here on the device needs no recovery.
WaitReappeared(t) ==
    /\ At(t, "back")
    /\ \/ /\ Quiesced
          /\ Become(t, [tool[t] EXCEPT !.pc = "release", !.dirty = FALSE, !.queue = StopOrder,
                          !.primary = IF tool[t].signal THEN "interrupted" ELSE @])
          /\ UNCHANGED budget
       \/ ~Quiesced /\ Fault /\ CycleFailed(t, "reappearance")
    /\ Outside

\* ensure_rebound: bound already, or bound now and back in time.
EnsureRebound(t) ==
    /\ At(t, "rebound")
    /\ \/ Quiesced /\ Go(t, "release") /\ Outside /\ UNCHANGED budget
       \/ /\ Rebindable /\ dev' = "arriving" /\ Go(t, "rewait")
          /\ UNCHANGED <<cycleLock, lock, seven, svc, wanted, arrived, budget>>
       \/ /\ ~Quiesced /\ ((~Rebindable /\ UNCHANGED budget) \/ Fault)
          /\ Become(t, [tool[t] EXCEPT !.pc = "release", !.lost = TRUE])
          /\ Outside

Rewait(t) ==
    /\ At(t, "rewait")
    /\ \/ Quiesced /\ Go(t, "release") /\ UNCHANGED budget
       \/ ~Quiesced /\ Fault /\ Become(t, [tool[t] EXCEPT !.pc = "release", !.lost = TRUE])
    /\ Outside

\* What follows release_sep_guard: restore_services, or for a live loss
\* start_steady_services, which first resets a failed broker.
Released(t) ==
    LET g == [tool[t] EXCEPT !.sep = FALSE] IN
    \/ /\ g.cmd = "cycle" /\ UNCHANGED budget
       /\ Become(t, [g EXCEPT !.pc = "restop", !.queue = StopOrder])
    \/ /\ g.cmd = "loss" /\ UNCHANGED budget
       /\ Become(t, [g EXCEPT !.pc = "steady", !.queue = SteadyOrder])
    \/ /\ g.cmd = "loss" /\ Fault
       /\ Become(t, [g EXCEPT !.pc = "steady", !.queue = SteadyOrder, !.failed = TRUE])

\* release_sep_guard.
Release(t) ==
    /\ At(t, "release") /\ Released(t)
    /\ lock' = IF lock.ex = t THEN [lock EXCEPT !.ex = "none"] ELSE lock
    /\ UNCHANGED <<cycleLock, dev, seven, svc, wanted, arrived>>

\* One service of restore_services or start_steady_services that failed: the
\* others are still tried.
Skipped(t) == Become(t, [tool[t] EXCEPT !.queue = Tail(@), !.failed = TRUE])

\* restore_services, first half: stop what was not active.
RestoreStop(t) ==
    LET g == tool[t]
        s == Head(g.queue)
    IN
    /\ At(t, "restop")
    /\ \/ /\ g.queue # <<>> /\ s \notin g.snap
          /\ Stopped(s) /\ Become(t, [g EXCEPT !.queue = Tail(@)]) /\ UNCHANGED budget
       \/ /\ g.queue # <<>> /\ s \in g.snap
          /\ Become(t, [g EXCEPT !.queue = Tail(@)]) /\ Outside /\ UNCHANGED budget
       \/ g.queue # <<>> /\ s \notin g.snap /\ Fault /\ Skipped(t) /\ Outside
       \/ /\ g.queue = <<>>
          /\ Become(t, [g EXCEPT !.pc = "restart", !.queue = StartOrder])
          /\ Outside /\ UNCHANGED budget

\* Whether a unit can be active now, by BindsTo= and ExecCondition=.
CanRun(s) == s \in DeviceUnits => dev = "up"

\* systemctl start (for xart and ncm in restore_services only the wait) until it is active.
Started(t, s) ==
    /\ \/ /\ s \in svc
          /\ UNCHANGED <<svc, wanted>>
       \/ /\ s \notin svc /\ s \in {"authsocket", "fpsocket", "fprintd"}
          /\ svc' = svc \union {s} /\ UNCHANGED wanted
       \/ /\ s \notin svc /\ s = "broker"
          /\ svc' = svc \union {s, "authsocket", "fpsocket"} /\ UNCHANGED wanted
       \/ /\ s \notin svc /\ s \in {"touchbar", "tbsocket"} /\ CanRun(s)
          /\ svc' = svc \union {s, "tbsocket"} /\ UNCHANGED wanted
       \/ /\ s \notin svc /\ s \in {"ncm", "xart"} /\ At(t, "steady") /\ CanRun(s)
          /\ svc' = svc \union {s, "ncm"}       \* restarted while systemd has it loaded
          /\ wanted' = (wanted \/ (s = "xart" /\ "keybag" \notin svc))
    /\ Become(t, [tool[t] EXCEPT !.queue = Tail(@)])
    /\ UNCHANGED <<cycleLock, lock, dev, seven, arrived, budget>>

\* The relay's start job, asked for once; the wait goes on until it is ready.
AskRelay(t, s) ==
    /\ s = "keybag" /\ s \notin svc /\ ~wanted /\ "xart" \in svc
    /\ wanted' = TRUE
    /\ UNCHANGED <<tool, cycleLock, lock, dev, seven, svc, arrived, budget>>

\* The wait for a service ran out: a fault, or a service that cannot come up.
GivesUp(t, s) ==
    /\ s \notin svc
    /\ \/ Fault
       \/ /\ s \in DeviceUnits /\ dev \in {"down", "leaving"}
          /\ UNCHANGED budget
       \/ /\ s \in {"ncm", "xart"} /\ arrived     \* nothing announces the device again
          /\ UNCHANGED budget
       \/ /\ s = "keybag" /\ ("xart" \notin svc \/ dev = "down" \/ (seven = "op" /\ lock.ex = "op"))
          /\ UNCHANGED budget
    /\ Skipped(t) /\ Outside

\* restore_services, second half, and start_steady_services (whose restart
\* of an active unit leaves it active).
StartServices(t) ==
    LET g == tool[t] IN
    /\ g.pc \in {"restart", "steady"}
    /\ \/ /\ g.queue # <<>> /\ (g.pc = "steady" \/ Head(g.queue) \in g.snap)
          /\ Started(t, Head(g.queue)) \/ AskRelay(t, Head(g.queue)) \/ GivesUp(t, Head(g.queue))
       \/ /\ g.queue # <<>> /\ g.pc = "restart" /\ Head(g.queue) \notin g.snap
          /\ Become(t, [g EXCEPT !.queue = Tail(@)]) /\ Outside /\ UNCHANGED budget
       \/ /\ g.queue = <<>>
          /\ Go(t, IF g.failed /\ (g.cmd = "cycle" \/ g.primary = "ok") THEN "report"
                   ELSE "operational")
          /\ Outside /\ UNCHANGED budget

\* wait_operational.
WaitOperational(t) ==
    /\ At(t, "operational")
    /\ \/ Operational /\ Go(t, "report") /\ UNCHANGED budget
       \/ /\ ~Operational /\ Become(t, [tool[t] EXCEPT !.pc = "report", !.failed = TRUE])
          /\ \/ Fault
             \/ (dev = "down" \/ (~wanted /\ "keybag" \notin svc)) /\ UNCHANGED budget
    /\ Outside

\* A failed recovery is not told.
ReportPrimary(t) ==
    /\ At(t, "report") /\ UNCHANGED budget
    /\ End(t, tool[t], tool[t].primary)

Report(t) ==
    /\ At(t, "report") /\ UNCHANGED budget
    /\ End(t, tool[t], IF tool[t].failed \/ tool[t].lost THEN "recovery" ELSE tool[t].primary)

-----------------------------------------------------------------------------
(* The live-loss command.                                                  *)

\* require_live_operation: the stack is up, the relay is not, and the SEP
\* lock is taken (a lock obtained is given back at once).
Require(t) ==
    LET g == tool[t]
        ready == IF Head(g.queue) = "keybag" THEN "keybag" \notin svc ELSE Head(g.queue) \in svc
    IN
    /\ At(t, "require")
    /\ \/ /\ g.queue # <<>> /\ ready
          /\ Become(t, [g EXCEPT !.queue = Tail(@)]) /\ Outside
       \/ g.queue # <<>> /\ ~ready /\ End(t, g, "nooperation")
       \/ /\ g.queue = <<>> /\ ~SepFree
          /\ IF g.signal THEN End(t, g, "interrupted")
             ELSE Become(t, [g EXCEPT !.pc = "lunbind", !.dirty = TRUE]) /\ Outside
       \/ g.queue = <<>> /\ SepFree /\ End(t, g, "nooperation")
    /\ UNCHANGED budget

\* service_active could not tell.
RequireFailed(t) ==
    /\ At(t, "require") /\ tool[t].queue # <<>> /\ Fault /\ End(t, tool[t], "service")

LossFailed(t, err) ==
    Become(t, [tool[t] EXCEPT !.primary = err, !.pc = "fstop", !.queue = StopOrder])

UnbindLive(t) ==
    /\ At(t, "lunbind")
    /\ \/ /\ Operational /\ Unbound /\ Go(t, "lgone")
          /\ UNCHANGED <<cycleLock, lock, svc, wanted, budget>>
       \/ ~Operational /\ LossFailed(t, "unbind") /\ Outside /\ UNCHANGED budget
       \/ Fault /\ LossFailed(t, "unbind") /\ Outside

WaitLost(t) ==
    /\ At(t, "lgone")
    /\ \/ dev = "down" /\ ~tool[t].signal /\ Go(t, "lsep") /\ UNCHANGED budget
       \/ dev = "down" /\ tool[t].signal /\ LossFailed(t, "interrupted") /\ UNCHANGED budget
       \/ dev # "down" /\ Fault /\ LossFailed(t, "unbind")
    /\ Outside

\* wait_for_sep_guard: the operation has let go, or did not in time.
WaitSep(t) ==
    /\ At(t, "lsep") /\ UNCHANGED budget
    /\ \/ /\ SepFree /\ lock' = [lock EXCEPT !.ex = t]
          /\ Become(t, LET g == [tool[t] EXCEPT !.sep = TRUE]
                       IN  IF g.signal
                           THEN [g EXCEPT !.primary = "interrupted", !.pc = "fstop",
                                          !.queue = StopOrder]
                           ELSE [g EXCEPT !.pc = "lbind"])
          /\ UNCHANGED <<cycleLock, dev, seven, svc, wanted, arrived>>
       \/ ~SepFree /\ LossFailed(t, "cancellation") /\ Outside

LiveBind(t) ==
    /\ At(t, "lbind")
    /\ \/ /\ Rebindable /\ dev' = "arriving" /\ Go(t, "lback")
          /\ UNCHANGED <<cycleLock, lock, seven, svc, wanted, arrived, budget>>
       \/ Fault /\ LossFailed(t, "rebind") /\ Outside

WaitBack(t) ==
    /\ At(t, "lback")
    /\ \/ Quiesced /\ Become(t, [tool[t] EXCEPT !.pc = "release", !.dirty = FALSE])
          /\ UNCHANGED budget
       \/ ~Quiesced /\ Fault /\ LossFailed(t, "reappearance")
    /\ Outside

\* force_stop_services: every service is tried.
ForceStop(t) ==
    LET g == tool[t] IN
    /\ At(t, "fstop")
    /\ \/ /\ g.queue # <<>> /\ Stopped(Head(g.queue))
          /\ Become(t, [g EXCEPT !.queue = Tail(@)]) /\ UNCHANGED budget
       \/ g.queue # <<>> /\ Fault /\ Skipped(t) /\ Outside
       \/ /\ g.queue = <<>> /\ Go(t, IF g.sep THEN "rebound" ELSE "fsep")
          /\ Outside /\ UNCHANGED budget

\* The failure path rebinds only under the SEP lock.
ForcedSep(t) ==
    /\ At(t, "fsep") /\ UNCHANGED budget
    /\ \/ /\ SepFree /\ lock' = [lock EXCEPT !.ex = t]
          /\ Become(t, [tool[t] EXCEPT !.sep = TRUE, !.pc = "rebound"])
          /\ UNCHANGED <<cycleLock, dev, seven, svc, wanted, arrived>>
       \/ /\ ~SepFree /\ Become(t, [tool[t] EXCEPT !.pc = "release", !.failed = TRUE])
          /\ Outside

CycleCommand(t) ==
    \/ Inspect(t) \/ CycleGuard(t) \/ Snapshot(t) \/ StopServices(t) \/ SepGuard(t)
    \/ Unbind(t) \/ WaitRemoved(t) \/ Bind(t) \/ WaitReappeared(t)
    \/ EnsureRebound(t) \/ Rewait(t) \/ Release(t) \/ RestoreStop(t) \/ StartServices(t)
    \/ WaitOperational(t) \/ Report(t)

\* The steps of run_live_loss_with that run_with has not.
LossCommand(t) ==
    \/ Require(t) \/ RequireFailed(t) \/ UnbindLive(t) \/ WaitLost(t) \/ WaitSep(t)
    \/ LiveBind(t) \/ WaitBack(t) \/ ForceStop(t) \/ ForcedSep(t)

Command(t) == CycleCommand(t) \/ LossCommand(t)

\* The handler of SIGHUP, SIGINT and SIGTERM.
Signal(t) ==
    /\ tool[t].pc \notin {"inspect", "guard", "done"} /\ ~tool[t].signal
    /\ budget.signals < MaxSignals
    /\ budget' = [budget EXCEPT !.signals = @ + 1]
    /\ Become(t, [tool[t] EXCEPT !.signal = TRUE]) /\ Outside

-----------------------------------------------------------------------------
(* The kernel, systemd, the relay, the broker's operation and its clients. *)

Settle ==
    /\ dev \in {"leaving", "arriving"}
    /\ dev' = IF dev = "leaving" THEN "down" ELSE "up"
    /\ UNCHANGED <<tool, cycleLock, lock, seven, svc, wanted, arrived, budget>>

\* BindsTo= a device that left.
UnitsLost ==
    /\ dev # "up" /\ svc \intersect DeviceUnits # {}
    /\ svc' = svc \ DeviceUnits
    /\ UNCHANGED <<tool, cycleLock, lock, dev, seven, wanted, arrived, budget>>

\* udev's SYSTEMD_WANTS, and through xart's Wants= the relay.
UnitsWanted ==
    /\ dev = "up" /\ ~arrived /\ arrived' = TRUE
    /\ svc' = svc \union DeviceUnits
    /\ wanted' = (wanted \/ "keybag" \notin svc)
    /\ UNCHANGED <<tool, cycleLock, lock, dev, seven, budget>>

\* The relay waits for the SEP lock, shared, and claims the interface.
RelayStarts ==
    /\ wanted /\ "xart" \in svc /\ dev = "up" /\ lock.ex = "none" /\ seven = "none"
    /\ wanted' = FALSE /\ svc' = svc \union {"keybag"} /\ seven' = "relay"
    /\ lock' = [lock EXCEPT !.sh = TRUE]
    /\ UNCHANGED <<tool, cycleLock, dev, arrived, budget>>

\* ExecCondition= without an active xart service.
RelaySkipped ==
    /\ wanted /\ "xart" \notin svc /\ wanted' = FALSE
    /\ UNCHANGED <<tool, cycleLock, lock, dev, seven, svc, arrived, budget>>

\* The relay lost its interface: it fails and is restarted later.
RelayLost ==
    /\ "keybag" \in svc /\ seven # "relay"
    /\ svc' = svc \ {"keybag"} /\ lock' = [lock EXCEPT !.sh = FALSE] /\ wanted' = TRUE
    /\ UNCHANGED <<tool, cycleLock, dev, seven, arrived, budget>>

\* An operation of the broker stops the relay and takes SEP.
OperationStarts ==
    /\ "broker" \in svc /\ "xart" \in svc /\ dev = "up" /\ lock.ex = "none"
    /\ budget.clients < MaxClients
    /\ budget' = [budget EXCEPT !.clients = @ + 1]
    /\ svc' = svc \ {"keybag"} /\ wanted' = FALSE
    /\ lock' = [ex |-> "op", sh |-> FALSE] /\ seven' = "op"
    /\ UNCHANGED <<tool, cycleLock, dev, arrived>>

\* It ends, by itself or because the device went, and asks for the relay.
OperationEnds ==
    /\ lock.ex = "op"
    /\ lock' = [lock EXCEPT !.ex = "none"]
    /\ seven' = IF seven = "op" THEN "none" ELSE seven
    /\ wanted' = TRUE
    /\ UNCHANGED <<tool, cycleLock, dev, svc, arrived, budget>>

\* D-Bus activates fprintd, a socket the broker.
Activated ==
    /\ \/ "fprintd" \notin svc /\ svc' = svc \union {"fprintd"}
       \/ /\ "broker" \notin svc /\ svc \intersect {"authsocket", "fpsocket"} # {}
          /\ svc' = svc \union {"broker"}
    /\ budget.clients < MaxClients
    /\ budget' = [budget EXCEPT !.clients = @ + 1]
    /\ UNCHANGED <<tool, cycleLock, lock, dev, seven, wanted, arrived>>

\* The broker and fprintd exit when idle.
IdleExit ==
    /\ \E s \in svc \intersect {"broker", "fprintd"} :
          /\ s = "broker" => lock.ex # "op"
          /\ svc' = svc \ {s}
    /\ UNCHANGED <<tool, cycleLock, lock, dev, seven, wanted, arrived, budget>>

System == Settle \/ UnitsLost \/ UnitsWanted \/ RelayStarts \/ RelaySkipped \/ RelayLost

Next ==
    \/ \E t \in Tools : Command(t) \/ Signal(t)
    \/ System \/ OperationStarts \/ OperationEnds \/ Activated \/ IdleExit

Spec == Init /\ [][Next]_vars


-----------------------------------------------------------------------------
Working(t) == tool[t].pc \notin {"inspect", "guard", "done"}

\* Types, and the locks agree with what each command believes it holds: the
\* SEP lock is a command's exactly while its guard says so, the cycle lock
\* belongs to a working command.
TypeOK ==
    /\ \A t \in Tools :
          /\ tool[t].snap \subseteq Services /\ ToSet(tool[t].queue) \subseteq Services
          /\ tool[t].sep <=> lock.ex = t
    /\ cycleLock # "none" => Working(cycleLock)
    /\ lock.ex \in Tools \union {"none", "op"} /\ lock.sh \in BOOLEAN
    /\ dev \in {"up", "leaving", "down", "arriving"} /\ seven \in {"none", "relay", "op"}
    /\ svc \subseteq Services /\ wanted \in BOOLEAN /\ arrived \in BOOLEAN

\* While a command holds the selector away or waits for it to come back,
\* no relay and no operation uses SEP, though udev starts their services.
SepExcluded ==
    \A t \in Tools :
        tool[t].pc \in {"unbind", "gone", "bind", "back", "rebound", "rewait", "lbind", "lback"}
        => lock.ex = t /\ seven = "none"

\* One command at a time touches services and selector.
OneCommand == \A t, u \in Tools : Working(t) /\ Working(u) => t = u

\* The services a command that ends like this owes the machine; the broker
\* and fprintd come and go.
Owed(g) ==
    (IF g.cmd = "cycle" THEN g.snap ELSE IF g.result = "ok" THEN Services ELSE {})
        \ {"broker", "fprintd", "keybag"}

\* Any end other than a failed recovery (of this or an earlier command)
\* leaves the selector bound, the services as they were and the relay there,
\* coming, or replaced by an operation.
EndsHonestly ==
    \A t \in Tools :
        Working(t) /\ tool'[t].pc = "done" /\ (\A u \in Tools : tool'[u].result # "recovery")
        => /\ dev = "up" /\ Owed(tool'[t]) \subseteq svc
           /\ "keybag" \in svc \/ wanted \/ lock.ex = "op" \/ "keybag" \notin tool[t].snap
HonestEnd == [][EndsHonestly]_vars

\* A cycle that found the relay at work and took the selector away reports a
\* failed recovery only when something did fail: no client gets between the
\* relay and its restart.
NoSpuriousFailure ==
    \A t \in Tools :
        /\ tool[t].cmd = "cycle" /\ tool[t].result = "recovery"
        /\ "keybag" \in tool[t].snap /\ (tool[t].dirty \/ tool[t].primary = "ok")
        => budget.faults > 0

=============================================================================
