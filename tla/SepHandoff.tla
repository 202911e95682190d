------------------------------ MODULE SepHandoff ------------------------------
(***************************************************************************)
(* Who owns the Secure Enclave.  Between operations the keybag relay       *)
(* (t1bridge-keybag.service) holds the SEP lock shared; an operation stops *)
(* the relay through systemctl, takes the lock exclusively, uses the       *)
(* device and must start the relay again.  The processes are the relay,    *)
(* systemd's job engine for its unit, and coordinators: the broker's       *)
(* worker (auth_lifecycle.rs, enrollment_lifecycle.rs) and the legacy      *)
(* recovery tool, which is a process of its own.                           *)
(* A systemctl child that is killed at its deadline leaves the job it      *)
(* enqueued with systemd, whose rule is one job per unit: a newer job      *)
(* cancels an older conflicting one.  Deadlines and faults are choices of  *)
(* the step that observes them, switched by Expiring and Faulty.           *)
(***************************************************************************)
EXTENDS Naturals, FiniteSets

CONSTANTS
  Coordinators,  \* processes that run operations
  Enrollers,     \* those among them that enroll (the broker)
  Expiring,      \* deadlines may pass
  Faulty,        \* native calls, systemctl and the relay may fail by themselves
  Ending         \* the coordinators whose process may end in the middle

VARIABLES
  unit,    \* systemd's state of the unit and its queued job
  relay,   \* the relay process: its step and whether SIGTERM reached it
  lock,    \* holders of /run/lock/t1-touchid-sep.lock
  stored,  \* keybag.state exists
  coord,   \* each coordinator
  stopped, \* a coordinator has tried to stop the relay
  faulted  \* the relay failed by itself since it was last active

vars == <<unit, relay, lock, stored, coord, stopped, faulted>>
None == "none"
Relay == "relay"

KindsOf(c) == IF c \in Enrollers THEN {"authenticate", "enroll"} ELSE {"recover"}

(* cmd: the systemctl child's job, then its exit.  cancelled: the broker's  *)
(* cancellation; sep: the SepCancellation the bridge thread sets after it;  *)
(* closed: close_cancellation won.  native: the C result; out: what the     *)
(* callback produced; primary: the handoff's result before the restart.     *)
Fresh ==
  [kind |-> None, pc |-> "idle", cmd |-> None, prepared |-> FALSE,
   device |-> FALSE, cancelled |-> FALSE, sep |-> FALSE, closed |-> FALSE,
   committed |-> FALSE, seen |-> None, mode |-> None, native |-> "OK", out |-> None, primary |-> None, result |-> None]

Init ==
  /\ unit \in {[state |-> "active", job |-> None], [state |-> "inactive", job |-> None],
               [state |-> "failed", job |-> None]}
  /\ stored = (unit.state # "inactive")
  /\ relay = [pc |-> IF unit.state = "active" THEN "ready" ELSE None, term |-> FALSE]
  /\ lock = [exclusive |-> None, shared |-> unit.state = "active"]
  /\ coord = [c \in Coordinators |-> Fresh]
  /\ stopped = FALSE
  /\ faulted = (unit.state = "failed")

-----------------------------------------------------------------------------
(* systemd (external): the unit t1bridge-keybag.service.                    *)

Conflicting(job) == IF job = "start" THEN "stop" ELSE "start"

(* Enqueue a job for coordinator c; a conflicting job is cancelled, and the *)
(* systemctl children that waited for it exit with a failure.               *)
Enqueue(c, job, pc) ==
  /\ unit' = [unit EXCEPT !.job = job]
  /\ coord' = [d \in Coordinators |->
                 IF d = c THEN [coord[c] EXCEPT !.cmd = job, !.pc = pc]
                 ELSE IF coord[d].cmd = Conflicting(job) THEN [coord[d] EXCEPT !.cmd = "fail"]
                 ELSE coord[d]]

(* The job ended: every systemctl child waiting for it exits. *)
Exits(job, exit) ==
  coord' = [d \in Coordinators |->
              IF coord[d].cmd = job THEN [coord[d] EXCEPT !.cmd = exit] ELSE coord[d]]

Settle(state) == unit' = [state |-> state, job |-> None]

RunStop ==
  /\ unit.job = "stop" /\ unit.state # "deactivating"
  /\ UNCHANGED <<lock, stored, stopped, faulted>>
  /\ IF relay.pc # None
     THEN /\ unit' = [unit EXCEPT !.state = "deactivating"]
          /\ relay' = [relay EXCEPT !.term = TRUE] /\ UNCHANGED coord
     ELSE /\ Settle(IF unit.state = "restarting" THEN "inactive" ELSE unit.state)
          /\ Exits("stop", "ok") /\ UNCHANGED relay

Spawn == relay' = [pc |-> "lock", term |-> FALSE]

RunStart ==
  /\ unit.job = "start" /\ unit.state \in {"inactive", "failed", "restarting", "active"}
  /\ UNCHANGED <<lock, stored, stopped, faulted>>
  /\ IF unit.state # "active" /\ stored
     THEN /\ unit' = [unit EXCEPT !.state = "activating"] /\ Spawn /\ UNCHANGED coord
     ELSE /\ Settle(unit.state) /\ Exits("start", "ok") /\ UNCHANGED relay

(* Restart=on-failure *)
AutoRestart ==
  /\ unit = [state |-> "restarting", job |-> None]
  /\ unit' = [unit EXCEPT !.state = "activating"] /\ Spawn
  /\ UNCHANGED <<lock, stored, coord, stopped, faulted>>

(* The relay process is gone: a unit told to stop has stopped, one told to  *)
(* start again goes on with that job, and one that died restarts later.     *)
Gone(ok) ==
  /\ relay' = [pc |-> None, term |-> FALSE]
  /\ UNCHANGED <<stored, stopped>>
  /\ IF unit.state = "deactivating"
     THEN /\ UNCHANGED faulted
          /\ LET state == IF ok THEN "inactive" ELSE "failed"
             IN IF unit.job = "stop" THEN Settle(state) /\ Exits("stop", "ok")
                ELSE unit' = [unit EXCEPT !.state = state] /\ UNCHANGED coord
     ELSE /\ faulted' = TRUE
          /\ \E state \in {"restarting", "failed"} :
               IF unit = [state |-> "activating", job |-> "start"]
               THEN Settle(state) /\ Exits("start", "fail")
               ELSE unit' = [unit EXCEPT !.state = state] /\ UNCHANGED coord

(* TimeoutStopSec: SIGKILL.  The kernel closes the process's descriptors.   *)
StopTimeout ==
  /\ Expiring /\ unit.state = "deactivating" /\ relay.pc # None
  /\ lock' = [lock EXCEPT !.shared = FALSE] /\ Gone(FALSE)

Systemd == RunStop \/ RunStart \/ AutoRestart \/ StopTimeout

-----------------------------------------------------------------------------
(* The relay process: run_keybag_notification_relay under the shared lock.  *)

RelayAt(pc) == relay.pc = pc
RelayGo(pc) == relay' = [relay EXCEPT !.pc = pc]

RelayLock ==
  /\ RelayAt("lock") /\ ~relay.term /\ lock.exclusive = None
  /\ lock' = [lock EXCEPT !.shared = TRUE] /\ RelayGo("open")
  /\ UNCHANGED <<unit, stored, coord, stopped, faulted>>

(* Cancelled, out of time or unable to lock: nothing was opened. *)
RelayLockFails ==
  /\ RelayAt("lock") /\ (relay.term \/ Expiring \/ Faulty)
  /\ Gone(FALSE) /\ UNCHANGED lock

(* Open the device, load and activate the keybag, then notify_ready; with   *)
(* SIGTERM pending the first native call is refused.                        *)
RelayReady ==
  /\ RelayAt("open") /\ ~relay.term
  /\ RelayGo("ready") /\ UNCHANGED <<lock, stored, stopped>>
  /\ faulted' = (faulted /\ unit.job = "stop")
  /\ IF unit.job = "stop" THEN unit' = [unit EXCEPT !.state = "active"] /\ UNCHANGED coord
     ELSE Settle("active") /\ Exits("start", "ok")

RelayOpenFails ==
  /\ RelayAt("open") /\ (relay.term \/ Expiring \/ Faulty)
  /\ RelayGo("closefail") /\ UNCHANGED <<unit, lock, stored, coord, stopped, faulted>>

(* The drain loop ends when it sees SIGTERM, or with a transport error. *)
RelayDrain ==
  /\ RelayAt("ready")
  /\ \/ relay.term /\ RelayGo("close")
     \/ Faulty /\ RelayGo("closefail")
  /\ UNCHANGED <<unit, lock, stored, coord, stopped, faulted>>

(* close_product_session, then close_operation_lock and exit. *)
RelayClose ==
  /\ relay.pc \in {"close", "closefail"}
  /\ RelayGo(IF RelayAt("close") THEN "unlock" ELSE "unlockfail")
  /\ UNCHANGED <<unit, lock, stored, coord, stopped, faulted>>

RelayExit ==
  /\ relay.pc \in {"unlock", "unlockfail"}
  /\ lock' = [lock EXCEPT !.shared = FALSE]
  /\ Gone(RelayAt("unlock"))

RelayProcess ==
  RelayLock \/ RelayLockFails \/ RelayReady \/ RelayOpenFails \/ RelayDrain \/ RelayClose \/ RelayExit

RelayHasDevice == relay.pc \in {"open", "ready", "close", "closefail"}

-----------------------------------------------------------------------------
(* systemctl as a coordinator sees it (keybag_relay.rs).                    *)

Set(c, new) == coord' = [coord EXCEPT ![c] = new]
At(c, pc) == coord[c].pc = pc
Local == UNCHANGED <<unit, relay, lock, stored, stopped, faulted>>

(* is-active prints one of three states the code knows; anything else, an   *)
(* unusable answer or a passed deadline is an error.                        *)
Observed ==
  CASE unit.state = "active" -> "Active"
    [] unit.state = "inactive" -> "Inactive"
    [] unit.state = "failed" -> "Failed"
    [] OTHER -> "Error"
Query(state) == state \in {Observed} \cup IF Expiring \/ Faulty THEN {"Error"} ELSE {}

Expected(job) == IF job = "start" THEN "Active" ELSE "Inactive"

(* transition: the command's error returns before any query; otherwise the  *)
(* state is queried first and the exit status judged after it.              *)
Transition(c, job, ok) ==
  \/ Expiring /\ coord[c].cmd = job /\ ~ok
  \/ coord[c].cmd \in {"ok", "fail"}
     /\ \E state \in {"Active", "Inactive", "Failed", "Error"} :
          /\ Query(state)
          /\ ok = (coord[c].cmd = "ok" /\ state = Expected(job))

-----------------------------------------------------------------------------
(* One SEP lease: run_with_ops with the keybag preflight and callback.      *)

AcquireShared(c) ==
  /\ At(c, "lock") /\ ~coord[c].sep
  /\ lock.exclusive = None
  /\ lock' = [lock EXCEPT !.exclusive = c]
  /\ Set(c, [coord[c] EXCEPT !.pc = "load"])
  /\ UNCHANGED <<unit, relay, stored, stopped, faulted>>
Acquire(c) ==
  /\ At(c, "lock") /\ ~coord[c].sep
  /\ lock = [exclusive |-> None, shared |-> FALSE]
  /\ lock' = [lock EXCEPT !.exclusive = c]
  /\ Set(c, [coord[c] EXCEPT !.pc = "load"])
  /\ UNCHANGED <<unit, relay, stored, stopped, faulted>>

Refuse(c) == IF coord[c].sep THEN "CANCELLED" ELSE "ERROR"

AcquireFails(c) ==
  /\ At(c, "lock") /\ (coord[c].sep \/ Expiring \/ Faulty)
  /\ Set(c, [coord[c] EXCEPT !.pc = "unlock", !.native = Refuse(c)]) /\ Local

(* load_material_state: a lease of an existing keybag needs the stored      *)
(* state, a bootstrap needs its absence.                                    *)
MaterialFits(c) == stored = (coord[c].mode = "existing")

(* keybag_state_preflight under the lock: the state, then the caller's      *)
(* connection (only an existing keybag's lease prepares one).               *)
Preflight(c) ==
  /\ At(c, "load") /\ Local
  /\ \/ /\ coord[c].sep \/ Expiring
        /\ Set(c, [coord[c] EXCEPT !.pc = "final", !.native = Refuse(c)])
     \/ /\ ~MaterialFits(c)
        /\ Set(c, [coord[c] EXCEPT !.pc = "final", !.native = "STATE"])
     \/ /\ MaterialFits(c) /\ coord[c].mode = "existing" /\ (Faulty \/ coord[c].cancelled)
        /\ Set(c, [coord[c] EXCEPT !.pc = "final", !.native = "CALLBACK"])
     \/ /\ MaterialFits(c)
        /\ Set(c, [coord[c] EXCEPT !.pc = "open", !.device = TRUE,
                                   !.prepared = coord[c].mode = "existing"])

(* Negotiation, keybag and ACM exchanges up to the lent credential.  A      *)
(* bootstrap that persisted its keybag may still fail afterwards.           *)
Open(c) ==
  /\ At(c, "open") /\ UNCHANGED <<unit, relay, lock, stopped, faulted>>
  /\ \E fails \in {coord[c].sep} \cup IF Expiring \/ Faulty THEN {TRUE} ELSE {}, new \in BOOLEAN :
       /\ (coord[c].mode = "existing" => ~new)
       /\ (coord[c].mode = "bootstrap" /\ ~fails => new)
       /\ stored' = (stored \/ new)
       /\ Set(c, IF fails THEN [coord[c] EXCEPT !.pc = "close", !.native = Refuse(c)]
                 ELSE [coord[c] EXCEPT !.pc = "lend"])

(* The callback with the credential: a bootstrap returns at once, an        *)
(* authentication or recovery runs its product, an enrollment must close    *)
(* the cancellation before it commits.                                      *)
Outs(c) ==
  {"Failed"} \cup (IF coord[c].kind = "enroll" /\ coord[c].mode = "existing" THEN {} ELSE {"Ok"})
             \cup (IF coord[c].cancelled THEN {"Cancelled"} ELSE {})

Lend(c) ==
  /\ At(c, "lend") /\ Local
  /\ \E out \in Outs(c) : Set(c, [coord[c] EXCEPT !.pc = "close", !.out = out])

CloseCancellation(c) == ~coord[c].cancelled

Commit(c) ==
  /\ At(c, "lend") /\ coord[c].kind = "enroll" /\ coord[c].mode = "existing" /\ Local
  /\ IF coord[c].closed
     THEN \/ Set(c, [coord[c] EXCEPT !.pc = "close", !.out = "Ok", !.committed = TRUE])
          \/ Faulty /\ Set(c, [coord[c] EXCEPT !.pc = "close", !.out = "Failed"])
     ELSE CloseCancellation(c) /\ Set(c, [coord[c] EXCEPT !.closed = TRUE])

(* A result that was fine becomes CANCELLED when the flag is up, and        *)
(* TEARDOWN when the context or the device could not be closed cleanly.     *)
CloseSession(c) ==
  /\ At(c, "close") /\ Local
  /\ \E clean \in {TRUE} \cup IF Faulty THEN {FALSE} ELSE {} :
       LET seen == IF coord[c].native = "OK" /\ coord[c].sep THEN "CANCELLED" ELSE coord[c].native
       IN Set(c, [coord[c] EXCEPT !.pc = "final", !.device = FALSE,
                  !.native = IF ~clean /\ seen \in {"OK", "CANCELLED"} THEN "TEARDOWN" ELSE seen])

Finalize(c) ==
  /\ At(c, "final") /\ Local
  /\ Set(c, [coord[c] EXCEPT !.pc = "unlock", !.prepared = FALSE])

(* prepared_lease_outcome, and what the callers make of it: only an         *)
(* enrollment keeps the callback's own error over a failed cleanup.         *)
LeaseOutcome(c) ==
  CASE coord[c].native = "CALLBACK" -> "PreparationFailed"
    [] coord[c].native = "OK" -> "Completed"
    [] coord[c].native \notin {"OK", "CALLBACK"} /\ coord[c].out = None -> "AcquisitionFailed"
    [] OTHER -> "CleanupFailed"

LeaseResult(c) ==
  IF \/ LeaseOutcome(c) = "Completed"
     \/ LeaseOutcome(c) = "CleanupFailed" /\ coord[c].kind = "enroll" /\ coord[c].out # "Ok"
  THEN coord[c].out ELSE "Failed"

-----------------------------------------------------------------------------
(* A coordinator: prepare_relay, then the relay handoff around the lease.   *)

(* What the caller is told.  An authentication that succeeded after it was  *)
(* cancelled is cancelled; an enrollment's failures are, except the loss of *)
(* the relay.                                                               *)
Answer(c, r) ==
  IF ~coord[c].cancelled THEN r
  ELSE IF coord[c].kind = "authenticate" THEN IF r = "Ok" THEN "Cancelled" ELSE r
  ELSE IF r \in {"Ok", "RelayRecovery"} THEN r ELSE "Cancelled"

Done(c, r) == [coord[c] EXCEPT !.pc = "idle", !.cmd = None, !.result = Answer(c, r)]
Step(c, pc) == [coord[c] EXCEPT !.pc = pc, !.cmd = None]

Begin(c, kind) ==
  /\ At(c, "idle") /\ Local
  /\ Set(c, [Fresh EXCEPT !.kind = kind, !.pc = IF kind = "enroll" THEN "prepare" ELSE "health"])

(* The broker cancels; later the bridge thread passes it on to the lease.   *)
Cancel(c) ==
  /\ ~At(c, "idle") /\ coord[c].kind \in {"authenticate", "enroll"}
  /\ ~coord[c].cancelled /\ ~coord[c].closed
  /\ Set(c, [coord[c] EXCEPT !.cancelled = TRUE]) /\ Local

Bridge(c) ==
  /\ ~At(c, "idle") /\ coord[c].cancelled /\ ~coord[c].sep
  /\ Set(c, [coord[c] EXCEPT !.sep = TRUE]) /\ Local

(* prepare_relay: a relay that is not active is bootstrapped and started.   *)
PrepareRelay(c) ==
  /\ At(c, "prepare") /\ Local
  /\ \E state \in {"Active", "Inactive", "Failed", "Error"} :
       /\ Query(state)
       /\ Set(c, CASE state = "Error" -> Done(c, "Failed")
                   [] state = "Active" -> [Step(c, "gate") EXCEPT !.seen = state]
                   [] OTHER -> [Step(c, "lock") EXCEPT !.seen = state, !.mode = "bootstrap"])

StartPrepared(c) ==
  /\ At(c, "prestart")
  /\ Enqueue(c, "start", "prestarting") /\ UNCHANGED <<relay, lock, stored, stopped, faulted>>

PreparedStarted(c) ==
  /\ At(c, "prestarting") /\ Local
  /\ \E ok \in BOOLEAN :
       /\ Transition(c, "start", ok)
       /\ Set(c, IF ok THEN Step(c, "preverify") ELSE Done(c, "Failed"))

VerifyPrepared(c) ==
  /\ At(c, "preverify") /\ Local
  /\ \E state \in {"Active", "Inactive", "Failed", "Error"} :
       /\ Query(state)
       /\ Set(c, IF state = "Active" THEN Step(c, "gate") ELSE Done(c, "Failed"))

PassGate(c) ==
  /\ At(c, "gate") /\ Local
  /\ Set(c, IF coord[c].cancelled THEN Done(c, "Cancelled") ELSE Step(c, "health"))

(* The handoff: a healthy relay is required before anything is changed.     *)
CheckHealth(c) ==
  /\ At(c, "health") /\ Local
  /\ \E state \in {"Active", "Inactive", "Failed", "Error"} :
       /\ Query(state)
       /\ Set(c, IF state = "Active" THEN Step(c, "stop") ELSE Done(c, "Failed"))

Restart(c, primary) == [Step(c, "restart") EXCEPT !.primary = primary, !.mode = None]

StopRelay(c) ==
  /\ At(c, "stop") /\ stopped' = TRUE /\ UNCHANGED <<relay, lock, stored, faulted>>
  /\ \/ Enqueue(c, "stop", "stopping")
     \/ Faulty /\ UNCHANGED unit /\ Set(c, Restart(c, "Failed"))

(* Once a stop was attempted the relay is started again, also when the stop *)
(* was reported as failed.                                                  *)
RelayStop(c) ==
  /\ At(c, "stopping") /\ Local
  /\ \E ok \in BOOLEAN :
       /\ Transition(c, "stop", ok)
       /\ Set(c, IF ok THEN Step(c, "operation") ELSE Restart(c, "Failed"))

Operation(c) ==
  /\ At(c, "operation") /\ Local
  /\ Set(c, IF coord[c].cancelled THEN Restart(c, "Cancelled")
            ELSE [Step(c, "lock") EXCEPT !.mode = "existing", !.native = "OK", !.out = None])

(* bootstrap_keybag's result: only a completed lease goes on to the start. *)
AfterBootstrap(c) == IF LeaseOutcome(c) = "Completed" THEN Step(c, "prestart") ELSE Done(c, "Failed")

(* close_operation_lock: the lease is over. *)
Unlock(c) ==
  /\ At(c, "unlock")
  /\ lock' = IF lock.exclusive = c THEN [lock EXCEPT !.exclusive = None] ELSE lock
  /\ Set(c, IF coord[c].mode = "existing" THEN Restart(c, LeaseResult(c)) ELSE AfterBootstrap(c))
  /\ UNCHANGED <<unit, relay, stored, stopped, faulted>>

StartRelayForgotten(c) ==
  /\ At(c, "restart") /\ UNCHANGED <<unit, relay, lock, stored, stopped, faulted>>
  /\ Set(c, Done(c, coord[c].primary))

StartRelay(c) ==
  /\ At(c, "restart") /\ UNCHANGED <<relay, lock, stored, stopped>>
  /\ \/ Enqueue(c, "start", "restarting") /\ UNCHANGED faulted
     \/ Faulty /\ faulted' = TRUE /\ UNCHANGED unit /\ Set(c, Done(c, "RelayRecovery"))

RelayRecovery(c) ==
  /\ At(c, "restarting") /\ Local
  /\ \E ok \in BOOLEAN :
       /\ Transition(c, "start", ok)
       /\ Set(c, Done(c, IF ok THEN coord[c].primary ELSE "RelayRecovery"))

(* The process ends with the worker thread still running: the kernel closes *)
(* its descriptors, a queued job stays with systemd.                        *)
EndProcess(c) ==
  /\ c \in Ending /\ ~At(c, "idle")
  /\ lock' = IF lock.exclusive = c THEN [lock EXCEPT !.exclusive = None] ELSE lock
  /\ Set(c, [Fresh EXCEPT !.kind = coord[c].kind, !.result = "Ended"])
  /\ UNCHANGED <<unit, relay, stored, stopped, faulted>>

Proceed(c) ==
  \/ PrepareRelay(c) \/ StartPrepared(c) \/ PreparedStarted(c) \/ VerifyPrepared(c)
  \/ PassGate(c) \/ CheckHealth(c) \/ StopRelay(c) \/ RelayStop(c) \/ Operation(c)
  \/ Acquire(c) \/ AcquireFails(c) \/ Preflight(c) \/ Open(c) \/ Lend(c) \/ Commit(c)
  \/ CloseSession(c) \/ Finalize(c) \/ Unlock(c) \/ StartRelay(c) \/ RelayRecovery(c)

Next ==
  \/ Systemd \/ RelayProcess
  \/ \E c \in Coordinators :
       \/ Proceed(c) \/ Cancel(c) \/ Bridge(c) \/ EndProcess(c)
       \/ \E kind \in KindsOf(c) : Begin(c, kind)

Spec == Init /\ [][Next]_vars


-----------------------------------------------------------------------------
TypeOK ==
  /\ unit \in [state : {"active", "activating", "inactive", "deactivating", "failed", "restarting"},
               job : {None, "start", "stop"}]
  /\ relay \in [pc : {None, "lock", "open", "ready", "close", "closefail", "unlock", "unlockfail"},
                term : BOOLEAN]
  /\ lock \in [exclusive : Coordinators \cup {None}, shared : BOOLEAN]
  /\ stored \in BOOLEAN /\ stopped \in BOOLEAN /\ faulted \in BOOLEAN
  /\ \A c \in Coordinators :
       /\ coord[c].result \in {None, "Ok", "Failed", "Cancelled", "RelayRecovery", "Ended"}
       /\ coord[c].native \in {"OK", "ERROR", "CANCELLED", "STATE", "CALLBACK", "TEARDOWN"}

(* At most one process has the SEP device open, across a relay that is      *)
(* stopped late, killed or restarted by systemd, and leases that time out   *)
(* or fail half way (run_with_ops opens the device under the lock and       *)
(* closes it before the lock).                                              *)
SepOwnedOnce ==
  Cardinality({c \in Coordinators : coord[c].device} \cup IF RelayHasDevice THEN {Relay} ELSE {}) <= 1

(* The BridgeOS connection a lease prepares lives only under the exclusive  *)
(* lock: the finalizer drops it before the lock is closed.                  *)
PreparedUnderLock == \A c \in Coordinators : coord[c].prepared => lock.exclusive = c

(* Whoever tried to stop the relay has asked for its start last: once every *)
(* coordinator has answered, the unit is running or on its way, whatever    *)
(* timed out in between, unless the relay or systemctl failed by itself.    *)
Returning ==
  \/ unit.job = "start"
  \/ unit.job = None /\ unit.state \in {"active", "activating", "restarting"}
LastWordIsStart ==
  stopped /\ (\A c \in Coordinators : At(c, "idle")) => faulted \/ Returning

(* An operation whose cancellation was accepted is never answered Ok, at    *)
(* whatever step the cancellation arrived.                                  *)
CancelledNeverOk == \A c \in Coordinators : coord[c].cancelled => coord[c].result # "Ok"

(* An enrollment that committed is never answered Cancelled, and its lease  *)
(* is not turned into a cancelled one by the bridge thread.                 *)
CommitIsNotCancelled ==
  \A c \in Coordinators :
    coord[c].committed => coord[c].native # "CANCELLED" /\ coord[c].result # "Cancelled"

(* With live processes and no failure, a stopped relay becomes active       *)
(* again: operations, the relay and systemd never wait for one another in a *)
(* circle.                                                                  *)
RelayComesBack == (unit.state # "active" /\ stopped) ~> (unit.state = "active")

=============================================================================
