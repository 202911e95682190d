--------------------------- MODULE OnlineRecovery ---------------------------
(***************************************************************************)
(* The attended online recovery of a T1 without factory data               *)
(* (crates/t1-import/src/recovery): check that nothing is preserved, take  *)
(* the attempt directory, restore the T1 once to provision its factory     *)
(* data (FDR), reset it, restore it again replaying that data, reset it,   *)
(* boot the image of the second signature, and only then publish the three *)
(* files on the EFI system partition with one rename.                      *)
(*                                                                         *)
(* The T1, Apple's signing service and the restore messages are external.  *)
(* attMay and espMay hold what a power loss now could leave of the attempt *)
(* directory and of EFI/APPLE.                                             *)
(***************************************************************************)
EXTENDS Naturals, Sequences, FiniteSets

CONSTANTS Commands,    \* recovery commands
          Stores,      \* factory data the T1 may commit
          MaxNonce,    \* signing nonces the T1 may draw
          MaxFaults,   \* calls that fail, T1s that misbehave
          MaxEvents    \* power losses, kills, cleared attempts

VARIABLES
    cmd,      \* the commands
    t1,       \* mode, addr, nonce; acked: the store whose commit was acknowledged, per pass
    att,      \* /var/lib/t1bridge/recovery: active, fdr (per pass)
    attMay,
    esp,      \* EFI/APPLE: dest (EMBEDDEDOS), stage (EMBEDDEDOS.recovery)
    espMay,
    lock,     \* the commands holding the ESP lock and the attempt lock
    proven,   \* the image that was seen running for 30 seconds
    budget

vars == <<cmd, t1, att, attMay, esp, espMay, lock, proven, budget>>

Passes == {1, 2}
Nothing == [fdr |-> "none", image |-> 0, version |-> "none"]
Absent == [fdr |-> "absent", image |-> 0, version |-> "none"]

Idle ==
    [pc |-> "start", addr |-> 0, nonce |-> 0, signed |-> 0, pass |-> 1,
     committed |-> "none", first |-> "none", result |-> "none"]

Init ==
    /\ cmd = [c \in Commands |-> Idle]
    /\ t1 \in [mode : {"recovery", "functional"}, addr : {1}, nonce : {1},
               acked : {[i \in Passes |-> "none"]}]
    /\ att = [active |-> FALSE, fdr |-> [i \in Passes |-> "none"]] /\ attMay = {att}
    /\ esp = [dest |-> Absent, stage |-> Absent] /\ espMay = {esp}
    /\ lock = [esp |-> "none", attempt |-> "none"]
    /\ proven = 0
    /\ budget = [faults |-> 0, events |-> 0]

-----------------------------------------------------------------------------
At(c, pc) == cmd[c].pc = pc
Become(c, s) == cmd' = [cmd EXCEPT ![c] = s]
GoTo(c, pc) == Become(c, [cmd[c] EXCEPT !.pc = pc])
Sound == UNCHANGED budget
Fault == budget.faults < MaxFaults /\ budget' = [budget EXCEPT !.faults = @ + 1]
Disk == <<att, attMay, esp, espMay>>

\* The command ends and its locks go with it.
Released(c) == lock' = [k \in {"esp", "attempt"} |-> IF lock[k] = c THEN "none" ELSE lock[k]]

End(c, result) ==
    /\ Become(c, [cmd[c] EXCEPT !.pc = "done", !.result = result])
    /\ Released(c)

\* A call that fails ends the command; what it did stays.
Fails(c) == Fault /\ End(c, "failed") /\ UNCHANGED <<t1, Disk, proven>>

Refuse(c, why) == Sound /\ End(c, why) /\ UNCHANGED <<t1, Disk, proven>>

\* A step that only moves on.
Pass(c, pc) == Sound /\ GoTo(c, pc) /\ UNCHANGED <<t1, Disk, lock, proven>>

-----------------------------------------------------------------------------
(* The T1 (external).                                                      *)

Present == t1.mode \in {"recovery", "restored", "functional"}
HasHid == t1.mode = "functional"

\* It leaves the bus and comes back elsewhere in `target`.
T1Leaves(target) == t1' = [t1 EXCEPT !.mode = target]

Arrivals == [goIbec |-> {"recovery"}, goRestore |-> {"restored", "functional"},
             goReset |-> {"recovery"}, goImage |-> {"functional", "restored"}]

T1Arrives ==
    /\ t1.mode \in DOMAIN Arrivals
    /\ \E m \in Arrivals[t1.mode], n \in {t1.nonce, t1.nonce + 1} :
          /\ n <= MaxNonce
          /\ t1' = [t1 EXCEPT !.mode = m, !.addr = @ + 1, !.nonce = IF m = "recovery" THEN n ELSE @]
    /\ UNCHANGED <<cmd, Disk, lock, proven, budget>>

\* It restarts by itself.
T1Restarts ==
    /\ Fault /\ Present
    /\ \E m \in {"recovery", "restored", "functional", "gone"}, n \in t1.nonce..MaxNonce :
          t1' = [t1 EXCEPT !.mode = m, !.addr = @ + 1, !.nonce = n]
    /\ UNCHANGED <<cmd, Disk, lock, proven>>

-----------------------------------------------------------------------------
(* Before the attempt.                                                     *)

\* require_local_absence: a generation or the stage of one blocks recovery.
LocalAbsence == esp.dest = Absent /\ esp.stage = Absent

RequireAbsence(c, from, to) ==
    /\ At(c, from)
    /\ \/ LocalAbsence /\ Pass(c, to)
       \/ ~LocalAbsence /\ Refuse(c, "preserved")
       \/ Fails(c)

\* usb::discover, and the reset method is validated without being executed.
DiscoverT1(c) ==
    /\ At(c, "discover")
    /\ \/ /\ t1.mode = "recovery" /\ Sound /\ UNCHANGED <<t1, Disk, lock, proven>>
          /\ Become(c, [cmd[c] EXCEPT !.pc = "destination", !.addr = t1.addr])
       \/ t1.mode # "recovery" /\ Refuse(c, "mode")
       \/ Fails(c)

\* EfiDestination::open.
OpenDestination(c) ==
    /\ At(c, "destination")
    /\ \/ /\ lock.esp = "none" /\ LocalAbsence /\ Sound
          /\ lock' = [lock EXCEPT !.esp = c] /\ GoTo(c, "confirm")
          /\ UNCHANGED <<t1, Disk, proven>>
       \/ (lock.esp # "none" \/ ~LocalAbsence) /\ Refuse(c, "preserved")
       \/ Fails(c)

\* The word is typed at the terminal, then the firmware is fetched.
Confirm(c) ==
    At(c, "confirm") /\ (Pass(c, "absence2") \/ Refuse(c, "declined") \/ Fails(c))

\* Attempt::create and phase: every directory is synchronised when made.
CreateAttempt(c) ==
    /\ At(c, "create")
    /\ \/ /\ lock.attempt = "none" /\ ~att.active /\ Sound
          /\ lock' = [lock EXCEPT !.attempt = c] /\ GoTo(c, "identify")
          /\ att' = [active |-> TRUE, fdr |-> [i \in Passes |-> "none"]] /\ attMay' = {att'}
          /\ UNCHANGED <<t1, esp, espMay, proven>>
       \/ lock.attempt # "none" /\ Refuse(c, "running")
       \/ lock.attempt = "none" /\ att.active /\ Refuse(c, "interrupted")
       \/ Fails(c)
       \/ /\ lock.attempt = "none" /\ ~att.active /\ Fault  \* made, then failing
          /\ End(c, "failed") /\ att' = [att EXCEPT !.active = TRUE] /\ attMay' = attMay \union {att'}
          /\ UNCHANGED <<t1, esp, espMay, proven>>

-----------------------------------------------------------------------------
(* One restore (restore::run).                                             *)

\* Usb::open: the device at that address, without HID.
Opens(c) == Present /\ t1.addr = cmd[c].addr /\ ~HasHid

\* identity and SignedFirmware::request for the nonce it names.
Identify(c) ==
    /\ At(c, "identify")
    /\ \/ /\ Opens(c) /\ t1.mode = "recovery" /\ Sound /\ UNCHANGED <<t1, Disk, lock, proven>>
          /\ Become(c, [cmd[c] EXCEPT !.pc = "ibec", !.nonce = t1.nonce, !.signed = t1.nonce])
       \/ ~(Opens(c) /\ t1.mode = "recovery") /\ Refuse(c, "lost")
       \/ Fails(c)

\* The first loader is uploaded and started.
SendIbec(c) ==
    /\ At(c, "ibec")
    /\ \/ /\ Opens(c) /\ T1Leaves("goIbec") /\ Sound
          /\ GoTo(c, "waitibec") /\ UNCHANGED <<Disk, lock, proven>>
       \/ ~Opens(c) /\ Refuse(c, "lost")
       \/ Fails(c)

\* usb::wait: the mode, not at the address `previous`, or the deadline.
Waits(c, mode, previous, to) ==
    \/ /\ t1.mode = mode /\ t1.addr # previous /\ Sound
       /\ Become(c, [cmd[c] EXCEPT !.pc = to, !.addr = t1.addr])
       /\ UNCHANGED <<t1, Disk, lock, proven>>
    \/ Fails(c)

WaitIbec(c) == At(c, "waitibec") /\ Waits(c, "recovery", cmd[c].addr, "again")

\* The identity again; other nonces need another signature.
IdentifyAgain(c) ==
    /\ At(c, "again")
    /\ \/ /\ Opens(c) /\ Sound /\ UNCHANGED <<t1, Disk, lock, proven>>
          /\ Become(c, [cmd[c] EXCEPT !.pc = "bootx", !.nonce = t1.nonce,
                          !.signed = IF t1.nonce # cmd[c].nonce THEN t1.nonce ELSE @])
       \/ ~Opens(c) /\ Refuse(c, "lost")
       \/ Fails(c)

\* Ramdisk, device tree, SEP and kernel of that signature, then bootx.
BootRestore(c) ==
    /\ At(c, "bootx")
    /\ \/ Opens(c) /\ T1Leaves("goRestore") /\ Sound /\ GoTo(c, "waitrestored")
          /\ UNCHANGED <<Disk, lock, proven>>
       \/ ~Opens(c) /\ Refuse(c, "lost")
       \/ Fails(c)

WaitRestored(c) ==
    /\ At(c, "waitrestored")
    /\ \/ Waits(c, "restored", 0, "startrestore")
       \/ t1.mode = "functional" /\ Refuse(c, "functional")

\* The image and its ticket are saved; the service answers for the same T1
\* and is told to start.
StartRestore(c) ==
    /\ At(c, "startrestore")
    /\ \/ Opens(c) /\ t1.mode = "restored" /\ Pass(c, "serve")
       \/ ~(Opens(c) /\ t1.mode = "restored") /\ Refuse(c, "lost")
       \/ Fails(c)

\* A message of the restore service that changes nothing here: a request for
\* the ticket, the trust data, a component; progress; a clean checkpoint.
\* Any other message, a failed checkpoint, a lost connection or the deadline
\* ends the command.
Serve(c) ==
    /\ At(c, "serve")
    /\ \/ t1.mode = "restored" /\ Pass(c, "serve")
       \/ t1.mode # "restored" /\ Refuse(c, "lost")
       \/ Fails(c)

\* FDRMemoryCommit: one per restore; in the second, what was replayed. Saved
\* durably before it is acknowledged.
AcceptCommit(c) ==
    LET s == cmd[c] IN
    /\ At(c, "serve") /\ t1.mode = "restored"
    /\ \E f \in Stores :
          \/ /\ s.committed = "none" /\ (s.pass = 2 => f = s.first)
             /\ Sound /\ Become(c, [s EXCEPT !.committed = f, !.pc = "ack"])
             /\ att' = [att EXCEPT !.fdr[s.pass] = f] /\ attMay' = {att'}
             /\ UNCHANGED <<t1, esp, espMay, lock, proven>>
          \/ s.committed # "none" /\ Refuse(c, "duplicate")
          \/ s.committed = "none" /\ s.pass = 2 /\ f # s.first /\ Refuse(c, "differs")
          \/ s.committed = "none" /\ Fails(c)

\* The reply.
Acknowledge(c) ==
    LET s == cmd[c] IN
    /\ At(c, "ack")
    /\ \/ /\ t1.mode = "restored" /\ Sound /\ GoTo(c, "serve")
          /\ t1' = [t1 EXCEPT !.acked[s.pass] = s.committed]
          /\ UNCHANGED <<Disk, lock, proven>>
       \/ t1.mode # "restored" /\ Refuse(c, "lost")
       \/ Fails(c)

\* check_final_status, then "complete" is saved: status 0 and a commit.
FinalStatus(c) ==
    LET s == cmd[c] IN
    /\ At(c, "serve") /\ t1.mode = "restored"
    /\ \/ /\ s.committed # "none" /\ Sound
          /\ Become(c, [s EXCEPT !.pc = "resetwait",
                          !.first = IF s.pass = 1 THEN s.committed ELSE @])
          /\ UNCHANGED <<t1, Disk, lock, proven>>
       \/ s.committed = "none" /\ Refuse(c, "nocommit")
       \/ Fails(c)

-----------------------------------------------------------------------------
(* Between the restores and after them.                                    *)

\* The service may have enumerated again: its present address.
ResetWait(c) ==
    /\ At(c, "resetwait")
    /\ \/ /\ t1.mode \in {"restored", "functional"} /\ Sound
          /\ Become(c, [cmd[c] EXCEPT !.pc = "reset", !.addr = t1.addr])
          /\ UNCHANGED <<t1, Disk, lock, proven>>
       \/ Fails(c)

\* t1_recovery_ioctl: with the device locked, no HID, in its booted mode.
Reset(c) ==
    /\ At(c, "reset")
    /\ \/ /\ t1.mode = "restored" /\ t1.addr = cmd[c].addr
          /\ T1Leaves("goReset") /\ Sound /\ GoTo(c, "waitrecovery")
          /\ UNCHANGED <<Disk, lock, proven>>
       \/ ~(t1.mode = "restored" /\ t1.addr = cmd[c].addr) /\ Refuse(c, "lost")
       \/ Fails(c)

WaitRecovery(c) ==
    LET s == cmd[c] IN
    /\ At(c, "waitrecovery")
    /\ \/ /\ t1.mode = "recovery" /\ Sound /\ UNCHANGED <<t1, Disk, lock, proven>>
          /\ Become(c, IF s.pass = 1
                       THEN [s EXCEPT !.pc = "identify", !.addr = t1.addr, !.pass = 2,
                               !.committed = "none"]
                       ELSE [s EXCEPT !.pc = "boot", !.addr = t1.addr])
       \/ Fails(c)

\* restore::boot: ticket and image of the second signature.
Boot(c) ==
    /\ At(c, "boot")
    /\ \/ Opens(c) /\ T1Leaves("goImage") /\ Sound /\ GoTo(c, "waitbooted")
          /\ UNCHANGED <<Disk, lock, proven>>
       \/ ~Opens(c) /\ Refuse(c, "lost")
       \/ Fails(c)

\* The booted T1 has HID, then prove_boot: it keeps it.
WaitBooted(c) ==
    /\ At(c, "waitbooted")
    /\ \/ Waits(c, "functional", 0, "prove")
       \/ t1.mode = "restored" /\ Refuse(c, "restoreonly")

ProveBoot(c) ==
    /\ At(c, "prove")
    /\ \/ /\ t1.mode = "functional" /\ Sound /\ proven' = cmd[c].signed /\ GoTo(c, "stage")
          /\ UNCHANGED <<t1, Disk, lock>>
       \/ t1.mode # "functional" /\ Refuse(c, "lost")
       \/ Fails(c)

-----------------------------------------------------------------------------
(* The generation on the EFI system partition.                             *)

EspWrites(e) == esp' = e /\ UNCHANGED <<t1, att, attMay, proven>>

Stage(c) ==
    /\ At(c, "stage")
    /\ \/ /\ LocalAbsence /\ Sound /\ GoTo(c, "open") /\ UNCHANGED lock
          /\ EspWrites([esp EXCEPT !.stage = Nothing]) /\ espMay' = {esp'}
       \/ ~LocalAbsence /\ Refuse(c, "preserved")
       \/ Fails(c)

\* The next file of the stage, in order.
NextFile == IF esp.stage.fdr \in {"none", "part"} THEN "fdr"
            ELSE IF esp.stage.image \in {0, MaxNonce + 1} THEN "image" ELSE "version"

With(stage, file, c, whole) ==
    CASE file = "fdr" -> [stage EXCEPT !.fdr = IF whole THEN cmd[c].first ELSE "part"]
      [] file = "image" -> [stage EXCEPT !.image = IF whole THEN cmd[c].signed ELSE MaxNonce + 1]
      [] file = "version" -> [stage EXCEPT !.version = IF whole THEN "version" ELSE "part"]

\* save: create the file, write it, sync it and the directory, read it back.
SaveBegins(c) ==
    /\ At(c, "open") /\ Sound /\ GoTo(c, "save") /\ UNCHANGED lock
    /\ EspWrites([esp EXCEPT !.stage = With(@, NextFile, c, FALSE)])
    /\ espMay' = espMay \union {esp'}

\* The page cache has it.
SaveUnsynced(c) ==
    LET e == [esp EXCEPT !.stage = With(@, NextFile, c, TRUE)] IN
    /\ At(c, "save") /\ Sound /\ EspWrites(e) /\ espMay' = espMay \union {e} /\ UNCHANGED lock
    /\ GoTo(c, IF NextFile = "version" THEN "publish" ELSE "open")

SaveEnds(c) ==
    LET e == [esp EXCEPT !.stage = With(@, NextFile, c, TRUE)] IN
    /\ At(c, "save")
    /\ \/ /\ Sound /\ EspWrites(e) /\ espMay' = {e} /\ UNCHANGED lock
          /\ GoTo(c, IF NextFile = "version" THEN "publish" ELSE "open")
       \/ Fails(c)

Renamed(e) == [dest |-> e.stage, stage |-> Absent]

\* One rename that replaces nothing.
Publish(c) ==
    /\ At(c, "publish")
    /\ \/ /\ esp.dest = Absent /\ Sound /\ GoTo(c, "flush") /\ UNCHANGED lock
          /\ EspWrites(Renamed(esp)) /\ espMay' = espMay \union {Renamed(e) : e \in espMay}
       \/ esp.dest # Absent /\ Refuse(c, "preserved")
       \/ Fails(c)

Flush(c) ==
    /\ At(c, "flush")
    /\ \/ /\ Sound /\ GoTo(c, "finish") /\ UNCHANGED lock /\ EspWrites(esp) /\ espMay' = {esp}
       \/ Fault /\ End(c, "uncertain") /\ UNCHANGED <<t1, Disk, proven>>

\* Attempt::finish: "complete" is saved, active renamed, then the import.
Finish(c) ==
    /\ At(c, "finish")
    /\ \/ /\ Sound /\ End(c, "ok") /\ att' = [att EXCEPT !.active = FALSE] /\ attMay' = {att'}
          /\ UNCHANGED <<t1, esp, espMay, proven>>
       \/ Fails(c)

Restore(c) ==
    \/ Identify(c) \/ SendIbec(c) \/ WaitIbec(c) \/ IdentifyAgain(c) \/ BootRestore(c)
    \/ WaitRestored(c) \/ StartRestore(c) \/ Serve(c) \/ AcceptCommit(c) \/ Acknowledge(c) \/ FinalStatus(c)

Install(c) == Stage(c) \/ SaveBegins(c) \/ SaveEnds(c) \/ Publish(c) \/ Flush(c)

Run(c) ==
    \/ RequireAbsence(c, "start", "discover") \/ DiscoverT1(c) \/ OpenDestination(c) \/ Confirm(c)
    \/ RequireAbsence(c, "absence2", "create") \/ CreateAttempt(c) \/ Restore(c)
    \/ ResetWait(c) \/ Reset(c) \/ WaitRecovery(c) \/ Boot(c) \/ WaitBooted(c) \/ ProveBoot(c)
    \/ Install(c) \/ Finish(c)

-----------------------------------------------------------------------------
(* Around the command.                                                     *)

Event == budget.events < MaxEvents /\ budget' = [budget EXCEPT !.events = @ + 1]

Kill(c) ==
    /\ cmd[c].pc \notin {"start", "done"} /\ Event /\ Released(c)
    /\ Become(c, Idle) /\ UNCHANGED <<t1, Disk, proven>>

\* Power is lost, for the T1 too.
PowerLoss ==
    /\ Event /\ cmd' = [c \in Commands |-> Idle]
    /\ lock' = [esp |-> "none", attempt |-> "none"]
    /\ \E a \in attMay : att' = a /\ attMay' = {a}
    /\ \E e \in espMay : esp' = e /\ espMay' = {e}
    /\ \E m \in {"recovery", "functional"} : t1' = [t1 EXCEPT !.mode = m, !.addr = @ + 1]
    /\ UNCHANGED proven

\* Someone inspects an interrupted attempt and sets it aside with the stage.
AttemptCleared ==
    /\ Event /\ att.active /\ \A c \in Commands : cmd[c].pc \in {"start", "done"}
    /\ att' = [active |-> FALSE, fdr |-> [i \in Passes |-> "none"]] /\ attMay' = {att'}
    /\ esp' = [esp EXCEPT !.stage = Absent] /\ espMay' = {esp'}
    /\ t1' = [t1 EXCEPT !.acked = [i \in Passes |-> "none"]]
    /\ UNCHANGED <<cmd, lock, proven>>

\* Someone copies a preserved generation back by hand.
CopiedBack ==
    /\ Event /\ esp.dest = Absent
    /\ esp' = [esp EXCEPT !.dest = [Nothing EXCEPT !.version = "kept"]] /\ espMay' = {esp'}
    /\ UNCHANGED <<cmd, t1, att, attMay, lock, proven>>

Again(c) == At(c, "done") /\ Become(c, Idle) /\ UNCHANGED <<t1, Disk, lock, proven, budget>>

Next ==
    \/ \E c \in Commands : Run(c) \/ Kill(c) \/ Again(c)
    \/ T1Arrives \/ T1Restarts \/ PowerLoss \/ AttemptCleared \/ CopiedBack

Spec == Init /\ [][Next]_vars

-----------------------------------------------------------------------------
Mutating == {"identify", "ibec", "waitibec", "again", "bootx", "waitrestored", "startrestore", "serve", "ack",
             "resetwait", "reset", "waitrecovery", "boot", "waitbooted", "prove", "stage",
             "open", "save", "publish", "flush", "finish"}

\* Types, and the attempt lock is held exactly while the T1 may be changed.
TypeOK ==
    /\ \A c \in Commands :
          /\ cmd[c].pass \in Passes /\ cmd[c].signed \in 0..MaxNonce
          /\ {cmd[c].committed, cmd[c].first} \subseteq Stores \union {"none"}
          /\ cmd[c].pc \in Mutating => lock.attempt = c /\ lock.esp = c
    /\ att \in attMay /\ esp \in espMay

\* Factory data whose commit the T1 saw acknowledged is on disk, now and
\* after a power loss at any moment.
CommitKept ==
    \A i \in Passes : t1.acked[i] # "none" => \A a \in attMay : a.fdr[i] = t1.acked[i]

\* Now and after any power loss EMBEDDEDOS is absent, copied by hand or
\* whole, with the image that was seen running.
GenerationWhole ==
    \A e \in espMay : e.dest # Absent /\ e.dest.version # "kept" =>
        /\ e.dest.version = "version" /\ e.dest.fdr \in Stores
        /\ e.dest.image = proven

\* Both restores of a finished attempt committed the same factory data, and
\* that is what was published.
SameStore ==
    \A c \in Commands : cmd[c].pc = "finish" =>
        /\ att.fdr = [i \in Passes |-> cmd[c].first]
        /\ esp.dest.fdr = cmd[c].first

=============================================================================
