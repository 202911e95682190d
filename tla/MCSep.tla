-------------------------------- MODULE MCSep --------------------------------
(***************************************************************************)
(* The road to the SEP and who may take it: the session over usbfs         *)
(* (SepLink), the lock and the relay handed over between processes         *)
(* (SepHandoff), the command that takes the device away and brings it back *)
(* (UsbCycle), and the network service on its other interface (NcmLink).   *)
(* part names the one explored, the others keep their initial state.       *)
(* "faults" is the hand-over of one process in which native calls, systemd *)
(* and the relay may fail, "teardown" the same when the process may end in *)
(* the middle, "loss" the command's live-loss form among more clients.     *)
(***************************************************************************)
EXTENDS SepLink

CONSTANTS broker, other, Names

VARIABLES
  part,
  unit, relay, lock, stored, coord, stopped, faulted,
  tool, cycleLock, sepLock, dev, seven, svc, wanted, arrived, budget,
  net, last, t1s, usable, up, events, device, ready, xart, term, faults

Handoff == INSTANCE SepHandoff WITH
  Coordinators <- {broker, other}, Enrollers <- {broker}, Ending <- {},
  Expiring <- TRUE, Faulty <- FALSE
Failing == INSTANCE SepHandoff WITH
  Coordinators <- {broker}, Enrollers <- {broker}, Ending <- {},
  Expiring <- TRUE, Faulty <- TRUE
Teardown == INSTANCE SepHandoff WITH
  Coordinators <- {broker}, Enrollers <- {broker}, Ending <- {broker},
  Expiring <- TRUE, Faulty <- TRUE
Cycle == INSTANCE UsbCycle WITH
  Tools <- {"a", "b"}, Commands <- {"cycle"}, lock <- sepLock,
  MaxFaults <- 1, MaxSignals <- 0, MaxClients <- 1
Loss == INSTANCE UsbCycle WITH
  Tools <- {"a"}, Commands <- {"cycle", "loss"}, lock <- sepLock,
  MaxFaults <- 1, MaxSignals <- 1, MaxClients <- 3
Ncm == INSTANCE NcmLink WITH MaxIndex <- 3, Faults <- 1, ReadyFaults <- TRUE

handoffVars == <<unit, relay, lock, stored, coord, stopped, faulted>>
usbVars == <<tool, cycleLock, sepLock, dev, seven, svc, wanted, arrived, budget>>
ncmVars == <<net, last, t1s, usable, up, events, device, ready, xart, term, faults>>

SepInit ==
  /\ part \in {"link", "handoff", "faults", "teardown", "cycle", "loss", "ncm"}
  /\ Init /\ (part # "link" => op.kind = "relay")
  /\ IF part \in {"faults", "teardown"} THEN Teardown!Init ELSE Handoff!Init
  /\ part \notin {"handoff", "faults", "teardown"} => unit.state = "active"
  /\ IF part = "loss" THEN Loss!Init ELSE Cycle!Init
  /\ Ncm!Init

SepNext ==
  /\ UNCHANGED part
  /\ \/ part = "link" /\ Next /\ UNCHANGED <<handoffVars, usbVars, ncmVars>>
     \/ part = "handoff" /\ Handoff!Next /\ UNCHANGED <<vars, usbVars, ncmVars>>
     \/ part = "faults" /\ Failing!Next /\ UNCHANGED <<vars, usbVars, ncmVars>>
     \/ part = "teardown" /\ Teardown!Next /\ UNCHANGED <<vars, usbVars, ncmVars>>
     \/ part = "cycle" /\ Cycle!Next /\ UNCHANGED <<vars, handoffVars, ncmVars>>
     \/ part = "loss" /\ Loss!Next /\ UNCHANGED <<vars, handoffVars, ncmVars>>
     \/ part = "ncm" /\ Ncm!Next /\ UNCHANGED <<vars, handoffVars, usbVars>>

SepSpec == SepInit /\ [][SepNext]_<<part, vars, handoffVars, usbVars, ncmVars>>

\* SepHandoff: at most one process has the SEP device open, also when a
\* process ends in the middle; once every coordinator has answered, the relay
\* runs or is on its way, whatever timed out, unless it failed by itself; and
\* neither a cancellation nor a commit is misreported.
SepOwnedOnce ==
  /\ part = "handoff" => /\ Handoff!TypeOK /\ Handoff!PreparedUnderLock
                         /\ Handoff!CancelledNeverOk /\ Handoff!CommitIsNotCancelled
  /\ IF part \in {"faults", "teardown"} THEN Teardown!SepOwnedOnce ELSE Handoff!SepOwnedOnce
  /\ part = "handoff" => Handoff!LastWordIsStart
  /\ part = "faults" => Failing!LastWordIsStart

\* UsbCycle: no relay and no operation uses SEP while a command holds the
\* selector away; one command works at a time, and a recovery is reported as
\* failed only when something did fail.
SepExcluded ==
  /\ part = "cycle" => Cycle!TypeOK /\ Cycle!OneCommand /\ Cycle!NoSpuriousFailure
  /\ IF part = "loss" THEN Loss!SepExcluded ELSE Cycle!SepExcluded

\* UsbCycle: any end other than a failed recovery leaves the selector bound
\* and the services as they were.
HonestEnd ==
  [][IF part = "loss" THEN Loss!EndsHonestly ELSE Cycle!EndsHonestly]_<<part, usbVars>>

\* NcmLink: a daemon left on a vanished interface is one systemd still has to
\* hear about, and the record is offered on the T1's interfaces only.
NoStrandedListener == Ncm!TypeOK /\ Ncm!NoStrandedListener /\ Ncm!ListensOnT1
=============================================================================
