------------------------------- MODULE MCLive -------------------------------
(***************************************************************************)
(* What must eventually happen, one component at a time: the broker        *)
(* (daemon), the hand-over of the SEP (handoff), the Touch Bar service     *)
(* with a client that never reads (bar), the Touch ID overlay (overlay)    *)
(* and the network service of the T1 (ncm).  The fairness is each          *)
(* component's own; that of the broker is the part EveryOperationEnds      *)
(* needs.                                                                  *)
(***************************************************************************)
EXTENDS AuthDaemon, TLC

CONSTANTS broker, other, r1, r2, e1, e2, nobody, Names

VARIABLES
  part,
  unit, relay, lock, stored, coord, stopped, faulted,
  at, back, due, seat, seen, first, listen, cl, conn, pend, kb, bright, panel,
  lit, inp, hw, trouble,
  file, proc, watch, shown, budget,
  net, last, t1s, usable, up, events, device, ready, xart, term, faults

Handoff == INSTANCE SepHandoff WITH
  Coordinators <- {broker, other}, Enrollers <- {broker}, Ending <- {},
  Expiring <- FALSE, Faulty <- FALSE
Bar == INSTANCE TouchBarService WITH
  Clients <- {r1, r2}, Sessions <- {e1, e2}, None <- nobody,
  UserOf <- r1 :> "u1" @@ r2 :> "u2" @@ e1 :> "u1" @@ e2 :> "u2",
  Buffers <- {1}, MaxBuffers <- 1, Regions <- {"left"},
  Damages <- {{}}, Ops <- {"hello"}, Kinds <- {}, Minors <- {1},
  Room <- 1, HwEvents <- {}, MaxFaults <- 0,
  pc <- at, watch <- seen, faults <- trouble
Overlay == INSTANCE OverlayRecord WITH
  Pids <- {1, 2}, MaxUpdates <- 3, MaxFaults <- 2
Ncm == INSTANCE NcmLink WITH MaxIndex <- 2, Faults <- 1, ReadyFaults <- FALSE

handoffVars == <<unit, relay, lock, stored, coord, stopped, faulted>>
barVars == <<at, back, due, seat, seen, first, listen, cl, conn, pend, kb, bright,
             panel, lit, inp, hw, trouble>>
overlayVars == <<file, proc, watch, shown, budget>>
ncmVars == <<net, last, t1s, usable, up, events, device, ready, xart, term, faults>>
all == <<part, vars, handoffVars, barVars, overlayVars, ncmVars>>

LiveInit ==
  /\ part \in {"daemon", "handoff", "bar", "overlay", "ncm"}
  /\ Init
  /\ Handoff!Init /\ (part # "handoff" => unit.state = "active")
  /\ Bar!Init /\ (part # "bar" => seat = nobody)
  /\ Overlay!Init /\ Ncm!Init

LiveNext ==
  /\ UNCHANGED part
  /\ \/ part = "daemon" /\ Next /\ UNCHANGED <<handoffVars, barVars, overlayVars, ncmVars>>
     \/ part = "handoff" /\ Handoff!Next /\ UNCHANGED <<vars, barVars, overlayVars, ncmVars>>
     \/ part = "bar" /\ Bar!Next /\ UNCHANGED <<vars, handoffVars, overlayVars, ncmVars>>
     \/ part = "overlay" /\ Overlay!Next /\ UNCHANGED <<vars, handoffVars, barVars, ncmVars>>
     \/ part = "ncm" /\ Ncm!Next /\ UNCHANGED <<vars, handoffVars, barVars, overlayVars>>

On(p) == part = p
FileOperation(p) == Overlay!Rename(p) \/ Overlay!Synced(p) \/ Overlay!Remove(p)

\* The loop and the worker thread are scheduled, BrokerWorker::run returns,
\* and a client that never takes its replies is dropped at the deadline.
DaemonFair ==
  /\ WF_vars(On("daemon") /\ EventLoop)
  /\ WF_vars(On("daemon") /\ WorkerReturns) /\ WF_vars(On("daemon") /\ WorkerSend) /\ WF_vars(On("daemon") /\ WorkerFinish)
  /\ SF_vars(On("daemon") /\ FlushActive("failed"))

\* Threads are scheduled, systemd runs its queue and the relay runs.
HandoffFair ==
  /\ WF_handoffVars(On("handoff") /\ Handoff!Systemd) /\ WF_handoffVars(On("handoff") /\ Handoff!RelayProcess)
  /\ \A c \in {broker, other} : WF_handoffVars(On("handoff") /\ Handoff!Proceed(c))
                                /\ SF_handoffVars(On("handoff") /\ Handoff!Acquire(c))

\* The service's loop runs and time passes; clients need do nothing.
BarFair == WF_barVars(On("bar") /\ Bar!ServiceStep) /\ WF_barVars(On("bar") /\ Bar!Elapse)

\* The watcher polls, and a file operation, once begun, ends.
OverlayFair ==
  /\ WF_overlayVars(On("overlay") /\ Overlay!WatchRead) /\ WF_overlayVars(On("overlay") /\ Overlay!WatchCheck)
  /\ \A p \in {1, 2} : WF_overlayVars(On("overlay") /\ FileOperation(p))

\* systemd handles its events and its restart timer; the processes run.
NcmFair ==
  /\ WF_ncmVars(On("ncm") /\ Ncm!HandleAdd) /\ WF_ncmVars(On("ncm") /\ Ncm!HandleRemove)
  /\ \A n \in Names : WF_ncmVars(On("ncm") /\ Ncm!ReadyUnit(n)) /\ WF_ncmVars(On("ncm") /\ Ncm!StorageUnit(n))
                      /\ WF_ncmVars(On("ncm") /\ Ncm!Terminated(n))
  /\ \A i \in 1 .. 2 : WF_ncmVars(On("ncm") /\ Ncm!AddressSettles(i))

LiveSpec ==
  /\ LiveInit /\ [][LiveNext]_all
  /\ DaemonFair /\ HandoffFair /\ BarFair /\ OverlayFair /\ NcmFair

-----------------------------------------------------------------------------
\* What was taken away comes back.  SepHandoff: with live processes and no
\* failure a stopped relay becomes active again.  TouchBarService: a waiting
\* renderer whose session is and stays active is served, not refused, although
\* the previous one never reads, closes or answers.  OverlayRecord: when every
\* operation has ended the overlay disappears for good, unless a failed file
\* operation of a live producer left the record.  NcmLink: once the T1 stays,
\* its record is served on its interface for good.
ServedAgain ==
  /\ part = "handoff" => Handoff!RelayComesBack
  /\ part = "bar" => Bar!HandOver
  /\ part = "overlay" => Overlay!OverlayCleared
  /\ part = "ncm" => Ncm!ServiceComesBack
=============================================================================
