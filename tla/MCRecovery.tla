----------------------------- MODULE MCRecovery -----------------------------
(***************************************************************************)
(* What brings the T1's data and firmware back: the import of the          *)
(* calibration record by two importers at once (commit), by one that is    *)
(* killed and tried again (alone) and with several partitions to choose    *)
(* from (sources); the attended recovery of the T1 by one command          *)
(* (restore) and by two (two); and the multiplexed tunnel that carries its *)
(* factory data (mux).  part names the one explored.                       *)
(***************************************************************************)
EXTENDS Naturals

VARIABLES
  part,
  imp, efi, attached, busy, dir, may, lock, told, budget,
  cmd, t1, att, attMay, esp, espMay, locks, proven, spent,
  pc, ch, worker, err, dev, srv, toDev, toHost, faults

Commit == INSTANCE MachineDataImport WITH
  Importers <- {"a", "b"}, Kinds <- {"service", "backup"}, Partitions <- {1},
  Contents <- {"r1"}, RootLimit <- 2, MaxFaults <- 1, MaxEvents <- 1
Alone == INSTANCE MachineDataImport WITH
  Importers <- {"a"}, Kinds <- {"service", "cli"}, Partitions <- {1},
  Contents <- {"r1", "nofdr"}, RootLimit <- 2, MaxFaults <- 1, MaxEvents <- 2
Sources == INSTANCE MachineDataImport WITH
  Importers <- {"a"}, Kinds <- {"service"}, Partitions <- {1, 2},
  Contents <- {"r1", "r2", "none", "other", "bad"}, RootLimit <- 3,
  MaxFaults <- 1, MaxEvents <- 1
Two == INSTANCE OnlineRecovery WITH
  Commands <- {"a", "b"}, Stores <- {"f1"}, MaxNonce <- 2, MaxFaults <- 1,
  MaxEvents <- 1, lock <- locks, budget <- spent
Restore == INSTANCE OnlineRecovery WITH
  Commands <- {"a"}, Stores <- {"f1", "f2"}, MaxNonce <- 3, MaxFaults <- 1,
  MaxEvents <- 2, lock <- locks, budget <- spent
Mux == INSTANCE RecoveryMux WITH
  DataOut <- 3, DataIn <- 1, Modulus <- 5, Capacity <- 3, DevCapacity <- 2,
  Unit <- 1, Payload <- 2, Chunk <- 2, Backlog <- 1, MaxFaults <- 1

importVars == <<imp, efi, attached, busy, dir, may, lock, told, budget>>
restoreVars == <<cmd, t1, att, attMay, esp, espMay, locks, proven, spent>>
muxVars == <<pc, ch, worker, err, dev, srv, toDev, toHost, faults>>

Init ==
  /\ part \in {"commit", "alone", "sources", "restore", "two", "mux"}
  /\ CASE part = "commit" -> Commit!Init
       [] part = "sources" -> Sources!Init
       [] OTHER -> Alone!Init
  /\ part \notin {"commit", "alone", "sources"} =>
       /\ imp["a"].kind = "cli" /\ efi[1] = "r1" /\ busy = {}
       /\ dir = [dest |-> "none", tmp |-> "none"]
  /\ IF part = "two" THEN Two!Init ELSE Restore!Init
  /\ part \notin {"restore", "two"} => t1.mode = "recovery"
  /\ Mux!Init

Next ==
  /\ UNCHANGED part
  /\ \/ part = "commit" /\ Commit!Next /\ UNCHANGED <<restoreVars, muxVars>>
     \/ part = "alone" /\ Alone!Next /\ UNCHANGED <<restoreVars, muxVars>>
     \/ part = "sources" /\ Sources!Next /\ UNCHANGED <<restoreVars, muxVars>>
     \/ part = "restore" /\ Restore!Next /\ UNCHANGED <<importVars, muxVars>>
     \/ part = "two" /\ Two!Next /\ UNCHANGED <<importVars, muxVars>>
     \/ part = "mux" /\ Mux!Next /\ UNCHANGED <<importVars, restoreVars>>

Spec == Init /\ [][Next]_<<part, importVars, restoreVars, muxVars>>

\* MachineDataImport: what an import reported as installed survives every
\* later power loss, the destination is never a part of a record, and a record
\* is installed only if every partition that is still there and readable
\* agrees on it or holds none of this module.  A commit fails only in a call
\* that failed or over someone else's file, and no mount is left behind.
InstalledIsDurable ==
  /\ part \in {"commit", "alone", "sources"} => Commit!NeverTorn /\ Commit!Durable
  /\ part = "commit" => Commit!TypeOK /\ Commit!NoWedge
  /\ part = "sources" => Sources!Agreed /\ Sources!MountsContained

\* OnlineRecovery: now and after any power loss EMBEDDEDOS is absent, copied by
\* hand or whole, with the image that was seen running; factory data whose
\* commit the T1 saw acknowledged is on disk, the same in both restores of a
\* finished attempt.
GenerationWhole ==
  /\ part \in {"restore", "two"} => Restore!GenerationWhole /\ Restore!CommitKept
  /\ part = "restore" => Restore!TypeOK /\ Restore!SameStore

\* RecoveryMux: when the worker goes, the service, unless it closed first, has
\* everything the T1 sent; both directions deliver in order, the T1 is sent
\* nothing it must refuse, what it sends is taken for invalid only if it reset
\* the channel behind a request that waits for its answer, and the recovery
\* times out only when the two ends of the channel crossed.
NothingLost ==
  part = "mux" =>
    /\ Mux!TypeOK /\ Mux!NothingLost /\ Mux!InOrder /\ Mux!HostConforms
    /\ Mux!NeverMisjudged /\ Mux!TimesOutOnlyCrossed
=============================================================================
