-------------------------- MODULE MachineDataImport --------------------------
(***************************************************************************)
(* The import of this machine's calibration record (crates/t1-import):     *)
(* read the sensor's module serial from the T1, inspect every EFI system   *)
(* partition through a private read-only mount (t1_efi_roots.c), take the  *)
(* record of that module from each (preserved.rs, fdr.rs), insist that they*)
(* agree, and install it (commit.rs, t1_import_fs.c): lock the directory,  *)
(* look at the destination, clean up after an earlier attempt, write, sync,*)
(* rename without replacing, sync the directory.                           *)
(*                                                                         *)
(* `may` holds the directories a power loss now could leave behind.        *)
(***************************************************************************)
EXTENDS Naturals, Sequences, SequencesExt, FiniteSets

CONSTANTS Importers,    \* import commands
          Kinds,        \* among "service" (sandboxed), "cli" and "backup"
          Partitions,   \* EFI system partitions, 1..n in the order of their numbers
          Contents,     \* what a partition may hold: a record, or "none" (no
                        \* EFI/APPLE), "nofdr" (no FDRData below it), "bad"
                        \* (malformed), "other" (a record of another module only)
          RootLimit,    \* T1_EFI_ROOT_LIMIT
          MaxFaults,    \* calls that fail
          MaxEvents     \* kills, power losses, unplugged partitions, manual copies

Records == {"r1", "r2"}  \* calibration records of this sensor's module

VARIABLES
    imp,      \* the import commands
    efi,      \* the partitions' contents
    attached, \* partitions that are still there
    busy,     \* partitions the system has mounted writable
    dir,      \* machine-data: dest (calibration.fscl), tmp
    may,      \* what dir may be after a power loss
    lock,     \* the flock on the directory
    told,     \* the record an import reported as installed
    budget

vars == <<imp, efi, attached, busy, dir, may, lock, told, budget>>

Idle(kind) ==
    [kind |-> kind, pc |-> "start", space |-> "own", anchor |-> "own", queue |-> <<>>,
     last |-> 0, open |-> <<>>, mount |-> "none", mdir |-> FALSE, status |-> "ok", recs |-> <<>>,
     rec |-> "none", valid |-> FALSE, synced |-> FALSE, fault |-> FALSE, result |-> "none"]

Init ==
    /\ \E k \in [Importers -> Kinds] : imp = [p \in Importers |-> Idle(k[p])]
    /\ efi \in [Partitions -> Contents]
    /\ attached = Partitions /\ busy \in SUBSET Partitions
    /\ dir \in [dest : {"none", "foreign"}, tmp : {"none", "unsafe"}]
    /\ may = {dir} /\ lock = "none" /\ told = "none"
    /\ budget = [faults |-> 0, events |-> 0]

-----------------------------------------------------------------------------
At(p, pc) == imp[p].pc = pc

Become(p, g) == imp' = [imp EXCEPT ![p] = g]

Store == <<dir, may, lock, told>>
World == <<efi, attached, busy>>

Sound == UNCHANGED budget

Fault == budget.faults < MaxFaults /\ budget' = [budget EXCEPT !.faults = @ + 1]

\* The command ends; storage is dropped and with it the lock.
Closed(p) == lock' = IF lock = p THEN "none" ELSE lock

Ended(g, result) == [g EXCEPT !.pc = "done", !.result = result]

\* An end before the commit.
EndSource(p, g, result) == Become(p, Ended(g, result)) /\ UNCHANGED Store

-----------------------------------------------------------------------------
(* The source: the live sensor, the partitions, the records.               *)

\* MachineDataStorage::open, then the sensor's module serial over one
\* read-only session that is closed before anything else is read.
ReadAssociation(p) ==
    LET g == [imp[p] EXCEPT !.anchor = imp[p].space] IN
    /\ At(p, "start") /\ UNCHANGED World
    /\ \/ Sound /\ Become(p, [g EXCEPT !.pc = "enumerate"]) /\ UNCHANGED Store
       \/ Fault /\ EndSource(p, [g EXCEPT !.fault = TRUE], "storageunavailable")
       \/ Fault /\ EndSource(p, [g EXCEPT !.fault = TRUE], "hardware")

\* The backup a user names is one source, opened without discovery.
OpenBackup(p) ==
    /\ At(p, "enumerate") /\ imp[p].kind = "backup" /\ Sound /\ UNCHANGED World
    /\ \/ /\ \E r \in attached : Become(p, [imp[p] EXCEPT !.pc = "read", !.open = <<r>>])
          /\ UNCHANGED Store
       \/ EndSource(p, imp[p], "unreadable")

\* udev may list a partition twice; more than the limit is an error.
Enumerated(twice) ==
    FlattenSeq([r \in Partitions |->
        IF r \notin attached THEN <<>> ELSE IF r \in twice THEN <<r, r>> ELSE <<r>>])

Enumerate(p) ==
    /\ At(p, "enumerate") /\ imp[p].kind # "backup" /\ UNCHANGED World
    /\ \/ \E twice \in SUBSET attached :
             LET list == Enumerated(twice) IN
             /\ Sound
             /\ IF Len(list) > RootLimit THEN EndSource(p, imp[p], "invalid")
                ELSE /\ Become(p, IF list = <<>> THEN [imp[p] EXCEPT !.pc = "read"]
                                  ELSE [imp[p] EXCEPT !.pc = "namespace", !.queue = list])
                     /\ UNCHANGED Store
       \/ Fault /\ EndSource(p, [imp[p] EXCEPT !.fault = TRUE], "unreadable")

\* unshare and making every mount private.
MakePrivateNamespace(p) ==
    /\ At(p, "namespace") /\ UNCHANGED World
    /\ \/ Sound /\ Become(p, [imp[p] EXCEPT !.pc = "root", !.space = "private"]) /\ UNCHANGED Store
       \/ Fault /\ EndSource(p, [imp[p] EXCEPT !.fault = TRUE], "unreadable")

\* The next candidate that is not the one before it; a device that is gone is
\* passed over, any other failure ends discovery.
NextRoot(p) ==
    LET g == imp[p]
        r == Head(g.queue)
        next == [g EXCEPT !.queue = Tail(@), !.last = r]
        again == g.last = r
    IN
    /\ At(p, "root") /\ UNCHANGED World
    /\ \/ g.queue = <<>> /\ Sound /\ Become(p, [g EXCEPT !.pc = "read"]) /\ UNCHANGED Store
       \/ g.queue # <<>> /\ again /\ Sound /\ Become(p, next) /\ UNCHANGED Store
       \/ /\ g.queue # <<>> /\ ~again /\ Sound /\ UNCHANGED Store
          /\ Become(p, IF r \in attached THEN [g EXCEPT !.pc = "mount", !.mdir = TRUE] ELSE next)
       \/ /\ g.queue # <<>> /\ ~again /\ Fault
          /\ EndSource(p, [g EXCEPT !.fault = TRUE], "unreadable")

\* mount read-only; EBUSY means the system has it mounted otherwise.
MountRoot(p) ==
    LET g == imp[p]
        r == Head(g.queue)
    IN
    /\ At(p, "mount") /\ UNCHANGED <<World, Store>>
    /\ \/ /\ r \in attached \ busy /\ Sound
          /\ Become(p, [g EXCEPT !.pc = "look", !.mount = "ro"])
       \/ r \in attached \intersect busy /\ Sound /\ Become(p, [g EXCEPT !.pc = "bind"])
       \/ r \notin attached /\ Sound /\ Become(p, [g EXCEPT !.pc = "clean", !.status = "skip"])
       \/ Fault /\ Become(p, [g EXCEPT !.pc = "clean", !.status = "failed", !.fault = TRUE])

\* bind_existing_mount: bind the system's mount, then make the bind read-only;
\* either may fail, and a bind that stays writable is still noted as mounted.
BindExisting(p) ==
    LET g == imp[p] IN
    /\ At(p, "bind") /\ UNCHANGED <<World, Store>>
    /\ \/ Sound /\ Become(p, [g EXCEPT !.pc = "look", !.mount = "ro"])
       \/ /\ Fault
          /\ \E m \in {"none", "rw"} :
                Become(p, [g EXCEPT !.pc = "clean", !.status = "failed", !.fault = TRUE,
                             !.mount = m])

\* Open the root through the mount; without EFI/APPLE it is passed over.
LookForApple(p) ==
    LET g == imp[p] IN
    /\ At(p, "look") /\ UNCHANGED <<World, Store>>
    /\ \/ /\ Sound
          /\ Become(p, [g EXCEPT !.pc = "clean",
                          !.status = IF efi[Head(g.queue)] = "none" THEN "skip" ELSE "open"])
       \/ /\ Head(g.queue) \notin attached /\ Sound
          /\ Become(p, [g EXCEPT !.pc = "clean", !.status = "failed"])
       \/ Fault /\ Become(p, [g EXCEPT !.pc = "clean", !.status = "failed", !.fault = TRUE])

\* Detach the mount, remove the mount point; the open root stays usable.
CleanUpRoot(p) ==
    LET g == imp[p]
        clean == [g EXCEPT !.mount = "none", !.mdir = FALSE, !.queue = Tail(@),
                          !.last = Head(g.queue)]
    IN
    /\ At(p, "clean") /\ UNCHANGED World
    /\ \/ /\ Sound /\ g.status # "failed" /\ UNCHANGED Store
          /\ Become(p, [clean EXCEPT !.pc = "root", !.status = "ok",
                          !.open = IF g.status = "open" THEN Append(@, Head(g.queue)) ELSE @])
       \/ Sound /\ g.status = "failed" /\ EndSource(p, clean, "unreadable")
       \/ /\ Fault
          /\ \E m \in {g.mount, "none"} :  \* umount2 or only rmdir fails
                EndSource(p, [g EXCEPT !.status = "cleanup", !.mount = m, !.fault = TRUE],
                          "unreadable")

\* t1_preserved_efi_open_fdr: EFI/APPLE/EMBEDDEDOS/FDRData, a regular file.
FdrPresent(c) == c \notin {"none", "nofdr"}

\* select_fdr_calibration: the record filed under the module's serial.
ModuleRecord(c) ==
    CASE c \in Records -> <<c>>
      [] c = "other" -> <<>>

\* Each source in turn: FDRData is opened, read and the module's record taken.
\* A source without one is no error; anything else ends the import.
ReadRecord(p) ==
    LET g == imp[p]
        r == Head(g.open)
        c == efi[r]
    IN
    /\ At(p, "read") /\ g.open # <<>> /\ UNCHANGED World
    /\ \/ /\ FdrPresent(c) /\ c # "bad" /\ Sound /\ UNCHANGED Store
          /\ Become(p, [g EXCEPT !.open = Tail(@), !.recs = @ \o ModuleRecord(c),
                          !.pc = IF Len(g.open) = 1 THEN "select" ELSE "read"])
       \/ FdrPresent(c) /\ c = "bad" /\ Sound /\ EndSource(p, g, "invalid")
       \/ (~FdrPresent(c) \/ r \notin attached) /\ Sound /\ EndSource(p, g, "unreadable")
       \/ Fault /\ EndSource(p, [g EXCEPT !.fault = TRUE], "unreadable")

\* No source at all.
NoSource(p) ==
    /\ At(p, "read") /\ imp[p].open = <<>> /\ Sound /\ UNCHANGED World
    /\ EndSource(p, imp[p], "unavailable")

\* select_matching_record: all sources agree.
Select(p) ==
    LET g == imp[p] IN
    /\ At(p, "select") /\ Sound /\ UNCHANGED World
    /\ \/ g.recs = <<>> /\ EndSource(p, g, "nomatch")
       \/ g.recs # <<>> /\ Cardinality(ToSet(g.recs)) > 1 /\ EndSource(p, g, "conflict")
       \/ /\ Cardinality(ToSet(g.recs)) = 1 /\ UNCHANGED Store
          /\ Become(p, [g EXCEPT !.pc = "reserve", !.rec = Head(g.recs)])

-----------------------------------------------------------------------------
(* The commit.                                                             *)

\* An end of the commit.
EndCommit(p, g, result) ==
    Become(p, Ended(g, result)) /\ Closed(p) /\ UNCHANGED <<dir, may, told>>

\* A step of the commit whose call fails, leaving everything as it is.
Fails(p) ==
    Fault /\ EndCommit(p, [imp[p] EXCEPT !.fault = TRUE], "commit")

\* reserve_destination: open the root again, in the present namespace, check
\* every directory and lock the last one without waiting.
Reserve(p) ==
    /\ At(p, "reserve") /\ UNCHANGED World
    /\ \/ /\ lock = "none" /\ lock' = p /\ Sound /\ UNCHANGED <<dir, may, told>>
          /\ Become(p, [imp[p] EXCEPT !.pc = "inspect", !.anchor = imp[p].space])
       \/ lock # "none" /\ Sound /\ EndCommit(p, imp[p], "running")
       \/ Fails(p)

\* inspect_destination: absent, a private copy of the record, or neither.
InspectDestination(p) ==
    LET g == imp[p] IN
    /\ At(p, "inspect") /\ UNCHANGED World
    /\ \/ /\ dir.dest \in {"none", g.rec} /\ Sound /\ UNCHANGED Store
          /\ Become(p, [g EXCEPT !.pc = "orphan", !.valid = (dir.dest = g.rec)])
       \/ dir.dest \notin {"none", g.rec} /\ Sound /\ EndCommit(p, g, "unsafe")
       \/ Fails(p)

AfterOrphan(g) == [g EXCEPT !.pc = IF g.valid THEN "syncdir" ELSE "create"]

\* cleanup_orphan: a private file of the temporary name is removed, another
\* object left alone.
CleanupOrphan(p) ==
    /\ At(p, "orphan") /\ UNCHANGED World
    /\ \/ /\ dir.tmp = "none" /\ Sound
          /\ Become(p, AfterOrphan(imp[p])) /\ UNCHANGED Store
       \/ /\ dir.tmp = "orphan" /\ Sound
          /\ Become(p, AfterOrphan(imp[p]))
          /\ dir' = [dir EXCEPT !.tmp = "none"]
          /\ may' = may \union {[m EXCEPT !.tmp = "none"] : m \in may}
          /\ UNCHANGED <<lock, told>>
       \/ dir.tmp = "unsafe" /\ Sound /\ EndCommit(p, imp[p], "unsafe")
       \/ Fails(p)

\* create_private_temporary: exclusive. The sandbox lets the service write
\* only through a root of its present namespace.
CreateTemporary(p) ==
    LET g == imp[p]
        writable == g.kind = "service" => g.anchor = g.space
    IN
    /\ At(p, "create") /\ UNCHANGED World
    /\ \/ /\ writable /\ dir.tmp = "none" /\ Sound
          /\ dir' = [dir EXCEPT !.tmp = "part"]
          /\ may' = may \union {[m EXCEPT !.tmp = "part"] : m \in may}
          /\ Become(p, [g EXCEPT !.pc = "write"]) /\ UNCHANGED <<lock, told>>
       \/ ~(writable /\ dir.tmp = "none") /\ Sound /\ EndCommit(p, g, "commit")
       \/ Fails(p)
       \/ /\ writable /\ dir.tmp = "none" /\ Fault  \* created, then not usable
          /\ Become(p, Ended([g EXCEPT !.fault = TRUE], "commit")) /\ Closed(p)
          /\ dir' = [dir EXCEPT !.tmp = "orphan"]
          /\ may' = may \union {[m EXCEPT !.tmp = "orphan"] : m \in may}
          /\ UNCHANGED told

\* The file of an attempt that is over.
Abandoned(d) == [d EXCEPT !.tmp = IF @ \in {"none", "unsafe"} THEN @ ELSE "orphan"]

\* A failure that leaves the temporary file behind.
Abandons(p) ==
    /\ Fault /\ Become(p, Ended([imp[p] EXCEPT !.fault = TRUE], "commit")) /\ Closed(p)
    /\ dir' = Abandoned(dir) /\ may' = {Abandoned(m) : m \in may} /\ UNCHANGED told

\* write_temporary: all of it, or the file is abandoned.
WriteTemporary(p) ==
    /\ At(p, "write") /\ UNCHANGED World
    /\ \/ /\ Sound /\ dir' = [dir EXCEPT !.tmp = imp[p].rec]
          /\ may' = may \union {[m EXCEPT !.tmp = imp[p].rec] : m \in may}
          /\ Become(p, [imp[p] EXCEPT !.pc = "sync"]) /\ UNCHANGED <<lock, told>>
       \/ Abandons(p)

\* sync_temporary: the file's data is durable, its name need not be.
SyncTemporary(p) ==
    /\ At(p, "sync") /\ UNCHANGED World
    /\ \/ /\ Sound
          /\ may' = {IF m.tmp = "part" THEN [m EXCEPT !.tmp = imp[p].rec] ELSE m : m \in may}
          /\ Become(p, [imp[p] EXCEPT !.pc = "rename", !.synced = TRUE])
          /\ UNCHANGED <<dir, lock, told>>
       \/ Abandons(p)

\* What the destination holds after a power loss following the rename.
Promoted(p) == IF imp[p].synced THEN {imp[p].rec} ELSE {imp[p].rec, "part"}

\* rename_temporary: RENAME_NOREPLACE.
RenameTemporary(p) ==
    /\ At(p, "rename") /\ UNCHANGED World
    /\ \/ /\ dir.dest = "none" /\ Sound
          /\ dir' = [dest |-> imp[p].rec, tmp |-> "none"]
          /\ may' = may \union {[dest |-> d, tmp |-> "none"] : d \in Promoted(p)}
          /\ Become(p, [imp[p] EXCEPT !.pc = "syncdir"]) /\ UNCHANGED <<lock, told>>
       \/ /\ dir.dest # "none" /\ Sound
          /\ Become(p, Ended(imp[p], "commit")) /\ Closed(p)
          /\ dir' = Abandoned(dir) /\ may' = {Abandoned(m) : m \in may} /\ UNCHANGED told
       \/ Abandons(p)

\* Success without fsync of the directory.
DirectoryUnsynced(p) ==
    /\ At(p, "syncdir") /\ UNCHANGED World /\ Sound
    /\ Become(p, Ended(imp[p], "ok")) /\ Closed(p) /\ told' = imp[p].rec
    /\ UNCHANGED <<dir, may>>

\* sync_destination_directory, for a new and for an existing destination.
SyncDirectory(p) ==
    /\ At(p, "syncdir") /\ UNCHANGED World
    /\ \/ /\ Sound /\ may' = {dir}
          /\ Become(p, Ended(imp[p], "ok")) /\ Closed(p) /\ told' = imp[p].rec
          /\ UNCHANGED dir
       \/ Fault /\ EndCommit(p, [imp[p] EXCEPT !.fault = TRUE], "uncertain")

\* next_source of the system's enumeration: t1_efi_roots_discover_with_ops.
Discover(p) ==
    \/ Enumerate(p) \/ MakePrivateNamespace(p) \/ NextRoot(p) \/ MountRoot(p)
    \/ BindExisting(p) \/ LookForApple(p) \/ CleanUpRoot(p)

\* commit_validated.
Commit(p) ==
    \/ Reserve(p) \/ InspectDestination(p) \/ CleanupOrphan(p) \/ CreateTemporary(p)
    \/ WriteTemporary(p) \/ SyncTemporary(p) \/ RenameTemporary(p) \/ SyncDirectory(p)

\* attempt_automatic_import.
Attempt(p) ==
    \/ ReadAssociation(p) \/ OpenBackup(p) \/ Discover(p) \/ ReadRecord(p) \/ NoSource(p)
    \/ Select(p) \/ Commit(p)

-----------------------------------------------------------------------------
(* Around the import.                                                      *)

Event == budget.events < MaxEvents /\ budget' = [budget EXCEPT !.events = @ + 1]

\* Another attempt.
Restart(p) ==
    /\ At(p, "done") /\ Become(p, Idle(imp[p].kind)) /\ Sound /\ UNCHANGED <<World, Store>>

\* The command is killed, by a user or by TimeoutStartSec=.
Kill(p) ==
    /\ imp[p].pc \notin {"start", "done"} /\ Event /\ Closed(p)
    /\ Become(p, Idle(imp[p].kind))
    /\ IF lock = p
       THEN dir' = Abandoned(dir) /\ may' = {Abandoned(m) : m \in may}
       ELSE UNCHANGED <<dir, may>>
    /\ UNCHANGED <<told, World>>

\* Power is lost; the machine comes up with one of the possible directories.
PowerLoss ==
    /\ Event /\ \E m \in may : dir' = Abandoned(m) /\ may' = {Abandoned(m)}
    /\ imp' = [p \in Importers |-> Idle(imp[p].kind)] /\ lock' = "none"
    /\ UNCHANGED <<told, World>>

\* A partition is unplugged.
Unplugged ==
    /\ Event /\ \E r \in attached : attached' = attached \ {r}
    /\ UNCHANGED <<imp, efi, busy, Store>>

\* Someone copies a file to the destination by hand, without the lock.
ManualCopy ==
    /\ Event /\ dir.dest = "none" /\ dir' = [dir EXCEPT !.dest = "foreign"]
    /\ may' = may \union {[m EXCEPT !.dest = "foreign"] : m \in may}
    /\ UNCHANGED <<imp, World, lock, told>>

Next ==
    \/ \E p \in Importers : Attempt(p) \/ Restart(p) \/ Kill(p)
    \/ PowerLoss \/ Unplugged \/ ManualCopy

Spec == Init /\ [][Next]_vars

-----------------------------------------------------------------------------
Committing == {"inspect", "orphan", "create", "write", "sync", "rename", "syncdir"}

\* Types, and the lock is held exactly from the reservation to the end.
TypeOK ==
    /\ \A p \in Importers :
          /\ imp[p].kind \in Kinds /\ imp[p].mount \in {"none", "ro", "rw"}
          /\ imp[p].rec \in Records \union {"none"}
          /\ ToSet(imp[p].queue) \union ToSet(imp[p].open) \subseteq Partitions
          /\ imp[p].pc \in Committing <=> lock = p
    /\ dir \in may

\* Now and after a power loss at any moment, the destination is absent, what
\* someone put there, or a complete record: never a part of one.
NeverTorn == \A m \in may : m.dest \in Records \union {"none", "foreign"}

\* What an import reported as installed (newly or already) survives every
\* later power loss.
Durable == told # "none" => \A m \in may : m.dest = told

\* A record is installed only if every partition that is still there and
\* readable as an Apple one agrees on it or holds none of this module.
Agreed ==
    dir.dest \in Records =>
        /\ \E r \in Partitions : efi[r] = dir.dest
        /\ "backup" \notin Kinds =>
              \A r \in attached : efi[r] \in {dir.dest, "none", "other"}

\* The leftovers of a killed or interrupted attempt never make a later one
\* fail: the commit fails only in a call that failed in this attempt, or
\* because someone else's file is in the way.
NoWedge ==
    \A p \in Importers :
        imp[p].result = "commit" => imp[p].fault \/ dir.dest = "foreign" \/ dir.tmp = "unsafe"

\* Partitions are inspected through read-only mounts, and when discovery goes
\* on or ends no mount or mount point is left, unless the cleanup itself
\* failed.
MountsContained ==
    \A p \in Importers :
        /\ imp[p].pc = "look" => imp[p].mount = "ro"
        /\ imp[p].pc \notin {"mount", "bind", "look", "clean"} /\ imp[p].status # "cleanup"
           => imp[p].mount = "none" /\ ~imp[p].mdir
=============================================================================
