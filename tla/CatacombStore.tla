---------------------------- MODULE CatacombStore ----------------------------
(***************************************************************************)
(* The paired catacomb store (catacomb_store.rs, legacy_recovery.rs) and   *)
(* the operations that write it (catacomb_session.rs, catacomb_restore.rs  *)
(* and their callers), on a file system that may lose power.               *)
(*                                                                         *)
(* disk is the store's directory as the running system sees it; may is the *)
(* set of directories that a power loss could leave behind.  A change      *)
(* reaches disk at once and may survive or not, independently of every     *)
(* other change, until a synchronisation of its directory succeeds.        *)
(*                                                                         *)
(* op is the operation that holds the exclusive SEP lease: an enrolment    *)
(* without metadata ("enroll"), a standard enrolment ("label"), a deletion *)
(* ("delete"), or the live part of the legacy recovery tool ("legacy").    *)
(* Each action is one system call or one SEP command of it, so that a      *)
(* crash falls between any two.  The tool reserves its candidate before it *)
(* takes the lease: that part is a second process, legacy.                 *)
(***************************************************************************)
EXTENDS Naturals, FiniteSets

CONSTANTS
  MaxGeneration,  \* bound on the generations ever begun (fresh tokens)
  Operations      \* the operations offered

ASSUME MaxGenerationAssumption == MaxGeneration \in Nat \ {0, 1}
ASSUME OperationsAssumption == Operations \subseteq
  {"enroll", "label", "delete", "legacy", "recover"}

Generations == 1..MaxGeneration
None == 0
Members == {"metadata", "user", "master"}

(* A blob is absent, torn (created, not completely written) or whole; a     *)
(* whole manifest is told apart by whether it labels some finger.           *)
Manifests == {"labeled", "unlabeled"}
Contents == {"absent", "torn", "whole"} \cup Manifests
NoFiles == [m \in Members |-> "absent"]

Disks == [active: Generations \cup {None},
          place: [Generations -> {"none", "stage", "pair"}],
          files: [Generations -> [Members -> Contents]],
          reserved: SUBSET Generations,
          temporary: SUBSET Generations]

VARIABLES
  disk,
  may,
  op,         \* the operation under the SEP lease
  legacy,     \* the legacy tool's reservation: its step and its candidate
  next,       \* the next fresh generation
  native,     \* the SEP commands issued for each generation
  settled,    \* generations that have been selected durably
  committed   \* the generation whose reservation was released last

vars == <<disk, may, op, legacy, next, native, settled, committed>>

Idle == [kind |-> "none", pc |-> "idle", gen |-> None, member |-> "metadata",
         open |-> FALSE, reserved |-> FALSE, replaced |-> FALSE]
NoLegacy == [pc |-> "idle", gen |-> None]

-----------------------------------------------------------------------------
(* The file system *)

Change(F(_)) ==
  /\ disk' = F(disk)
  /\ may' = may \cup {F(d) : d \in may}

(* sync_all on the store's directory: the names in it are durable, the     *)
(* files inside the generations that remain are not concerned.             *)
Synced(now, survivors) ==
  {[now EXCEPT !.files = [g \in Generations |->
      IF now.place[g] = "none" THEN NoFiles ELSE d.files[g]]] : d \in survivors}

SyncDirectory ==
  /\ may' = Synced(disk, may)
  /\ settled' = settled \cup ({disk.active} \ {None})
  /\ UNCHANGED disk

NoChange == UNCHANGED <<disk, may>>

Place(g, p, d) == [d EXCEPT !.place[g] = p]
Fill(g, m, c, d) == [d EXCEPT !.files[g][m] = c]
Remove(g, d) == [d EXCEPT !.place[g] = "none", !.files[g] = NoFiles]
RemoveTemporary(g, d) == [d EXCEPT !.temporary = @ \ {g}]

(* read_pair: both blobs and a manifest that decodes, if there is one.  A   *)
(* torn blob is within the size limits and cannot be told from a whole one. *)
Readable(d, g) ==
  /\ d.place[g] = "pair"
  /\ d.files[g]["master"] # "absent"
  /\ d.files[g]["user"] # "absent"
  /\ d.files[g]["metadata"] # "torn"

Whole(d, g) ==
  /\ Readable(d, g)
  /\ d.files[g]["master"] = "whole"
  /\ d.files[g]["user"] = "whole"

-----------------------------------------------------------------------------
(* A store as an earlier run of the service left it: empty, one generation *)
(* of a legacy enrolment, or that and a labelled one selected after it.    *)
Pair(c) == [metadata |-> c, user |-> "whole", master |-> "whole"]

Store(n) ==
  [active |-> n,
   place |-> [g \in Generations |-> IF g <= n THEN "pair" ELSE "none"],
   files |-> [g \in Generations |->
                IF g > n THEN NoFiles
                ELSE IF g = 1 THEN Pair("absent") ELSE Pair("labeled")],
   reserved |-> {},
   temporary |-> {}]

Init ==
  \E n \in 0..2 :
    /\ disk = Store(n)
    /\ may = {Store(n)}
    /\ next = n + 1
    /\ settled = 1..n
    /\ committed = n
    /\ op = Idle
    /\ legacy = NoLegacy
    /\ native = [g \in Generations |-> {}]

-----------------------------------------------------------------------------
At(pc) == op.pc = pc
Goto(pc) == op' = [op EXCEPT !.pc = pc]
(* An error ends the operation; an open transaction is dropped first. *)
Fail == op' = IF op.open THEN [op EXCEPT !.pc = "drop"] ELSE Idle

(* An enrolment first resolves what an earlier operation left undecided, a *)
(* deletion begins its transaction at once.                                *)
FirstStep(k) == IF k = "delete" THEN "begin" ELSE "sync"

(* After a recovery that was clean or promoted its candidate, an enrolment *)
(* goes on and the legacy tool is done.                                    *)
AfterRecovery == IF op.kind = "legacy" THEN Idle
                 ELSE [Idle EXCEPT !.kind = op.kind, !.pc = "begin"]

(* The SEP lease is taken. *)
Start(k) ==
  /\ At("idle")
  /\ k \in Operations \ {"legacy", "recover"}
  /\ op' = [Idle EXCEPT !.kind = k, !.pc = FirstStep(k)]
  /\ NoChange
  /\ UNCHANGED <<legacy, next, native, settled, committed>>

(* recover_with_validator, up to the list of reservations. *)
RecoverSync ==
  /\ At("sync")
  /\ \/ SyncDirectory /\ Goto("inspect")
     \/ NoChange /\ UNCHANGED settled /\ Fail
  /\ UNCHANGED <<legacy, next, native, committed>>

(* The T1 as validate_recovery_candidate sees it: it loads nothing but     *)
(* whole blobs, of a pair whose master save it was told to finish, since   *)
(* only that makes a generation current.                                   *)
LiveValidation(g) ==
  /\ Whole(disk, g)
  /\ "master" \in native[g] \/ g \in settled

(* A candidate that is selected already only loses its reservation. *)
AfterValidationUnselected(g) == "release"
AfterValidation(g) == IF disk.active = g THEN "release" ELSE "marker"

(* The reservations are listed, and the only candidate is read and loaded  *)
(* into the T1.  Quarantine, a rejection and an error end the operation.   *)
RecoverInspect ==
  /\ At("inspect")
  /\ \/ disk.reserved = {} /\ op' = AfterRecovery
     \/ \E g \in Generations :
          /\ disk.reserved = {g}
          /\ LiveValidation(g)
          /\ op' = [op EXCEPT !.gen = g, !.pc = AfterValidation(g)]
     \/ disk.reserved # {} /\ Fail
  /\ NoChange
  /\ UNCHANGED <<legacy, next, native, settled, committed>>

-----------------------------------------------------------------------------
(* artifact_token: fresh for ever, here up to the bound. *)
FreshToken == next \in Generations

RejectRecoveryState == disk.reserved = {}

(* begin_transaction, refused while any reservation exists.  A deletion    *)
(* needs a labelled finger in the catalogue of the selected pair.          *)
Begin ==
  /\ At("begin")
  /\ \/ /\ FreshToken
        /\ RejectRecoveryState
        /\ op.kind = "delete" =>
             disk.active # None /\ disk.files[disk.active]["metadata"] = "labeled"
        /\ LET F(d) == Place(next, "stage", d) IN Change(F)
        /\ next' = next + 1
        /\ op' = [op EXCEPT !.pc = "stage", !.gen = next, !.open = TRUE]
     \/ NoChange /\ UNCHANGED next /\ Fail
  /\ UNCHANGED <<legacy, native, settled, committed>>

(* reserve_recovery: rename the stage (after the sensor work of an         *)
(* enrolment, which may fail), synchronise, create the reservation,        *)
(* synchronise.                                                            *)
RenameStage ==
  /\ At("stage")
  /\ \/ LET F(d) == Place(op.gen, "pair", d) IN Change(F) /\ Goto("renamed")
     \/ NoChange /\ Fail
  /\ UNCHANGED <<legacy, next, native, settled, committed>>

SyncRename ==
  /\ At("renamed")
  /\ \/ SyncDirectory /\ Goto("reserve")
     \/ NoChange /\ UNCHANGED settled /\ Fail
  /\ UNCHANGED <<legacy, next, native, committed>>

CreateReservation ==
  /\ At("reserve")
  /\ \/ /\ LET F(d) == [d EXCEPT !.reserved = @ \cup {op.gen}] IN Change(F)
        /\ op' = [op EXCEPT !.pc = "reserved", !.reserved = TRUE]
     \/ NoChange /\ Fail
  /\ UNCHANGED <<legacy, next, native, settled, committed>>

ReservationSynced == SyncDirectory

SyncReservation ==
  /\ At("reserved")
  /\ \/ /\ ReservationSynced
        /\ op' = IF op.kind = "enroll" THEN [op EXCEPT !.pc = "export", !.member = "user"]
                 ELSE [op EXCEPT !.pc = "create", !.member = "metadata"]
     \/ NoChange /\ UNCHANGED settled /\ Fail
  /\ UNCHANGED <<legacy, next, native, committed>>

-----------------------------------------------------------------------------
(* write_metadata, write_user, write_master: write_new_blob creates the    *)
(* file, then writes and synchronises it; sync_directory its generation.   *)
CreateMember ==
  /\ At("create")
  /\ \/ LET F(d) == Fill(op.gen, op.member, "torn", d) IN Change(F) /\ Goto("fill")
     \/ NoChange /\ Fail
  /\ UNCHANGED <<legacy, next, native, settled, committed>>

Written == IF op.member # "metadata" THEN {"whole"}
           ELSE IF op.kind = "label" THEN {"labeled"} ELSE Manifests

FillMember ==
  /\ At("fill")
  /\ \/ \E c \in Written :
          LET F(d) == Fill(op.gen, op.member, c, d) IN
          \/ /\ disk' = F(disk)
             /\ may' = {F(d) : d \in may}
             /\ op' = IF op.member # "metadata" THEN [op EXCEPT !.pc = "finish"]
                      ELSE [op EXCEPT !.pc = IF op.kind = "delete" THEN "remove" ELSE "export",
                                      !.member = "user"]
          \/ Change(F) /\ Fail
     \/ NoChange /\ Fail
  /\ UNCHANGED <<legacy, next, native, settled, committed>>

(* A command to the SEP may take effect even when its answer is lost. *)
Issue(c) == native' = [native EXCEPT ![op.gen] = @ \cup {c}]

(* remove_identity_command: the deletion itself. *)
RemoveIdentity ==
  /\ At("remove")
  /\ Issue("removed")
  /\ op' = [op EXCEPT !.pc = "export", !.member = "user"] \/ Fail
  /\ NoChange
  /\ UNCHANGED <<legacy, next, settled, committed>>

(* query_export_size and export_catacomb for one member. *)
Export ==
  /\ At("export")
  /\ Issue("saved")
  /\ Goto("create") \/ Fail
  /\ NoChange
  /\ UNCHANGED <<legacy, next, settled, committed>>

(* The master follows the user, the promotion follows the master. *)
AfterFinishEarly == [op EXCEPT !.pc = "marker"]
AfterFinish == IF op.member = "user" THEN [op EXCEPT !.pc = "export", !.member = "master"]
               ELSE [op EXCEPT !.pc = "marker"]

(* finish_export: from here the SEP may depend on the member. *)
FinishExport ==
  /\ At("finish")
  /\ Issue(op.member)
  /\ op' = AfterFinish \/ Fail
  /\ NoChange
  /\ UNCHANGED <<legacy, next, settled, committed>>

-----------------------------------------------------------------------------
(* The end of promote_inner and of recover_with_validator: write the       *)
(* marker's temporary file (recovery removes an old one before), rename it *)
(* over the active marker, synchronise, remove the reservation,            *)
(* synchronise.                                                            *)
WriteMarker ==
  /\ At("marker")
  /\ \/ /\ LET F(d) == [d EXCEPT !.temporary = @ \cup {op.gen}] IN Change(F)
        /\ Goto("replace") \/ Fail
     \/ ~op.open /\ LET F(d) == RemoveTemporary(op.gen, d) IN Change(F) /\ Fail
     \/ NoChange /\ Fail
  /\ UNCHANGED <<legacy, next, native, settled, committed>>

ReplaceMarker ==
  /\ At("replace")
  /\ \/ /\ LET F(d) == [d EXCEPT !.active = op.gen, !.temporary = @ \ {op.gen}] IN Change(F)
        /\ op' = [op EXCEPT !.pc = "replaced", !.replaced = op.open]
     \/ /\ \/ NoChange
           \/ ~op.open /\ LET F(d) == RemoveTemporary(op.gen, d) IN Change(F)
        /\ Fail
  /\ UNCHANGED <<legacy, next, native, settled, committed>>

PromotionDurabilityUnknown == Fail

SyncMarker ==
  /\ At("replaced")
  /\ \/ SyncDirectory /\ Goto("release")
     \/ NoChange /\ UNCHANGED settled /\ PromotionDurabilityUnknown
  /\ UNCHANGED <<legacy, next, native, committed>>

ReleaseReservation ==
  /\ At("release")
  /\ \/ /\ LET F(d) == [d EXCEPT !.reserved = @ \ {op.gen}] IN Change(F)
        /\ committed' = op.gen
        /\ Goto("released")
     \/ NoChange /\ UNCHANGED committed /\ Fail
  /\ UNCHANGED <<legacy, next, native, settled>>

(* Success: a transaction is over (its Drop finds nothing to remove); an   *)
(* enrolment whose recovery promoted a pair goes on to its own.            *)
SyncRelease ==
  /\ At("released")
  /\ \/ /\ SyncDirectory
        /\ op' = IF op.open THEN Idle ELSE AfterRecovery
     \/ NoChange /\ UNCHANGED settled /\ Fail
  /\ UNCHANGED <<legacy, next, native, committed>>

Droppable == ~op.reserved /\ ~op.replaced

(* Drop of the transaction; each removal may fail and is then ignored.     *)
DropTransaction ==
  /\ At("drop")
  /\ \E temporary, generation \in BOOLEAN :
       LET F(d) == LET e == IF temporary THEN RemoveTemporary(op.gen, d) ELSE d
                   IN IF generation THEN Remove(op.gen, e) ELSE e
       IN /\ generation => Droppable
          /\ Change(F)
  /\ op' = Idle
  /\ UNCHANGED <<legacy, next, native, settled, committed>>

-----------------------------------------------------------------------------
(* reserve_unique_inactive_legacy_recovery: what it requires of the store. *)
Labeled(d, g) == d.files[g]["metadata"] = "labeled"
Unlabelled(d, g) == d.files[g]["metadata"] = "absent"

LegacyEligible(d, g) ==
  \E a \in Generations \ {g} :
    /\ {h \in Generations : d.place[h] = "pair"} = {a, g}
    /\ \A h \in Generations : d.place[h] # "stage"
    /\ d.temporary = {}
    /\ Readable(d, a) /\ Labeled(d, a)
    /\ Readable(d, g) /\ Unlabelled(d, g)
    /\ \/ d.reserved = {} /\ d.active = a
       \/ d.reserved = {g} /\ d.active \in {a, g}

LegacyInspect(g) ==
  /\ legacy.pc = "idle"
  /\ "legacy" \in Operations
  /\ LegacyEligible(disk, g)
  /\ SyncDirectory
  /\ legacy' = [pc |-> IF disk.reserved = {} THEN "create" ELSE "ready", gen |-> g]
  /\ UNCHANGED <<op, next, native, committed>>

(* create_reservation: create_new, then synchronise. *)
LegacyReserve ==
  /\ legacy.pc = "create"
  /\ \/ /\ legacy.gen \notin disk.reserved
        /\ LET F(d) == [d EXCEPT !.reserved = @ \cup {legacy.gen}] IN Change(F)
        /\ legacy' = [legacy EXCEPT !.pc = "created"]
     \/ NoChange /\ legacy' = NoLegacy
  /\ UNCHANGED <<op, next, native, settled, committed>>

LegacySync ==
  /\ legacy.pc = "created"
  /\ \/ SyncDirectory /\ legacy' = [legacy EXCEPT !.pc = "ready"]
     \/ NoChange /\ UNCHANGED settled /\ legacy' = NoLegacy
  /\ UNCHANGED <<op, next, native, committed>>

(* The tool takes the SEP lease, or fails to. *)
LegacyLease ==
  /\ legacy.pc = "ready"
  /\ \/ At("idle") /\ op' = [Idle EXCEPT !.kind = "legacy", !.pc = "sync"]
     \/ UNCHANGED op
  /\ legacy' = NoLegacy
  /\ NoChange
  /\ UNCHANGED <<next, native, settled, committed>>

-----------------------------------------------------------------------------
(* recover, offered between operations: abandoned stages, inactive         *)
(* generations and marker files go unless they are reserved.  An error     *)
(* stops it anywhere, also between the files of one generation.            *)
Unused == {g \in Generations : disk.place[g] # "none"} \ {disk.active}
Abandoned == Unused \ disk.reserved

Recover ==
  /\ "recover" \in Operations
  /\ At("idle") /\ legacy.pc = "idle"
  /\ disk.active # None => Readable(disk, disk.active)
  /\ \E gone \in SUBSET Abandoned, temporary \in SUBSET disk.temporary :
     \E part \in (Abandoned \ gone) \cup {None}, lost \in SUBSET Members :
       LET F(d) == [d EXCEPT
             !.temporary = @ \ temporary,
             !.place = [g \in Generations |-> IF g \in gone THEN "none" ELSE @[g]],
             !.files = [g \in Generations |-> [m \in Members |->
                          IF g \in gone \/ (g = part /\ m \in lost) THEN "absent" ELSE @[g][m]]]]
           before == Synced(disk, may)
           after == before \cup {F(d) : d \in before}
       IN /\ disk' = F(disk)
          /\ may' = after \/ may' = Synced(F(disk), after)
  /\ settled' = settled \cup ({disk.active} \ {None})
  /\ UNCHANGED <<op, legacy, next, native, committed>>

-----------------------------------------------------------------------------
(* A process ends: what it remembers of its transaction is gone, and Drop  *)
(* does not run.                                                           *)
ProcessCrash ==
  /\ \/ op # Idle /\ op' = Idle /\ UNCHANGED legacy
     \/ legacy # NoLegacy /\ legacy' = NoLegacy /\ UNCHANGED op
  /\ NoChange
  /\ UNCHANGED <<next, native, settled, committed>>

PowerLoss ==
  /\ disk' \in may
  /\ may' = {disk'}
  /\ settled' = settled \cup ({disk'.active} \ {None})
  /\ op' = Idle
  /\ legacy' = NoLegacy
  /\ UNCHANGED <<next, native, committed>>

Session ==
  \/ \E k \in Operations : Start(k)
  \/ RecoverSync \/ RecoverInspect
  \/ Begin \/ RenameStage \/ SyncRename \/ CreateReservation \/ SyncReservation
  \/ CreateMember \/ FillMember \/ RemoveIdentity \/ Export \/ FinishExport
  \/ WriteMarker \/ ReplaceMarker \/ SyncMarker \/ ReleaseReservation \/ SyncRelease
  \/ DropTransaction

LegacyTool ==
  \/ \E g \in Generations : LegacyInspect(g)
  \/ LegacyReserve \/ LegacySync \/ LegacyLease

Next == Session \/ LegacyTool \/ Recover \/ ProcessCrash \/ PowerLoss

Spec == Init /\ [][Next]_vars

-----------------------------------------------------------------------------
Pcs == {"idle", "sync", "inspect", "begin", "stage", "renamed", "reserve", "reserved",
        "create", "fill", "remove", "export", "finish", "marker", "replace", "replaced",
        "release", "released", "drop"}
OpStates == [kind: {"none", "enroll", "label", "delete", "legacy"}, pc: Pcs,
             gen: Generations \cup {None}, member: Members,
             open: BOOLEAN, reserved: BOOLEAN, replaced: BOOLEAN]

(* Types; disk is always among the directories that may survive. *)
TypeOK ==
  /\ disk \in Disks
  /\ may \subseteq Disks
  /\ disk \in may
  /\ next \in 1..(MaxGeneration + 1)
  /\ native \in [Generations -> SUBSET {"removed", "saved", "user", "master"}]
  /\ settled \subseteq Generations
  /\ committed \in Generations \cup {None}
  /\ op \in OpStates
  /\ legacy \in [pc: {"idle", "create", "created", "ready"}, gen: Generations \cup {None}]

(* Whatever the power loss leaves, load (and a restore) finds a complete   *)
(* pair behind the active marker: never a partial, torn or removed one.    *)
SelectedIsWhole ==
  \A d \in may : d.active # None => Whole(d, d.active)

(* Once the SEP has been told to remove an identity or to save a pair, its *)
(* generation stays reserved, and every member whose save was finished     *)
(* stays whole, until the generation has been selected durably: no crash,  *)
(* failed call, Drop or recover loses the only copy the SEP may need.      *)
NativeStateIsKept ==
  \A g \in Generations \ settled : native[g] # {} =>
    \A d \in may :
      /\ g \in d.reserved
      /\ d.place[g] = "pair"
      /\ \A m \in native[g] \cap Members : d.files[g][m] = "whole"
      /\ "removed" \in native[g] => d.files[g]["metadata"] \in Manifests

(* As long as a power loss could change which pair is selected, a          *)
(* reservation blocks new transactions, under every outcome of that loss   *)
(* (PromotionDurabilityUnknown never lets a caller go on blindly).         *)
UncertainSelectionBlocks ==
  (\E d \in may : d.active # disk.active) => \A d \in may : d.reserved # {}

(* Without the legacy tool at most one generation is ever undecided, so    *)
(* recovery never meets conflicting candidates.                            *)
OneCandidate ==
  \A d \in may : Cardinality(d.reserved) <= 1

(* What the runs check of the store as a whole, with and without the tool. *)
StoreIsKept ==
  /\ TypeOK /\ SelectedIsWhole /\ NativeStateIsKept
  /\ "legacy" \notin Operations => OneCandidate /\ UncertainSelectionBlocks

(* The store implements the register its callers rely on: a load returns   *)
(* the last committed pair or a reserved candidate.                        *)
Register == INSTANCE PairRegister WITH
  candidates <- disk.reserved, selected <- disk.active
ImplementsRegister == Register!Spec

-----------------------------------------------------------------------------
(* The inductive invariant, first of each generation.  One not begun yet   *)
(* left no trace, and one that has no directory has no files.              *)
FreshIsUnused(g) ==
  g >= next => /\ native[g] = {} /\ g \notin settled
               /\ \A d \in may : d.active # g /\ d.place[g] = "none"

NothingInNone(g) ==
  \A d \in may : d.place[g] = "none" => d.files[g] = NoFiles

(* A pair that one survivor selects is whole in every survivor: a          *)
(* synchronisation joins the marker of the one to the files of another.    *)
(* One that was settled and is still whole is whole in every survivor too. *)
WholeEverywhere(g) ==
  (\E d \in may : d.active = g) \/ (g \in settled /\ Whole(disk, g)) =>
    \A e \in may : Whole(e, g)

(* The SEP finishes the user before the master, and nothing before the     *)
(* manifest is written; what it may need is kept (NativeStateIsKept).      *)
SavedInOrder(g) ==
  /\ "master" \in native[g] => "user" \in native[g]
  /\ native[g] # {} \/ g \in settled => \A d \in may : d.files[g]["metadata"] # "torn"

SavedIsKept(g) ==
  g \notin settled /\ native[g] # {} =>
    \A d \in may :
      /\ g \in d.reserved
      /\ d.place[g] = "pair"
      /\ \A m \in native[g] \cap Members : d.files[g][m] = "whole"
      /\ "removed" \in native[g] => d.files[g]["metadata"] \in Manifests

GenerationInv(g) ==
  FreshIsUnused(g) /\ NothingInNone(g) /\ WholeEverywhere(g) /\ SavedInOrder(g) /\ SavedIsKept(g)

(* What the operation under the lease relies on, step by step. *)
BeforeReservation == {"stage", "renamed", "reserve", "reserved"}
Writing == {"create", "fill", "remove", "export", "finish"}
Selecting == {"marker", "replace", "replaced", "release"}

OpIsOpen ==
  /\ op.pc \in BeforeReservation \cup Writing \cup {"drop"} => op.open
  /\ op.pc \in {"idle", "sync", "inspect", "begin"} => ~op.open
  /\ op.open => op.gen \in Generations /\ op.gen < next
  /\ op.open /\ op.pc \notin {"stage", "renamed", "reserve", "drop"} => op.reserved
  /\ op.open /\ (~op.reserved \/ op.pc \in BeforeReservation \cup Writing) =>
       /\ op.gen \notin settled
       /\ \A d \in may : d.active # op.gen
  /\ op.open /\ (~op.reserved \/ op.pc \in BeforeReservation) => native[op.gen] = {}

Reserving ==
  /\ op.pc \in BeforeReservation => \A d \in may : d.files[op.gen]["metadata"] # "torn"
  /\ op.pc = "renamed" => disk.place[op.gen] = "pair"
  /\ op.pc \in {"reserve", "reserved"} \cup Writing => \A d \in may : d.place[op.gen] = "pair"
  /\ op.pc = "reserved" => op.gen \in disk.reserved
  /\ op.pc \in Writing => \A d \in may : op.gen \in d.reserved

MembersInOrder ==
  /\ op.pc \in Writing =>
       /\ op.member \notin native[op.gen]
       /\ op.member = "metadata" => native[op.gen] = {} /\ op.pc \in {"create", "fill"}
       /\ op.member # "metadata" => \A d \in may : d.files[op.gen]["metadata"] # "torn"
       /\ op.member = "master" => "user" \in native[op.gen]
  /\ op.pc = "remove" =>
       op.member = "user" /\ \A d \in may : d.files[op.gen]["metadata"] \in Manifests
  /\ op.pc = "finish" => \A d \in may : d.files[op.gen][op.member] = "whole"

CandidateIsWhole ==
  /\ op.pc \in Selecting => op.gen \in Generations /\ \A d \in may : Whole(d, op.gen)
  /\ op.pc = "inspect" => disk.active \in settled \cup {None}
  /\ op.pc = "replaced" => disk.active = op.gen
  /\ op.pc = "release" => op.gen \in settled

OpInv == OpIsOpen /\ Reserving /\ MembersInOrder /\ CandidateIsWhole

LegacyInv == legacy.pc # "idle" => legacy.gen \in Generations

StoreInv ==
  /\ TypeOK /\ OpInv /\ LegacyInv
  /\ \A g \in Generations : GenerationInv(g)

(* Without the legacy tool: reservations and selections a power loss could *)
(* leave behind are the ones on disk or the last commit's, and the         *)
(* operation under the lease is the only one undecided.                    *)
Undecided ==
  /\ \A d \in may : /\ d.reserved \subseteq disk.reserved \cup {committed}
                     /\ d.active \in {committed} \cup d.reserved
                     /\ \A g, h \in d.reserved : g = h
  /\ UncertainSelectionBlocks

OnlyCandidate ==
  /\ op.pc = "inspect" => \A d \in may : d.reserved = disk.reserved /\ d.active = disk.active
  /\ op.pc \in {"stage", "renamed"} => disk.reserved = {}
  /\ op.pc = "reserve" => \A d \in may : d.reserved = {}
  /\ op.pc = "reserved" => disk.reserved = {op.gen} /\ \A d \in may : d.reserved \subseteq {op.gen}
  /\ op.pc \in Writing \cup Selecting => \A d \in may : d.reserved = {op.gen}
  /\ op.pc = "release" => \A d \in may : d.active = op.gen

RegisterInv == legacy = NoLegacy /\ op.kind # "legacy" /\ Undecided /\ OnlyCandidate
=============================================================================
