--------------------------- MODULE EnrollmentOwner ---------------------------
(***************************************************************************)
(* The record of the account that owns the enrolled fingers                *)
(* (enrollment_owner.rs) and the claim that precedes every enrolment       *)
(* (claim_enrollment_owner in enrollment_lifecycle.rs).                    *)
(*                                                                         *)
(* The record is a file of the catacomb store's directory, published by a  *)
(* hard link to a pending file that is written and synchronised first.     *)
(* Every account has a thread or process that claims, enrols or only loads *)
(* the record; each action is one system call of it (the scan of the       *)
(* directory is one action), and any of them may fail.  A thread may die   *)
(* and the machine may lose power between any two.                         *)
(*                                                                         *)
(* disk is the directory as the running system sees it, may the set of     *)
(* directories a power loss could leave behind.                            *)
(***************************************************************************)
EXTENDS Naturals, FiniteSets

CONSTANTS Users,      \* the accounts that claim
          Slots,      \* the pending names; 64 of them in the code
          MaxInode,   \* bound: the pending files ever created
          None,       \* no file, no account
          Foreign     \* the unknown owner of state that predates the record

ASSUME ValuesDiffer ==
  /\ MaxInode \in Nat
  /\ None \notin Users \cup Slots \cup (1..MaxInode) \cup {Foreign}
  /\ Foreign \notin Users

VARIABLES disk,
          may,
          proc,     \* per account: its position in claim_enrollment_owner
          next,     \* the next fresh inode
          granted   \* history: the accounts whose claim returned success

vars == <<disk, may, proc, next, granted>>

Inodes == 1..MaxInode

\* owner and pending name inodes; data is what they hold, None while the file
\* is empty or partly written; content is the account whose biometric state the
\* rest of the directory holds.
Disks == [owner : Inodes \cup {None},
          pending : [Slots -> Inodes \cup {None}],
          data : [Inodes -> Users \cup {None}],
          content : Users \cup {None, Foreign}]

Idle == [pc |-> "idle", then |-> "none", links |-> 0, known |-> 0,
         ino |-> None, slot |-> None, res |-> "none"]

Init ==
  /\ \E c \in {None, Foreign} :
       disk = [owner |-> None, pending |-> [s \in Slots |-> None],
               data |-> [i \in Inodes |-> None], content |-> c]
  /\ may = {disk}
  /\ proc = [u \in Users |-> Idle]
  /\ next = 1
  /\ granted = {}

-----------------------------------------------------------------------------
(* The file system *)

Change(F(_)) ==
  /\ disk' = F(disk)
  /\ may' = may \cup {F(d) : d \in may}

NoChange == UNCHANGED <<disk, may>>

\* sync_all on the directory: every name in it is durable, and nothing else.
SyncDirectory ==
  /\ may' = {[disk EXCEPT !.data = d.data] : d \in may}
  /\ UNCHANGED disk

Pending(d, i) == {s \in Slots : d.pending[s] = i}
Links(d, i) == Cardinality(Pending(d, i)) + IF d.owner = i THEN 1 ELSE 0

-----------------------------------------------------------------------------
At(u, pc) == proc[u].pc = pc
Goto(u, pc) == proc' = [proc EXCEPT ![u].pc = pc]

\* The call ends; a pending file it still holds is dropped first.
End(u, res) ==
  proc' = [proc EXCEPT ![u] =
    IF @.slot # None THEN [@ EXCEPT !.pc = "drop", !.res = res]
    ELSE [Idle EXCEPT !.res = res]]

Read(u, then) == proc' = [proc EXCEPT ![u] = [@ EXCEPT !.pc = "open", !.then = then]]

Grant(u) == End(u, "granted") /\ granted' = granted \cup {u}

Refuse(u, res) == End(u, res) /\ UNCHANGED granted

\* Any system call of the record's own code may fail.
Unavailable(u) ==
  /\ Refuse(u, "unavailable")
  /\ NoChange
  /\ UNCHANGED next

Quiet == NoChange /\ UNCHANGED <<next, granted>>

-----------------------------------------------------------------------------
\* claim_enrollment_owner begins with a load; access_policy is a load alone.
Start(u, then) ==
  /\ At(u, "idle")
  /\ proc' = [proc EXCEPT ![u] = [Idle EXCEPT !.pc = "open", !.then = then]]
  /\ Quiet

\* What the caller of read_owner does with its result: claim_enrollment_owner
\* after the first load and after the second one, claim on entry, after it
\* published and after it lost the race to publish.
Return(u, owner) ==
  LET then == proc[u].then IN
  IF then = "policy" THEN Refuse(u, "loaded")
  ELSE IF owner = None /\ then = "load" THEN Goto(u, "empty") /\ UNCHANGED granted
  ELSE IF owner = None /\ then = "claim" THEN Goto(u, "create") /\ UNCHANGED granted
  ELSE IF then = "claim"
       THEN Goto(u, IF owner = u THEN "resync" ELSE "resyncother") /\ UNCHANGED granted
  ELSE IF owner # u THEN Refuse(u, "refused")
  ELSE IF then \in {"load", "reload"} THEN Read(u, "claim") /\ UNCHANGED granted
  ELSE Grant(u)

\* The record parses, or is the torn file that reads as corrupt.
ReturnOwner(u) ==
  IF disk.data[disk.owner] = None THEN Refuse(u, "corrupt")
  ELSE Return(u, disk.data[disk.owner])

\* read_owner: open, fstat; one link needs no further look.
OpenOwner(u) ==
  /\ At(u, "open")
  /\ IF disk.owner = None THEN Return(u, None)
     ELSE IF Links(disk, disk.owner) = 1 THEN ReturnOwner(u)
     ELSE /\ proc' = [proc EXCEPT ![u] = [@ EXCEPT !.pc = "scan",
                                              !.links = Links(disk, disk.owner)]]
          /\ UNCHANGED granted
  /\ NoChange /\ UNCHANGED next

\* validate_owner_file_metadata: the pending entries that name the same inode.
ScanPending(u) ==
  /\ At(u, "scan")
  /\ proc' = [proc EXCEPT ![u] = [@ EXCEPT !.pc = "restat",
                                      !.known = Cardinality(Pending(disk, disk.owner))]]
  /\ Quiet

\* The link count a second time: a publisher may have removed its pending name
\* in the meantime.
LinksAccepted(u) ==
  LET now == Links(disk, disk.owner) IN
  now = 1 \/ (now = proc[u].links /\ proc[u].known + 1 = now)

Restat(u) ==
  /\ At(u, "restat")
  /\ IF LinksAccepted(u) THEN ReturnOwner(u) ELSE Refuse(u, "unsafe")
  /\ NoChange /\ UNCHANGED next

ReadFails(u) ==
  /\ proc[u].pc \in {"open", "scan", "restat"}
  /\ Unavailable(u)

-----------------------------------------------------------------------------
\* No record: only an empty store may have a first owner.  A failed look counts
\* as a store that is not empty, and another claimer may have come first.
EmptyUnchecked(u) ==
  /\ At(u, "empty")
  /\ Read(u, "claim")
  /\ Quiet

EmptyForFirstOwner(u) ==
  /\ At(u, "empty")
  /\ \/ disk.content = None /\ Read(u, "claim")
     \/ Read(u, "reload")
  /\ Quiet

\* claim found a record: the directory is synchronised again, since whoever
\* published it may have failed to.
ResyncSkipped(u) ==
  /\ proc[u].pc \in {"resync", "resyncother"}
  /\ NoChange /\ UNCHANGED next
  /\ IF At(u, "resync") THEN Grant(u) ELSE Refuse(u, "refused")

Resync(u) ==
  /\ proc[u].pc \in {"resync", "resyncother"}
  /\ \/ /\ SyncDirectory /\ UNCHANGED next
        /\ IF At(u, "resync") THEN Grant(u) ELSE Refuse(u, "refused")
     \/ Unavailable(u)

\* create_pending_file: exclusively, under a name that is free.
CreatePending(u) ==
  /\ At(u, "create")
  /\ \/ \E s \in Slots :
          /\ next \in Inodes
          /\ disk.pending[s] = None
          /\ LET F(d) == [d EXCEPT !.pending[s] = next] IN Change(F)
          /\ proc' = [proc EXCEPT ![u] = [@ EXCEPT !.pc = "write", !.ino = next, !.slot = s]]
          /\ next' = next + 1
          /\ UNCHANGED granted
     \/ Unavailable(u)

WritePending(u) ==
  /\ At(u, "write")
  /\ \/ /\ LET F(d) == [d EXCEPT !.data[proc[u].ino] = u] IN Change(F)
        /\ Goto(u, "sync")
        /\ UNCHANGED <<next, granted>>
     \/ Unavailable(u)

SyncPending(u) ==
  /\ At(u, "sync")
  /\ \/ /\ may' = {[d EXCEPT !.data[proc[u].ino] = u] : d \in may}
        /\ Goto(u, "link")
        /\ UNCHANGED <<disk, next, granted>>
     \/ Unavailable(u)

\* fs::hard_link publishes the record unless there is one.
Published(u, d) == [d EXCEPT !.owner = proc[u].ino]

HardLink(u) ==
  /\ At(u, "link")
  /\ \/ /\ IF disk.owner = None
           THEN LET F(d) == Published(u, d) IN Change(F)
           ELSE NoChange
        /\ proc' = [proc EXCEPT ![u] = [@ EXCEPT !.pc = "remove", !.then = "verify"]]
        /\ UNCHANGED <<next, granted>>
     \/ Unavailable(u)

\* The pending name is removed in both cases.
RemovePending(u) ==
  /\ At(u, "remove")
  /\ \/ /\ LET F(d) == [d EXCEPT !.pending[proc[u].slot] = None] IN Change(F)
        /\ proc' = [proc EXCEPT ![u] = [@ EXCEPT !.pc = "syncname", !.slot = None]]
        /\ UNCHANGED <<next, granted>>
     \/ Unavailable(u)

SyncName(u) ==
  /\ At(u, "syncname")
  /\ \/ SyncDirectory /\ Read(u, "verify") /\ UNCHANGED <<next, granted>>
     \/ Unavailable(u)

\* Drop of PendingOwnerFile, whose failure nobody sees.
DropPending(u) ==
  /\ At(u, "drop")
  /\ \/ LET F(d) == [d EXCEPT !.pending[proc[u].slot] = None] IN Change(F)
     \/ NoChange
  /\ proc' = [proc EXCEPT ![u] = [Idle EXCEPT !.res = proc[u].res]]
  /\ UNCHANGED <<next, granted>>

-----------------------------------------------------------------------------
\* After the claim the enrolment creates its generation in the same directory.
Enroll(u) ==
  /\ At(u, "idle") /\ proc[u].res = "granted"
  /\ LET F(d) == [d EXCEPT !.content = u] IN Change(F)
  /\ proc' = [proc EXCEPT ![u] = Idle]
  /\ UNCHANGED <<next, granted>>

Die(u) ==
  /\ ~At(u, "idle")
  /\ proc' = [proc EXCEPT ![u] = Idle]
  /\ Quiet

PowerLoss ==
  /\ \E d \in may : disk' = d /\ may' = {d}
  /\ proc' = [u \in Users |-> Idle]
  /\ UNCHANGED <<next, granted>>

Next ==
  \/ \E u \in Users :
       \/ Start(u, "load") \/ Start(u, "policy")
       \/ OpenOwner(u) \/ ScanPending(u) \/ Restat(u) \/ ReadFails(u)
       \/ EmptyForFirstOwner(u) \/ Resync(u)
       \/ CreatePending(u) \/ WritePending(u) \/ SyncPending(u)
       \/ HardLink(u) \/ RemovePending(u) \/ SyncName(u) \/ DropPending(u)
       \/ Enroll(u) \/ Die(u)
  \/ PowerLoss

Spec == Init /\ [][Next]_vars

-----------------------------------------------------------------------------
Holding == {"write", "sync", "link"}

Reading == {"open", "scan", "restat"}

Positions == Holding \cup Reading \cup
  {"idle", "empty", "resync", "resyncother", "create", "remove", "syncname", "drop"}

Thens == {"none", "load", "reload", "policy", "claim", "verify"}

Results == {"none", "granted", "loaded", "refused", "unavailable", "unsafe", "corrupt"}

Procs == [pc : Positions, then : Thens, links : Nat, known : Nat,
          ino : Inodes \cup {None}, slot : Slots \cup {None}, res : Results]

\* The directory, every directory a power loss could leave, the positions of
\* the claimers and the history have the shapes above.
TypeOK ==
  /\ disk \in Disks
  /\ may \subseteq Disks
  /\ next \in 1..(MaxInode + 1)
  /\ granted \subseteq Users
  /\ proc \in [Users -> Procs]

\* Whatever a power loss leaves, a record that is there is complete: no crash
\* makes a file that every later load would report as corrupt.
PublishedIsWhole ==
  \A d \in may \cup {disk} : d.owner # None => d.data[d.owner] # None

\* A load that runs while a publisher removes its pending name, or after a
\* publisher died before that, is never refused as unsafe or corrupt.
NoSpuriousRefusal == \A u \in Users : proc[u].res \notin {"unsafe", "corrupt"}

-----------------------------------------------------------------------------
(* The inductive invariant. *)

\* The running system's directory is among those a power loss may leave; none
\* of them has another record than the visible one, and all of them hold the
\* same account in it.
OneRecord ==
  /\ disk \in may
  /\ \A d \in may : d.owner \in {None, disk.owner}
  /\ disk.owner # None => /\ disk.data[disk.owner] # None
                          /\ \A d \in may : d.data[disk.owner] = disk.data[disk.owner]

\* Inodes are handed out in order, and a pending file has one name.
Names ==
  \A d \in may :
    /\ d.owner # None => d.owner < next
    /\ \A s \in Slots : d.pending[s] # None => d.pending[s] < next
    /\ \A s, t \in Slots : d.pending[s] # None /\ d.pending[s] = d.pending[t] => s = t

\* The visible record is in every directory a power loss may leave.
Durable == disk.owner # None /\ \A d \in may : d.owner = disk.owner

\* The pending file of a claimer at p: under its name, not yet the record while
\* it is being made, and durably complete before the hard link.
FileHeld(u, p) ==
  /\ p.pc \in Holding \cup {"remove", "drop"} <=> p.slot # None
  /\ p.slot # None => p.ino # None /\ p.ino < next /\ disk.pending[p.slot] = p.ino
  /\ p.pc \in Holding => disk.owner # p.ino
  /\ p.pc = "sync" => disk.data[p.ino] = u
  /\ p.pc = "link" => \A d \in may : d.data[p.ino] = u

\* What a claimer at p has seen of the record still holds.
RecordSeen(u, p) ==
  /\ p.pc \in Reading => p.then # "none"
  /\ p.pc \in {"scan", "restat", "resync", "resyncother", "remove", "syncname"} => disk.owner # None
  /\ p.pc \in {"scan", "restat"} => p.links = 2
  /\ p.pc = "restat" /\ Pending(disk, disk.owner) # {} => p.known = 1
  /\ p.pc = "resync" => disk.data[disk.owner] = u
  /\ p.pc \in Reading /\ p.then = "verify" => Durable

\* Nobody goes on to claim a store that holds state of an unknown account, and
\* success is reported only to those granted it.
ClaimAllowed(u, p) ==
  /\ p.then \in {"claim", "verify"} \/ p.pc \in Holding \cup {"create", "remove", "syncname"}
     => disk.content # Foreign
  /\ p.res = "granted" => u \in granted
  /\ p.res \notin {"unsafe", "corrupt"}

Claimer(u, p) == FileHeld(u, p) /\ RecordSeen(u, p) /\ ClaimAllowed(u, p)

\* No two claimers hold the same pending file.
OwnFiles ==
  \A u, v \in Users :
    proc[u].slot # None /\ proc[v].slot # None /\ proc[u].ino = proc[v].ino => u = v

\* State and record agree wherever a power loss may lead, and what a claim
\* granted is durable.
Owned ==
  /\ \A d \in may : d.content = Foreign <=> disk.content = Foreign
  /\ disk.content = Foreign => disk.owner = None
  /\ \A d \in may : d.content \in Users => d.owner # None /\ d.data[d.owner] = d.content
  /\ \A u \in granted : Durable /\ disk.data[disk.owner] = u

OwnerInv ==
  /\ TypeOK /\ OneRecord /\ Names /\ OwnFiles /\ Owned
  /\ \A u \in Users : Claimer(u, proc[u])

-----------------------------------------------------------------------------
\* A claim that returned success is durable and exclusive: whatever happens
\* afterwards, failures, dead claimers and power loss included, the directory
\* holds a complete record of that account (claim, enrollment_owner.rs), and
\* no later load is refused.
GrantIsDurable ==
  /\ OwnerInv /\ PublishedIsWhole /\ NoSpuriousRefusal
  /\ \A u \in granted : \A d \in may \cup {disk} :
       d.owner # None /\ d.data[d.owner] = u

\* Biometric state and record agree in every directory a power loss could
\* leave: state of an account is there only with that account's record, and
\* state that predates the record never gets an owner
\* (claim_enrollment_owner's check for unowned state).
StateIsOwned ==
  \A d \in may \cup {disk} :
    /\ d.content \in Users => d.owner # None /\ d.data[d.owner] = d.content
    /\ d.content = Foreign => d.owner = None
=============================================================================
