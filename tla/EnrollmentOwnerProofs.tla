------------------------ MODULE EnrollmentOwnerProofs ------------------------
(***************************************************************************)
(* Proofs about EnrollmentOwner, for every set of accounts and of pending  *)
(* names and every number of files.                                        *)
(***************************************************************************)
EXTENDS EnrollmentOwner, FiniteSetTheorems, TLAPS

-----------------------------------------------------------------------------
(* The directory *)

LEMMA DiskFields ==
  ASSUME NEW d \in Disks
  PROVE  /\ d.owner \in Inodes \cup {None}
         /\ d.pending \in [Slots -> Inodes \cup {None}]
         /\ d.data \in [Inodes -> Users \cup {None}]
         /\ d.content \in Users \cup {None, Foreign}
BY DEF Disks

\* A record has at most one pending name besides its own.
LEMMA LinkCount ==
  ASSUME TypeOK, OneRecord, Names, disk.owner # None
  PROVE  /\ Pending(disk, disk.owner) = {} => Links(disk, disk.owner) = 1
         /\ Pending(disk, disk.owner) # {} => /\ Links(disk, disk.owner) = 2
                                              /\ Cardinality(Pending(disk, disk.owner)) = 1
         /\ Cardinality(Pending(disk, disk.owner)) \in Nat
<1> DEFINE P == Pending(disk, disk.owner)
<1>1. CASE P = {}
  <2>1. Cardinality(P) = 0 BY <1>1, FS_EmptySet
  <2> QED BY <1>1, <2>1 DEF Links
<1>2. CASE P # {}
  <2>1. PICK s \in Slots : disk.pending[s] = disk.owner BY <1>2 DEF Pending
  <2>2. \A t \in P : t = s BY <2>1 DEF Pending, Names, OneRecord
  <2>3. P = {s} BY <2>1, <2>2 DEF Pending
  <2>4. Cardinality(P) = 1 BY <2>3, FS_Singleton, Zenon
  <2> QED BY <1>2, <2>4 DEF Links
<1> QED BY <1>1, <1>2

-----------------------------------------------------------------------------
(* The other claimers of a step *)

\* What a step must leave alone for a claimer that does not move.
Keeps(v) ==
  /\ next <= next' /\ granted \subseteq granted'
  /\ proc'[v] = proc[v]
  /\ proc[v].slot # None => disk'.pending[proc[v].slot] = disk.pending[proc[v].slot]
  /\ proc[v].pc \in Holding => disk'.owner # proc[v].ino
  /\ proc[v].pc = "sync" => disk'.data[proc[v].ino] = v
  /\ proc[v].pc = "link" => \A d \in may' : d.data[proc[v].ino] = v
  /\ disk.owner # None => /\ disk'.owner = disk.owner
                          /\ disk'.data[disk.owner] = disk.data[disk.owner]
                          /\ Pending(disk', disk.owner) \subseteq Pending(disk, disk.owner)
  /\ Durable => Durable'
  /\ disk'.content = Foreign => disk.content = Foreign

LEMMA ClaimerStable ==
  ASSUME TypeOK, TypeOK', NEW v \in Users, Claimer(v, proc[v]), Keeps(v)
  PROVE  Claimer(v, proc[v])'
<1>0. proc[v] \in Procs BY DEF TypeOK
<1>1. FileHeld(v, proc[v])'
  <2>1. next \in Nat /\ next' \in Nat BY ValuesDiffer DEF TypeOK
  <2>2. proc[v].slot # None => proc[v].ino \in Nat
        BY <1>0, ValuesDiffer DEF Procs, Claimer, FileHeld, Inodes
  <2> QED BY <2>1, <2>2 DEF Keeps, Claimer, FileHeld
<1>2. RecordSeen(v, proc[v])' BY DEF Keeps, Claimer, RecordSeen
<1>3. ClaimAllowed(v, proc[v])' BY DEF Keeps, Claimer, ClaimAllowed
<1> QED BY <1>1, <1>2, <1>3 DEF Claimer

LEMMA ProcType ==
  ASSUME TypeOK, NEW u \in Users, NEW p \in Procs, proc' = [proc EXCEPT ![u] = p]
  PROVE  /\ proc' \in [Users -> Procs]
         /\ proc'[u] = p
         /\ \A v \in Users : v # u => proc'[v] = proc[v]
BY DEF TypeOK

-----------------------------------------------------------------------------
(* Steps that leave the directory alone *)

\* The moves of a claimer that touch no file: it keeps its pending file or has
\* none, and is granted the claim only when the record is durably its own.
Moves(u, p) ==
  /\ proc' = [proc EXCEPT ![u] = p]
  /\ NoChange /\ next' = next
  /\ p.slot \in {None, proc[u].slot} /\ p.ino \in {None, proc[u].ino}
  /\ p.slot # None => p.ino = proc[u].ino
  /\ granted' \in {granted, granted \cup {u}}
  /\ u \in granted' \ granted => Durable /\ disk.data[disk.owner] = u
  /\ p.res = "granted" => u \in granted'

LEMMA MoveInv ==
  ASSUME OwnerInv, NEW u \in Users, NEW p \in Procs, Moves(u, p),
         FileHeld(u, p), RecordSeen(u, p),
         p.then \in {"claim", "verify"} \/ p.pc \in Holding \cup {"create", "remove", "syncname"}
           => disk.content # Foreign,
         p.res \notin {"unsafe", "corrupt"}
  PROVE  OwnerInv'
<1> USE DEF OwnerInv, Moves, NoChange
<1>1. TypeOK' BY ProcType DEF TypeOK
<1>2. OneRecord' /\ Names' BY DEF OneRecord, Names
<1>3. OwnFiles' BY ProcType DEF OwnFiles
<1>4. Durable' <=> Durable BY DEF Durable
<1>5. Owned' BY <1>4 DEF Owned
<1>6. ASSUME NEW v \in Users PROVE Claimer(v, proc[v])'
  <2>1. CASE v = u
    <3>1. proc'[u] = p BY ProcType, Zenon
    <3>2. FileHeld(u, proc[u])' BY <3>1 DEF FileHeld
    <3>3. RecordSeen(u, proc[u])' BY <3>1, <1>4 DEF RecordSeen
    <3>4. ClaimAllowed(u, proc[u])' BY <3>1 DEF ClaimAllowed
    <3> QED BY <2>1, <3>2, <3>3, <3>4 DEF Claimer
  <2>2. CASE v # u
    <3>1. Keeps(v)
      <4>1. next \in Nat BY ValuesDiffer DEF TypeOK
      <4> QED BY <2>2, <1>4, <4>1, ProcType DEF Keeps, Claimer, FileHeld
    <3> QED BY <3>1, <1>1, ClaimerStable
  <2> QED BY <2>1, <2>2
<1> QED BY <1>1, <1>2, <1>3, <1>5, <1>6

LEMMA EndInv ==
  ASSUME OwnerInv, NEW u \in Users, NEW r \in Results \ {"unsafe", "corrupt"},
         End(u, r), NoChange, next' = next,
         granted' \in {granted, granted \cup {u}},
         u \in granted' \ granted => Durable /\ disk.data[disk.owner] = u,
         r = "granted" => u \in granted'
  PROVE  OwnerInv'
<1>0. proc[u] \in Procs /\ Claimer(u, proc[u]) BY DEF OwnerInv, TypeOK
<1>1. CASE proc[u].slot # None
  <2> DEFINE p == [proc[u] EXCEPT !.pc = "drop", !.res = r]
  <2>1. p \in Procs BY <1>0, Zenon DEF Procs, Positions
  <2>2. Moves(u, p) BY <1>0, <1>1 DEF Moves, End, Procs
  <2>3. FileHeld(u, p) BY <1>0, <1>1 DEF Procs, Claimer, FileHeld, Holding
  <2>4. RecordSeen(u, p) BY <1>0 DEF Procs, RecordSeen, Reading
  <2>5. p.then \in {"claim", "verify"} \/ p.pc \in Holding \cup {"create", "remove", "syncname"}
          => disk.content # Foreign
        BY <1>0 DEF Procs, Claimer, ClaimAllowed, Holding
  <2>6. p.res \notin {"unsafe", "corrupt"} BY <1>0 DEF Procs
  <2> HIDE DEF p
  <2> QED BY <2>1, <2>2, <2>3, <2>4, <2>5, <2>6, MoveInv
<1>2. CASE proc[u].slot = None
  <2> DEFINE p == [Idle EXCEPT !.res = r]
  <2>1. p \in Procs BY DEF Idle, Procs, Positions, Thens, Results
  <2>2. Moves(u, p) BY <1>0, <1>2 DEF Moves, End, Procs, Idle
  <2>3. FileHeld(u, p) BY DEF Idle, FileHeld, Holding
  <2>4. RecordSeen(u, p) BY DEF Idle, RecordSeen, Reading
  <2>5. p.then \notin {"claim", "verify"} /\ p.pc \notin Holding \cup {"create", "remove", "syncname"}
        BY DEF Idle, Holding
  <2>6. p.res \notin {"unsafe", "corrupt"} BY DEF Idle
  <2> HIDE DEF p
  <2> QED BY <2>1, <2>2, <2>3, <2>4, <2>5, <2>6, MoveInv
<1> QED BY <1>1, <1>2

LEMMA RefuseInv ==
  ASSUME OwnerInv, NEW u \in Users, NEW r \in {"loaded", "refused", "unavailable"},
         Refuse(u, r), NoChange, next' = next
  PROVE  OwnerInv'
BY EndInv, Zenon DEF Refuse, Results

LEMMA UnavailableInv ==
  ASSUME OwnerInv, NEW u \in Users, Unavailable(u) PROVE OwnerInv'
BY RefuseInv DEF Unavailable

\* A load begins, for one of the reasons other than to verify.
LEMMA ReadInv ==
  ASSUME OwnerInv, NEW u \in Users, NEW t \in {"load", "reload", "policy", "claim"},
         proc[u].slot = None, t = "claim" => disk.content # Foreign,
         Read(u, t), NoChange, UNCHANGED <<next, granted>>
  PROVE  OwnerInv'
<1>0. proc[u] \in Procs /\ Claimer(u, proc[u]) BY DEF OwnerInv, TypeOK
<1> DEFINE p == [proc[u] EXCEPT !.pc = "open", !.then = t]
<1>1. p \in Procs BY <1>0, Zenon DEF Procs, Positions, Reading, Thens
<1>2. Moves(u, p) BY <1>0 DEF Moves, Read, Procs, Claimer, ClaimAllowed
<1>3. FileHeld(u, p) BY <1>0 DEF Procs, FileHeld, Holding
<1>4. RecordSeen(u, p) BY <1>0 DEF Procs, RecordSeen
<1>5. p.then \in {"claim", "verify"} \/ p.pc \in Holding \cup {"create", "remove", "syncname"}
        => disk.content # Foreign
      BY <1>0 DEF Procs, Holding
<1>6. p.res \notin {"unsafe", "corrupt"} BY <1>0 DEF Procs, Claimer, ClaimAllowed
<1> HIDE DEF p
<1> QED BY <1>1, <1>2, <1>3, <1>4, <1>5, <1>6, MoveInv

\* A claimer without a pending file moves to a place where it only needs to
\* have seen the record, or none.
LEMMA GotoInv ==
  ASSUME OwnerInv, NEW u \in Users, NEW at \in {"empty", "create", "resync", "resyncother"},
         proc[u].slot = None,
         at = "create" => disk.content # Foreign,
         at \in {"resync", "resyncother"} => disk.owner # None,
         at = "resync" => disk.data[disk.owner] = u,
         Goto(u, at), NoChange, UNCHANGED <<next, granted>>
  PROVE  OwnerInv'
<1>0. proc[u] \in Procs /\ Claimer(u, proc[u]) BY DEF OwnerInv, TypeOK
<1> DEFINE p == [proc[u] EXCEPT !.pc = at]
<1>1. p \in Procs BY <1>0 DEF Procs, Positions
<1>2. Moves(u, p) BY <1>0 DEF Moves, Goto, Procs, Claimer, ClaimAllowed
<1>3. FileHeld(u, p) BY <1>0 DEF Procs, FileHeld, Holding
<1>4. RecordSeen(u, p) BY <1>0 DEF Procs, RecordSeen, Reading
<1>5. p.then \in {"claim", "verify"} \/ p.pc \in Holding \cup {"create", "remove", "syncname"}
        => disk.content # Foreign
      BY <1>0 DEF Procs, Holding, Claimer, ClaimAllowed
<1>6. p.res \notin {"unsafe", "corrupt"} BY <1>0 DEF Procs, Claimer, ClaimAllowed
<1> HIDE DEF p
<1> QED BY <1>1, <1>2, <1>3, <1>4, <1>5, <1>6, MoveInv

\* read_owner returns what the visible record says.
LEMMA ReturnInv ==
  ASSUME OwnerInv, NEW u \in Users, proc[u].pc \in Reading, NEW o,
         o = None => disk.owner = None,
         o # None => disk.owner # None /\ o = disk.data[disk.owner],
         Return(u, o), NoChange, next' = next
  PROVE  OwnerInv'
<1> DEFINE t == proc[u].then
<1>0. /\ proc[u] \in Procs /\ Claimer(u, proc[u]) /\ t \in Thens /\ t # "none"
      /\ proc[u].slot = None
      /\ disk.owner # None => disk.content # Foreign
      /\ u # None
      BY ValuesDiffer DEF OwnerInv, TypeOK, Procs, Claimer, FileHeld, RecordSeen, Reading, Holding, Owned
<1>1. CASE t = "policy" BY <1>1, RefuseInv DEF Return
<1>2. CASE t = "load"
  <2>1. CASE o = None BY <1>0, <1>2, <2>1, GotoInv DEF Return
  <2>2. CASE o # None /\ o # u BY <1>2, <2>2, RefuseInv DEF Return
  <2>3. CASE o # None /\ o = u BY <1>0, <1>2, <2>3, ReadInv DEF Return
  <2> QED BY <2>1, <2>2, <2>3
<1>3. CASE t = "reload"
  <2>1. CASE o # u BY <1>3, <2>1, RefuseInv DEF Return
  <2>2. CASE o = u BY <1>0, <1>3, <2>2, ReadInv DEF Return
  <2> QED BY <2>1, <2>2
<1>4. CASE t = "claim"
  <2>0. disk.content # Foreign BY <1>0, <1>4 DEF Claimer, ClaimAllowed
  <2>1. CASE o = None BY <1>0, <1>4, <2>0, <2>1, GotoInv DEF Return
  <2>2. CASE o # None /\ o = u BY <1>0, <1>4, <2>2, GotoInv DEF Return
  <2>3. CASE o # None /\ o # u BY <1>0, <1>4, <2>3, GotoInv DEF Return
  <2> QED BY <2>1, <2>2, <2>3
<1>5. CASE t = "verify"
  <2>1. CASE o # u BY <1>5, <2>1, RefuseInv DEF Return
  <2>2. CASE o = u
    <3>1. Durable BY <1>0, <1>5 DEF Claimer, RecordSeen
    <3>2. Grant(u) BY <1>0, <1>5, <2>2 DEF Return
    <3> QED BY <1>0, <2>2, <3>1, <3>2, EndInv DEF Grant, Results
  <2> QED BY <2>1, <2>2
<1> QED BY <1>0, <1>1, <1>2, <1>3, <1>4, <1>5 DEF Thens

LEMMA ReturnOwnerInv ==
  ASSUME OwnerInv, NEW u \in Users, proc[u].pc \in Reading, disk.owner # None,
         ReturnOwner(u), NoChange, next' = next
  PROVE  OwnerInv'
<1>1. disk.data[disk.owner] # None BY DEF OwnerInv, OneRecord
<1>2. Return(u, disk.data[disk.owner]) BY <1>1 DEF ReturnOwner
<1> QED BY <1>1, <1>2, ReturnInv

-----------------------------------------------------------------------------
(* The actions that only look *)

LEMMA StartInv ==
  ASSUME OwnerInv, NEW u \in Users, NEW t \in {"load", "policy"}, Start(u, t) PROVE OwnerInv'
<1> DEFINE p == [Idle EXCEPT !.pc = "open", !.then = t]
<1>1. p \in Procs BY Zenon DEF Idle, Procs, Positions, Reading, Thens, Results
<1>2. Moves(u, p) BY DEF Start, Quiet, Moves, Idle
<1>3. FileHeld(u, p) BY DEF Idle, FileHeld, Holding
<1>4. RecordSeen(u, p) BY DEF Idle, RecordSeen
<1>5. p.then \notin {"claim", "verify"} /\ p.pc \notin Holding \cup {"create", "remove", "syncname"}
      BY DEF Idle, Holding
<1>6. p.res \notin {"unsafe", "corrupt"} /\ NoChange BY DEF Idle, Start, Quiet
<1> HIDE DEF p
<1> QED BY <1>1, <1>2, <1>3, <1>4, <1>5, <1>6, MoveInv

LEMMA DieInv ==
  ASSUME OwnerInv, NEW u \in Users, Die(u) PROVE OwnerInv'
<1>1. Idle \in Procs BY DEF Idle, Procs, Positions, Thens, Results
<1>2. Moves(u, Idle) BY DEF Die, Quiet, Moves, Idle
<1>3. FileHeld(u, Idle) BY DEF Idle, FileHeld, Holding
<1>4. RecordSeen(u, Idle) BY DEF Idle, RecordSeen, Reading
<1>5. Idle.then \notin {"claim", "verify"} /\ Idle.pc \notin Holding \cup {"create", "remove", "syncname"}
      BY DEF Idle, Holding
<1>6. Idle.res \notin {"unsafe", "corrupt"} BY DEF Idle
<1> QED BY <1>1, <1>2, <1>3, <1>4, <1>5, <1>6, MoveInv

LEMMA OpenOwnerInv ==
  ASSUME OwnerInv, NEW u \in Users, OpenOwner(u) PROVE OwnerInv'
<1>0. /\ proc[u] \in Procs /\ Claimer(u, proc[u]) /\ proc[u].pc = "open" /\ proc[u].pc \in Reading
      /\ NoChange /\ next' = next
      BY DEF OwnerInv, TypeOK, OpenOwner, At, Reading
<1>1. CASE disk.owner = None BY <1>0, <1>1, ReturnInv DEF OpenOwner
<1>2. CASE disk.owner # None /\ Links(disk, disk.owner) = 1
      BY <1>0, <1>2, ReturnOwnerInv DEF OpenOwner
<1>3. CASE disk.owner # None /\ Links(disk, disk.owner) # 1
  <2>1. Links(disk, disk.owner) = 2 BY <1>3, LinkCount DEF OwnerInv
  <2> DEFINE p == [proc[u] EXCEPT !.pc = "scan", !.links = 2]
  <2>2. p \in Procs BY <1>0, Zenon DEF Procs, Positions, Reading
  <2>3. Moves(u, p)
    <3>1. proc' = [proc EXCEPT ![u] = p] /\ granted' = granted BY <1>3, <2>1 DEF OpenOwner
    <3> QED BY <1>0, <3>1 DEF Moves, Procs, Claimer, ClaimAllowed
  <2>4. FileHeld(u, p) BY <1>0 DEF Procs, Claimer, FileHeld, Holding
  <2>5. RecordSeen(u, p) BY <1>0, <1>3 DEF Procs, Claimer, RecordSeen, Reading
  <2>6. p.then \in {"claim", "verify"} \/ p.pc \in Holding \cup {"create", "remove", "syncname"}
          => disk.content # Foreign
        BY <1>0 DEF Procs, Claimer, ClaimAllowed, Holding
  <2>7. p.res \notin {"unsafe", "corrupt"} BY <1>0 DEF Procs, Claimer, ClaimAllowed
  <2> HIDE DEF p
  <2> QED BY <2>2, <2>3, <2>4, <2>5, <2>6, <2>7, MoveInv
<1> QED BY <1>1, <1>2, <1>3

LEMMA ScanPendingInv ==
  ASSUME OwnerInv, NEW u \in Users, ScanPending(u) PROVE OwnerInv'
<1> DEFINE n == Cardinality(Pending(disk, disk.owner))
<1>0. /\ proc[u] \in Procs /\ Claimer(u, proc[u]) /\ proc[u].pc = "scan" /\ disk.owner # None
      BY DEF OwnerInv, TypeOK, ScanPending, At, Claimer, RecordSeen
<1>1. n \in Nat /\ (Pending(disk, disk.owner) # {} => n = 1) BY <1>0, LinkCount DEF OwnerInv
<1> DEFINE p == [proc[u] EXCEPT !.pc = "restat", !.known = n]
<1>2. proc' = [proc EXCEPT ![u] = p] /\ Quiet BY DEF ScanPending
<1> HIDE DEF n
<1>3. p \in Procs BY <1>0, <1>1, Zenon DEF Procs, Positions, Reading
<1>4. Moves(u, p) BY <1>0, <1>2 DEF Moves, Quiet, Procs, Claimer, ClaimAllowed
<1>5. FileHeld(u, p) BY <1>0 DEF Procs, Claimer, FileHeld, Holding
<1>6. RecordSeen(u, p) BY <1>0, <1>1 DEF Procs, Claimer, RecordSeen, Reading
<1>7. p.then \in {"claim", "verify"} \/ p.pc \in Holding \cup {"create", "remove", "syncname"}
        => disk.content # Foreign
      BY <1>0 DEF Procs, Claimer, ClaimAllowed, Holding
<1>8. p.res \notin {"unsafe", "corrupt"} BY <1>0 DEF Procs, Claimer, ClaimAllowed
<1> HIDE DEF p
<1> QED BY <1>3, <1>4, <1>5, <1>6, <1>7, <1>8, MoveInv

LEMMA RestatInv ==
  ASSUME OwnerInv, NEW u \in Users, Restat(u) PROVE OwnerInv'
<1>0. /\ Claimer(u, proc[u]) /\ proc[u].pc = "restat" /\ proc[u].pc \in Reading
      /\ NoChange /\ next' = next
      BY DEF OwnerInv, TypeOK, Restat, At, Reading
<1>1. /\ disk.owner # None /\ proc[u].links = 2
      /\ Pending(disk, disk.owner) # {} => proc[u].known = 1
      BY <1>0 DEF Claimer, RecordSeen
<1>2. LinksAccepted(u) BY <1>1, LinkCount DEF OwnerInv, LinksAccepted
<1> QED BY <1>0, <1>1, <1>2, ReturnOwnerInv DEF Restat

LEMMA ReadFailsInv ==
  ASSUME OwnerInv, NEW u \in Users, ReadFails(u) PROVE OwnerInv'
BY UnavailableInv DEF ReadFails

LEMMA EmptyForFirstOwnerInv ==
  ASSUME OwnerInv, NEW u \in Users, EmptyForFirstOwner(u) PROVE OwnerInv'
<1>1. proc[u].slot = None /\ NoChange /\ UNCHANGED <<next, granted>>
      BY DEF OwnerInv, Claimer, FileHeld, Holding, EmptyForFirstOwner, At, Quiet
<1>2. CASE disk.content = None /\ Read(u, "claim")
  <2>1. disk.content # Foreign BY <1>2, ValuesDiffer
  <2> QED BY <1>1, <1>2, <2>1, ReadInv
<1>3. CASE Read(u, "reload") BY <1>1, <1>3, ReadInv
<1> QED BY <1>2, <1>3 DEF EmptyForFirstOwner

-----------------------------------------------------------------------------
(* The steps that synchronise the directory *)

LEMMA SyncFacts ==
  ASSUME OwnerInv, SyncDirectory
  PROVE  /\ disk' = disk /\ disk \in may' /\ may' \subseteq Disks
         /\ \A d \in may' : /\ d.owner = disk.owner /\ d.pending = disk.pending
                            /\ d.content = disk.content
                            /\ \E e \in may : d.data = e.data
<1>0. disk \in Disks /\ may \subseteq Disks /\ disk \in may BY DEF OwnerInv, TypeOK, OneRecord
<1>1. ASSUME NEW d \in may'
      PROVE  /\ d \in Disks /\ d.owner = disk.owner /\ d.pending = disk.pending
             /\ d.content = disk.content
             /\ \E e \in may : d.data = e.data
  <2>1. PICK e \in may : d = [disk EXCEPT !.data = e.data] BY DEF SyncDirectory
  <2>2. e \in Disks BY <1>0
  <2> QED BY <1>0, <2>1, <2>2 DEF Disks
<1>2. disk \in may'
  <2>1. disk = [disk EXCEPT !.data = disk.data] BY <1>0 DEF Disks
  <2> QED BY <1>0, <2>1 DEF SyncDirectory
<1> QED BY <1>1, <1>2 DEF SyncDirectory

LEMMA SyncInv ==
  ASSUME OwnerInv, NEW u \in Users, NEW p \in Procs, SyncDirectory, next' = next,
         proc' = [proc EXCEPT ![u] = p],
         proc[u].slot = None, p.slot = None,
         granted' \in {granted, granted \cup {u}},
         u \in granted' \ granted => disk.owner # None /\ disk.data[disk.owner] = u,
         Claimer(u, proc[u])'
  PROVE  OwnerInv'
<1> USE DEF OwnerInv
<1>1. TypeOK' BY SyncFacts, ProcType DEF TypeOK
<1>2. \A d \in may' : disk.owner # None => d.data[disk.owner] = disk.data[disk.owner]
      BY SyncFacts DEF OneRecord
<1>3. OneRecord' BY <1>2, SyncFacts DEF OneRecord
<1>4. Names' BY SyncFacts DEF Names, OneRecord
<1>5. OwnFiles' BY ProcType DEF OwnFiles
<1>6. disk.owner # None => Durable' BY SyncFacts DEF Durable
<1>7. Owned'
  <2>1. \A d \in may' : d.content = Foreign <=> disk'.content = Foreign BY SyncFacts
  <2>2. disk'.content = Foreign => disk'.owner = None BY SyncFacts DEF Owned
  <2>3. \A d \in may' : d.content \in Users => d.owner # None /\ d.data[d.owner] = d.content
    <3>1. disk.content \in Users => disk.owner # None /\ disk.data[disk.owner] = disk.content
          BY DEF Owned, OneRecord
    <3> QED BY <1>2, <3>1, SyncFacts
  <2>4. \A v \in granted' : Durable' /\ disk'.data[disk'.owner] = v
        BY <1>6, SyncFacts DEF Owned, Durable
  <2> QED BY <2>1, <2>2, <2>3, <2>4 DEF Owned
<1>8. ASSUME NEW v \in Users, v # u PROVE Claimer(v, proc[v])'
  <2>1. proc[v].pc = "link" => \A d \in may' : d.data[proc[v].ino] = v
        BY SyncFacts DEF Claimer, FileHeld
  <2>2. Keeps(v)
    <3>1. next \in Nat BY ValuesDiffer DEF TypeOK
    <3>2. Durable => Durable' BY <1>6 DEF Durable
    <3> QED BY <1>8, <2>1, <3>1, <3>2, SyncFacts, ProcType DEF Keeps, Claimer, FileHeld
  <2> QED BY <2>2, <1>1, ClaimerStable
<1> QED BY <1>1, <1>3, <1>4, <1>5, <1>7, <1>8

LEMMA ResyncInv ==
  ASSUME OwnerInv, NEW u \in Users, Resync(u) PROVE OwnerInv'
<1>0. /\ proc[u] \in Procs /\ Claimer(u, proc[u]) /\ proc[u].slot = None /\ disk.owner # None
      /\ proc[u].pc = "resync" => disk.data[disk.owner] = u
      BY DEF OwnerInv, TypeOK, Resync, Claimer, FileHeld, RecordSeen, Holding
<1>1. CASE Unavailable(u) BY <1>1, UnavailableInv
<1>2. CASE /\ SyncDirectory /\ UNCHANGED next
           /\ IF At(u, "resync") THEN Grant(u) ELSE Refuse(u, "refused")
  <2>1. PICK r \in {"granted", "refused"} :
           /\ End(u, r) /\ granted' \in {granted, granted \cup {u}}
           /\ u \in granted' \ granted => disk.data[disk.owner] = u
           /\ r = "granted" => u \in granted'
    <3>1. CASE At(u, "resync") BY <1>0, <1>2, <3>1 DEF Grant, At
    <3>2. CASE ~At(u, "resync") BY <1>2, <3>2 DEF Refuse
    <3> QED BY <3>1, <3>2
  <2> DEFINE p == [Idle EXCEPT !.res = r]
  <2>2. p \in Procs BY DEF Idle, Procs, Positions, Thens, Results
  <2>3. proc' = [proc EXCEPT ![u] = p] BY <1>0, <2>1 DEF End
  <2>4. p.slot = None BY DEF Idle
  <2>5. Claimer(u, proc[u])'
    <3>1. proc'[u] = p BY <2>2, <2>3, ProcType, Zenon DEF OwnerInv
    <3>2. FileHeld(u, proc[u])' BY <3>1 DEF Idle, FileHeld, Holding
    <3>3. RecordSeen(u, proc[u])' BY <3>1 DEF Idle, RecordSeen, Reading
    <3>4. ClaimAllowed(u, proc[u])' BY <3>1, <2>1 DEF Idle, ClaimAllowed, Holding
    <3> QED BY <3>2, <3>3, <3>4 DEF Claimer
  <2> HIDE DEF p
  <2> QED BY <1>0, <1>2, <2>1, <2>2, <2>3, <2>4, <2>5, SyncInv, Zenon
<1> QED BY <1>1, <1>2 DEF Resync

LEMMA SyncNameInv ==
  ASSUME OwnerInv, NEW u \in Users, SyncName(u) PROVE OwnerInv'
<1>0. /\ proc[u] \in Procs /\ Claimer(u, proc[u]) /\ proc[u].slot = None /\ disk.owner # None
      /\ proc[u].pc = "syncname"
      BY DEF OwnerInv, TypeOK, SyncName, At, Claimer, FileHeld, RecordSeen, Holding
<1>1. CASE Unavailable(u) BY <1>1, UnavailableInv
<1>2. CASE SyncDirectory /\ Read(u, "verify") /\ UNCHANGED <<next, granted>>
  <2> DEFINE p == [proc[u] EXCEPT !.pc = "open", !.then = "verify"]
  <2>1. p \in Procs BY <1>0, Zenon DEF Procs, Positions, Reading, Thens
  <2>2. proc' = [proc EXCEPT ![u] = p] BY <1>2 DEF Read
  <2>3. p.slot = None BY <1>0 DEF Procs
  <2>4. Claimer(u, proc[u])'
    <3>1. proc'[u] = p BY <2>1, <2>2, ProcType, Zenon DEF OwnerInv
    <3>2. FileHeld(u, proc[u])' BY <1>0, <3>1 DEF Procs, FileHeld, Holding
    <3>3. Durable' BY <1>0, <1>2, SyncFacts DEF Durable
    <3>4. RecordSeen(u, proc[u])' BY <1>0, <3>1, <3>3 DEF Procs, RecordSeen, Reading
    <3>5. disk'.content # Foreign BY <1>0, <1>2, SyncFacts DEF Claimer, ClaimAllowed
    <3>6. ClaimAllowed(u, proc[u])' BY <1>0, <1>2, <3>1, <3>5 DEF Procs, Claimer, ClaimAllowed, Holding
    <3> QED BY <3>2, <3>4, <3>6 DEF Claimer
  <2> HIDE DEF p
  <2> QED BY <1>0, <1>2, <2>1, <2>2, <2>3, <2>4, SyncInv, Zenon
<1> QED BY <1>1, <1>2 DEF SyncName

-----------------------------------------------------------------------------
(* The steps that change the directory *)

\* A claimer that changed the directory in a way every other one can bear, and
\* that is where its own place needs it.
LEMMA ChangeInv ==
  ASSUME OwnerInv, NEW u \in Users, TypeOK', OneRecord', Names', OwnFiles', Owned',
         \A v \in Users : v # u => Keeps(v), Claimer(u, proc[u])'
  PROVE  OwnerInv'
BY ClaimerStable DEF OwnerInv

LEMMA NamedFields ==
  ASSUME NEW d \in Disks, NEW s \in Slots, NEW i \in Inodes \cup {None}
  PROVE  LET e == [d EXCEPT !.pending[s] = i] IN
         /\ e \in Disks /\ e.owner = d.owner /\ e.data = d.data /\ e.content = d.content
         /\ e.pending = [d.pending EXCEPT ![s] = i]
BY DEF Disks

LEMMA WrittenFields ==
  ASSUME NEW d \in Disks, NEW i \in Inodes, NEW u \in Users
  PROVE  LET e == [d EXCEPT !.data[i] = u] IN
         /\ e \in Disks /\ e.owner = d.owner /\ e.pending = d.pending /\ e.content = d.content
         /\ e.data = [d.data EXCEPT ![i] = u]
BY DEF Disks

\* Directories that differ from the earlier ones in pending names alone.
LEMMA RenamedFacts ==
  ASSUME OwnerInv, disk' \in may', granted' = granted,
         disk'.owner = disk.owner, disk'.data = disk.data, disk'.content = disk.content,
         \A d \in may' : \E e \in may : d.owner = e.owner /\ d.data = e.data /\ d.content = e.content
  PROVE  /\ OneRecord' /\ Owned' /\ (Durable => Durable')
         /\ \A v \in Users : /\ proc[v].pc = "sync" => disk'.data[proc[v].ino] = v
                             /\ proc[v].pc = "link" => \A d \in may' : d.data[proc[v].ino] = v
<1> USE DEF OwnerInv
<1>1. ASSUME NEW d \in may'
      PROVE  /\ d.owner \in {None, disk'.owner}
             /\ disk'.owner # None => d.data[disk'.owner] = disk'.data[disk'.owner]
             /\ d.content = Foreign <=> disk'.content = Foreign
             /\ d.content \in Users => d.owner # None /\ d.data[d.owner] = d.content
             /\ Durable => d.owner = disk'.owner
             /\ \A v \in Users : proc[v].pc = "link" => d.data[proc[v].ino] = v
  <2>1. PICK e \in may : d.owner = e.owner /\ d.data = e.data /\ d.content = e.content OBVIOUS
  <2> QED BY <2>1 DEF OneRecord, Owned, Durable, Claimer, FileHeld
<1>2. OneRecord' BY <1>1 DEF OneRecord
<1>3. Durable => Durable' BY <1>1 DEF Durable
<1>4. Owned'
  <2>1. \A v \in granted' : Durable' /\ disk'.data[disk'.owner] = v BY <1>3 DEF Owned
  <2> QED BY <1>1, <2>1 DEF Owned
<1>5. \A v \in Users : proc[v].pc = "sync" => disk'.data[proc[v].ino] = v BY DEF Claimer, FileHeld
<1> QED BY <1>1, <1>2, <1>3, <1>4, <1>5

LEMMA CreatePendingInv ==
  ASSUME OwnerInv, NEW u \in Users, CreatePending(u) PROVE OwnerInv'
<1> USE DEF OwnerInv
<1>0. /\ proc[u] \in Procs /\ Claimer(u, proc[u]) /\ proc[u].pc = "create" /\ proc[u].slot = None
      /\ disk.content # Foreign
      /\ disk \in Disks /\ may \subseteq Disks /\ disk \in may
      BY Zenon DEF TypeOK, OneRecord, CreatePending, At, Claimer, FileHeld, ClaimAllowed, Holding
<1>1. CASE Unavailable(u) BY <1>1, UnavailableInv
<1>2. ASSUME NEW s \in Slots,
             /\ next \in Inodes
             /\ disk.pending[s] = None
             /\ LET F(d) == [d EXCEPT !.pending[s] = next] IN Change(F)
             /\ proc' = [proc EXCEPT ![u] = [@ EXCEPT !.pc = "write", !.ino = next, !.slot = s]]
             /\ next' = next + 1
             /\ UNCHANGED granted
      PROVE  OwnerInv'
  <2> DEFINE G(d) == [d EXCEPT !.pending[s] = next]
  <2> DEFINE p == [proc[u] EXCEPT !.pc = "write", !.ino = next, !.slot = s]
  <2>1. disk' = G(disk) /\ may' = may \cup {G(d) : d \in may} BY <1>2 DEF Change
  <2>2. \A d \in Disks : /\ G(d) \in Disks /\ G(d).owner = d.owner /\ G(d).data = d.data
                         /\ G(d).content = d.content
                         /\ G(d).pending = [d.pending EXCEPT ![s] = next]
        BY <1>2, NamedFields
  <2> HIDE DEF G
  <2>3. p \in Procs BY <1>0, <1>2, Zenon DEF Procs, Positions, Holding
  <2>4. proc' = [proc EXCEPT ![u] = p] BY <1>2
  <2>5. proc'[u] = p /\ \A v \in Users : v # u => proc'[v] = proc[v] BY <2>3, <2>4, ProcType, Zenon
  <2>6. p.slot = s /\ p.ino = next /\ p.pc = "write" /\ p.then = proc[u].then /\ p.res = proc[u].res
        BY <1>0 DEF Procs
  <2> HIDE DEF p
  <2>7. next \in Nat /\ next # None BY <1>2, ValuesDiffer DEF Inodes
  <2>8. \A d \in may' : \E e \in may :
           /\ d \in Disks /\ d.owner = e.owner /\ d.data = e.data /\ d.content = e.content
           /\ \/ d.pending = e.pending
              \/ d.pending = [e.pending EXCEPT ![s] = next]
    <3> SUFFICES ASSUME NEW d \in may'
                 PROVE  \E e \in may :
                          /\ d \in Disks /\ d.owner = e.owner /\ d.data = e.data /\ d.content = e.content
                          /\ \/ d.pending = e.pending
                             \/ d.pending = [e.pending EXCEPT ![s] = next]
        OBVIOUS
    <3>1. CASE d \in may BY <1>0, <3>1
    <3>2. ASSUME NEW e \in may, d = G(e)
          PROVE  /\ d \in Disks /\ d.owner = e.owner /\ d.data = e.data /\ d.content = e.content
                 /\ d.pending = [e.pending EXCEPT ![s] = next]
          BY <1>0, <2>2, <3>2
    <3> QED BY <2>1, <3>1, <3>2, Zenon
  <2>9. /\ disk'.owner = disk.owner /\ disk'.data = disk.data /\ disk'.content = disk.content
        /\ disk'.pending = [disk.pending EXCEPT ![s] = next]
        /\ disk' \in may'
        BY <1>0, <2>1, <2>2
  <2>10. TypeOK'
    <3>1. disk' \in Disks BY <1>0, <2>1, <2>2, Zenon
    <3>2. may' \subseteq Disks BY <2>8, Zenon
    <3>3. proc' \in [Users -> Procs] BY <2>3, <2>4, ProcType, Zenon
    <3>4. next' \in 1..(MaxInode + 1) BY <1>2, ValuesDiffer DEF Inodes
    <3> QED BY <1>2, <3>1, <3>2, <3>3, <3>4 DEF TypeOK
  <2>11. /\ OneRecord' /\ Owned' /\ (Durable => Durable')
         /\ \A v \in Users : /\ proc[v].pc = "sync" => disk'.data[proc[v].ino] = v
                             /\ proc[v].pc = "link" => \A d \in may' : d.data[proc[v].ino] = v
    <3>1. \A d \in may' : \E e \in may : d.owner = e.owner /\ d.data = e.data /\ d.content = e.content
          BY <2>8, Zenon
    <3> QED BY <1>2, <2>9, <3>1, RenamedFacts
  <2>12. Names'
    <3> SUFFICES ASSUME NEW d \in may'
                 PROVE  /\ d.owner # None => d.owner < next'
                        /\ \A t \in Slots : d.pending[t] # None => d.pending[t] < next'
                        /\ \A t, r \in Slots : d.pending[t] # None /\ d.pending[t] = d.pending[r] => t = r
        BY DEF Names
    <3>1. PICK e \in may : /\ d.owner = e.owner
                           /\ \/ d.pending = e.pending
                              \/ d.pending = [e.pending EXCEPT ![s] = next]
          BY <2>8
    <3>2. e \in Disks /\ e.owner \in Inodes \cup {None} /\ e.pending \in [Slots -> Inodes \cup {None}]
          BY <1>0, DiskFields
    <3>3. /\ e.owner # None => e.owner < next
          /\ \A t \in Slots : e.pending[t] # None => e.pending[t] < next
          /\ \A t, r \in Slots : e.pending[t] # None /\ e.pending[t] = e.pending[r] => t = r
          BY DEF Names
    <3>4. next' = next + 1 BY <1>2
    <3> QED BY <2>7, <3>1, <3>2, <3>3, <3>4 DEF Inodes
  <2>13. \A v \in Users : proc[v].slot # None => proc[v].ino # next
    <3>1. \A v \in Users : proc[v].slot # None => proc[v].ino \in Nat /\ proc[v].ino < next
          BY ValuesDiffer DEF TypeOK, Procs, Inodes, Claimer, FileHeld
    <3> QED BY <3>1, <2>7
  <2>14. OwnFiles' BY <2>5, <2>6, <2>13 DEF OwnFiles
  <2>17. ASSUME NEW v \in Users, v # u PROVE Keeps(v)
    <3>1. proc[v] \in Procs /\ proc'[v] = proc[v] /\ Claimer(v, proc[v])
          BY <2>5, <2>17 DEF TypeOK
    <3>2. proc[v].slot # None => disk'.pending[proc[v].slot] = disk.pending[proc[v].slot]
      <4>1. proc[v].slot # None => disk.pending[proc[v].slot] # None
            BY <3>1 DEF Claimer, FileHeld
      <4>2. disk.pending \in [Slots -> Inodes \cup {None}] BY <1>0, DiskFields
      <4> QED BY <1>2, <2>9, <4>1, <4>2
    <3>4. disk.owner # None => Pending(disk', disk.owner) \subseteq Pending(disk, disk.owner)
      <4>1. disk.owner # None => disk.owner # next
        <5>1. disk.owner # None => disk.owner \in Nat /\ disk.owner < next
              BY <1>0, DiskFields DEF Names, OneRecord, Inodes
        <5> QED BY <5>1, <2>7
      <4>2. disk.pending \in [Slots -> Inodes \cup {None}] BY <1>0, DiskFields
      <4> QED BY <2>9, <4>1, <4>2 DEF Pending
    <3>5. next <= next' /\ granted \subseteq granted' BY <1>2, <2>7
    <3>6. proc[v].pc \in Holding => disk'.owner # proc[v].ino BY <2>9, <3>1 DEF Claimer, FileHeld
    <3> QED BY <2>9, <2>11, <3>1, <3>2, <3>4, <3>5, <3>6 DEF Keeps
  <2>18. Claimer(u, proc[u])'
    <3>1. FileHeld(u, proc[u])'
      <4>1. disk'.owner # next
        <5>1. disk.owner # None => disk.owner \in Nat /\ disk.owner < next
              BY <1>0, DiskFields DEF Names, OneRecord, Inodes
        <5> QED BY <5>1, <2>7, <2>9
      <4>2. disk'.pending[s] = next BY <1>0, <2>9, DiskFields
      <4>3. s # None BY ValuesDiffer
      <4>4. next < next' BY <1>2, <2>7
      <4> QED BY <2>5, <2>6, <2>7, <4>1, <4>2, <4>3, <4>4 DEF FileHeld, Holding
    <3>2. RecordSeen(u, proc[u])' BY <2>5, <2>6 DEF RecordSeen, Reading
    <3>3. ClaimAllowed(u, proc[u])' BY <1>0, <1>2, <2>5, <2>6, <2>9 DEF Claimer, ClaimAllowed
    <3> QED BY <3>1, <3>2, <3>3 DEF Claimer
  <2> QED BY <2>10, <2>11, <2>12, <2>14, <2>17, <2>18, ChangeInv
<1> QED BY <1>1, <1>2, Zenon DEF CreatePending

\* A pending name goes, and with it its holder's claim on the file.
LEMMA ForgetInv ==
  ASSUME OwnerInv, NEW u \in Users, NEW p \in Procs, NEW s \in Slots, s = proc[u].slot,
         LET F(d) == [d EXCEPT !.pending[s] = None] IN Change(F),
         proc' = [proc EXCEPT ![u] = p], p.slot = None, UNCHANGED <<next, granted>>,
         Claimer(u, p),
         p.pc \in {"syncname", "idle"}
  PROVE  OwnerInv'
<1> USE DEF OwnerInv
<1>0. /\ disk \in Disks /\ may \subseteq Disks /\ disk \in may /\ next \in Nat /\ s # None
      /\ proc' \in [Users -> Procs] /\ proc'[u] = p
      /\ \A v \in Users : v # u => proc'[v] = proc[v]
      BY ProcType, ValuesDiffer DEF TypeOK, OneRecord
<1> DEFINE G(d) == [d EXCEPT !.pending[s] = None]
<1>1. disk' = G(disk) /\ may' = may \cup {G(d) : d \in may} BY DEF Change
<1>2. \A d \in Disks : /\ G(d) \in Disks /\ G(d).owner = d.owner /\ G(d).data = d.data
                       /\ G(d).content = d.content
                       /\ G(d).pending = [d.pending EXCEPT ![s] = None]
      BY NamedFields
<1> HIDE DEF G
<1>3. \A d \in may' : \E e \in may :
         /\ d \in Disks /\ d.owner = e.owner /\ d.data = e.data /\ d.content = e.content
         /\ \/ d.pending = e.pending
            \/ d.pending = [e.pending EXCEPT ![s] = None]
  <2> SUFFICES ASSUME NEW d \in may'
               PROVE  \E e \in may :
                        /\ d \in Disks /\ d.owner = e.owner /\ d.data = e.data /\ d.content = e.content
                        /\ \/ d.pending = e.pending
                           \/ d.pending = [e.pending EXCEPT ![s] = None]
      BY Zenon
  <2>1. CASE d \in may BY <1>0, <2>1, Zenon
  <2>2. ASSUME NEW e \in may, d = G(e)
        PROVE  /\ d \in Disks /\ d.owner = e.owner /\ d.data = e.data /\ d.content = e.content
               /\ d.pending = [e.pending EXCEPT ![s] = None]
        BY <1>0, <1>2, <2>2
  <2> QED BY <1>1, <2>1, <2>2, Zenon
<1>4. /\ disk'.owner = disk.owner /\ disk'.data = disk.data /\ disk'.content = disk.content
      /\ disk'.pending = [disk.pending EXCEPT ![s] = None]
      /\ disk' \in may' /\ disk' \in Disks
      BY <1>0, <1>1, <1>2
<1>5. TypeOK'
  <2>1. may' \subseteq Disks BY <1>3, Zenon
  <2> QED BY <1>0, <1>4, <2>1 DEF TypeOK
<1>6. /\ OneRecord' /\ Owned' /\ (Durable => Durable')
      /\ \A v \in Users : /\ proc[v].pc = "sync" => disk'.data[proc[v].ino] = v
                          /\ proc[v].pc = "link" => \A d \in may' : d.data[proc[v].ino] = v
  <2>1. \A d \in may' : \E e \in may : d.owner = e.owner /\ d.data = e.data /\ d.content = e.content
        BY <1>3, Zenon
  <2> QED BY <1>4, <2>1, RenamedFacts
<1>7. Names'
  <2> SUFFICES ASSUME NEW d \in may'
               PROVE  /\ d.owner # None => d.owner < next
                      /\ \A t \in Slots : d.pending[t] # None => d.pending[t] < next
                      /\ \A t, r \in Slots : d.pending[t] # None /\ d.pending[t] = d.pending[r] => t = r
      BY DEF Names
  <2>1. PICK e \in may : /\ d.owner = e.owner
                         /\ \/ d.pending = e.pending
                            \/ d.pending = [e.pending EXCEPT ![s] = None]
        BY <1>3, Zenon
  <2>2. e.pending \in [Slots -> Inodes \cup {None}] BY <1>0, DiskFields
  <2>3. /\ e.owner # None => e.owner < next
        /\ \A t \in Slots : e.pending[t] # None => e.pending[t] < next
        /\ \A t, r \in Slots : e.pending[t] # None /\ e.pending[t] = e.pending[r] => t = r
        BY DEF Names
  <2> QED BY <2>1, <2>2, <2>3
<1>8. OwnFiles' BY <1>0 DEF OwnFiles
<1>9. disk.pending \in [Slots -> Inodes \cup {None}] BY <1>0, DiskFields
<1>10. Pending(disk', disk.owner) \subseteq Pending(disk, disk.owner) \/ disk.owner = None
       BY <1>4, <1>9 DEF Pending
<1>11. ASSUME NEW v \in Users, v # u PROVE Keeps(v)
  <2>1. proc[v] \in Procs /\ proc'[v] = proc[v] /\ Claimer(v, proc[v]) BY <1>0, <1>11 DEF TypeOK
  <2>2. proc[v].slot # None => proc[v].slot # s
        BY <1>0, <1>11, <2>1 DEF OwnFiles, Claimer, FileHeld
  <2>3. proc[v].slot # None => disk'.pending[proc[v].slot] = disk.pending[proc[v].slot]
        BY <2>1, <2>2, <1>4, <1>9 DEF Procs
  <2>4. proc[v].pc \in Holding => disk'.owner # proc[v].ino BY <1>4, <2>1 DEF Claimer, FileHeld
  <2> QED BY <1>0, <1>4, <1>6, <1>10, <2>1, <2>3, <2>4 DEF Keeps
<1>12. Claimer(u, proc[u])'
  <2>1. FileHeld(u, proc[u])' BY <1>0 DEF FileHeld, Holding
  <2>2. RecordSeen(u, proc[u])' BY <1>0, <1>4 DEF Claimer, RecordSeen, Reading
  <2>3. ClaimAllowed(u, proc[u])' BY <1>0, <1>4 DEF Claimer, ClaimAllowed
  <2> QED BY <2>1, <2>2, <2>3 DEF Claimer
<1> QED BY <1>5, <1>6, <1>7, <1>8, <1>11, <1>12, ChangeInv

LEMMA RemovePendingInv ==
  ASSUME OwnerInv, NEW u \in Users, RemovePending(u) PROVE OwnerInv'
<1>0. /\ proc[u] \in Procs /\ Claimer(u, proc[u]) /\ proc[u].pc = "remove"
      /\ proc[u].slot # None /\ proc[u].slot \in Slots
      BY DEF OwnerInv, TypeOK, Procs, RemovePending, At, Claimer, FileHeld
<1>1. CASE Unavailable(u) BY <1>1, UnavailableInv
<1>2. CASE /\ LET F(d) == [d EXCEPT !.pending[proc[u].slot] = None] IN Change(F)
           /\ proc' = [proc EXCEPT ![u] = [@ EXCEPT !.pc = "syncname", !.slot = None]]
           /\ UNCHANGED <<next, granted>>
  <2> DEFINE p == [proc[u] EXCEPT !.pc = "syncname", !.slot = None]
  <2>1. p \in Procs /\ p.slot = None /\ p.pc = "syncname" BY <1>0, Zenon DEF Procs, Positions
  <2>2. proc' = [proc EXCEPT ![u] = p] BY <1>2
  <2>3. FileHeld(u, p) BY <2>1 DEF FileHeld, Holding
  <2>4. RecordSeen(u, p) BY <1>0, <2>1 DEF Claimer, RecordSeen, Reading
  <2>5. ClaimAllowed(u, p) BY <1>0 DEF Procs, Claimer, ClaimAllowed, Holding
  <2>6. Claimer(u, p) BY <2>3, <2>4, <2>5 DEF Claimer
  <2> HIDE DEF p
  <2> QED BY <1>0, <1>2, <2>1, <2>2, <2>6, ForgetInv, Zenon
<1> QED BY <1>1, <1>2 DEF RemovePending

LEMMA DropPendingInv ==
  ASSUME OwnerInv, NEW u \in Users, DropPending(u) PROVE OwnerInv'
<1> DEFINE p == [Idle EXCEPT !.res = proc[u].res]
<1>0. /\ proc[u] \in Procs /\ Claimer(u, proc[u]) /\ proc[u].pc = "drop"
      /\ proc[u].slot # None /\ proc[u].slot \in Slots
      /\ proc' = [proc EXCEPT ![u] = p] /\ UNCHANGED <<next, granted>>
      BY DEF OwnerInv, TypeOK, Procs, DropPending, At, Claimer, FileHeld
<1>1. /\ p \in Procs /\ p.slot = None /\ p.ino = None /\ p.pc = "idle" /\ p.then = "none"
      /\ p.res = proc[u].res
      BY <1>0 DEF Idle, Procs, Positions, Thens
<1> HIDE DEF p
<1>2. FileHeld(u, p) BY <1>1 DEF FileHeld, Holding
<1>3. RecordSeen(u, p) BY <1>1 DEF RecordSeen, Reading
<1>4. ClaimAllowed(u, p) BY <1>0, <1>1 DEF Claimer, ClaimAllowed, Holding
<1>5. Claimer(u, p) BY <1>2, <1>3, <1>4 DEF Claimer
<1>6. CASE LET F(d) == [d EXCEPT !.pending[proc[u].slot] = None] IN Change(F)
      BY <1>0, <1>1, <1>5, <1>6, ForgetInv, Zenon
<1>7. CASE NoChange
  <2>1. Moves(u, p) BY <1>0, <1>1, <1>4, <1>7 DEF Moves, ClaimAllowed
  <2> QED BY <1>1, <1>2, <1>3, <1>4, <2>1, MoveInv DEF ClaimAllowed
<1> QED BY <1>6, <1>7 DEF DropPending

\* A claimer at "write" or "sync" puts its name into its own pending file, in
\* some or all of the directories a power loss may leave; no record is touched.
LEMMA FilledInv ==
  ASSUME OwnerInv, NEW u \in Users, proc[u].pc \in {"write", "sync"},
         NEW at \in {"sync", "link"}, Goto(u, at), UNCHANGED <<next, granted>>,
         disk' = [disk EXCEPT !.data[proc[u].ino] = u], disk' \in may',
         \A d \in may' : \/ d \in may /\ at = "sync"
                         \/ \E e \in may : d = [e EXCEPT !.data[proc[u].ino] = u]
  PROVE  OwnerInv'
<1> USE DEF OwnerInv
<1> DEFINE i == proc[u].ino
<1>0. /\ proc[u] \in Procs /\ Claimer(u, proc[u]) /\ proc[u].slot # None
      /\ i \in Inodes /\ disk.owner # i /\ i < next /\ next \in Nat
      /\ disk \in Disks /\ may \subseteq Disks /\ disk \in may
      BY ValuesDiffer DEF TypeOK, OneRecord, Procs, Claimer, FileHeld, Holding
<1> DEFINE p == [proc[u] EXCEPT !.pc = at]
<1>1. /\ p \in Procs /\ p.pc = at /\ p.then = proc[u].then /\ p.res = proc[u].res
      /\ p.slot = proc[u].slot /\ p.ino = i
      BY <1>0 DEF Procs, Positions, Holding
<1>2. /\ proc' \in [Users -> Procs] /\ proc'[u] = p
      /\ \A v \in Users : v # u => proc'[v] = proc[v]
      BY <1>1, ProcType, Zenon DEF Goto
<1> HIDE DEF p
<1>3. /\ disk' \in Disks /\ disk'.owner = disk.owner /\ disk'.pending = disk.pending
      /\ disk'.content = disk.content /\ disk'.data = [disk.data EXCEPT ![i] = u]
      BY <1>0, WrittenFields
<1>4. ASSUME NEW d \in may'
      PROVE  \E e \in may : /\ d \in Disks /\ d.owner = e.owner /\ d.pending = e.pending
                            /\ d.content = e.content
                            /\ \/ at = "sync" /\ d.data = e.data
                               \/ d.data = [e.data EXCEPT ![i] = u]
  <2>1. CASE d \in may /\ at = "sync" BY <1>0, <2>1
  <2>2. ASSUME NEW e \in may, d = [e EXCEPT !.data[i] = u]
        PROVE  /\ d \in Disks /\ d.owner = e.owner /\ d.pending = e.pending
               /\ d.content = e.content /\ d.data = [e.data EXCEPT ![i] = u]
        BY <1>0, <2>2, WrittenFields
  <2> QED BY <2>1, <2>2, Zenon
<1>5. ASSUME NEW d \in may'
      PROVE  \E e \in may : /\ d \in Disks /\ d.owner = e.owner /\ d.pending = e.pending
                            /\ d.content = e.content
                            /\ d.data[i] = u \/ at = "sync"
                            /\ \A j \in Inodes : j # i => d.data[j] = e.data[j]
  <2>1. PICK e \in may : /\ d \in Disks /\ d.owner = e.owner /\ d.pending = e.pending
                         /\ d.content = e.content
                         /\ \/ at = "sync" /\ d.data = e.data
                            \/ d.data = [e.data EXCEPT ![i] = u]
        BY <1>4, Zenon
  <2>2. e.data \in [Inodes -> Users \cup {None}] BY <1>0, DiskFields
  <2>3. d.data[i] = u \/ at = "sync" BY <1>0, <2>1, <2>2
  <2>4. \A j \in Inodes : j # i => d.data[j] = e.data[j] BY <1>0, <2>1, <2>2
  <2> QED BY <2>1, <2>3, <2>4
<1>6. disk.owner \in Inodes \cup {None} /\ disk.data \in [Inodes -> Users \cup {None}]
      BY <1>0, DiskFields
<1>7. /\ disk'.data[i] = u
      /\ \A j \in Inodes : j # i => disk'.data[j] = disk.data[j]
      BY <1>0, <1>3, <1>6
<1>8. TypeOK'
  <2>1. may' \subseteq Disks BY <1>5
  <2> QED BY <1>2, <1>3, <2>1 DEF TypeOK
<1>9. ASSUME NEW d \in may'
      PROVE  /\ d.owner \in {None, disk.owner}
             /\ disk.owner # None => d.data[disk.owner] = disk.data[disk.owner]
             /\ d.content = Foreign <=> disk.content = Foreign
             /\ d.content \in Users => d.owner # None /\ d.data[d.owner] = d.content
             /\ Durable => d.owner = disk.owner
             /\ \A v \in Users : proc[v].pc = "link" /\ v # u => d.data[proc[v].ino] = v
             /\ d.owner # None => d.owner < next
             /\ \A t \in Slots : d.pending[t] # None => d.pending[t] < next
             /\ \A t, r \in Slots : d.pending[t] # None /\ d.pending[t] = d.pending[r] => t = r
  <2>1. PICK e \in may : /\ d.owner = e.owner /\ d.pending = e.pending /\ d.content = e.content
                         /\ \A j \in Inodes : j # i => d.data[j] = e.data[j]
        BY <1>5
  <2>2. e.owner \in {None, disk.owner} BY DEF OneRecord
  <2>3. disk.owner # None => d.data[disk.owner] = disk.data[disk.owner]
        BY <1>0, <1>6, <2>1 DEF OneRecord
  <2>4. d.content \in Users => d.owner # None /\ d.data[d.owner] = d.content
        BY <1>0, <1>6, <2>1, <2>2 DEF Owned
  <2>5. ASSUME NEW v \in Users, proc[v].pc = "link", v # u PROVE d.data[proc[v].ino] = v
    <3>1. proc[v].ino \in Inodes /\ proc[v].ino # i
          BY <1>0, <2>5 DEF TypeOK, Procs, Claimer, FileHeld, Holding, OwnFiles
    <3> QED BY <2>1, <2>5, <3>1 DEF Claimer, FileHeld
  <2>6. d.content = Foreign <=> disk.content = Foreign BY <2>1 DEF Owned
  <2>7. Durable => d.owner = disk.owner BY <2>1 DEF Durable
  <2> QED BY <2>1, <2>2, <2>3, <2>4, <2>5, <2>6, <2>7 DEF Names
<1>10. disk.owner # None => disk'.data[disk.owner] = disk.data[disk.owner] BY <1>0, <1>6, <1>7
<1>11. OneRecord'
  <2>1. disk.owner # None => disk.data[disk.owner] # None BY DEF OneRecord
  <2> QED BY <1>3, <1>9, <1>10, <2>1 DEF OneRecord
<1>12. Names' BY <1>9 DEF Names
<1>13. OwnFiles' BY <1>1, <1>2 DEF OwnFiles
<1>14. Durable => Durable' BY <1>3, <1>9 DEF Durable
<1>15. Owned'
  <2>1. \A v \in granted' : Durable' /\ disk'.data[disk'.owner] = v
        BY <1>3, <1>10, <1>14 DEF Owned, Durable
  <2>2. disk'.content = Foreign => disk'.owner = None BY <1>3 DEF Owned
  <2> QED BY <1>3, <1>9, <2>1, <2>2 DEF Owned
<1>16. ASSUME NEW v \in Users, v # u PROVE Keeps(v)
  <2>1. proc[v] \in Procs /\ proc'[v] = proc[v] /\ Claimer(v, proc[v]) BY <1>2, <1>16 DEF TypeOK
  <2>2. proc[v].pc = "sync" => disk'.data[proc[v].ino] = v
    <3> SUFFICES ASSUME proc[v].pc = "sync" PROVE disk'.data[proc[v].ino] = v OBVIOUS
    <3>1. proc[v].ino \in Inodes /\ proc[v].ino # i
          BY <1>0, <1>16, <2>1 DEF Procs, Claimer, FileHeld, Holding, OwnFiles
    <3> QED BY <1>7, <2>1, <3>1 DEF Claimer, FileHeld
  <2>3. proc[v].pc \in Holding => disk'.owner # proc[v].ino BY <1>3, <2>1 DEF Claimer, FileHeld
  <2>4. Pending(disk', disk.owner) = Pending(disk, disk.owner) BY <1>3 DEF Pending
  <2>5. proc[v].pc = "link" => \A d \in may' : d.data[proc[v].ino] = v BY <1>9, <1>16
  <2> QED BY <1>0, <1>3, <1>10, <1>14, <2>1, <2>2, <2>3, <2>4, <2>5 DEF Keeps
<1>17. Claimer(u, proc[u])'
  <2>1. at = "link" => \A d \in may' : d.data[i] = u BY <1>5
  <2>2. FileHeld(u, proc[u])'
        BY <1>0, <1>1, <1>2, <1>3, <1>7, <2>1 DEF Claimer, FileHeld, Holding
  <2>3. RecordSeen(u, proc[u])' BY <1>1, <1>2 DEF RecordSeen, Reading
  <2>4. ClaimAllowed(u, proc[u])' BY <1>0, <1>1, <1>2, <1>3 DEF Claimer, ClaimAllowed, Holding
  <2> QED BY <2>2, <2>3, <2>4 DEF Claimer
<1> QED BY <1>8, <1>11, <1>12, <1>13, <1>15, <1>16, <1>17, ChangeInv

LEMMA WritePendingInv ==
  ASSUME OwnerInv, NEW u \in Users, WritePending(u) PROVE OwnerInv'
<1>1. CASE Unavailable(u) BY <1>1, UnavailableInv
<1>2. CASE /\ LET F(d) == [d EXCEPT !.data[proc[u].ino] = u] IN Change(F)
           /\ Goto(u, "sync")
           /\ UNCHANGED <<next, granted>>
  <2> DEFINE G(d) == [d EXCEPT !.data[proc[u].ino] = u]
  <2>1. disk' = G(disk) /\ may' = may \cup {G(d) : d \in may} BY <1>2 DEF Change
  <2>2. disk \in may BY DEF OwnerInv, OneRecord
  <2>3. disk' \in may' /\ \A d \in may' : d \in may \/ \E e \in may : d = G(e) BY <2>1, <2>2, Zenon
  <2>4. proc[u].pc = "write" BY DEF WritePending, At
  <2> QED BY <1>2, <2>1, <2>3, <2>4, FilledInv, Zenon
<1> QED BY <1>1, <1>2 DEF WritePending

LEMMA SyncPendingInv ==
  ASSUME OwnerInv, NEW u \in Users, SyncPending(u) PROVE OwnerInv'
<1>1. CASE Unavailable(u) BY <1>1, UnavailableInv
<1>2. CASE /\ may' = {[d EXCEPT !.data[proc[u].ino] = u] : d \in may}
           /\ Goto(u, "link")
           /\ UNCHANGED <<disk, next, granted>>
  <2> DEFINE G(d) == [d EXCEPT !.data[proc[u].ino] = u]
  <2>1. /\ proc[u].pc = "sync" /\ disk.data[proc[u].ino] = u
        /\ disk \in may /\ disk \in Disks
        /\ proc[u].ino \in Inodes
        BY DEF OwnerInv, TypeOK, Procs, OneRecord, SyncPending, At, Claimer, FileHeld, Holding
  <2>2. disk = G(disk)
    <3>1. disk.data \in [Inodes -> Users \cup {None}] BY <2>1, DiskFields
    <3>2. [disk.data EXCEPT ![proc[u].ino] = u] = disk.data BY <2>1, <3>1
    <3>3. G(disk) \in Disks /\ G(disk).data = disk.data /\ G(disk).owner = disk.owner
          /\ G(disk).pending = disk.pending /\ G(disk).content = disk.content
          BY <2>1, <3>2, WrittenFields
    <3> HIDE DEF G
    <3> QED BY <2>1, <3>3 DEF Disks
  <2>3. disk' = G(disk) BY <1>2, <2>2
  <2>4. disk' \in may' BY <1>2, <2>1, <2>3, Zenon
  <2>5. \A d \in may' : \E e \in may : d = G(e) BY <1>2
  <2> QED BY <1>2, <2>1, <2>3, <2>4, <2>5, FilledInv, Zenon
<1> QED BY <1>1, <1>2 DEF SyncPending

LEMMA PublishedFields ==
  ASSUME NEW d \in Disks, NEW i \in Inodes
  PROVE  LET e == [d EXCEPT !.owner = i] IN
         /\ e \in Disks /\ e.owner = i /\ e.pending = d.pending /\ e.content = d.content
         /\ e.data = d.data
BY DEF Disks

LEMMA HardLinkInv ==
  ASSUME OwnerInv, NEW u \in Users, HardLink(u) PROVE OwnerInv'
<1> USE DEF OwnerInv
<1> DEFINE i == proc[u].ino
<1> DEFINE p == [proc[u] EXCEPT !.pc = "remove", !.then = "verify"]
<1>0. /\ proc[u] \in Procs /\ Claimer(u, proc[u]) /\ proc[u].pc = "link" /\ proc[u].slot # None
      /\ i \in Inodes /\ i # None /\ disk.owner # i /\ i < next /\ next \in Nat
      /\ \A d \in may : d.data[i] = u
      /\ disk.content # Foreign
      /\ disk \in Disks /\ may \subseteq Disks /\ disk \in may
      /\ u # None
      BY ValuesDiffer DEF HardLink, At, TypeOK, OneRecord, Procs, Claimer, FileHeld, ClaimAllowed, Holding
<1>1. /\ p \in Procs /\ p.pc = "remove" /\ p.then = "verify" /\ p.res = proc[u].res
      /\ p.slot = proc[u].slot /\ p.ino = i
      BY <1>0, Zenon DEF Procs, Positions, Thens
<1>2. CASE Unavailable(u) BY <1>2, UnavailableInv
<1>3. CASE /\ disk.owner # None /\ NoChange
           /\ proc' = [proc EXCEPT ![u] = p] /\ UNCHANGED <<next, granted>>
  <2> HIDE DEF p
  <2>1. Moves(u, p) BY <1>0, <1>1, <1>3 DEF Moves, Claimer, ClaimAllowed
  <2>2. FileHeld(u, p) BY <1>0, <1>1 DEF Claimer, FileHeld, Holding
  <2>3. RecordSeen(u, p) BY <1>1, <1>3 DEF RecordSeen, Reading
  <2>4. p.res \notin {"unsafe", "corrupt"} BY <1>0, <1>1, Zenon DEF Claimer, ClaimAllowed
  <2> QED BY <1>0, <1>1, <2>1, <2>2, <2>3, <2>4, MoveInv
<1>4. CASE /\ disk.owner = None
           /\ LET F(d) == Published(u, d) IN Change(F)
           /\ proc' = [proc EXCEPT ![u] = p] /\ UNCHANGED <<next, granted>>
  <2> DEFINE G(d) == [d EXCEPT !.owner = i]
  <2>1. disk' = G(disk) /\ may' = may \cup {G(d) : d \in may} BY <1>4 DEF Change, Published
  <2>2. \A d \in Disks : /\ G(d) \in Disks /\ G(d).owner = i /\ G(d).pending = d.pending
                         /\ G(d).content = d.content /\ G(d).data = d.data
        BY <1>0, PublishedFields
  <2> HIDE DEF G, p
  <2>3. /\ proc' \in [Users -> Procs] /\ proc'[u] = p
        /\ \A v \in Users : v # u => proc'[v] = proc[v]
        BY <1>1, <1>4, ProcType, Zenon
  <2>4. /\ disk' \in Disks /\ disk' \in may' /\ disk'.owner = i /\ disk'.pending = disk.pending
        /\ disk'.content = disk.content /\ disk'.data = disk.data
        BY <1>0, <2>1, <2>2
  <2>5. ASSUME NEW d \in may'
        PROVE  \E e \in may : /\ d \in Disks /\ d.owner \in {e.owner, i} /\ d.pending = e.pending
                              /\ d.content = e.content /\ d.data = e.data
    <3>1. CASE d \in may BY <1>0, <3>1
    <3>2. ASSUME NEW e \in may, d = G(e)
          PROVE  /\ d \in Disks /\ d.owner = i /\ d.pending = e.pending
                 /\ d.content = e.content /\ d.data = e.data
          BY <1>0, <2>2, <3>2
    <3> QED BY <2>1, <3>1, <3>2
  <2>6. \A e \in may : e.owner = None /\ e.content \notin Users BY <1>4 DEF OneRecord, Owned
  <2>7. granted = {} BY <1>4 DEF Owned, Durable
  <2>8. TypeOK'
    <3>1. may' \subseteq Disks BY <2>5
    <3> QED BY <1>4, <2>3, <2>4, <3>1 DEF TypeOK
  <2>9. ASSUME NEW d \in may'
        PROVE  /\ d.owner \in {None, i} /\ d.data[i] = u
               /\ d.content = Foreign <=> disk.content = Foreign
               /\ d.content \notin Users
               /\ \A v \in Users : proc[v].pc = "link" => d.data[proc[v].ino] = v
               /\ \A t \in Slots : d.pending[t] # None => d.pending[t] < next
               /\ \A t, r \in Slots : d.pending[t] # None /\ d.pending[t] = d.pending[r] => t = r
    <3>1. PICK e \in may : /\ d.owner \in {e.owner, i} /\ d.pending = e.pending
                           /\ d.content = e.content /\ d.data = e.data
          BY <2>5
    <3>2. d.owner \in {None, i} /\ d.content \notin Users BY <2>6, <3>1
    <3>3. \A v \in Users : proc[v].pc = "link" => d.data[proc[v].ino] = v
          BY <3>1 DEF Claimer, FileHeld
    <3>4. d.data[i] = u BY <1>0, <3>3
    <3>5. (d.content = Foreign) <=> (disk.content = Foreign) BY <3>1 DEF Owned
    <3>6. /\ \A t \in Slots : d.pending[t] # None => d.pending[t] < next
          /\ \A t, r \in Slots : d.pending[t] # None /\ d.pending[t] = d.pending[r] => t = r
          BY <3>1 DEF Names
    <3> QED BY <3>2, <3>3, <3>4, <3>5, <3>6
  <2>10. OneRecord' BY <1>0, <2>4, <2>9 DEF OneRecord
  <2>11. Names' BY <1>0, <1>4, <2>9 DEF Names
  <2>12. OwnFiles' BY <1>1, <2>3 DEF OwnFiles
  <2>13. Owned'
    <3>1. granted' = {} BY <1>4, <2>7
    <3> QED BY <1>0, <2>4, <2>9, <3>1 DEF Owned
  <2>14. ASSUME NEW v \in Users, v # u PROVE Keeps(v)
    <3>1. proc[v] \in Procs /\ proc'[v] = proc[v] /\ Claimer(v, proc[v]) BY <2>3, <2>14 DEF TypeOK
    <3>2. proc[v].pc \in Holding => disk'.owner # proc[v].ino
      <4>1. proc[v].pc \in Holding => proc[v].slot # None BY <3>1 DEF Claimer, FileHeld
      <4> QED BY <1>0, <2>4, <2>14, <4>1 DEF OwnFiles
    <3>3. ~Durable BY <1>4 DEF Durable
    <3>4. proc[v].pc = "link" => \A d \in may' : d.data[proc[v].ino] = v BY <2>9
    <3>5. proc[v].pc = "sync" => disk'.data[proc[v].ino] = v BY <2>4, <3>1 DEF Claimer, FileHeld
    <3> QED BY <1>0, <1>4, <2>4, <3>1, <3>2, <3>3, <3>4, <3>5 DEF Keeps
  <2>15. Claimer(u, proc[u])'
    <3>1. FileHeld(u, proc[u])' BY <1>0, <1>1, <1>4, <2>3, <2>4 DEF Claimer, FileHeld, Holding
    <3>2. RecordSeen(u, proc[u])' BY <1>0, <1>1, <2>3, <2>4 DEF RecordSeen, Reading
    <3>3. ClaimAllowed(u, proc[u])' BY <1>0, <1>1, <1>4, <2>3, <2>4 DEF Claimer, ClaimAllowed
    <3> QED BY <3>1, <3>2, <3>3 DEF Claimer
  <2> QED BY <2>8, <2>10, <2>11, <2>12, <2>13, <2>14, <2>15, ChangeInv
<1> QED BY <1>2, <1>3, <1>4 DEF HardLink

LEMMA EnrollInv ==
  ASSUME OwnerInv, NEW u \in Users, Enroll(u) PROVE OwnerInv'
<1> USE DEF OwnerInv
<1> DEFINE G(d) == [d EXCEPT !.content = u]
<1>0. /\ disk \in Disks /\ may \subseteq Disks /\ disk \in may /\ next \in Nat
      /\ u \in granted /\ Durable /\ disk.data[disk.owner] = u /\ disk.owner # None
      /\ UNCHANGED <<next, granted>> /\ proc' = [proc EXCEPT ![u] = Idle]
      BY ValuesDiffer DEF Enroll, At, TypeOK, OneRecord, Claimer, ClaimAllowed, Owned, Durable
<1>1. Idle \in Procs BY DEF Idle, Procs, Positions, Thens, Results
<1>2. /\ proc' \in [Users -> Procs] /\ proc'[u] = Idle
      /\ \A v \in Users : v # u => proc'[v] = proc[v]
      BY <1>0, <1>1, ProcType, Zenon
<1>3. disk' = G(disk) /\ may' = may \cup {G(d) : d \in may} BY DEF Enroll, Change
<1>4. \A d \in Disks : /\ G(d) \in Disks /\ G(d).owner = d.owner /\ G(d).pending = d.pending
                       /\ G(d).content = u /\ G(d).data = d.data
      BY DEF Disks
<1> HIDE DEF G
<1>5. /\ disk' \in Disks /\ disk' \in may' /\ disk'.owner = disk.owner /\ disk'.pending = disk.pending
      /\ disk'.content = u /\ disk'.data = disk.data
      BY <1>0, <1>3, <1>4
<1>6. ASSUME NEW d \in may'
      PROVE  \E e \in may : /\ d \in Disks /\ d.owner = e.owner /\ d.pending = e.pending
                            /\ d.content \in {e.content, u} /\ d.data = e.data
  <2>1. CASE d \in may BY <1>0, <2>1
  <2>2. ASSUME NEW e \in may, d = G(e)
        PROVE  /\ d \in Disks /\ d.owner = e.owner /\ d.pending = e.pending
               /\ d.content = u /\ d.data = e.data
        BY <1>0, <1>4, <2>2
  <2> QED BY <1>3, <2>1, <2>2
<1>7. disk.content # Foreign /\ u # Foreign BY <1>0, ValuesDiffer DEF Owned
<1>8. ASSUME NEW d \in may'
      PROVE  /\ d.owner = disk.owner /\ d.data[disk.owner] = u
             /\ d.content # Foreign
             /\ d.content \in Users => d.content = u
             /\ \A v \in Users : proc[v].pc = "link" => d.data[proc[v].ino] = v
             /\ d.owner # None => d.owner < next
             /\ \A t \in Slots : d.pending[t] # None => d.pending[t] < next
             /\ \A t, r \in Slots : d.pending[t] # None /\ d.pending[t] = d.pending[r] => t = r
  <2>1. PICK e \in may : /\ d.owner = e.owner /\ d.pending = e.pending
                         /\ d.content \in {e.content, u} /\ d.data = e.data
        BY <1>6
  <2>2. e.owner = disk.owner /\ e.data[disk.owner] = u BY <1>0 DEF Durable, OneRecord
  <2>3. e.content # Foreign /\ (e.content \in Users => e.content = u) BY <1>7, <2>2 DEF Owned
  <2> QED BY <1>7, <2>1, <2>2, <2>3 DEF Names, Claimer, FileHeld
<1>9. TypeOK'
  <2>1. may' \subseteq Disks BY <1>6
  <2> QED BY <1>0, <1>2, <1>5, <2>1 DEF TypeOK
<1>10. OneRecord'
  <2>1. u # None BY ValuesDiffer
  <2> QED BY <1>0, <1>5, <1>8, <2>1 DEF OneRecord
<1>11. Names' BY <1>0, <1>8 DEF Names
<1>12. OwnFiles' BY <1>2 DEF OwnFiles, Idle
<1>13. Durable' BY <1>0, <1>5, <1>8 DEF Durable
<1>14. Owned'
  <2>1. \A v \in granted' : Durable' /\ disk'.data[disk'.owner] = v BY <1>0, <1>5, <1>13 DEF Owned
  <2>2. \A d \in may' : d.content = Foreign <=> disk'.content = Foreign BY <1>5, <1>7, <1>8
  <2>3. \A d \in may' : d.content \in Users => d.owner # None /\ d.data[d.owner] = d.content
        BY <1>0, <1>8
  <2> QED BY <1>5, <1>7, <2>1, <2>2, <2>3 DEF Owned
<1>15. ASSUME NEW v \in Users, v # u PROVE Keeps(v)
  <2>1. proc[v] \in Procs /\ proc'[v] = proc[v] /\ Claimer(v, proc[v]) BY <1>2, <1>15 DEF TypeOK
  <2>2. /\ proc[v].pc \in Holding => disk'.owner # proc[v].ino
        /\ proc[v].pc = "sync" => disk'.data[proc[v].ino] = v
        BY <1>5, <2>1 DEF Claimer, FileHeld
  <2>3. Pending(disk', disk.owner) = Pending(disk, disk.owner) BY <1>5 DEF Pending
  <2>4. proc[v].pc = "link" => \A d \in may' : d.data[proc[v].ino] = v BY <1>8
  <2> QED BY <1>0, <1>5, <1>7, <1>13, <2>1, <2>2, <2>3, <2>4 DEF Keeps
<1>16. Claimer(u, proc[u])'
  <2>1. FileHeld(u, proc[u])' BY <1>2 DEF Idle, FileHeld, Holding
  <2>2. RecordSeen(u, proc[u])' BY <1>2 DEF Idle, RecordSeen, Reading
  <2>3. ClaimAllowed(u, proc[u])' BY <1>2 DEF Idle, ClaimAllowed, Holding
  <2> QED BY <2>1, <2>2, <2>3 DEF Claimer
<1> QED BY <1>9, <1>10, <1>11, <1>12, <1>14, <1>15, <1>16, ChangeInv

LEMMA PowerLossInv ==
  ASSUME OwnerInv, PowerLoss PROVE OwnerInv'
<1> USE DEF OwnerInv
<1>1. PICK d \in may : disk' = d /\ may' = {d} BY DEF PowerLoss
<1>2. proc' = [u \in Users |-> Idle] /\ UNCHANGED <<next, granted>> BY DEF PowerLoss
<1>3. TypeOK'
  <2>1. Idle \in Procs BY DEF Idle, Procs, Positions, Thens, Results
  <2> QED BY <1>1, <1>2, <2>1 DEF TypeOK
<1>4. d.owner # None => d.owner = disk.owner /\ d.data[d.owner] = disk.data[disk.owner]
      BY <1>1 DEF OneRecord
<1>5. OneRecord' BY <1>1, <1>4 DEF OneRecord
<1>6. Names' BY <1>1, <1>2 DEF Names
<1>7. OwnFiles' BY <1>2 DEF OwnFiles, Idle
<1>8. Owned'
  <2>1. \A v \in granted : d.owner # None /\ d.data[d.owner] = v BY <1>4 DEF Owned, Durable
  <2>2. d.content = Foreign => d.owner = None BY <1>4 DEF Owned
  <2> QED BY <1>1, <1>2, <2>1, <2>2 DEF Owned, Durable
<1>9. ASSUME NEW v \in Users PROVE Claimer(v, proc[v])'
  <2>0. proc'[v] = Idle BY <1>2
  <2>1. FileHeld(v, proc[v])' BY <2>0 DEF Idle, FileHeld, Holding
  <2>2. RecordSeen(v, proc[v])' BY <2>0 DEF Idle, RecordSeen, Reading
  <2>3. ClaimAllowed(v, proc[v])' BY <2>0 DEF Idle, ClaimAllowed, Holding
  <2> QED BY <2>1, <2>2, <2>3 DEF Claimer
<1> QED BY <1>3, <1>5, <1>6, <1>7, <1>8, <1>9

-----------------------------------------------------------------------------
(* The theorems *)

LEMMA InitInv == Init => OwnerInv
<1> SUFFICES ASSUME Init PROVE OwnerInv OBVIOUS
<1>0. PICK c \in {None, Foreign} :
        disk = [owner |-> None, pending |-> [s \in Slots |-> None],
                data |-> [i \in Inodes |-> None], content |-> c]
      BY DEF Init
<1>1. TypeOK
  <2>1. disk \in Disks BY <1>0 DEF Disks
  <2>2. Idle \in Procs BY DEF Idle, Procs, Positions, Thens, Results
  <2> QED BY <2>1, <2>2, ValuesDiffer DEF Init, TypeOK
<1>2. OneRecord /\ Names /\ OwnFiles BY <1>0 DEF Init, OneRecord, Names, OwnFiles, Idle
<1>3. Owned BY <1>0, ValuesDiffer DEF Init, Owned
<1>4. ASSUME NEW u \in Users PROVE Claimer(u, proc[u])
  <2>1. proc[u] = Idle BY DEF Init
  <2> QED BY <2>1 DEF Idle, Claimer, FileHeld, RecordSeen, ClaimAllowed, Holding, Reading
<1> QED BY <1>1, <1>2, <1>3, <1>4 DEF OwnerInv

LEMMA NextInv == OwnerInv /\ [Next]_vars => OwnerInv'
<1> SUFFICES ASSUME OwnerInv, [Next]_vars PROVE OwnerInv' OBVIOUS
<1>1. ASSUME NEW u \in Users, \/ Start(u, "load") \/ Start(u, "policy")
                              \/ OpenOwner(u) \/ ScanPending(u) \/ Restat(u) \/ ReadFails(u)
                              \/ EmptyForFirstOwner(u) \/ Resync(u)
      PROVE  OwnerInv'
      BY <1>1, StartInv, OpenOwnerInv, ScanPendingInv, RestatInv, ReadFailsInv,
         EmptyForFirstOwnerInv, ResyncInv
<1>2. ASSUME NEW u \in Users, \/ CreatePending(u) \/ WritePending(u) \/ SyncPending(u)
                              \/ HardLink(u) \/ RemovePending(u) \/ SyncName(u) \/ DropPending(u)
                              \/ Enroll(u) \/ Die(u)
      PROVE  OwnerInv'
      BY <1>2, CreatePendingInv, WritePendingInv, SyncPendingInv, HardLinkInv, RemovePendingInv,
         SyncNameInv, DropPendingInv, EnrollInv, DieInv
<1>3. CASE PowerLoss BY <1>3, PowerLossInv
<1>4. CASE UNCHANGED vars
  <2>1. TypeOK' /\ OneRecord' /\ Names' /\ OwnFiles'
        BY <1>4 DEF vars, OwnerInv, TypeOK, OneRecord, Names, OwnFiles
  <2>2. Owned' BY <1>4 DEF vars, OwnerInv, Owned, Durable
  <2>3. ASSUME NEW u \in Users PROVE Claimer(u, proc[u])'
    <3>1. Keeps(u)
      <4>1. next \in Nat BY ValuesDiffer DEF OwnerInv, TypeOK
      <4>2. UNCHANGED <<disk, may, proc, granted, next>> BY <1>4 DEF vars
      <4>3. Durable' <=> Durable BY <4>2 DEF Durable
      <4>4. FileHeld(u, proc[u]) BY DEF OwnerInv, Claimer
      <4>5. next <= next' BY <4>1, <4>2
      <4>6. /\ proc[u].slot # None => disk'.pending[proc[u].slot] = disk.pending[proc[u].slot]
            /\ proc[u].pc \in Holding => disk'.owner # proc[u].ino
            /\ proc[u].pc = "sync" => disk'.data[proc[u].ino] = u
            /\ proc[u].pc = "link" => \A d \in may' : d.data[proc[u].ino] = u
            BY <4>2, <4>4, Zenon DEF FileHeld
      <4>7. /\ Pending(disk', disk.owner) \subseteq Pending(disk, disk.owner)
            /\ granted \subseteq granted' /\ proc'[u] = proc[u]
            BY <4>2, Zenon
      <4> QED BY <4>2, <4>3, <4>5, <4>6, <4>7, Zenon DEF Keeps
    <3> QED BY <2>1, <3>1, ClaimerStable DEF OwnerInv
  <2> QED BY <2>1, <2>2, <2>3 DEF OwnerInv
<1> QED BY <1>1, <1>2, <1>3, <1>4 DEF Next

\* Whatever claimers, failures and power losses come together, for any number
\* of accounts, pending names and files: a claim that claim_enrollment_owner
\* granted stays recorded wherever the machine may be cut off, every record
\* there is complete, and no load is refused as unsafe or corrupt.
THEOREM OwnerIsDurable == Spec => []GrantIsDurable
<1>1. OwnerInv => GrantIsDurable
  <2> SUFFICES ASSUME OwnerInv PROVE GrantIsDurable OBVIOUS
  <2>1. disk \in may BY DEF OwnerInv, OneRecord
  <2>2. PublishedIsWhole BY <2>1 DEF PublishedIsWhole, OwnerInv, OneRecord
  <2>3. NoSpuriousRefusal BY DEF NoSpuriousRefusal, OwnerInv, Claimer, ClaimAllowed
  <2>4. \A u \in granted : \A d \in may \cup {disk} : d.owner # None /\ d.data[d.owner] = u
        BY <2>1 DEF OwnerInv, Owned, Durable, OneRecord
  <2> QED BY <2>2, <2>3, <2>4 DEF GrantIsDurable
<1> QED BY <1>1, InitInv, NextInv, PTL DEF Spec

\* In every directory a power loss could leave, biometric state of an account
\* lies beside that account's record and state of an unknown account beside
\* none (claim_enrollment_owner's check for unowned state).
THEOREM StateHasItsOwner == Spec => []StateIsOwned
<1>1. OwnerInv => StateIsOwned
  <2> SUFFICES ASSUME OwnerInv, NEW d \in may \cup {disk}
               PROVE  /\ d.content \in Users => d.owner # None /\ d.data[d.owner] = d.content
                      /\ d.content = Foreign => d.owner = None
      BY DEF StateIsOwned
  <2>1. d \in may BY DEF OwnerInv, OneRecord
  <2> QED BY <2>1 DEF OwnerInv, Owned, OneRecord
<1> QED BY <1>1, InitInv, NextInv, PTL DEF Spec
=============================================================================
