------------------------ MODULE CatacombStoreProofs -------------------------
(***************************************************************************)
(* The invariant of CatacombStore for every number of generations, and its *)
(* refinement of PairRegister.                                             *)
(***************************************************************************)
EXTENDS CatacombStoreRecovery, FiniteSetTheorems

-----------------------------------------------------------------------------
(* The invariant *)

LEMMA StoreFields ==
  ASSUME NEW n \in 0..2
  PROVE  /\ Store(n) \in Disks /\ Store(n).active = n /\ Store(n).reserved = {}
         /\ \A g \in Generations :
              /\ g <= n => /\ Store(n).place[g] = "pair"
                           /\ Store(n).files[g]["user"] = "whole"
                           /\ Store(n).files[g]["master"] = "whole"
                           /\ Store(n).files[g]["metadata"] # "torn"
              /\ ~(g <= n) => Store(n).place[g] = "none" /\ Store(n).files[g] = NoFiles
<1>1. \A c \in {"absent", "labeled"} :
        /\ Pair(c) \in [Members -> Contents]
        /\ Pair(c)["user"] = "whole" /\ Pair(c)["master"] = "whole" /\ Pair(c)["metadata"] = c
      BY DEF Pair, Members, Contents, Manifests
<1>2. NoFiles \in [Members -> Contents] BY DEF NoFiles, Contents
<1> DEFINE P == [g \in Generations |-> IF g <= n THEN "pair" ELSE "none"]
           Q == [g \in Generations |-> IF g > n THEN NoFiles
                                       ELSE IF g = 1 THEN Pair("absent") ELSE Pair("labeled")]
<1>3. P \in [Generations -> {"none", "stage", "pair"}] OBVIOUS
<1>4. Q \in [Generations -> [Members -> Contents]] BY <1>1, <1>2
<1>5. n \in Generations \cup {None} BY MaxGenerationAssumption DEF Generations, None
<1>6. Store(n) = [active |-> n, place |-> P, files |-> Q, reserved |-> {}, temporary |-> {}]
      BY DEF Store
<1>7. \A g \in Generations :
        /\ g <= n => /\ P[g] = "pair" /\ Q[g]["user"] = "whole" /\ Q[g]["master"] = "whole"
                     /\ Q[g]["metadata"] # "torn"
        /\ ~(g <= n) => P[g] = "none" /\ Q[g] = NoFiles
  <2> SUFFICES ASSUME NEW g \in Generations
               PROVE  /\ g <= n => /\ P[g] = "pair" /\ Q[g]["user"] = "whole"
                                   /\ Q[g]["master"] = "whole" /\ Q[g]["metadata"] # "torn"
                      /\ ~(g <= n) => P[g] = "none" /\ Q[g] = NoFiles
      OBVIOUS
  <2>1. g > n <=> ~(g <= n) BY DEF Generations
  <2>2. g <= n => Q[g] \in {Pair("absent"), Pair("labeled")} BY <2>1
  <2>3. ~(g <= n) => Q[g] = NoFiles BY <2>1
  <2> QED BY <1>1, <2>2, <2>3
<1> HIDE DEF P, Q
<1>8. /\ Store(n).active = n /\ Store(n).reserved = {}
      /\ Store(n).place = P /\ Store(n).files = Q
      BY <1>6
<1>9. Store(n) \in Disks BY <1>3, <1>4, <1>5, <1>6 DEF Disks
<1> QED BY <1>7, <1>8, <1>9

LEMMA InitInv == Init => StoreInv
<1> SUFFICES ASSUME Init PROVE StoreInv OBVIOUS
<1>1. PICK n \in 0..2 :
        /\ disk = Store(n) /\ may = {Store(n)} /\ next = n + 1 /\ settled = 1..n
        /\ committed = n /\ op = Idle /\ legacy = NoLegacy
        /\ native = [g \in Generations |-> {}]
      BY DEF Init
<1>2. TypeOK
  <2>1. /\ next \in 1..(MaxGeneration + 1) /\ settled \subseteq Generations
        /\ committed \in Generations \cup {None}
        BY <1>1, MaxGenerationAssumption DEF Generations, None
  <2>2. native \in [Generations -> SUBSET {"removed", "saved", "user", "master"}] BY <1>1
  <2> QED BY <1>1, <2>1, <2>2, StoreFields, IdleFields DEF TypeOK
<1>3. OpInv BY <1>1, IdleFields, Zenon DEF OpInv, OpIsOpen, Reserving, MembersInOrder, CandidateIsWhole,
                                    BeforeReservation, Writing, Selecting
<1>4. LegacyInv BY <1>1, IdleFields DEF LegacyInv
<1>5. ASSUME NEW g \in Generations PROVE GenerationInv(g)
  <2>1. native[g] = {} /\ (g >= next <=> ~(g <= n)) /\ (g \in settled <=> g <= n) /\ g # 0
        /\ (g = n => g <= n)
        BY <1>1 DEF Generations
  <2>2. \A d \in may : /\ d.active = n
                       /\ g <= n => Whole(d, g)
                       /\ ~(g <= n) => d.place[g] = "none" /\ d.files[g] = NoFiles
        BY <1>1, StoreFields DEF Whole, Readable
  <2>3. FreshIsUnused(g) BY <2>1, <2>2 DEF FreshIsUnused
  <2>4. NothingInNone(g) BY <2>2 DEF NothingInNone, Whole, Readable
  <2>5. WholeEverywhere(g) BY <2>1, <2>2 DEF WholeEverywhere
  <2>6. SavedInOrder(g) BY <2>1, <2>2 DEF SavedInOrder, Whole, Readable
  <2>7. SavedIsKept(g) BY <2>1 DEF SavedIsKept
  <2> QED BY <2>3, <2>4, <2>5, <2>6, <2>7 DEF GenerationInv
<1> QED BY <1>2, <1>3, <1>4, <1>5 DEF StoreInv

LEMMA StutterInv == ASSUME StoreInv, UNCHANGED vars PROVE StoreInv'
<1>1. NoChange /\ UNCHANGED <<op, legacy, next, native, settled, committed>> BY DEF vars, NoChange
<1>2. committed' \in Generations \cup {None} /\ op' \in OpStates BY <1>1 DEF StoreInv, TypeOK
<1> QED BY <1>1, <1>2, QuietOpInv, QuietInv

LEMMA NextInv == StoreInv /\ [Next]_vars => StoreInv'
<1> SUFFICES ASSUME StoreInv, [Next]_vars PROVE StoreInv' OBVIOUS
<1>1. CASE Session
  <2>1. ASSUME NEW k \in Operations, Start(k) PROVE StoreInv' BY <2>1, StartInv
  <2>2. CASE \/ RecoverSync \/ RecoverInspect \/ Begin \/ RenameStage \/ SyncRename
             \/ CreateReservation \/ SyncReservation
        BY <2>2, RecoverSyncInv, RecoverInspectInv, BeginInv, RenameStageInv, SyncRenameInv,
           CreateReservationInv, SyncReservationInv
  <2>3. CASE CreateMember \/ FillMember \/ RemoveIdentity \/ Export \/ FinishExport
        BY <2>3, CreateMemberInv, FillMemberInv, RemoveIdentityInv, ExportInv, FinishExportInv
  <2>4. CASE \/ WriteMarker \/ ReplaceMarker \/ SyncMarker \/ ReleaseReservation \/ SyncRelease
             \/ DropTransaction
        BY <2>4, WriteMarkerInv, ReplaceMarkerInv, SyncMarkerInv, ReleaseReservationInv,
           SyncReleaseInv, DropTransactionInv
  <2> QED BY <1>1, <2>1, <2>2, <2>3, <2>4 DEF Session
<1>2. CASE LegacyTool
      BY <1>2, LegacyInspectInv, LegacyReserveInv, LegacySyncInv, LegacyLeaseInv DEF LegacyTool
<1>3. CASE Recover BY <1>3, RecoverInv
<1>4. CASE ProcessCrash BY <1>4, ProcessCrashInv
<1>5. CASE PowerLoss BY <1>5, PowerLossInv
<1>6. CASE UNCHANGED vars BY <1>6, StutterInv
<1> QED BY <1>1, <1>2, <1>3, <1>4, <1>5, <1>6 DEF Next

\* StoreInv holds always, whatever operations are offered, the legacy tool and
\* recover among them (catacomb_store.rs, legacy_recovery.rs).
THEOREM StoreInvariant == Spec => []StoreInv
BY InitInv, NextInv, PTL DEF Spec

LEMMA KeptWholly ==
  StoreInv => TypeOK /\ SelectedIsWhole /\ NativeStateIsKept
<1> SUFFICES ASSUME StoreInv PROVE TypeOK /\ SelectedIsWhole /\ NativeStateIsKept OBVIOUS
<1>1. TypeOK BY DEF StoreInv
<1>2. SelectedIsWhole
  <2> SUFFICES ASSUME NEW d \in may, d.active # None PROVE Whole(d, d.active)
      BY DEF SelectedIsWhole
  <2>1. d.active \in Generations BY <1>1 DEF TypeOK, Disks
  <2> QED BY <2>1 DEF StoreInv, GenerationInv, WholeEverywhere
<1>3. NativeStateIsKept BY Zenon DEF StoreInv, GenerationInv, SavedIsKept, NativeStateIsKept
<1> QED BY <1>1, <1>2, <1>3

-----------------------------------------------------------------------------
(* The register: what a step does to selections and reservations *)

SameSelection ==
  /\ disk'.active = disk.active /\ disk'.reserved = disk.reserved
  /\ \A e \in may' : \E d \in may : e.active = d.active /\ e.reserved = d.reserved

RegisterStep == RegisterInv' /\ [Register!Next]_(Register!vars)

LEMMA SameUndecided ==
  ASSUME disk \in may, Undecided, SameSelection, UNCHANGED committed
  PROVE  Undecided'
<1>1. \A e \in may' : /\ e.reserved \subseteq disk'.reserved \cup {committed'}
                      /\ e.active \in {committed'} \cup e.reserved
                      /\ \A g, h \in e.reserved : g = h
  <2> SUFFICES ASSUME NEW e \in may'
               PROVE  /\ e.reserved \subseteq disk'.reserved \cup {committed'}
                      /\ e.active \in {committed'} \cup e.reserved
                      /\ \A g, h \in e.reserved : g = h
      OBVIOUS
  <2>1. PICK d \in may : e.active = d.active /\ e.reserved = d.reserved BY DEF SameSelection
  <2> QED BY <2>1 DEF Undecided, SameSelection
<1>2. UncertainSelectionBlocks'
  <2>1. SUFFICES ASSUME NEW e \in may', e.active # disk'.active, NEW f \in may'
                 PROVE  f.reserved # {}
        BY DEF UncertainSelectionBlocks
  <2>2. PICK d \in may : d.active # disk.active BY <2>1 DEF SameSelection
  <2>3. \A c \in may : c.reserved # {} BY <2>2 DEF Undecided, UncertainSelectionBlocks
  <2> QED BY <2>3 DEF SameSelection
<1> QED BY <1>1, <1>2 DEF Undecided

LEMMA SameSelectionStep ==
  ASSUME StoreInv, RegisterInv, SameSelection, UNCHANGED <<legacy, committed>>,
         op'.kind # "legacy", OnlyCandidate'
  PROVE  RegisterStep
<1>1. disk \in may BY DEF StoreInv, TypeOK
<1>2. Undecided' BY <1>1, SameUndecided DEF RegisterInv
<1>3. UNCHANGED Register!vars BY DEF Register!vars, SameSelection
<1> QED BY <1>2, <1>3 DEF RegisterInv, RegisterStep

LEMMA QuietSelection == ASSUME NoChange PROVE SameSelection
BY DEF NoChange, SameSelection

LEMMA SyncSelection ==
  ASSUME StoreInv, SyncDirectory
  PROVE  /\ SameSelection
         /\ \A e \in may' : e.active = disk.active /\ e.reserved = disk.reserved
         /\ disk' = disk
<1>1. disk \in may BY DEF StoreInv, TypeOK
<1> QED BY <1>1, SyncFacts DEF SameSelection

(* A failed operation has nothing undecided of its own. *)
LEMMA FailCandidate ==
  ASSUME StoreInv, RegisterInv, Fail
  PROVE  op'.kind # "legacy" /\ OnlyCandidate'
<1>1. op'.kind # "legacy" /\ op'.pc \in {"idle", "drop"}
      BY FailFields, IdleFields DEF StoreInv, RegisterInv
<1> QED BY <1>1 DEF OnlyCandidate, Writing, Selecting

LEMMA QuietFailStep ==
  ASSUME StoreInv, RegisterInv, SameSelection, Fail, UNCHANGED <<legacy, committed>>
  PROVE  RegisterStep
BY FailCandidate, SameSelectionStep

LEMMA WaitingCandidate ==
  ASSUME op'.pc \in {"idle", "sync", "begin", "released", "drop"}
  PROVE  OnlyCandidate'
BY DEF OnlyCandidate, Writing, Selecting

(* The candidate stays the only one while it is written and selected. *)
LEMMA SameCandidate ==
  ASSUME RegisterInv, SameSelection, op.pc \in Writing \cup Selecting, op'.gen = op.gen,
         op'.pc \in Writing \cup Selecting, op'.pc # "release"
  PROVE  OnlyCandidate'
<1>1. \A d \in may : d.reserved = {op.gen} BY DEF RegisterInv, OnlyCandidate
<1>2. \A d \in may' : d.reserved = {op'.gen} BY <1>1 DEF SameSelection
<1> QED BY <1>2 DEF OnlyCandidate, Writing, Selecting

LEMMA CandidateStep ==
  ASSUME StoreInv, RegisterInv, SameSelection, UNCHANGED <<legacy, committed>>,
         op.pc \in Writing \cup Selecting, op'.gen = op.gen, op'.kind = op.kind,
         op'.pc \in Writing \cup Selecting, op'.pc # "release"
  PROVE  RegisterStep
<1>1. op'.kind # "legacy" BY DEF RegisterInv
<1> QED BY <1>1, SameCandidate, SameSelectionStep

LEMMA GotoStep ==
  ASSUME StoreInv, NEW p \in Pcs, Goto(p)
  PROVE  op'.pc = p /\ op'.gen = op.gen /\ op'.kind = op.kind
<1>1. op \in OpStates BY DEF StoreInv, TypeOK
<1> QED BY <1>1, GotoFields, Zenon DEF Goto

LEMMA MemberStep ==
  ASSUME StoreInv, NEW p \in Pcs, NEW m \in Members, op' = [op EXCEPT !.pc = p, !.member = m]
  PROVE  op'.pc = p /\ op'.gen = op.gen /\ op'.kind = op.kind
<1>1. op \in OpStates BY DEF StoreInv, TypeOK
<1> QED BY <1>1, MemberFields, ZenonT(60)

-----------------------------------------------------------------------------
LEMMA PlaceSelection ==
  ASSUME StoreInv, NEW o \in Generations, NEW p \in Places, disk' = Place(o, p, disk),
         may' = may \cup {Place(o, p, d) : d \in may}
  PROVE  SameSelection
<1>1. disk \in may /\ may \subseteq Disks BY DEF StoreInv, TypeOK
<1>2. \A d \in may : Place(o, p, d).active = d.active /\ Place(o, p, d).reserved = d.reserved
      BY <1>1, PlaceFields
<1> QED BY <1>1, <1>2 DEF SameSelection

LEMMA FillSelection ==
  ASSUME StoreInv, NEW o \in Generations, NEW m \in Members, NEW c \in Contents,
         disk' = Fill(o, m, c, disk),
         \/ may' = may \cup {Fill(o, m, c, d) : d \in may}
         \/ may' = {Fill(o, m, c, d) : d \in may}
  PROVE  SameSelection
<1>1. disk \in may /\ may \subseteq Disks BY DEF StoreInv, TypeOK
<1>2. \A d \in may : Fill(o, m, c, d).active = d.active /\ Fill(o, m, c, d).reserved = d.reserved
      BY <1>1, FillFields
<1> QED BY <1>1, <1>2, Zenon DEF SameSelection

LEMMA SameViewSelection == ASSUME SameView PROVE SameSelection
BY Zenon DEF SameView, SameSelection

LEMMA DropSelection == ASSUME StoreInv, DropTransaction PROVE SameSelection
<1> SUFFICES ASSUME NEW o, o = op.gen PROVE SameSelection OBVIOUS
<1>0. /\ disk \in may /\ may \subseteq Disks /\ o \in Generations
      BY DEF DropTransaction, At, StoreInv, TypeOK, OpInv, OpIsOpen
<1>1. PICK temporary \in BOOLEAN, generation \in BOOLEAN :
        LET F(d) == LET e == IF temporary THEN RemoveTemporary(op.gen, d) ELSE d
                    IN IF generation THEN Remove(op.gen, e) ELSE e
        IN Change(F)
      BY Zenon DEF DropTransaction
<1> DEFINE T(d) == IF temporary THEN RemoveTemporary(o, d) ELSE d
           G(d) == IF generation THEN Remove(o, T(d)) ELSE T(d)
<1>2. disk' = G(disk) /\ may' = may \cup {G(d) : d \in may} BY <1>1 DEF Change
<1>3. \A d \in may : T(d) \in Disks /\ T(d).active = d.active /\ T(d).reserved = d.reserved
      BY <1>0, TemporaryFields, Zenon
<1> HIDE DEF T
<1>4. \A d \in may : G(d).active = d.active /\ G(d).reserved = d.reserved
      BY <1>0, <1>3, RemoveFields, ZenonT(60)
<1> HIDE DEF G
<1> QED BY <1>0, <1>2, <1>4, Zenon DEF SameSelection

LEMMA RecoverSelection == ASSUME StoreInv, Recover PROVE SameSelection
<1>0. disk \in Disks /\ disk \in may /\ may \subseteq Disks BY DEF StoreInv, TypeOK
<1>1. PICK gone, temporary, part, lost : RecoveredTo(gone, temporary, part, lost)
      BY RecoverSteps, Zenon
<1> DEFINE F(d) == Recovered(d, gone, temporary, part, lost)
           before == Synced(disk, may)
           after == before \cup {F(d) : d \in before}
<1>2. disk' = F(disk) /\ (may' = after \/ may' = Synced(F(disk), after))
      BY <1>1, Zenon DEF RecoveredTo
<1>3. ASSUME NEW d \in Disks
      PROVE  F(d) \in Disks /\ F(d).active = d.active /\ F(d).reserved = d.reserved
      BY RecoveredFields
<1>4. ASSUME NEW e \in before
      PROVE  e \in Disks /\ e.active = disk.active /\ e.reserved = disk.reserved
      BY <1>0, SyncedFields
<1> HIDE DEF F, before
<1>5. \A e \in after : e \in Disks /\ e.active = disk.active /\ e.reserved = disk.reserved
      BY <1>3, <1>4
<1> HIDE DEF after
<1>6. \A e \in Synced(F(disk), after) : e.active = disk.active /\ e.reserved = disk.reserved
  <2>1. F(disk) \in Disks /\ after \in SUBSET Disks BY <1>0, <1>3, <1>5
  <2>2. ASSUME NEW e \in Synced(F(disk), after)
        PROVE  e.active = F(disk).active /\ e.reserved = F(disk).reserved
        BY <2>1, SyncedFields
  <2> QED BY <1>0, <1>3, <2>2
<1> QED BY <1>0, <1>2, <1>3, <1>5, <1>6 DEF SameSelection

-----------------------------------------------------------------------------
(* Steps of the session that leave the register alone *)

LEMMA StartRegister ==
  ASSUME StoreInv, RegisterInv, NEW k \in Operations, Start(k) PROVE RegisterStep
<1>1. /\ k \in {"none", "enroll", "label", "delete", "legacy"} /\ FirstStep(k) \in {"sync", "begin"}
      /\ k # "legacy"
      BY OperationsAssumption DEF Start, FirstStep
<1>2. op'.kind = k /\ op'.pc \in {"sync", "begin"} BY <1>1, WaitingOpInv DEF Start
<1>3. OnlyCandidate' BY <1>2, WaitingCandidate
<1> QED BY <1>1, <1>2, <1>3, QuietSelection, SameSelectionStep DEF Start

LEMMA AfterRecoveryStep ==
  ASSUME StoreInv, RegisterInv, op' = AfterRecovery
  PROVE  op'.kind # "legacy" /\ op'.pc \in {"idle", "begin"}
<1>1. op.kind \in {"none", "enroll", "label", "delete", "legacy"} /\ op.kind # "legacy"
      BY DEF StoreInv, TypeOK, OpStates, RegisterInv
<1>2. op' = [Idle EXCEPT !.kind = op.kind, !.pc = "begin"] BY <1>1 DEF AfterRecovery
<1> QED BY <1>1, <1>2, WaitingOpInv

LEMMA RecoverSyncRegister == ASSUME StoreInv, RegisterInv, RecoverSync PROVE RegisterStep
<1>1. CASE SyncDirectory /\ Goto("inspect")
  <2>1. op'.pc = "inspect" /\ op'.kind = op.kind BY <1>1, GotoStep DEF Pcs
  <2>2. OnlyCandidate' BY <1>1, <2>1, SyncSelection DEF OnlyCandidate, Writing, Selecting
  <2> QED BY <1>1, <2>1, <2>2, SyncSelection, SameSelectionStep DEF RecoverSync, RegisterInv
<1>2. CASE NoChange /\ Fail BY <1>2, QuietSelection, QuietFailStep DEF RecoverSync
<1> QED BY <1>1, <1>2 DEF RecoverSync

LEMMA RecoverInspectRegister == ASSUME StoreInv, RegisterInv, RecoverInspect PROVE RegisterStep
<1>0. NoChange /\ UNCHANGED <<legacy, committed>> /\ op.pc = "inspect" /\ SameSelection
      BY QuietSelection, Zenon DEF RecoverInspect, At
<1>1. CASE op' = AfterRecovery
      BY <1>0, <1>1, AfterRecoveryStep, WaitingCandidate, SameSelectionStep
<1>2. ASSUME NEW g \in Generations, disk.reserved = {g},
             op' = [op EXCEPT !.gen = g, !.pc = AfterValidation(g)]
      PROVE  RegisterStep
  <2> DEFINE p == AfterValidation(g)
  <2>1. p \in {"release", "marker"} /\ (p = "release" => disk.active = g)
        BY DEF AfterValidation
  <2> HIDE DEF p
  <2>2. op'.pc = p /\ op'.gen = g /\ op'.kind = op.kind
    <3>1. op \in OpStates BY DEF StoreInv, TypeOK
    <3> QED BY <1>2, <3>1, Zenon DEF OpStates, p
  <2>3. \A d \in may' : d.reserved = {g} /\ d.active = disk.active
        BY <1>0, <1>2 DEF RegisterInv, OnlyCandidate, NoChange
  <2>4. OnlyCandidate' BY <2>1, <2>2, <2>3 DEF OnlyCandidate, Writing, Selecting
  <2> QED BY <1>0, <2>2, <2>4, SameSelectionStep DEF RegisterInv
<1>3. CASE Fail BY <1>0, <1>3, QuietFailStep
<1> QED BY <1>1, <1>2, <1>3, Zenon DEF RecoverInspect

LEMMA BeginRegister == ASSUME StoreInv, RegisterInv, Begin PROVE RegisterStep
<1>1. CASE /\ FreshToken /\ RejectRecoveryState
           /\ LET F(d) == Place(next, "stage", d) IN Change(F)
           /\ op' = [op EXCEPT !.pc = "stage", !.gen = next, !.open = TRUE]
  <2>1. SameSelection BY <1>1, PlaceSelection DEF FreshToken, Change, Places
  <2>2. op'.pc = "stage" /\ op'.kind = op.kind
    <3>1. op \in OpStates BY DEF StoreInv, TypeOK
    <3> QED BY <1>1, <3>1, Zenon DEF OpStates
  <2>3. disk'.reserved = {} BY <1>1, <2>1 DEF RejectRecoveryState, SameSelection
  <2>4. OnlyCandidate' BY <2>2, <2>3 DEF OnlyCandidate, Writing, Selecting
  <2> QED BY <2>1, <2>2, <2>4, SameSelectionStep DEF Begin, RegisterInv
<1>2. CASE NoChange /\ Fail BY <1>2, QuietSelection, QuietFailStep DEF Begin
<1> QED BY <1>1, <1>2 DEF Begin

LEMMA OpenGeneration ==
  ASSUME StoreInv, op.pc \in BeforeReservation \cup Writing \cup Selecting
  PROVE  op.gen \in Generations /\ op.member \in Members
BY Zenon DEF StoreInv, TypeOK, OpStates, OpInv, OpIsOpen, CandidateIsWhole

LEMMA RenameStageRegister == ASSUME StoreInv, RegisterInv, RenameStage PROVE RegisterStep
<1>0. op.gen \in Generations /\ op.pc = "stage"
      BY OpenGeneration DEF RenameStage, At, BeforeReservation
<1>1. CASE LET F(d) == Place(op.gen, "pair", d) IN Change(F) /\ Goto("renamed")
  <2>1. SameSelection BY <1>0, <1>1, PlaceSelection DEF Change, Places
  <2>2. op'.pc = "renamed" /\ op'.kind = op.kind BY <1>1, GotoStep DEF Pcs
  <2>3. disk'.reserved = {} BY <1>0, <2>1, Zenon DEF RegisterInv, OnlyCandidate, SameSelection
  <2>4. OnlyCandidate' BY <2>2, <2>3 DEF OnlyCandidate, Writing, Selecting
  <2> QED BY <2>1, <2>2, <2>4, SameSelectionStep DEF RenameStage, RegisterInv
<1>2. CASE NoChange /\ Fail BY <1>2, QuietSelection, QuietFailStep DEF RenameStage
<1> QED BY <1>1, <1>2 DEF RenameStage

LEMMA SyncRenameRegister == ASSUME StoreInv, RegisterInv, SyncRename PROVE RegisterStep
<1>1. CASE SyncDirectory /\ Goto("reserve")
  <2>1. op'.pc = "reserve" /\ op'.kind = op.kind BY <1>1, GotoStep DEF Pcs
  <2>2. disk.reserved = {} BY DEF SyncRename, At, RegisterInv, OnlyCandidate
  <2>3. OnlyCandidate' BY <1>1, <2>1, <2>2, SyncSelection DEF OnlyCandidate, Writing, Selecting
  <2> QED BY <1>1, <2>1, <2>3, SyncSelection, SameSelectionStep DEF SyncRename, RegisterInv
<1>2. CASE NoChange /\ Fail BY <1>2, QuietSelection, QuietFailStep DEF SyncRename
<1> QED BY <1>1, <1>2 DEF SyncRename

LEMMA SyncReservationRegister == ASSUME StoreInv, RegisterInv, SyncReservation PROVE RegisterStep
<1>0. op.pc = "reserved" BY DEF SyncReservation, At
<1>1. CASE SyncDirectory /\ op' = IF op.kind = "enroll"
                                  THEN [op EXCEPT !.pc = "export", !.member = "user"]
                                  ELSE [op EXCEPT !.pc = "create", !.member = "metadata"]
  <2>1. op'.pc \in {"export", "create"} /\ op'.kind = op.kind /\ op'.gen = op.gen
        BY <1>1, MemberStep DEF Pcs, Members
  <2>2. disk.reserved = {op.gen} BY <1>0 DEF RegisterInv, OnlyCandidate
  <2>3. \A e \in may' : e.reserved = {op'.gen} BY <1>1, <2>1, <2>2, SyncSelection
  <2>4. OnlyCandidate' BY <2>1, <2>3 DEF OnlyCandidate, Writing, Selecting
  <2> QED BY <1>1, <2>1, <2>4, SyncSelection, SameSelectionStep DEF SyncReservation, RegisterInv
<1>2. CASE NoChange /\ Fail BY <1>2, QuietSelection, QuietFailStep DEF SyncReservation
<1> QED BY <1>1, <1>2 DEF SyncReservation, ReservationSynced

LEMMA CreateMemberRegister == ASSUME StoreInv, RegisterInv, CreateMember PROVE RegisterStep
<1>0. op.gen \in Generations /\ op.member \in Members /\ op.pc \in Writing
      BY OpenGeneration DEF CreateMember, At, Writing
<1>1. CASE LET F(d) == Fill(op.gen, op.member, "torn", d) IN Change(F) /\ Goto("fill")
  <2>1. SameSelection BY <1>0, <1>1, FillSelection DEF Change, Contents
  <2>2. op'.pc = "fill" /\ op'.kind = op.kind /\ op'.gen = op.gen BY <1>1, GotoStep DEF Pcs
  <2> QED BY <1>0, <2>1, <2>2, CandidateStep DEF CreateMember, Writing
<1>2. CASE NoChange /\ Fail BY <1>2, QuietSelection, QuietFailStep DEF CreateMember
<1> QED BY <1>1, <1>2 DEF CreateMember

LEMMA FillMemberRegister == ASSUME StoreInv, RegisterInv, FillMember PROVE RegisterStep
<1>0. op.gen \in Generations /\ op.member \in Members /\ op.pc \in Writing
      BY OpenGeneration DEF FillMember, At, Writing
<1>1. ASSUME NEW c \in Written, disk' = Fill(op.gen, op.member, c, disk),
             \/ may' = may \cup {Fill(op.gen, op.member, c, d) : d \in may}
             \/ may' = {Fill(op.gen, op.member, c, d) : d \in may}
      PROVE  SameSelection
  <2>1. c \in Contents BY DEF Written, Contents, Manifests
  <2> QED BY <1>0, <1>1, <2>1, FillSelection
<1>2. CASE SameSelection /\ op' = IF op.member # "metadata" THEN [op EXCEPT !.pc = "finish"]
                   ELSE [op EXCEPT !.pc = IF op.kind = "delete" THEN "remove" ELSE "export",
                                   !.member = "user"]
  <2>1. op'.pc \in {"finish", "remove", "export"} /\ op'.kind = op.kind /\ op'.gen = op.gen
        BY <1>2, GotoStep, MemberStep DEF Pcs, Members, Goto
  <2> QED BY <1>0, <1>2, <2>1, CandidateStep DEF FillMember, Writing
<1>3. CASE SameSelection /\ Fail BY <1>3, QuietFailStep DEF FillMember
<1> QED BY <1>1, <1>2, <1>3, QuietSelection DEF FillMember, Change

LEMMA RemoveIdentityRegister == ASSUME StoreInv, RegisterInv, RemoveIdentity PROVE RegisterStep
<1>0. SameSelection /\ op.pc \in Writing BY QuietSelection DEF RemoveIdentity, At, Writing
<1>1. CASE op' = [op EXCEPT !.pc = "export", !.member = "user"]
  <2>1. op'.pc = "export" /\ op'.kind = op.kind /\ op'.gen = op.gen
        BY <1>1, MemberStep DEF Pcs, Members
  <2> QED BY <1>0, <2>1, CandidateStep DEF RemoveIdentity, Writing
<1> QED BY <1>0, <1>1, QuietFailStep DEF RemoveIdentity

LEMMA ExportRegister == ASSUME StoreInv, RegisterInv, Export PROVE RegisterStep
<1>0. SameSelection /\ op.pc \in Writing BY QuietSelection DEF Export, At, Writing
<1>1. CASE Goto("create")
  <2>1. op'.pc = "create" /\ op'.kind = op.kind /\ op'.gen = op.gen BY <1>1, GotoStep DEF Pcs
  <2> QED BY <1>0, <2>1, CandidateStep DEF Export, Writing
<1> QED BY <1>0, <1>1, QuietFailStep DEF Export

LEMMA FinishExportRegister == ASSUME StoreInv, RegisterInv, FinishExport PROVE RegisterStep
<1>0. SameSelection /\ op.pc \in Writing BY QuietSelection DEF FinishExport, At, Writing
<1>1. CASE op' = AfterFinish
  <2>1. op'.pc \in {"export", "marker"} /\ op'.kind = op.kind /\ op'.gen = op.gen
        BY <1>1, GotoStep, MemberStep DEF AfterFinish, Pcs, Members, Goto
  <2> QED BY <1>0, <2>1, CandidateStep DEF FinishExport, Writing, Selecting
<1> QED BY <1>0, <1>1, QuietFailStep DEF FinishExport

LEMMA WriteMarkerRegister == ASSUME StoreInv, RegisterInv, WriteMarker PROVE RegisterStep
<1>0. op.gen \in Generations /\ op.pc \in Selecting
      BY OpenGeneration DEF WriteMarker, At, Selecting
<1>1. WriteMarker => SameSelection
      BY <1>0, TemporaryView, SameViewSelection, QuietSelection, SMTT(60) DEF WriteMarker, Change
<1>2. CASE Goto("replace")
  <2>1. op'.pc = "replace" /\ op'.kind = op.kind /\ op'.gen = op.gen BY <1>2, GotoStep DEF Pcs
  <2> QED BY <1>0, <1>1, <2>1, CandidateStep DEF WriteMarker, Selecting
<1>3. CASE Fail BY <1>1, <1>3, QuietFailStep DEF WriteMarker
<1> QED BY <1>2, <1>3 DEF WriteMarker

LEMMA SyncMarkerRegister == ASSUME StoreInv, RegisterInv, SyncMarker PROVE RegisterStep
<1>0. op.pc = "replaced" /\ disk \in may BY DEF SyncMarker, At, StoreInv, TypeOK
<1>1. CASE SyncDirectory /\ Goto("release")
  <2>1. op'.pc = "release" /\ op'.kind = op.kind /\ op'.gen = op.gen BY <1>1, GotoStep DEF Pcs
  <2>2. disk.reserved = {op.gen} /\ disk.active = op.gen
        BY <1>0 DEF RegisterInv, OnlyCandidate, Selecting, StoreInv, OpInv, CandidateIsWhole
  <2>3. \A e \in may' : e.reserved = {op'.gen} /\ e.active = op'.gen
        BY <1>1, <2>1, <2>2, SyncSelection
  <2>4. OnlyCandidate' BY <2>1, <2>3 DEF OnlyCandidate, Writing, Selecting
  <2> QED BY <1>1, <2>1, <2>4, SyncSelection, SameSelectionStep DEF SyncMarker, RegisterInv
<1>2. CASE NoChange /\ Fail BY <1>2, QuietSelection, QuietFailStep DEF SyncMarker
<1> QED BY <1>1, <1>2 DEF SyncMarker, PromotionDurabilityUnknown

LEMMA SyncReleaseRegister == ASSUME StoreInv, RegisterInv, SyncRelease PROVE RegisterStep
<1>1. CASE SyncDirectory /\ op' = IF op.open THEN Idle ELSE AfterRecovery
  <2>1. op'.kind # "legacy" /\ op'.pc \in {"idle", "begin"} BY <1>1, AfterRecoveryStep, IdleFields
  <2> QED BY <1>1, <2>1, SyncSelection, WaitingCandidate, SameSelectionStep DEF SyncRelease
<1>2. CASE NoChange /\ Fail BY <1>2, QuietSelection, QuietFailStep DEF SyncRelease
<1> QED BY <1>1, <1>2 DEF SyncRelease

LEMMA DropTransactionRegister == ASSUME StoreInv, RegisterInv, DropTransaction PROVE RegisterStep
BY DropSelection, IdleFields, WaitingCandidate, SameSelectionStep, Zenon DEF DropTransaction

LEMMA RecoverRegister == ASSUME StoreInv, RegisterInv, Recover PROVE RegisterStep
<1>1. op'.pc = "idle" /\ op'.kind # "legacy" /\ UNCHANGED <<legacy, committed>>
      BY Zenon DEF Recover, At, RegisterInv
<1> QED BY <1>1, RecoverSelection, WaitingCandidate, SameSelectionStep

LEMMA ProcessCrashRegister == ASSUME StoreInv, RegisterInv, ProcessCrash PROVE RegisterStep
<1>1. op' = Idle /\ UNCHANGED legacy BY DEF ProcessCrash, RegisterInv
<1> QED BY <1>1, QuietSelection, IdleFields, WaitingCandidate, SameSelectionStep DEF ProcessCrash

-----------------------------------------------------------------------------
(* Steps of the register: Reserve, Select, Commit and Interrupt *)

LEMMA CreateReservationRegister ==
  ASSUME StoreInv, RegisterInv, CreateReservation PROVE RegisterStep
<1> SUFFICES ASSUME NEW o, o = op.gen PROVE RegisterStep OBVIOUS
<1>0. /\ o \in Generations /\ op.pc = "reserve" /\ disk \in may /\ may \subseteq Disks
      /\ UNCHANGED <<legacy, committed>>
      BY OpenGeneration DEF CreateReservation, At, BeforeReservation, StoreInv, TypeOK
<1>1. CASE /\ LET F(d) == [d EXCEPT !.reserved = @ \cup {op.gen}] IN Change(F)
           /\ op' = [op EXCEPT !.pc = "reserved", !.reserved = TRUE]
  <2> DEFINE G(d) == [d EXCEPT !.reserved = @ \cup {o}]
  <2>1. disk' = G(disk) /\ may' = may \cup {G(d) : d \in may} BY <1>1 DEF Change
  <2>2. \A d \in may : G(d).active = d.active /\ G(d).reserved = d.reserved \cup {o}
        BY <1>0, ReservedFields
  <2> HIDE DEF G
  <2>3. \A d \in may : d.reserved = {} BY <1>0 DEF RegisterInv, OnlyCandidate
  <2>4. \A d \in may : d.active = disk.active /\ d.active \in {committed} \cup d.reserved
        BY <1>0, <2>3 DEF RegisterInv, Undecided, UncertainSelectionBlocks
  <2>5. /\ disk'.reserved = {o} /\ disk'.active = disk.active
        /\ disk'.reserved = disk.reserved \cup {o}
        BY <1>0, <2>1, <2>2, <2>3
  <2>6. \A e \in may' : e.reserved \in {{}, {o}} /\ e.active = disk.active BY <2>1, <2>2, <2>3, <2>4
  <2>7. disk.active = committed BY <1>0, <2>3, <2>4
  <2>8. Undecided' BY <1>0, <2>5, <2>6, <2>7, Zenon DEF Undecided, UncertainSelectionBlocks
  <2>9. op'.pc = "reserved" /\ op'.gen = o /\ op'.kind = op.kind
    <3>1. op \in OpStates BY DEF StoreInv, TypeOK
    <3> QED BY <1>1, <3>1, Zenon DEF OpStates
  <2>10. OnlyCandidate' BY <2>5, <2>6, <2>9 DEF OnlyCandidate, Writing, Selecting
  <2>11. RegisterInv' BY <1>0, <2>8, <2>9, <2>10 DEF RegisterInv
  <2>12. Register!Reserve(o) BY <1>0, <2>5 DEF Register!Reserve
  <2> QED BY <1>0, <2>11, <2>12 DEF RegisterStep, Register!Next
<1>2. CASE NoChange /\ Fail BY <1>0, <1>2, QuietSelection, QuietFailStep
<1> QED BY <1>1, <1>2 DEF CreateReservation

LEMMA ReplaceMarkerRegister ==
  ASSUME StoreInv, RegisterInv, ReplaceMarker PROVE RegisterStep
<1> SUFFICES ASSUME NEW o, o = op.gen PROVE RegisterStep OBVIOUS
<1>0. /\ o \in Generations /\ op.pc = "replace" /\ disk \in may /\ may \subseteq Disks
      /\ UNCHANGED <<legacy, committed>>
      BY OpenGeneration DEF ReplaceMarker, At, Selecting, StoreInv, TypeOK
<1>1. CASE /\ LET F(d) == [d EXCEPT !.active = op.gen, !.temporary = @ \ {op.gen}] IN Change(F)
           /\ op' = [op EXCEPT !.pc = "replaced", !.replaced = op.open]
  <2> DEFINE G(d) == [d EXCEPT !.active = o, !.temporary = @ \ {o}]
  <2>1. disk' = G(disk) /\ may' = may \cup {G(d) : d \in may} BY <1>1, Zenon DEF Change
  <2>2. \A d \in may : G(d).active = o /\ G(d).reserved = d.reserved BY <1>0, MarkerFields, Zenon
  <2> HIDE DEF G
  <2>3. \A d \in may : d.reserved = {o} /\ d.active \in {committed} \cup d.reserved
        BY <1>0 DEF RegisterInv, OnlyCandidate, Selecting, Undecided
  <2>4. disk'.active = o /\ disk'.reserved = disk.reserved /\ disk.reserved = {o}
        BY <1>0, <2>1, <2>2, <2>3
  <2>5. \A e \in may' : e.reserved = {o} /\ e.active \in {committed, o} BY <2>1, <2>2, <2>3
  <2>6. Undecided' BY <1>0, <2>4, <2>5 DEF Undecided, UncertainSelectionBlocks
  <2>7. op'.pc = "replaced" /\ op'.gen = o /\ op'.kind = op.kind
    <3>1. op \in OpStates BY DEF StoreInv, TypeOK
    <3> QED BY <1>1, <3>1, Zenon DEF OpStates
  <2>8. OnlyCandidate' BY <2>5, <2>7 DEF OnlyCandidate, Writing, Selecting
  <2>9. RegisterInv' BY <1>0, <2>6, <2>7, <2>8 DEF RegisterInv
  <2>10. Register!Select(o) BY <1>0, <2>4 DEF Register!Select
  <2> QED BY <1>0, <2>9, <2>10 DEF RegisterStep, Register!Next
<1>2. CASE LET F(d) == RemoveTemporary(op.gen, d) IN Change(F) /\ Fail
  <2>1. SameSelection BY <1>0, <1>2, TemporaryView, SameViewSelection, Zenon DEF Change
  <2> QED BY <1>0, <1>2, <2>1, QuietFailStep
<1>3. CASE NoChange /\ Fail BY <1>0, <1>3, QuietSelection, QuietFailStep
<1> QED BY <1>1, <1>2, <1>3 DEF ReplaceMarker

LEMMA ReleaseReservationRegister ==
  ASSUME StoreInv, RegisterInv, ReleaseReservation PROVE RegisterStep
<1> SUFFICES ASSUME NEW o, o = op.gen PROVE RegisterStep OBVIOUS
<1>0. /\ o \in Generations /\ op.pc = "release" /\ disk \in may /\ may \subseteq Disks
      /\ UNCHANGED legacy
      BY OpenGeneration DEF ReleaseReservation, At, Selecting, StoreInv, TypeOK
<1>1. CASE /\ LET F(d) == [d EXCEPT !.reserved = @ \ {op.gen}] IN Change(F)
           /\ committed' = op.gen /\ Goto("released")
  <2> DEFINE G(d) == [d EXCEPT !.reserved = @ \ {o}]
  <2>1. disk' = G(disk) /\ may' = may \cup {G(d) : d \in may} BY <1>1 DEF Change
  <2>2. \A d \in may : G(d).active = d.active /\ G(d).reserved = d.reserved \ {o}
        BY <1>0, ReleasedFields, ZenonT(60)
  <2> HIDE DEF G
  <2>3. \A d \in may : d.reserved = {o} /\ d.active = o
        BY <1>0, Zenon DEF RegisterInv, OnlyCandidate, Selecting
  <2>4. /\ disk'.active = disk.active /\ disk.active = o /\ disk.reserved = {o}
        /\ disk'.reserved = disk.reserved \ {o}
        BY <1>0, <2>1, <2>2, <2>3
  <2>5. \A e \in may' : e.reserved \in {{}, {o}} /\ e.active = o BY <2>1, <2>2, <2>3
  <2>6. Undecided' BY <1>1, <2>4, <2>5 DEF Undecided, UncertainSelectionBlocks
  <2>7. op'.pc = "released" /\ op'.kind = op.kind BY <1>1, GotoStep DEF Pcs
  <2>8. RegisterInv' BY <1>0, <2>6, <2>7, WaitingCandidate DEF RegisterInv
  <2>9. Register!Commit(o) BY <1>1, <2>4 DEF Register!Commit
  <2> QED BY <1>0, <2>8, <2>9 DEF RegisterStep, Register!Next
<1>2. CASE NoChange /\ UNCHANGED committed /\ Fail BY <1>0, <1>2, QuietSelection, QuietFailStep
<1> QED BY <1>1, <1>2 DEF ReleaseReservation

LEMMA PowerLossRegister == ASSUME StoreInv, RegisterInv, PowerLoss PROVE RegisterStep
<1>1. /\ disk' \in may /\ may' = {disk'} /\ op' = Idle /\ legacy' = NoLegacy
      /\ UNCHANGED committed /\ disk' \in Disks
      BY DEF PowerLoss, StoreInv, TypeOK
<1>2. /\ disk'.reserved \subseteq disk.reserved \cup {committed}
      /\ disk'.active \in {committed} \cup disk'.reserved
      /\ \A g, h \in disk'.reserved : g = h
      BY <1>1 DEF RegisterInv, Undecided
<1>3. Undecided' BY <1>1, <1>2 DEF Undecided, UncertainSelectionBlocks
<1>4. RegisterInv' BY <1>1, <1>3, IdleFields, WaitingCandidate DEF RegisterInv
<1>5. Register!Interrupt BY <1>1, <1>2 DEF Register!Interrupt, Disks
<1> QED BY <1>4, <1>5 DEF RegisterStep, Register!Next

LEMMA RegisterInit == Init => RegisterInv /\ Register!Init
<1> SUFFICES ASSUME Init PROVE RegisterInv /\ Register!Init OBVIOUS
<1>1. PICK n \in 0..2 : /\ disk = Store(n) /\ may = {Store(n)} /\ committed = n /\ op = Idle
                        /\ legacy = NoLegacy
      BY DEF Init
<1>2. disk.active = n /\ disk.reserved = {} BY <1>1, StoreFields
<1>3. Undecided BY <1>1, <1>2 DEF Undecided, UncertainSelectionBlocks
<1>4. OnlyCandidate BY <1>1, IdleFields DEF OnlyCandidate, Writing, Selecting
<1>5. n \in Generations \cup {0} BY MaxGenerationAssumption DEF Generations
<1> QED BY <1>1, <1>2, <1>3, <1>4, <1>5, IdleFields DEF RegisterInv, Register!Init

LEMMA RegisterNext ==
  ASSUME "legacy" \notin Operations
  PROVE  StoreInv /\ RegisterInv /\ [Next]_vars => RegisterStep
<1> SUFFICES ASSUME StoreInv, RegisterInv, [Next]_vars PROVE RegisterStep OBVIOUS
<1>1. CASE Session
  <2>1. ASSUME NEW k \in Operations, Start(k) PROVE RegisterStep BY <2>1, StartRegister
  <2>2. CASE \/ RecoverSync \/ RecoverInspect \/ Begin \/ RenameStage \/ SyncRename
             \/ CreateReservation \/ SyncReservation
        BY <2>2, RecoverSyncRegister, RecoverInspectRegister, BeginRegister, RenameStageRegister,
           SyncRenameRegister, CreateReservationRegister, SyncReservationRegister
  <2>3. CASE CreateMember \/ FillMember \/ RemoveIdentity \/ Export \/ FinishExport
        BY <2>3, CreateMemberRegister, FillMemberRegister, RemoveIdentityRegister, ExportRegister,
           FinishExportRegister
  <2>4. CASE \/ WriteMarker \/ ReplaceMarker \/ SyncMarker \/ ReleaseReservation \/ SyncRelease
             \/ DropTransaction
        BY <2>4, WriteMarkerRegister, ReplaceMarkerRegister, SyncMarkerRegister,
           ReleaseReservationRegister, SyncReleaseRegister, DropTransactionRegister
  <2> QED BY <1>1, <2>1, <2>2, <2>3, <2>4 DEF Session
<1>2. ~LegacyTool
      BY IdleFields DEF LegacyTool, LegacyInspect, LegacyReserve, LegacySync, LegacyLease, RegisterInv
<1>3. CASE Recover BY <1>3, RecoverRegister
<1>4. CASE ProcessCrash BY <1>4, ProcessCrashRegister
<1>5. CASE PowerLoss BY <1>5, PowerLossRegister
<1>6. CASE UNCHANGED vars
  <2>1. NoChange /\ UNCHANGED <<op, legacy, committed>> BY <1>6 DEF vars, NoChange
  <2>2. OnlyCandidate' BY <2>1 DEF RegisterInv, OnlyCandidate, NoChange
  <2> QED BY <2>1, <2>2, QuietSelection, SameSelectionStep DEF RegisterInv
<1> QED BY <1>1, <1>2, <1>3, <1>4, <1>5, <1>6 DEF Next

LEMMA RegisterInvariant ==
  ASSUME "legacy" \notin Operations
  PROVE  Spec => [](StoreInv /\ RegisterInv)
<1>1. Init => StoreInv /\ RegisterInv BY InitInv, RegisterInit
<1>2. StoreInv /\ RegisterInv /\ [Next]_vars => (StoreInv /\ RegisterInv)'
      BY NextInv, RegisterNext DEF RegisterStep
<1> QED BY <1>1, <1>2, PTL DEF Spec

LEMMA CandidateIsOne == StoreInv /\ RegisterInv => OneCandidate /\ UncertainSelectionBlocks
<1> SUFFICES ASSUME StoreInv, RegisterInv PROVE OneCandidate /\ UncertainSelectionBlocks OBVIOUS
<1>1. ASSUME NEW d \in may PROVE Cardinality(d.reserved) <= 1
  <2>1. CASE d.reserved = {} BY <2>1, FS_EmptySet
  <2>2. CASE d.reserved # {}
    <3>1. PICK g \in d.reserved : TRUE BY <2>2
    <3>2. d.reserved = {g} BY <3>1 DEF RegisterInv, Undecided
    <3>3. Cardinality({g}) = 1 BY FS_Singleton
    <3> QED BY <3>2, <3>3
  <2> QED BY <2>1, <2>2
<1> QED BY <1>1 DEF OneCandidate, RegisterInv, Undecided

\* Whatever a power loss leaves, the active marker selects a complete pair;
\* what the SEP was told to save or remove stays on disk until it is selected
\* durably; and without the legacy tool there is never a second candidate, and
\* one that is undecided blocks new transactions (catacomb_store.rs).
THEOREM StoreKeepsPairs == Spec => []StoreIsKept
<1>1. CASE "legacy" \in Operations
  <2>1. StoreInv => StoreIsKept BY <1>1, KeptWholly DEF StoreIsKept
  <2> QED BY <2>1, StoreInvariant, PTL
<1>2. CASE "legacy" \notin Operations
  <2>1. StoreInv /\ RegisterInv => StoreIsKept BY KeptWholly, CandidateIsOne DEF StoreIsKept
  <2>2. Spec => [](StoreInv /\ RegisterInv) BY <1>2, RegisterInvariant
  <2> QED BY <2>1, <2>2, PTL
<1> QED BY <1>1, <1>2

\* The detailed store implements PairRegister: creating the reservation
\* reserves a candidate, replacing the marker selects it, releasing the
\* reservation commits it, a power loss interrupts, and no other system call
\* is seen (catacomb_store.rs, without the concurrent legacy tool).
THEOREM StoreImplementsRegister ==
  ASSUME "legacy" \notin Operations
  PROVE  Spec => ImplementsRegister
<1>1. Init => Register!Init BY RegisterInit
<1>2. StoreInv /\ RegisterInv /\ [Next]_vars => [Register!Next]_(Register!vars)
      BY RegisterNext DEF RegisterStep
<1> QED BY <1>1, <1>2, RegisterInvariant, PTL DEF Spec, ImplementsRegister, Register!Spec
=============================================================================
