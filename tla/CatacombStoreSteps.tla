------------------------- MODULE CatacombStoreSteps -------------------------
(***************************************************************************)
(* Lemmas about the directory and the operation of CatacombStore, and that *)
(* the steps which start an operation, talk to the SEP, synchronise,       *)
(* reserve and write the members of a pair keep its invariant.             *)
(***************************************************************************)
EXTENDS CatacombStore, TLAPS

-----------------------------------------------------------------------------
(* What the changes of a directory do to its fields *)

Places == {"none", "stage", "pair"}
Files == [Members -> Contents]

LEMMA PlaceFields ==
  ASSUME NEW d \in Disks, NEW g \in Generations, NEW p \in Places
  PROVE  /\ Place(g, p, d) \in Disks
         /\ Place(g, p, d).active = d.active /\ Place(g, p, d).files = d.files
         /\ Place(g, p, d).reserved = d.reserved
         /\ Place(g, p, d).place[g] = p
         /\ \A h \in Generations : h # g => Place(g, p, d).place[h] = d.place[h]
BY Zenon DEF Place, Disks, Places

LEMMA FillFields ==
  ASSUME NEW d \in Disks, NEW g \in Generations, NEW m \in Members, NEW c \in Contents
  PROVE  /\ Fill(g, m, c, d) \in Disks
         /\ Fill(g, m, c, d).active = d.active /\ Fill(g, m, c, d).place = d.place
         /\ Fill(g, m, c, d).reserved = d.reserved
         /\ \A h \in Generations : h # g => Fill(g, m, c, d).files[h] = d.files[h]
         /\ Fill(g, m, c, d).files[g][m] = c
         /\ \A n \in Members : n # m => Fill(g, m, c, d).files[g][n] = d.files[g][n]
BY Zenon DEF Fill, Disks

LEMMA RemoveFields ==
  ASSUME NEW d \in Disks, NEW g \in Generations
  PROVE  /\ Remove(g, d) \in Disks
         /\ Remove(g, d).active = d.active /\ Remove(g, d).reserved = d.reserved
         /\ \A h \in Generations : h # g => Remove(g, d).files[h] = d.files[h]
         /\ Remove(g, d).files[g] = NoFiles
         /\ Remove(g, d).place[g] = "none"
         /\ \A h \in Generations : h # g => Remove(g, d).place[h] = d.place[h]
BY Zenon DEF Remove, Disks, NoFiles, Contents

LEMMA TemporaryFields ==
  ASSUME NEW d \in Disks, NEW g \in Generations
  PROVE  /\ RemoveTemporary(g, d) \in Disks
         /\ RemoveTemporary(g, d).active = d.active /\ RemoveTemporary(g, d).reserved = d.reserved
         /\ RemoveTemporary(g, d).files = d.files /\ RemoveTemporary(g, d).place = d.place
         /\ [d EXCEPT !.temporary = @ \cup {g}] \in Disks
         /\ [d EXCEPT !.temporary = @ \cup {g}].active = d.active
         /\ [d EXCEPT !.temporary = @ \cup {g}].reserved = d.reserved
         /\ [d EXCEPT !.temporary = @ \cup {g}].files = d.files
         /\ [d EXCEPT !.temporary = @ \cup {g}].place = d.place
BY ZenonT(60) DEF RemoveTemporary, Disks

LEMMA MarkerFields ==
  ASSUME NEW d \in Disks, NEW g \in Generations
  PROVE  /\ [d EXCEPT !.active = g, !.temporary = @ \ {g}] \in Disks
         /\ [d EXCEPT !.active = g, !.temporary = @ \ {g}].active = g
         /\ [d EXCEPT !.active = g, !.temporary = @ \ {g}].reserved = d.reserved
         /\ [d EXCEPT !.active = g, !.temporary = @ \ {g}].files = d.files
         /\ [d EXCEPT !.active = g, !.temporary = @ \ {g}].place = d.place
BY Zenon DEF Disks

LEMMA ReservedFields ==
  ASSUME NEW d \in Disks, NEW g \in Generations
  PROVE  /\ [d EXCEPT !.reserved = @ \cup {g}] \in Disks
         /\ [d EXCEPT !.reserved = @ \cup {g}].active = d.active
         /\ [d EXCEPT !.reserved = @ \cup {g}].reserved = d.reserved \cup {g}
         /\ [d EXCEPT !.reserved = @ \cup {g}].files = d.files
         /\ [d EXCEPT !.reserved = @ \cup {g}].place = d.place
BY Zenon DEF Disks

LEMMA ReleasedFields ==
  ASSUME NEW d \in Disks, NEW g \in Generations
  PROVE  /\ [d EXCEPT !.reserved = @ \ {g}] \in Disks
         /\ [d EXCEPT !.reserved = @ \ {g}].active = d.active
         /\ [d EXCEPT !.reserved = @ \ {g}].reserved = d.reserved \ {g}
         /\ [d EXCEPT !.reserved = @ \ {g}].files = d.files
         /\ [d EXCEPT !.reserved = @ \ {g}].place = d.place
BY Zenon DEF Disks

LEMMA SyncedFields ==
  ASSUME NEW now \in Disks, NEW survivors \in SUBSET Disks, NEW e \in Synced(now, survivors)
  PROVE  /\ e \in Disks /\ e.active = now.active /\ e.reserved = now.reserved
         /\ e.place = now.place
         /\ \E d \in survivors : \A g \in Generations :
              e.files[g] = IF now.place[g] = "none" THEN NoFiles ELSE d.files[g]
<1> DEFINE S(d) == [now EXCEPT !.files = [g \in Generations |->
                      IF now.place[g] = "none" THEN NoFiles ELSE d.files[g]]]
<1>1. PICK d \in survivors : e = S(d) BY DEF Synced
<1>2. NoFiles \in Files BY DEF NoFiles, Files, Contents
<1>3. d.files \in [Generations -> Files] BY DEF Disks, Files
<1>4. [g \in Generations |-> IF now.place[g] = "none" THEN NoFiles ELSE d.files[g]]
        \in [Generations -> Files]
      BY <1>2, <1>3
<1>5. S(d) \in Disks BY <1>4, Zenon DEF Disks, Files
<1>6. /\ S(d).active = now.active /\ S(d).reserved = now.reserved /\ S(d).place = now.place
      /\ \A g \in Generations :
           S(d).files[g] = IF now.place[g] = "none" THEN NoFiles ELSE d.files[g]
      BY DEF Disks
<1> QED BY <1>1, <1>5, <1>6

-----------------------------------------------------------------------------
(* The operation's record *)

LEMMA IdleFields ==
  /\ Idle \in OpStates /\ Idle.pc = "idle" /\ Idle.kind = "none" /\ Idle.open = FALSE
  /\ NoLegacy \in [pc: {"idle", "create", "created", "ready"}, gen: Generations \cup {None}]
  /\ NoLegacy.pc = "idle"
BY Zenon DEF Idle, OpStates, Pcs, Members, NoLegacy

LEMMA GotoFields ==
  \A o \in OpStates : \A p \in Pcs :
    /\ [o EXCEPT !.pc = p] \in OpStates /\ [o EXCEPT !.pc = p].pc = p
    /\ [o EXCEPT !.pc = p].kind = o.kind /\ [o EXCEPT !.pc = p].gen = o.gen
    /\ [o EXCEPT !.pc = p].member = o.member /\ [o EXCEPT !.pc = p].open = o.open
    /\ [o EXCEPT !.pc = p].reserved = o.reserved
BY Zenon DEF OpStates

LEMMA MemberFields ==
  \A o \in OpStates : \A p \in Pcs : \A m \in Members :
    /\ [o EXCEPT !.pc = p, !.member = m] \in OpStates
    /\ [o EXCEPT !.pc = p, !.member = m].pc = p
    /\ [o EXCEPT !.pc = p, !.member = m].member = m
    /\ [o EXCEPT !.pc = p, !.member = m].kind = o.kind
    /\ [o EXCEPT !.pc = p, !.member = m].gen = o.gen
    /\ [o EXCEPT !.pc = p, !.member = m].open = o.open
    /\ [o EXCEPT !.pc = p, !.member = m].reserved = o.reserved
BY ZenonT(60) DEF OpStates

LEMMA FailFields ==
  ASSUME TypeOK, Fail
  PROVE  /\ op' \in OpStates
         /\ \/ op' = Idle
            \/ /\ op.open /\ op'.pc = "drop" /\ op'.kind = op.kind /\ op'.gen = op.gen
               /\ op'.open = op.open /\ op'.reserved = op.reserved
<1>1. op \in OpStates /\ "drop" \in Pcs BY DEF TypeOK, Pcs
<1>2. CASE op.open
  <2>1. op' = [op EXCEPT !.pc = "drop"] BY <1>2 DEF Fail
  <2>2. /\ op' \in OpStates /\ op'.pc = "drop" /\ op'.kind = op.kind /\ op'.gen = op.gen
        /\ op'.open = op.open /\ op'.reserved = op.reserved
        BY <1>1, <2>1, GotoFields, Zenon
  <2> QED BY <1>2, <2>2
<1>3. CASE ~op.open BY <1>3, IdleFields DEF Fail
<1> QED BY <1>2, <1>3

LEMMA IdleOpInv == ASSUME op' = Idle PROVE OpInv'
BY IdleFields DEF OpInv, OpIsOpen, Reserving, MembersInOrder, CandidateIsWhole,
                  BeforeReservation, Writing, Selecting

(* An operation that has only taken the lease, or resolved what was left. *)
LEMMA WaitingOpInv ==
  ASSUME NEW k \in {"none", "enroll", "label", "delete", "legacy"}, NEW p \in {"sync", "begin"},
         op' = [Idle EXCEPT !.kind = k, !.pc = p]
  PROVE  OpInv' /\ op' \in OpStates /\ op'.kind = k /\ op'.pc = p
<1>1. op' \in OpStates /\ op'.pc = p /\ op'.open = FALSE /\ op'.kind = k
      BY IdleFields, Zenon DEF OpStates, Pcs
<1>2. OpInv' BY <1>1 DEF OpInv, OpIsOpen, Reserving, MembersInOrder, CandidateIsWhole,
                         BeforeReservation, Writing, Selecting
<1> QED BY <1>1, <1>2

(* A failed step leaves what Drop relies on. *)
LEMMA FailOpInv ==
  ASSUME TypeOK, OpInv, Fail, next' \in Nat, next <= next',
         op.open /\ ~op.reserved => /\ native'[op.gen] = {} /\ op.gen \notin settled'
                                    /\ \A d \in may' : d.active # op.gen
  PROVE  OpInv' /\ op' \in OpStates
<1>1. op' \in OpStates BY FailFields
<1>2. CASE op' = Idle BY <1>1, <1>2, IdleOpInv
<1>3. CASE /\ op.open /\ op'.pc = "drop" /\ op'.gen = op.gen
           /\ op'.open = op.open /\ op'.reserved = op.reserved
  <2>1. op.gen \in Generations /\ op.gen < next' 
        BY <1>3, MaxGenerationAssumption DEF OpInv, OpIsOpen, TypeOK, Generations
  <2> QED BY <1>1, <1>3, <2>1 DEF OpInv, OpIsOpen, Reserving, MembersInOrder, CandidateIsWhole,
                                  BeforeReservation, Writing, Selecting
<1> QED BY <1>2, <1>3, FailFields

(* What an operation relies on while it writes, and while it selects. *)
LEMMA WritingOpInv ==
  ASSUME NEW o \in Generations, op'.gen = o, op'.pc \in Writing, op'.open = TRUE, op'.reserved = TRUE,
         o < next', o \notin settled',
         \A d \in may' : d.active # o /\ d.place[o] = "pair" /\ o \in d.reserved,
         op'.member \notin native'[o],
         op'.member = "metadata" => native'[o] = {} /\ op'.pc \in {"create", "fill"},
         op'.member # "metadata" => \A d \in may' : d.files[o]["metadata"] # "torn",
         op'.member = "master" => "user" \in native'[o],
         op'.pc = "remove" =>
           op'.member = "user" /\ \A d \in may' : d.files[o]["metadata"] \in Manifests,
         op'.pc = "finish" => \A d \in may' : d.files[o][op'.member] = "whole"
  PROVE  OpInv'
BY DEF OpInv, OpIsOpen, Reserving, MembersInOrder, CandidateIsWhole,
       BeforeReservation, Writing, Selecting

LEMMA SelectingOpInv ==
  ASSUME NEW o \in Generations, op'.gen = o, op'.pc \in Selecting \cup {"released"},
         op'.open => op'.reserved /\ o < next',
         op'.pc # "released" => \A d \in may' : Whole(d, o),
         op'.pc = "replaced" => disk'.active = o,
         op'.pc = "release" => o \in settled'
  PROVE  OpInv'
BY DEF OpInv, OpIsOpen, Reserving, MembersInOrder, CandidateIsWhole,
       BeforeReservation, Writing, Selecting

Writes(o) ==
  /\ o = op.gen /\ o \in Generations /\ op.open = TRUE /\ op.reserved = TRUE /\ o < next
  /\ o \notin settled /\ op.member \notin native[o] /\ op \in OpStates
  /\ \A d \in may : d.active # o /\ d.place[o] = "pair" /\ o \in d.reserved
  /\ op.member = "metadata" => native[o] = {}
  /\ op.member # "metadata" => \A d \in may : d.files[o]["metadata"] # "torn"
  /\ op.member = "master" => "user" \in native[o]

LEMMA WritingFacts ==
  ASSUME StoreInv, op.pc \in Writing, NEW o, o = op.gen
  PROVE  Writes(o)
<1>1. op \in OpStates BY DEF StoreInv, TypeOK
<1>2. op.open /\ op.reserved
      BY DEF StoreInv, OpInv, OpIsOpen, BeforeReservation, Writing
<1>3. op.open = TRUE /\ op.reserved = TRUE BY <1>1, <1>2 DEF OpStates
<1> QED BY <1>1, <1>2, <1>3 DEF StoreInv, OpInv, OpIsOpen, Reserving, MembersInOrder, Writes

-----------------------------------------------------------------------------
(* A generation that a step leaves alone *)

LEMMA GenerationStable ==
  ASSUME NEW g \in Generations, GenerationInv(g),
         \A e \in may' : \E d \in may :
            /\ e.active = g => d.active = g
            /\ e.place[g] = d.place[g] /\ e.files[g] = d.files[g]
            /\ g \notin settled /\ g \in d.reserved => g \in e.reserved,
         disk'.place[g] = disk.place[g], disk'.files[g] = disk.files[g],
         native'[g] = native[g], g \in settled' <=> g \in settled,
         g >= next' => g >= next
  PROVE  GenerationInv(g)'
<1>1. FreshIsUnused(g)' BY DEF GenerationInv, FreshIsUnused
<1>2. NothingInNone(g)' BY DEF GenerationInv, NothingInNone
<1>3. WholeEverywhere(g)'
  <2>1. Whole(disk, g)' <=> Whole(disk, g) BY DEF Whole, Readable
  <2>2. ASSUME NEW e \in may', (\E d \in may : d.active = g) \/ (g \in settled /\ Whole(disk, g))
        PROVE  Whole(e, g)
        BY <2>2 DEF GenerationInv, WholeEverywhere, Whole, Readable
  <2>3. (\E d \in may' : d.active = g) => \E d \in may : d.active = g OBVIOUS
  <2> QED BY <2>1, <2>2, <2>3 DEF WholeEverywhere
<1>4. SavedInOrder(g)' BY DEF GenerationInv, SavedInOrder
<1>5. SavedIsKept(g)'
  <2> SUFFICES ASSUME g \notin settled, native[g] # {}, NEW e \in may'
               PROVE  /\ g \in e.reserved
                      /\ e.place[g] = "pair"
                      /\ \A m \in native[g] \cap Members : e.files[g][m] = "whole"
                      /\ "removed" \in native[g] => e.files[g]["metadata"] \in Manifests
      BY DEF SavedIsKept
  <2>1. PICK d \in may : /\ e.place[g] = d.place[g] /\ e.files[g] = d.files[g]
                         /\ g \notin settled /\ g \in d.reserved => g \in e.reserved
        OBVIOUS
  <2> QED BY <2>1 DEF GenerationInv, SavedIsKept
<1> QED BY <1>1, <1>2, <1>3, <1>4, <1>5 DEF GenerationInv

-----------------------------------------------------------------------------
(* Synchronisation *)

LEMMA SyncedSelf ==
  ASSUME NEW survivors \in SUBSET Disks, NEW now \in survivors,
         \A g \in Generations : now.place[g] = "none" => now.files[g] = NoFiles
  PROVE  now \in Synced(now, survivors)
<1> DEFINE f == [g \in Generations |-> IF now.place[g] = "none" THEN NoFiles ELSE now.files[g]]
<1>1. now \in [active: Generations \cup {None}, place: [Generations -> {"none", "stage", "pair"}],
               files: [Generations -> [Members -> Contents]],
               reserved: SUBSET Generations, temporary: SUBSET Generations]
      BY DEF Disks
<1>2. now.files = f BY <1>1
<1>3. now = [now EXCEPT !.files = f]
  <2> HIDE DEF f
  <2> QED BY <1>1, <1>2
<1> QED BY <1>3 DEF Synced

LEMMA SyncFacts ==
  ASSUME StoreInv, SyncDirectory
  PROVE  /\ disk' = disk /\ disk' \in may' /\ may' \subseteq Disks
         /\ settled' = settled \cup ({disk.active} \ {None}) /\ settled' \subseteq Generations
         /\ \A e \in may' : /\ e.active = disk.active /\ e.reserved = disk.reserved
                            /\ e.place = disk.place
                            /\ \E d \in may : \A g \in Generations :
                                 e.files[g] = IF disk.place[g] = "none" THEN NoFiles ELSE d.files[g]
<1>1. disk \in Disks /\ may \in SUBSET Disks /\ disk \in may /\ disk' = disk
      /\ may' = Synced(disk, may)
      BY DEF StoreInv, TypeOK, SyncDirectory
<1>2. \A e \in may' : /\ e \in Disks /\ e.active = disk.active /\ e.reserved = disk.reserved
                      /\ e.place = disk.place
                      /\ \E d \in may : \A g \in Generations :
                           e.files[g] = IF disk.place[g] = "none" THEN NoFiles ELSE d.files[g]
      BY <1>1, SyncedFields, Zenon
<1>3. disk \in Synced(disk, may)
  <2>1. \A g \in Generations : disk.place[g] = "none" => disk.files[g] = NoFiles
        BY <1>1 DEF StoreInv, GenerationInv, NothingInNone
  <2> QED BY <1>1, <2>1, SyncedSelf
<1>4. disk.active \in Generations \cup {None} BY <1>1 DEF Disks
<1> QED BY <1>1, <1>2, <1>3, <1>4 DEF SyncDirectory, StoreInv, TypeOK

LEMMA GenerationSynced ==
  ASSUME NEW g \in Generations, GenerationInv(g), disk \in may, UNCHANGED next,
         native'[g] = native[g], g \in settled' <=> g \in settled \/ disk.active = g,
         disk'.place[g] = disk.place[g], disk'.files[g] = disk.files[g],
         \A e \in may' :
           /\ e.active = disk.active /\ e.reserved = disk.reserved /\ e.place[g] = disk.place[g]
           /\ \E d \in may : e.files[g] = IF disk.place[g] = "none" THEN NoFiles ELSE d.files[g]
  PROVE  GenerationInv(g)'
<1>1. NoFiles["metadata"] = "absent" BY DEF NoFiles, Members
<1>2. FreshIsUnused(g)' BY DEF GenerationInv, FreshIsUnused
<1>3. NothingInNone(g)' BY DEF NothingInNone
<1>4. WholeEverywhere(g)'
  <2>1. Whole(disk, g)' <=> Whole(disk, g) BY DEF Whole, Readable
  <2>2. SUFFICES ASSUME (\E d \in may : d.active = g) \/ (g \in settled /\ Whole(disk, g)),
                        NEW e \in may'
                 PROVE  Whole(e, g)
        BY <2>1 DEF WholeEverywhere
  <2>3. \A d \in may : Whole(d, g) BY <2>2 DEF GenerationInv, WholeEverywhere
  <2> QED BY <2>3 DEF Whole, Readable
<1>5. SavedInOrder(g)'
  <2>1. SUFFICES ASSUME native[g] # {} \/ g \in settled', NEW e \in may'
                 PROVE  e.files[g]["metadata"] # "torn"
        BY DEF GenerationInv, SavedInOrder
  <2>2. disk.active = g => \A d \in may : Whole(d, g)
        BY DEF GenerationInv, WholeEverywhere
  <2>3. \A d \in may : d.files[g]["metadata"] # "torn"
        BY <2>1, <2>2 DEF GenerationInv, SavedInOrder, Whole, Readable
  <2> QED BY <1>1, <2>3
<1>6. SavedIsKept(g)'
  <2>1. SUFFICES ASSUME g \notin settled, native[g] # {}, NEW e \in may'
                 PROVE  /\ g \in e.reserved
                        /\ e.place[g] = "pair"
                        /\ \A m \in native[g] \cap Members : e.files[g][m] = "whole"
                        /\ "removed" \in native[g] => e.files[g]["metadata"] \in Manifests
      BY DEF SavedIsKept
  <2>2. PICK d \in may : e.files[g] = IF disk.place[g] = "none" THEN NoFiles ELSE d.files[g]
        OBVIOUS
  <2>3. disk.place[g] = "pair" /\ g \in disk.reserved
        BY <2>1 DEF GenerationInv, SavedIsKept
  <2> QED BY <2>1, <2>2, <2>3 DEF GenerationInv, SavedIsKept
<1> QED BY <1>2, <1>3, <1>4, <1>5, <1>6 DEF GenerationInv

LEMMA SyncGeneration ==
  ASSUME StoreInv, SyncDirectory, UNCHANGED <<native, next>>, NEW g \in Generations
  PROVE  GenerationInv(g)'
<1>1. disk \in may /\ GenerationInv(g) /\ None \notin Generations
      BY MaxGenerationAssumption DEF StoreInv, TypeOK, Generations, None
<1>2. g \in settled' <=> g \in settled \/ disk.active = g
      BY <1>1, SyncFacts
<1>3. ASSUME NEW e \in may'
      PROVE  /\ e.active = disk.active /\ e.reserved = disk.reserved /\ e.place[g] = disk.place[g]
             /\ \E d \in may : e.files[g] = IF disk.place[g] = "none" THEN NoFiles ELSE d.files[g]
      BY SyncFacts
<1>4. disk'.place[g] = disk.place[g] /\ disk'.files[g] = disk.files[g] BY SyncFacts
<1> QED BY <1>1, <1>2, <1>3, <1>4, GenerationSynced

-----------------------------------------------------------------------------
(* Steps that change no directory *)

LEMMA QuietGeneration ==
  ASSUME StoreInv, NoChange, UNCHANGED <<next, native, settled>>
  PROVE  \A g \in Generations : GenerationInv(g)'
<1> SUFFICES ASSUME NEW g \in Generations PROVE GenerationInv(g)' OBVIOUS
<1> QED BY GenerationStable DEF StoreInv, NoChange

LEMMA QuietInv ==
  ASSUME StoreInv, NoChange, UNCHANGED <<legacy, next, native, settled>>,
         committed' \in Generations \cup {None}, op' \in OpStates, OpInv'
  PROVE  StoreInv'
<1>1. TypeOK' BY DEF StoreInv, TypeOK, NoChange
<1>2. LegacyInv' BY DEF StoreInv, LegacyInv
<1> QED BY <1>1, <1>2, QuietGeneration DEF StoreInv

LEMMA QuietFailInv ==
  ASSUME StoreInv, NoChange, Fail, UNCHANGED <<legacy, next, native, settled, committed>>
  PROVE  StoreInv'
<1>1. /\ next' \in Nat /\ next <= next' /\ committed' \in Generations \cup {None}
      BY MaxGenerationAssumption DEF StoreInv, TypeOK
<1>2. op.open /\ ~op.reserved => /\ native'[op.gen] = {} /\ op.gen \notin settled'
                                 /\ \A d \in may' : d.active # op.gen
      BY DEF StoreInv, OpInv, OpIsOpen, NoChange
<1>3. OpInv' /\ op' \in OpStates BY <1>1, <1>2, FailOpInv DEF StoreInv
<1> QED BY <1>1, <1>3, QuietInv

LEMMA StartInv ==
  ASSUME StoreInv, NEW k \in Operations, Start(k)
  PROVE  StoreInv'
<1>1. k \in {"none", "enroll", "label", "delete", "legacy"} /\ FirstStep(k) \in {"sync", "begin"}
      BY OperationsAssumption DEF Start, FirstStep
<1>2. OpInv' /\ op' \in OpStates BY <1>1, WaitingOpInv, Zenon DEF Start
<1> QED BY <1>2, QuietInv DEF Start, StoreInv, TypeOK

LEMMA RecoverInspectInv == ASSUME StoreInv, RecoverInspect PROVE StoreInv'
<1> USE DEF StoreInv
<1>0. /\ op \in OpStates /\ disk \in may /\ NoChange
      /\ UNCHANGED <<legacy, next, native, settled, committed>>
      /\ op.pc = "inspect" /\ ~op.open /\ committed \in Generations \cup {None}
      /\ op.kind \in {"none", "enroll", "label", "delete", "legacy"}
      BY Zenon DEF RecoverInspect, At, TypeOK, OpStates, OpInv, OpIsOpen
<1>1. CASE op' = AfterRecovery
  <2>1. OpInv' /\ op' \in OpStates
    <3>1. CASE op.kind = "legacy" BY <1>1, <3>1, IdleOpInv, IdleFields DEF AfterRecovery
    <3>2. CASE op.kind # "legacy"
      <4>1. op' = [Idle EXCEPT !.kind = op.kind, !.pc = "begin"] BY <1>1, <3>2 DEF AfterRecovery
      <4> QED BY <1>0, <4>1, WaitingOpInv, Zenon
    <3> QED BY <3>1, <3>2
  <2> QED BY <1>0, <2>1, QuietInv
<1>2. ASSUME NEW g \in Generations, LiveValidation(g),
             op' = [op EXCEPT !.gen = g, !.pc = AfterValidation(g)]
      PROVE  StoreInv'
  <2>1. \A d \in may : Whole(d, g)
    <3>1. GenerationInv(g) /\ Whole(disk, g) BY <1>2 DEF LiveValidation
    <3>2. CASE g \in settled BY <3>1, <3>2 DEF GenerationInv, WholeEverywhere
    <3>3. CASE g \notin settled
      <4>1. "master" \in native[g] /\ "user" \in native[g]
            BY <1>2, <3>1, <3>3 DEF LiveValidation, GenerationInv, SavedInOrder
      <4>2. \A d \in may : /\ d.place[g] = "pair" /\ d.files[g]["metadata"] # "torn"
                           /\ d.files[g]["master"] = "whole" /\ d.files[g]["user"] = "whole"
            BY <3>1, <3>3, <4>1 DEF GenerationInv, SavedIsKept, SavedInOrder, Members
      <4> QED BY <4>2 DEF Whole, Readable
    <3> QED BY <3>2, <3>3
  <2>2. AfterValidation(g) \in {"release", "marker"}
        /\ (AfterValidation(g) = "release" => disk.active = g)
        BY DEF AfterValidation
  <2>3. op' \in OpStates /\ op'.pc = AfterValidation(g) /\ op'.gen = g /\ op'.open = FALSE
    <3>1. AfterValidation(g) \in Pcs BY <2>2 DEF Pcs
    <3>2. op.open = FALSE BY <1>0 DEF OpStates
    <3> QED BY <1>0, <1>2, <3>1, <3>2, Zenon DEF OpStates
  <2>4. None \notin Generations BY DEF Generations, None
  <2>5. disk.active \in settled \cup {None} BY <1>0 DEF OpInv, CandidateIsWhole
  <2>6. /\ op'.gen \in Generations /\ \A d \in may' : Whole(d, op'.gen)
        /\ op'.pc = "release" => op'.gen \in settled'
        BY <1>0, <2>1, <2>2, <2>3, <2>4, <2>5 DEF NoChange
  <2>7. OpInv'
        BY <2>2, <2>3, <2>6 DEF OpInv, OpIsOpen, Reserving, MembersInOrder, CandidateIsWhole,
                                BeforeReservation, Writing, Selecting
  <2> QED BY <1>0, <2>3, <2>7, QuietInv
<1>3. CASE Fail BY <1>0, <1>3, QuietFailInv
<1> QED BY <1>1, <1>2, <1>3, Zenon DEF RecoverInspect

(* A command to the SEP: what the generation's SavedIsKept then demands. *)
LEMMA IssueGeneration ==
  ASSUME StoreInv, NoChange, UNCHANGED <<next, settled>>, NEW o \in Generations, o = op.gen, o < next,
         NEW c \in {"removed", "saved", "user", "master"}, Issue(c),
         o \notin settled,
         \A d \in may : /\ o \in d.reserved /\ d.place[o] = "pair"
                        /\ d.files[o]["metadata"] # "torn"
                        /\ c \in Members => d.files[o][c] = "whole"
                        /\ c = "removed" => d.files[o]["metadata"] \in Manifests,
         c = "master" => "user" \in native[o]
  PROVE  /\ native' \in [Generations -> SUBSET {"removed", "saved", "user", "master"}]
         /\ native'[o] = native[o] \cup {c}
         /\ \A g \in Generations : GenerationInv(g)'
<1>0. native \in [Generations -> SUBSET {"removed", "saved", "user", "master"}]
      BY DEF StoreInv, TypeOK
<1>1. /\ native' \in [Generations -> SUBSET {"removed", "saved", "user", "master"}]
      /\ native'[o] = native[o] \cup {c}
      /\ \A g \in Generations : g # o => native'[g] = native[g]
      BY <1>0 DEF Issue
<1>2. ASSUME NEW g \in Generations, g # o PROVE GenerationInv(g)'
      BY <1>1, <1>2, GenerationStable DEF StoreInv, NoChange
<1>3. GenerationInv(o)'
  <2>0. GenerationInv(o) BY DEF StoreInv
  <2>1. FreshIsUnused(o)'
    <3>1. next \in Nat /\ o \in Nat /\ next' = next
          BY MaxGenerationAssumption DEF StoreInv, TypeOK, Generations
    <3>2. ~(o >= next) BY <3>1
    <3> QED BY <3>1, <3>2 DEF FreshIsUnused
  <2>2. NothingInNone(o)' BY <2>0 DEF GenerationInv, NothingInNone, NoChange
  <2>3. WholeEverywhere(o)' BY <2>0 DEF GenerationInv, WholeEverywhere, NoChange, Whole, Readable
  <2>4. SavedInOrder(o)' BY <1>1, <2>0 DEF GenerationInv, SavedInOrder, NoChange
  <2>5. SavedIsKept(o)'
    <3>1. SUFFICES ASSUME NEW d \in may
                   PROVE  /\ \A m \in native'[o] \cap Members : d.files[o][m] = "whole"
                          /\ "removed" \in native'[o] => d.files[o]["metadata"] \in Manifests
          BY DEF SavedIsKept, NoChange
    <3>2. \A m \in native[o] \cap Members : d.files[o][m] = "whole"
          BY <2>0 DEF GenerationInv, SavedIsKept
    <3>3. "removed" \in native[o] => d.files[o]["metadata"] \in Manifests
          BY <2>0 DEF GenerationInv, SavedIsKept
    <3> QED BY <1>1, <3>2, <3>3
  <2> QED BY <2>1, <2>2, <2>3, <2>4, <2>5 DEF GenerationInv
<1> QED BY <1>1, <1>2, <1>3

LEMMA IssueInv ==
  ASSUME StoreInv, NoChange, UNCHANGED <<legacy, next, settled, committed>>,
         native' \in [Generations -> SUBSET {"removed", "saved", "user", "master"}],
         \A g \in Generations : GenerationInv(g)', op' \in OpStates, OpInv'
  PROVE  StoreInv'
<1>1. TypeOK' BY DEF StoreInv, TypeOK, NoChange
<1>2. LegacyInv' BY DEF StoreInv, LegacyInv
<1> QED BY <1>1, <1>2 DEF StoreInv

LEMMA IssueFails ==
  ASSUME StoreInv, Fail, UNCHANGED next, op.reserved = TRUE
  PROVE  op' \in OpStates /\ OpInv'
<1>1. next' \in Nat /\ next <= next' BY MaxGenerationAssumption DEF StoreInv, TypeOK
<1> QED BY <1>1, FailOpInv DEF StoreInv

LEMMA RemoveIdentityInv == ASSUME StoreInv, RemoveIdentity PROVE StoreInv'
<1> SUFFICES ASSUME NEW o, o = op.gen PROVE StoreInv' OBVIOUS
<1>1. op.pc = "remove" /\ op.pc \in Writing BY DEF RemoveIdentity, At, Writing
<1>w. Writes(o) BY <1>1, WritingFacts
<1>2. /\ op.member = "user" /\ \A d \in may : d.files[o]["metadata"] \in Manifests
      BY <1>1 DEF StoreInv, OpInv, MembersInOrder
<1>3. /\ NoChange /\ UNCHANGED <<legacy, next, settled, committed>> /\ Issue("removed")
      BY DEF RemoveIdentity
<1>4. /\ native' \in [Generations -> SUBSET {"removed", "saved", "user", "master"}]
      /\ native'[o] = native[o] \cup {"removed"}
      /\ \A g \in Generations : GenerationInv(g)'
  <2>1. "removed" \notin Members BY DEF Members
  <2> QED BY <1>1, <1>2, <1>3, <2>1, <1>w, IssueGeneration DEF Writes
<1>5. op' \in OpStates /\ OpInv'
  <2>1. CASE op' = [op EXCEPT !.pc = "export", !.member = "user"]
    <3>1. /\ op' \in OpStates /\ op'.pc = "export" /\ op'.member = "user" /\ op'.gen = o
          /\ op'.open = TRUE /\ op'.reserved = TRUE
      <4>1. "export" \in Pcs /\ "user" \in Members BY DEF Pcs, Members
      <4>2. op \in OpStates /\ op.gen = o /\ op.open = TRUE /\ op.reserved = TRUE BY <1>w DEF Writes
      <4> QED BY <2>1, <4>1, <4>2, MemberFields, ZenonT(60)
    <3>2. "user" \notin native'[o] BY <1>1, <1>2, <1>4, <1>w DEF Writes
    <3>3. \A d \in may : d.files[o]["metadata"] # "torn" BY <1>1, <1>2, <1>w DEF Writes
    <3>4. op'.pc \in Writing BY <3>1 DEF Writing
    <3> QED BY <1>1, <1>3, <3>1, <3>2, <3>3, <3>4, <1>w, WritingOpInv, Zenon DEF NoChange, Writes
  <2>2. CASE Fail BY <1>1, <1>3, <2>2, <1>w, IssueFails, Zenon DEF Writes
  <2> QED BY <2>1, <2>2 DEF RemoveIdentity
<1> QED BY <1>3, <1>4, <1>5, IssueInv

LEMMA ExportInv == ASSUME StoreInv, Export PROVE StoreInv'
<1> SUFFICES ASSUME NEW o, o = op.gen PROVE StoreInv' OBVIOUS
<1>1. op.pc = "export" /\ op.pc \in Writing BY DEF Export, At, Writing
<1>w. Writes(o) BY <1>1, WritingFacts
<1>2. op.member # "metadata" BY <1>1 DEF StoreInv, OpInv, MembersInOrder
<1>3. /\ NoChange /\ UNCHANGED <<legacy, next, settled, committed>> /\ Issue("saved")
      BY DEF Export
<1>4. /\ native' \in [Generations -> SUBSET {"removed", "saved", "user", "master"}]
      /\ native'[o] = native[o] \cup {"saved"}
      /\ \A g \in Generations : GenerationInv(g)'
  <2>1. "saved" \notin Members BY DEF Members
  <2> QED BY <1>1, <1>2, <1>3, <2>1, <1>w, IssueGeneration DEF Writes
<1>5. op' \in OpStates /\ OpInv'
  <2>1. CASE Goto("create")
    <3>1. /\ op' \in OpStates /\ op'.pc = "create" /\ op'.member = op.member /\ op'.gen = o
          /\ op'.open = TRUE /\ op'.reserved = TRUE
      <4>1. "create" \in Pcs BY DEF Pcs
      <4> QED BY <1>1, <2>1, <4>1, GotoFields, <1>w, ZenonT(60) DEF Goto, Writes
    <3>2. op.member # "saved" BY <1>1, <1>w DEF OpStates, Members, Writes
    <3>3. op'.member \notin native'[o] BY <1>1, <1>4, <3>1, <3>2, <1>w DEF Writes
    <3>4. op'.pc \in Writing BY <3>1 DEF Writing
    <3> QED BY <1>1, <1>2, <1>3, <1>4, <3>1, <3>3, <3>4, <1>w, WritingOpInv, Zenon DEF NoChange, Writes
  <2>2. CASE Fail BY <1>1, <1>3, <2>2, <1>w, IssueFails, Zenon DEF Writes
  <2> QED BY <2>1, <2>2 DEF Export
<1> QED BY <1>3, <1>4, <1>5, IssueInv

LEMMA FinishExportInv == ASSUME StoreInv, FinishExport PROVE StoreInv'
<1> SUFFICES ASSUME NEW o, o = op.gen PROVE StoreInv' OBVIOUS
<1>1. op.pc = "finish" /\ op.pc \in Writing BY DEF FinishExport, At, Writing
<1>w. Writes(o) BY <1>1, WritingFacts
<1>2. /\ op.member # "metadata" /\ op.member \in {"user", "master"}
      /\ \A d \in may : d.files[o][op.member] = "whole"
      BY <1>1, <1>w DEF StoreInv, OpInv, MembersInOrder, OpStates, Members, Writes
<1>3. /\ NoChange /\ UNCHANGED <<legacy, next, settled, committed>> /\ Issue(op.member)
      BY DEF FinishExport
<1>4. /\ native' \in [Generations -> SUBSET {"removed", "saved", "user", "master"}]
      /\ native'[o] = native[o] \cup {op.member}
      /\ \A g \in Generations : GenerationInv(g)'
      BY <1>1, <1>2, <1>3, <1>w, IssueGeneration DEF Writes
<1>5. op' \in OpStates /\ OpInv'
  <2>1. CASE op' = AfterFinish /\ op.member = "user"
    <3>1. /\ op' \in OpStates /\ op'.pc = "export" /\ op'.member = "master" /\ op'.gen = o
          /\ op'.open = TRUE /\ op'.reserved = TRUE
      <4>1. "export" \in Pcs /\ "master" \in Members BY DEF Pcs, Members
      <4>2. op \in OpStates /\ op.gen = o /\ op.open = TRUE /\ op.reserved = TRUE BY <1>w DEF Writes
      <4>3. op' = [op EXCEPT !.pc = "export", !.member = "master"] BY <2>1 DEF AfterFinish
      <4> QED BY <4>1, <4>2, <4>3, MemberFields, ZenonT(60)
    <3>2. "master" \notin native[o]
          BY <1>1, <2>1, <1>w DEF StoreInv, GenerationInv, SavedInOrder, Writes
    <3>3. "master" \notin native'[o] /\ "user" \in native'[o] BY <1>4, <2>1, <3>2
    <3>4. op'.pc \in Writing BY <3>1 DEF Writing
    <3> QED BY <1>1, <1>2, <1>3, <3>1, <3>3, <3>4, <1>w, WritingOpInv, Zenon DEF NoChange, Writes
  <2>2. CASE op' = AfterFinish /\ op.member # "user"
    <3>1. /\ op' \in OpStates /\ op'.pc = "marker" /\ op'.gen = o
          /\ op'.open = TRUE /\ op'.reserved = TRUE
      <4>1. "marker" \in Pcs BY DEF Pcs
      <4> QED BY <1>1, <2>2, <4>1, GotoFields, <1>w, ZenonT(60) DEF AfterFinish, Writes
    <3>2. op.member = "master" /\ "user" \in native[o] BY <1>1, <1>2, <2>2, <1>w DEF Writes
    <3>3. \A d \in may : d.files[o]["user"] = "whole"
          BY <1>1, <3>2, <1>w DEF StoreInv, GenerationInv, SavedIsKept, Members, Writes
    <3>4. \A d \in may : Whole(d, o)
          BY <1>1, <1>2, <3>2, <3>3, <1>w DEF Whole, Readable, Writes
    <3>5. op'.pc \in Selecting BY <3>1 DEF Selecting
    <3> QED BY <1>1, <1>3, <3>1, <3>4, <3>5, <1>w, SelectingOpInv DEF NoChange, Writes
  <2>3. CASE Fail BY <1>1, <1>3, <2>3, <1>w, IssueFails, Zenon DEF Writes
  <2> QED BY <2>1, <2>2, <2>3 DEF FinishExport
<1> QED BY <1>3, <1>4, <1>5, IssueInv

-----------------------------------------------------------------------------
(* Steps that synchronise *)

LEMMA SyncKeeps ==
  ASSUME StoreInv, SyncDirectory, NEW o \in Generations
  PROVE  /\ \A e \in may' : /\ e.active = disk.active /\ e.reserved = disk.reserved
                            /\ e.place[o] = disk.place[o]
         /\ o \in settled' <=> o \in settled \/ disk.active = o
         /\ (\A d \in may : d.files[o]["metadata"] # "torn") =>
              \A e \in may' : e.files[o]["metadata"] # "torn"
         /\ (\A d \in may : Whole(d, o)) => \A e \in may' : Whole(e, o)
         /\ disk.place[o] = "pair" => \A e \in may' : \E d \in may : e.files[o] = d.files[o]
<1>1. disk \in may BY DEF StoreInv, TypeOK
<1>2. ASSUME NEW e \in may'
      PROVE  /\ e.active = disk.active /\ e.reserved = disk.reserved /\ e.place[o] = disk.place[o]
             /\ \E d \in may : e.files[o] = IF disk.place[o] = "none" THEN NoFiles ELSE d.files[o]
      BY SyncFacts
<1>3. NoFiles["metadata"] = "absent" BY DEF NoFiles, Members
<1>4. o \in settled' <=> o \in settled \/ disk.active = o
  <2>1. None \notin Generations BY DEF Generations, None
  <2> QED BY <2>1, SyncFacts
<1>5. (\A d \in may : d.files[o]["metadata"] # "torn") =>
        \A e \in may' : e.files[o]["metadata"] # "torn"
      BY <1>2, <1>3
<1>6. (\A d \in may : Whole(d, o)) => \A e \in may' : Whole(e, o)
      BY <1>1, <1>2 DEF Whole, Readable
<1>7. disk.place[o] = "pair" => \A e \in may' : \E d \in may : e.files[o] = d.files[o]
      BY <1>2
<1> QED BY <1>2, <1>4, <1>5, <1>6, <1>7

LEMMA SyncInv ==
  ASSUME StoreInv, SyncDirectory, UNCHANGED <<native, next, committed>>,
         legacy' \in [pc: {"idle", "create", "created", "ready"}, gen: Generations \cup {None}],
         LegacyInv', op' \in OpStates, OpInv'
  PROVE  StoreInv'
<1>1. TypeOK' BY SyncFacts DEF StoreInv, TypeOK
<1> QED BY <1>1, SyncGeneration DEF StoreInv

LEMMA SyncLegacy ==
  ASSUME StoreInv, UNCHANGED legacy
  PROVE  legacy' \in [pc: {"idle", "create", "created", "ready"}, gen: Generations \cup {None}]
         /\ LegacyInv'
BY DEF StoreInv, TypeOK, LegacyInv

LEMMA RecoverSyncInv == ASSUME StoreInv, RecoverSync PROVE StoreInv'
<1>0. /\ op.pc = "sync" /\ op \in OpStates /\ ~op.open
      /\ UNCHANGED <<legacy, next, native, committed>>
      BY DEF RecoverSync, At, StoreInv, TypeOK, OpInv, OpIsOpen
<1>1. CASE SyncDirectory /\ Goto("inspect")
  <2>1. "inspect" \in Pcs BY DEF Pcs
  <2>2. op' \in OpStates /\ op'.pc = "inspect" /\ op'.open = op.open
        BY <1>0, <1>1, <2>1, GotoFields, Zenon DEF Goto
  <2>3. disk'.active \in settled' \cup {None} BY <1>1, SyncFacts
  <2>4. OpInv' BY <1>0, <2>2, <2>3 DEF OpInv, OpIsOpen, Reserving, MembersInOrder, CandidateIsWhole,
                                       BeforeReservation, Writing, Selecting
  <2> QED BY <1>0, <1>1, <2>2, <2>4, SyncInv, SyncLegacy
<1>2. CASE NoChange /\ UNCHANGED settled /\ Fail BY <1>0, <1>2, QuietFailInv
<1> QED BY <1>1, <1>2 DEF RecoverSync

(* The transaction before its reservation. *)
Reserves(o) ==
  /\ o = op.gen /\ o \in Generations /\ op.open = TRUE /\ o < next /\ op \in OpStates
  /\ o \notin settled /\ native[o] = {}
  /\ \A d \in may : d.active # o /\ d.files[o]["metadata"] # "torn"

LEMMA ReservingFacts ==
  ASSUME StoreInv, op.pc \in BeforeReservation, NEW o, o = op.gen
  PROVE  Reserves(o)
<1>1. op \in OpStates BY DEF StoreInv, TypeOK
<1>2. op.open BY DEF StoreInv, OpInv, OpIsOpen
<1>3. op.open = TRUE BY <1>1, <1>2 DEF OpStates
<1> QED BY <1>1, <1>2, <1>3 DEF StoreInv, OpInv, OpIsOpen, Reserving, Reserves

LEMMA ReservingOpInv ==
  ASSUME NEW o \in Generations, op'.gen = o, op'.pc \in BeforeReservation, op'.open = TRUE,
         o < next', o \notin settled', native'[o] = {},
         \A d \in may' : d.active # o /\ d.files[o]["metadata"] # "torn",
         op'.pc = "renamed" => disk'.place[o] = "pair",
         op'.pc \in {"reserve", "reserved"} => \A d \in may' : d.place[o] = "pair",
         op'.pc = "reserved" => o \in disk'.reserved /\ op'.reserved
  PROVE  OpInv'
BY DEF OpInv, OpIsOpen, Reserving, MembersInOrder, CandidateIsWhole,
       BeforeReservation, Writing, Selecting

LEMMA SyncRenameInv == ASSUME StoreInv, SyncRename PROVE StoreInv'
<1> SUFFICES ASSUME NEW o, o = op.gen PROVE StoreInv' OBVIOUS
<1>0. /\ op.pc = "renamed" /\ op.pc \in BeforeReservation /\ disk \in may
      /\ UNCHANGED <<legacy, next, native, committed>> /\ disk.place[o] = "pair"
      BY DEF SyncRename, At, BeforeReservation, StoreInv, TypeOK, OpInv, Reserving
<1>w. Reserves(o) BY <1>0, ReservingFacts
<1>1. CASE SyncDirectory /\ Goto("reserve")
  <2>1. "reserve" \in Pcs /\ op \in OpStates /\ op.open = TRUE /\ op.gen = o BY <1>w DEF Pcs, Reserves
  <2>2. op' \in OpStates /\ op'.pc = "reserve" /\ op'.open = TRUE /\ op'.gen = o
        BY <1>1, <2>1, GotoFields, Zenon DEF Goto
  <2>3. op'.pc \in BeforeReservation BY <2>2 DEF BeforeReservation
  <2>4. /\ o \notin settled'
        /\ \A d \in may' : d.active # o /\ d.files[o]["metadata"] # "torn" /\ d.place[o] = "pair"
        BY <1>0, <1>w, <1>1, SyncKeeps DEF Reserves
  <2>5. OpInv' BY <1>0, <1>w, <2>2, <2>3, <2>4, ReservingOpInv, Zenon DEF Reserves
  <2> QED BY <1>0, <1>1, <2>2, <2>5, SyncInv, SyncLegacy
<1>2. CASE NoChange /\ UNCHANGED settled /\ Fail BY <1>0, <1>2, QuietFailInv
<1> QED BY <1>1, <1>2 DEF SyncRename

LEMMA SyncReservationInv == ASSUME StoreInv, SyncReservation PROVE StoreInv'
<1> SUFFICES ASSUME NEW o, o = op.gen PROVE StoreInv' OBVIOUS
<1>0. /\ op.pc = "reserved" /\ op.pc \in BeforeReservation /\ disk \in may
      /\ UNCHANGED <<legacy, next, native, committed>>
      /\ disk.place[o] = "pair" /\ o \in disk.reserved
      BY DEF SyncReservation, At, BeforeReservation, StoreInv, TypeOK, OpInv, Reserving
<1>w. Reserves(o) BY <1>0, ReservingFacts
<1>1. CASE /\ SyncDirectory
           /\ op' = IF op.kind = "enroll" THEN [op EXCEPT !.pc = "export", !.member = "user"]
                    ELSE [op EXCEPT !.pc = "create", !.member = "metadata"]
  <2>1. /\ op \in OpStates /\ op.open = TRUE /\ op.gen = o /\ op.reserved = TRUE
    <3>1. op.open /\ op.reserved
          BY <1>0, <1>w DEF Reserves, StoreInv, OpInv, OpIsOpen, BeforeReservation
    <3> QED BY <1>w, <3>1 DEF Reserves, OpStates
  <2>2. /\ op' \in OpStates /\ op'.open = TRUE /\ op'.gen = o /\ op'.reserved = TRUE
        /\ \/ op'.pc = "export" /\ op'.member = "user"
           \/ op'.pc = "create" /\ op'.member = "metadata"
    <3>1. ASSUME op' = [op EXCEPT !.pc = "export", !.member = "user"]
          PROVE  /\ op' \in OpStates /\ op'.open = TRUE /\ op'.gen = o /\ op'.reserved = TRUE
                 /\ op'.pc = "export" /\ op'.member = "user"
      <4>1. "export" \in Pcs /\ "user" \in Members BY DEF Pcs, Members
      <4> QED BY <2>1, <3>1, <4>1, MemberFields, ZenonT(60)
    <3>2. ASSUME op' = [op EXCEPT !.pc = "create", !.member = "metadata"]
          PROVE  /\ op' \in OpStates /\ op'.open = TRUE /\ op'.gen = o /\ op'.reserved = TRUE
                 /\ op'.pc = "create" /\ op'.member = "metadata"
      <4>1. "create" \in Pcs /\ "metadata" \in Members BY DEF Pcs, Members
      <4> QED BY <2>1, <3>2, <4>1, MemberFields, ZenonT(60)
    <3> QED BY <1>1, <3>1, <3>2, Zenon
  <2>3. op'.pc \in Writing BY <2>2 DEF Writing
  <2>4. /\ o \notin settled'
        /\ \A d \in may' : /\ d.active # o /\ d.files[o]["metadata"] # "torn"
                           /\ d.place[o] = "pair" /\ o \in d.reserved
        BY <1>0, <1>w, <1>1, SyncKeeps DEF Reserves
  <2>5. native'[o] = {} /\ o < next' /\ o \in Generations BY <1>0, <1>w DEF Reserves
  <2>6. OpInv' BY <2>2, <2>3, <2>4, <2>5, WritingOpInv, Zenon
  <2> QED BY <1>0, <1>1, <2>2, <2>6, SyncInv, SyncLegacy
<1>2. CASE NoChange /\ UNCHANGED settled /\ Fail BY <1>0, <1>2, QuietFailInv
<1> QED BY <1>1, <1>2 DEF SyncReservation, ReservationSynced

(* A candidate on its way to be selected. *)
Selects(o) ==
  /\ o = op.gen /\ o \in Generations /\ op \in OpStates
  /\ op.open => op.reserved /\ o < next
  /\ \A d \in may : Whole(d, o)

LEMMA SelectingFacts ==
  ASSUME StoreInv, op.pc \in Selecting, NEW o, o = op.gen
  PROVE  Selects(o)
BY DEF StoreInv, TypeOK, OpInv, OpIsOpen, CandidateIsWhole, Selects,
       BeforeReservation, Selecting

LEMMA SyncMarkerInv == ASSUME StoreInv, SyncMarker PROVE StoreInv'
<1> SUFFICES ASSUME NEW o, o = op.gen PROVE StoreInv' OBVIOUS
<1>0. /\ op.pc = "replaced" /\ op.pc \in Selecting
      /\ UNCHANGED <<legacy, next, native, committed>> /\ disk.active = o
      BY DEF SyncMarker, At, Selecting, StoreInv, OpInv, CandidateIsWhole
<1>w. Selects(o) BY <1>0, SelectingFacts
<1>1. CASE SyncDirectory /\ Goto("release")
  <2>1. "release" \in Pcs /\ op \in OpStates /\ op.gen = o BY <1>w DEF Pcs, Selects
  <2>2. /\ op' \in OpStates /\ op'.pc = "release" /\ op'.gen = o /\ op'.open = op.open
        /\ op'.reserved = op.reserved
        BY <1>1, <2>1, GotoFields, Zenon DEF Goto
  <2>3. op'.pc \in Selecting BY <2>2 DEF Selecting
  <2>4. o \in settled' /\ \A d \in may' : Whole(d, o) BY <1>0, <1>w, <1>1, SyncKeeps DEF Selects
  <2>5. OpInv' BY <1>0, <1>w, <2>2, <2>3, <2>4, SelectingOpInv DEF Selects
  <2> QED BY <1>0, <1>1, <2>2, <2>5, SyncInv, SyncLegacy
<1>2. CASE NoChange /\ UNCHANGED settled /\ Fail BY <1>0, <1>2, QuietFailInv
<1> QED BY <1>1, <1>2 DEF SyncMarker, PromotionDurabilityUnknown

LEMMA SyncReleaseInv == ASSUME StoreInv, SyncRelease PROVE StoreInv'
<1>0. /\ UNCHANGED <<legacy, next, native, committed>> /\ op \in OpStates
      /\ op.kind \in {"none", "enroll", "label", "delete", "legacy"}
      BY DEF SyncRelease, StoreInv, TypeOK, OpStates
<1>1. CASE SyncDirectory /\ op' = Idle BY <1>0, <1>1, IdleOpInv, IdleFields, SyncInv, SyncLegacy
<1>2. CASE SyncDirectory /\ op' = [Idle EXCEPT !.kind = op.kind, !.pc = "begin"]
      BY <1>0, <1>2, WaitingOpInv, SyncInv, SyncLegacy, Zenon
<1>3. CASE NoChange /\ UNCHANGED settled /\ Fail BY <1>0, <1>3, QuietFailInv
<1> QED BY <1>1, <1>2, <1>3 DEF SyncRelease, AfterRecovery

-----------------------------------------------------------------------------
(* Steps that change the directory *)

LEMMA DirectoryInv ==
  ASSUME StoreInv, disk' \in may', may' \subseteq Disks, UNCHANGED <<legacy, native, settled>>,
         next' \in 1..(MaxGeneration + 1), committed' \in Generations \cup {None},
         \A g \in Generations : GenerationInv(g)', op' \in OpStates, OpInv'
  PROVE  StoreInv'
<1>1. TypeOK' BY DEF StoreInv, TypeOK
<1>2. LegacyInv' BY DEF StoreInv, LegacyInv
<1> QED BY <1>1, <1>2 DEF StoreInv

LEMMA NextType ==
  ASSUME StoreInv
  PROVE  /\ next \in Nat /\ next \in 1..(MaxGeneration + 1) /\ next > 0
         /\ \A g \in Generations : g \in Nat /\ g > 0
         /\ None \notin Generations
BY MaxGenerationAssumption DEF StoreInv, TypeOK, Generations, None

(* A generation nothing but its transaction knows of. *)
LEMMA UnusedGeneration ==
  ASSUME NEW o \in Generations, o < next', next' \in Nat, native'[o] = {}, o \notin settled',
         \A d \in may' : d.active # o /\ (d.place[o] = "none" => d.files[o] = NoFiles)
  PROVE  GenerationInv(o)'
<1>1. ~(o >= next') BY DEF Generations
<1> QED BY <1>1 DEF GenerationInv, FreshIsUnused, NothingInNone, WholeEverywhere, SavedInOrder,
                    SavedIsKept

(* The directory as far as the invariant sees it is the same. *)
SameView ==
  /\ disk' \in may' /\ may' \subseteq Disks
  /\ disk'.active = disk.active /\ disk'.reserved = disk.reserved
  /\ disk'.files = disk.files /\ disk'.place = disk.place
  /\ \A e \in may' : \E d \in may : /\ e.active = d.active /\ e.reserved = d.reserved
                                    /\ e.files = d.files /\ e.place = d.place

LEMMA SameGenerations ==
  ASSUME StoreInv, SameView, UNCHANGED <<next, native, settled>>
  PROVE  \A g \in Generations : GenerationInv(g)'
<1> SUFFICES ASSUME NEW g \in Generations PROVE GenerationInv(g)' OBVIOUS
<1>1. \A e \in may' : \E d \in may :
            /\ e.active = g => d.active = g
            /\ e.place[g] = d.place[g] /\ e.files[g] = d.files[g]
            /\ g \notin settled /\ g \in d.reserved => g \in e.reserved
      BY DEF SameView
<1>2. disk'.place[g] = disk.place[g] /\ disk'.files[g] = disk.files[g] BY DEF SameView
<1> QED BY <1>1, <1>2, GenerationStable DEF StoreInv

LEMMA SameViewInv ==
  ASSUME StoreInv, SameView, UNCHANGED <<legacy, next, native, settled, committed>>,
         op' \in OpStates, OpInv'
  PROVE  StoreInv'
<1>1. next' \in 1..(MaxGeneration + 1) /\ committed' \in Generations \cup {None}
      BY DEF StoreInv, TypeOK
<1> QED BY <1>1, SameGenerations, DirectoryInv DEF SameView

LEMMA SameViewFailInv ==
  ASSUME StoreInv, SameView, Fail, UNCHANGED <<legacy, next, native, settled, committed>>
  PROVE  StoreInv'
<1>1. next' \in Nat /\ next <= next' BY NextType
<1>2. op.open /\ ~op.reserved => /\ native'[op.gen] = {} /\ op.gen \notin settled'
                                 /\ \A d \in may' : d.active # op.gen
      BY DEF StoreInv, OpInv, OpIsOpen, SameView
<1>3. OpInv' /\ op' \in OpStates BY <1>1, <1>2, FailOpInv DEF StoreInv
<1> QED BY <1>3, SameViewInv

LEMMA BeginInv == ASSUME StoreInv, Begin PROVE StoreInv'
<1>0. /\ op.pc = "begin" /\ op \in OpStates /\ ~op.open /\ disk \in may /\ may \subseteq Disks
      /\ UNCHANGED <<legacy, native, settled, committed>>
      BY DEF Begin, At, StoreInv, TypeOK, OpInv, OpIsOpen
<1>1. CASE /\ FreshToken /\ next' = next + 1
           /\ LET F(d) == Place(next, "stage", d) IN Change(F)
           /\ op' = [op EXCEPT !.pc = "stage", !.gen = next, !.open = TRUE]
  <2> SUFFICES ASSUME NEW o, o = next PROVE StoreInv' OBVIOUS
  <2>1. /\ o \in Generations /\ GenerationInv(o) /\ o \in Nat /\ next' = o + 1
        /\ disk' = Place(o, "stage", disk)
        /\ may' = may \cup {Place(o, "stage", d) : d \in may}
        BY <1>1, NextType DEF FreshToken, Change, StoreInv
  <2>2. \A d \in may : /\ Place(o, "stage", d) \in Disks
                       /\ Place(o, "stage", d).active = d.active
                       /\ Place(o, "stage", d).files = d.files
                       /\ Place(o, "stage", d).reserved = d.reserved
                       /\ Place(o, "stage", d).place[o] = "stage"
                       /\ \A h \in Generations : h # o => Place(o, "stage", d).place[h] = d.place[h]
    <3>1. "stage" \in Places BY DEF Places
    <3> QED BY <1>0, <2>1, <3>1, PlaceFields
  <2>3. ASSUME NEW e \in may'
        PROVE  \E d \in may : /\ e \in Disks /\ e.active = d.active /\ e.files = d.files
                              /\ e.reserved = d.reserved
                              /\ e.place[o] = "stage" \/ e.place[o] = d.place[o]
                              /\ \A h \in Generations : h # o => e.place[h] = d.place[h]
    <3>1. CASE e \in may BY <1>0, <3>1
    <3>2. CASE \E d \in may : e = Place(o, "stage", d) BY <2>2, <3>2
    <3> QED BY <2>1, <3>1, <3>2
  <2>4. disk' \in may' /\ may' \subseteq Disks BY <1>0, <2>1, <2>3
  <2>5. \A d \in may : d.active # o /\ d.place[o] = "none" /\ d.files[o] = NoFiles
        BY <2>1, <2>2 DEF GenerationInv, FreshIsUnused, NothingInNone
  <2>6. native[o] = {} /\ o \notin settled BY <2>1 DEF GenerationInv, FreshIsUnused
  <2>7. GenerationInv(o)'
    <3>1. o < next' /\ next' \in Nat BY <2>1
    <3>2. \A e \in may' : e.active # o /\ (e.place[o] = "none" => e.files[o] = NoFiles)
          BY <2>3, <2>5
    <3> QED BY <1>0, <2>1, <2>6, <3>1, <3>2, UnusedGeneration
  <2>8. ASSUME NEW g \in Generations, g # o PROVE GenerationInv(g)'
    <3>1. disk'.place[g] = disk.place[g] /\ disk'.files[g] = disk.files[g]
          BY <1>0, <2>1, <2>2, <2>8
    <3>2. g >= next' => g >= next BY <2>1, NextType
    <3>3. \A e \in may' : \E d \in may :
            /\ e.active = g => d.active = g
            /\ e.place[g] = d.place[g] /\ e.files[g] = d.files[g]
            /\ g \notin settled /\ g \in d.reserved => g \in e.reserved
          BY <2>3, <2>8
    <3> QED BY <1>0, <3>1, <3>2, <3>3, GenerationStable DEF StoreInv
  <2>9. op' \in OpStates /\ op'.pc = "stage" /\ op'.gen = o /\ op'.open = TRUE
    <3>1. "stage" \in Pcs /\ o \in Generations \cup {None} BY <2>1 DEF Pcs
    <3>2. op' = [op EXCEPT !.pc = "stage", !.gen = o, !.open = TRUE] BY <1>1
    <3> QED BY <1>0, <3>1, <3>2, Zenon DEF OpStates
  <2>10. OpInv'
    <3>1. NoFiles["metadata"] # "torn" BY DEF NoFiles, Members
    <3>2. \A e \in may' : e.active # o /\ e.files[o]["metadata"] # "torn" BY <2>3, <2>5, <3>1
    <3>3. op'.pc \in BeforeReservation BY <2>9 DEF BeforeReservation
    <3>4. o < next' BY <2>1
    <3> QED BY <1>0, <2>1, <2>6, <2>9, <3>2, <3>3, <3>4, ReservingOpInv, Zenon
  <2>11. next' \in 1..(MaxGeneration + 1) /\ committed' \in Generations \cup {None}
        BY <1>0, <2>1, MaxGenerationAssumption DEF Generations, StoreInv, TypeOK
  <2> QED BY <1>0, <2>4, <2>7, <2>8, <2>9, <2>10, <2>11, DirectoryInv
<1>2. CASE NoChange /\ UNCHANGED next /\ Fail BY <1>0, <1>2, QuietFailInv
<1> QED BY <1>1, <1>2 DEF Begin

LEMMA RenameStageInv == ASSUME StoreInv, RenameStage PROVE StoreInv'
<1> SUFFICES ASSUME NEW o, o = op.gen PROVE StoreInv' OBVIOUS
<1>0. /\ op.pc = "stage" /\ op.pc \in BeforeReservation /\ disk \in may /\ may \subseteq Disks
      /\ UNCHANGED <<legacy, next, native, settled, committed>>
      BY DEF RenameStage, At, BeforeReservation, StoreInv, TypeOK
<1>w. Reserves(o) BY <1>0, ReservingFacts
<1>1. CASE LET F(d) == Place(op.gen, "pair", d) IN Change(F) /\ Goto("renamed")
  <2>1. /\ o \in Generations /\ GenerationInv(o) /\ Goto("renamed")
        /\ disk' = Place(o, "pair", disk)
        /\ may' = may \cup {Place(o, "pair", d) : d \in may}
        BY <1>w, <1>1 DEF Change, StoreInv, Reserves
  <2>2. \A d \in may : /\ Place(o, "pair", d) \in Disks
                       /\ Place(o, "pair", d).active = d.active
                       /\ Place(o, "pair", d).files = d.files
                       /\ Place(o, "pair", d).reserved = d.reserved
                       /\ Place(o, "pair", d).place[o] = "pair"
                       /\ \A h \in Generations : h # o => Place(o, "pair", d).place[h] = d.place[h]
    <3>1. "pair" \in Places BY DEF Places
    <3> QED BY <1>0, <2>1, <3>1, PlaceFields
  <2>3. ASSUME NEW e \in may'
        PROVE  \E d \in may : /\ e \in Disks /\ e.active = d.active /\ e.files = d.files
                              /\ e.reserved = d.reserved
                              /\ e.place[o] = "pair" \/ e.place[o] = d.place[o]
                              /\ \A h \in Generations : h # o => e.place[h] = d.place[h]
    <3>1. CASE e \in may BY <1>0, <3>1
    <3>2. CASE \E d \in may : e = Place(o, "pair", d) BY <2>2, <3>2
    <3> QED BY <2>1, <3>1, <3>2
  <2>4. disk' \in may' /\ may' \subseteq Disks BY <1>0, <2>1, <2>3
  <2>5. GenerationInv(o)'
    <3>1. o < next' /\ next' \in Nat /\ native'[o] = {} /\ o \notin settled'
          BY <1>0, <1>w, NextType DEF Reserves
    <3>2. \A d \in may : d.active # o /\ (d.place[o] = "none" => d.files[o] = NoFiles)
          BY <1>w, <2>1 DEF Reserves, GenerationInv, NothingInNone
    <3>3. \A e \in may' : e.active # o /\ (e.place[o] = "none" => e.files[o] = NoFiles)
          BY <2>3, <3>2
    <3> QED BY <2>1, <3>1, <3>3, UnusedGeneration
  <2>6. ASSUME NEW g \in Generations, g # o PROVE GenerationInv(g)'
    <3>1. disk'.place[g] = disk.place[g] /\ disk'.files[g] = disk.files[g]
          BY <1>0, <2>1, <2>2, <2>6
    <3>2. \A e \in may' : \E d \in may :
            /\ e.active = g => d.active = g
            /\ e.place[g] = d.place[g] /\ e.files[g] = d.files[g]
            /\ g \notin settled /\ g \in d.reserved => g \in e.reserved
          BY <2>3, <2>6
    <3> QED BY <1>0, <3>1, <3>2, GenerationStable DEF StoreInv
  <2>7. op' \in OpStates /\ op'.pc = "renamed" /\ op'.gen = o /\ op'.open = TRUE
    <3>1. "renamed" \in Pcs /\ op \in OpStates /\ op.open = TRUE /\ op.gen = o
          BY <1>w DEF Pcs, Reserves
    <3> QED BY <2>1, <3>1, GotoFields, Zenon DEF Goto
  <2>8. OpInv'
    <3>1. \A e \in may' : e.active # o /\ e.files[o]["metadata"] # "torn"
          BY <1>w, <2>3 DEF Reserves
    <3>2. op'.pc \in BeforeReservation BY <2>7 DEF BeforeReservation
    <3>3. disk'.place[o] = "pair" BY <1>0, <2>1, <2>2
    <3> QED BY <1>0, <1>w, <2>7, <3>1, <3>2, <3>3, ReservingOpInv, Zenon DEF Reserves
  <2>9. next' \in 1..(MaxGeneration + 1) /\ committed' \in Generations \cup {None}
        BY <1>0 DEF StoreInv, TypeOK
  <2> QED BY <1>0, <2>4, <2>5, <2>6, <2>7, <2>8, <2>9, DirectoryInv
<1>2. CASE NoChange /\ Fail BY <1>0, <1>2, QuietFailInv
<1> QED BY <1>1, <1>2 DEF RenameStage

LEMMA CreateReservationInv == ASSUME StoreInv, CreateReservation PROVE StoreInv'
<1> SUFFICES ASSUME NEW o, o = op.gen PROVE StoreInv' OBVIOUS
<1>0. /\ op.pc = "reserve" /\ op.pc \in BeforeReservation /\ disk \in may /\ may \subseteq Disks
      /\ UNCHANGED <<legacy, next, native, settled, committed>>
      /\ \A d \in may : d.place[o] = "pair"
      BY DEF CreateReservation, At, BeforeReservation, StoreInv, TypeOK, OpInv, Reserving
<1>w. Reserves(o) BY <1>0, ReservingFacts
<1>1. CASE /\ LET F(d) == [d EXCEPT !.reserved = @ \cup {op.gen}] IN Change(F)
           /\ op' = [op EXCEPT !.pc = "reserved", !.reserved = TRUE]
  <2> DEFINE G(d) == [d EXCEPT !.reserved = @ \cup {o}]
  <2>1. o \in Generations /\ disk' = G(disk) /\ may' = may \cup {G(d) : d \in may}
        BY <1>w, <1>1 DEF Change, Reserves
  <2>2. \A d \in may : /\ G(d) \in Disks /\ G(d).active = d.active /\ G(d).files = d.files
                       /\ G(d).reserved = d.reserved \cup {o} /\ G(d).place = d.place
        BY <1>0, <2>1, ReservedFields, ZenonT(60)
  <2> HIDE DEF G
  <2>3. ASSUME NEW e \in may'
        PROVE  \E d \in may : /\ e \in Disks /\ e.active = d.active /\ e.files = d.files
                              /\ d.reserved \subseteq e.reserved /\ e.place = d.place
    <3>1. CASE e \in may BY <1>0, <3>1
    <3>2. CASE \E d \in may : e = G(d) BY <2>2, <3>2
    <3> QED BY <2>1, <3>1, <3>2
  <2>4. disk' \in may' /\ may' \subseteq Disks BY <1>0, <2>1, <2>3
  <2>5. ASSUME NEW g \in Generations PROVE GenerationInv(g)'
    <3>1. disk'.place[g] = disk.place[g] /\ disk'.files[g] = disk.files[g]
          BY <1>0, <2>1, <2>2
    <3>2. \A e \in may' : \E d \in may :
            /\ e.active = g => d.active = g
            /\ e.place[g] = d.place[g] /\ e.files[g] = d.files[g]
            /\ g \notin settled /\ g \in d.reserved => g \in e.reserved
          BY <2>3
    <3> QED BY <1>0, <3>1, <3>2, GenerationStable DEF StoreInv
  <2>6. op' \in OpStates /\ op'.pc = "reserved" /\ op'.gen = o /\ op'.open = TRUE /\ op'.reserved = TRUE
    <3>1. "reserved" \in Pcs /\ op \in OpStates /\ op.open = TRUE /\ op.gen = o
          BY <1>w DEF Pcs, Reserves
    <3> QED BY <1>1, <3>1, Zenon DEF OpStates
  <2>7. OpInv'
    <3>1. \A e \in may' : e.active # o /\ e.files[o]["metadata"] # "torn" /\ e.place[o] = "pair"
          BY <1>0, <1>w, <2>3 DEF Reserves
    <3>2. op'.pc \in BeforeReservation BY <2>6 DEF BeforeReservation
    <3>3. o \in disk'.reserved BY <1>0, <2>1, <2>2
    <3> QED BY <1>0, <1>w, <2>6, <3>1, <3>2, <3>3, ReservingOpInv, Zenon DEF Reserves
  <2>8. next' \in 1..(MaxGeneration + 1) /\ committed' \in Generations \cup {None}
        BY <1>0 DEF StoreInv, TypeOK
  <2> QED BY <1>0, <2>4, <2>5, <2>6, <2>7, <2>8, DirectoryInv
<1>2. CASE NoChange /\ Fail BY <1>0, <1>2, QuietFailInv
<1> QED BY <1>1, <1>2 DEF CreateReservation

(* One member of the operation's generation may differ. *)
Fills(o) ==
  /\ disk' \in may' /\ may' \subseteq Disks
  /\ \A g \in Generations : disk'.place[g] = disk.place[g]
  /\ \A g \in Generations : g # o => disk'.files[g] = disk.files[g]
  /\ \A e \in may' : \E d \in may :
       /\ e.active = d.active /\ e.reserved = d.reserved
       /\ \A g \in Generations : e.place[g] = d.place[g]
       /\ \A g \in Generations : g # o => e.files[g] = d.files[g]
       /\ \A m \in Members : m # op.member => e.files[o][m] = d.files[o][m]

LEMMA FillsGenerations ==
  ASSUME StoreInv, NEW o, Writes(o), Fills(o), UNCHANGED <<next, native, settled>>
  PROVE  \A g \in Generations : GenerationInv(g)'
<1>1. ASSUME NEW g \in Generations, g # o PROVE GenerationInv(g)'
  <2>1. \A e \in may' : \E d \in may :
            /\ e.active = g => d.active = g
            /\ e.place[g] = d.place[g] /\ e.files[g] = d.files[g]
            /\ g \notin settled /\ g \in d.reserved => g \in e.reserved
        BY <1>1 DEF Fills
  <2>2. disk'.place[g] = disk.place[g] /\ disk'.files[g] = disk.files[g] BY <1>1 DEF Fills
  <2> QED BY <2>1, <2>2, GenerationStable DEF StoreInv
<1>2. GenerationInv(o)'
  <2>0. /\ o \in Generations /\ GenerationInv(o) /\ o < next' /\ next' \in Nat /\ o \in Nat
        /\ o \notin settled' /\ native'[o] = native[o] /\ op.member \notin native[o]
        /\ op.member = "metadata" => native[o] = {}
        BY NextType DEF Writes, StoreInv
  <2>1. ASSUME NEW e \in may'
        PROVE  /\ e.active # o /\ e.place[o] = "pair" /\ o \in e.reserved
               /\ op.member # "metadata" => e.files[o]["metadata"] # "torn"
    <3>1. "metadata" \in Members BY DEF Members
    <3> QED BY <2>0, <3>1 DEF Fills, Writes
  <2>2. FreshIsUnused(o)'
    <3>1. ~(o >= next') BY <2>0
    <3> QED BY <3>1 DEF FreshIsUnused
  <2>3. NothingInNone(o)' BY <2>1 DEF NothingInNone
  <2>4. WholeEverywhere(o)' BY <2>0, <2>1 DEF WholeEverywhere
  <2>5. SavedInOrder(o)' BY <2>0, <2>1 DEF GenerationInv, SavedInOrder
  <2>6. SavedIsKept(o)'
    <3> SUFFICES ASSUME NEW e \in may', native[o] # {}
                 PROVE  /\ \A m \in native[o] \cap Members : e.files[o][m] = "whole"
                        /\ "removed" \in native[o] => e.files[o]["metadata"] \in Manifests
        BY <2>0, <2>1 DEF SavedIsKept
    <3>1. PICK d \in may : \A m \in Members : m # op.member => e.files[o][m] = d.files[o][m]
          BY DEF Fills
    <3>2. /\ \A m \in native[o] \cap Members : d.files[o][m] = "whole"
          /\ "removed" \in native[o] => d.files[o]["metadata"] \in Manifests
          BY <2>0 DEF GenerationInv, SavedIsKept
    <3>3. "metadata" \in Members BY DEF Members
    <3> QED BY <2>0, <3>1, <3>2, <3>3
  <2> QED BY <2>2, <2>3, <2>4, <2>5, <2>6 DEF GenerationInv
<1> QED BY <1>1, <1>2

LEMMA FillsInv ==
  ASSUME StoreInv, NEW o, Writes(o), Fills(o),
         UNCHANGED <<legacy, next, native, settled, committed>>, op' \in OpStates, OpInv'
  PROVE  StoreInv'
<1>1. next' \in 1..(MaxGeneration + 1) /\ committed' \in Generations \cup {None}
      BY DEF StoreInv, TypeOK
<1> QED BY <1>1, FillsGenerations, DirectoryInv DEF Fills

LEMMA FillsFailInv ==
  ASSUME StoreInv, NEW o, Writes(o), Fills(o), Fail,
         UNCHANGED <<legacy, next, native, settled, committed>>
  PROVE  StoreInv'
<1>1. OpInv' /\ op' \in OpStates BY IssueFails, Zenon DEF Writes
<1> QED BY <1>1, FillsInv

(* The survivors after the change: old ones and changed ones, or only these. *)
LEMMA FillFills ==
  ASSUME StoreInv, NEW o \in Generations, NEW c \in Contents, op.member \in Members,
         disk' = Fill(o, op.member, c, disk),
         \/ may' = may \cup {Fill(o, op.member, c, d) : d \in may}
         \/ may' = {Fill(o, op.member, c, d) : d \in may}
  PROVE  Fills(o)
<1> DEFINE G(d) == Fill(o, op.member, c, d)
<1>0. disk \in may /\ may \subseteq Disks BY DEF StoreInv, TypeOK
<1>1. \A d \in may : /\ G(d) \in Disks /\ G(d).active = d.active /\ G(d).place = d.place
                     /\ G(d).reserved = d.reserved
                     /\ \A g \in Generations : g # o => G(d).files[g] = d.files[g]
                     /\ \A m \in Members : m # op.member => G(d).files[o][m] = d.files[o][m]
      BY <1>0, FillFields
<1>2. disk' = G(disk) /\ (may' = may \cup {G(d) : d \in may} \/ may' = {G(d) : d \in may})
      OBVIOUS
<1> HIDE DEF G
<1>3. ASSUME NEW e \in may'
      PROVE  \E d \in may :
               /\ e \in Disks
               /\ e.active = d.active /\ e.reserved = d.reserved
               /\ \A g \in Generations : e.place[g] = d.place[g]
               /\ \A g \in Generations : g # o => e.files[g] = d.files[g]
               /\ \A m \in Members : m # op.member => e.files[o][m] = d.files[o][m]
  <2>1. CASE e \in may BY <1>0, <2>1
  <2>2. CASE \E d \in may : e = G(d) BY <1>1, <2>2
  <2> QED BY <1>2, <2>1, <2>2
<1>4. disk' \in may' BY <1>0, <1>2
<1>5. /\ \A g \in Generations : disk'.place[g] = disk.place[g]
      /\ \A g \in Generations : g # o => disk'.files[g] = disk.files[g]
      BY <1>0, <1>1, <1>2
<1> QED BY <1>3, <1>4, <1>5 DEF Fills

LEMMA CreateMemberInv == ASSUME StoreInv, CreateMember PROVE StoreInv'
<1> SUFFICES ASSUME NEW o, o = op.gen PROVE StoreInv' OBVIOUS
<1>0. /\ op.pc = "create" /\ op.pc \in Writing
      /\ UNCHANGED <<legacy, next, native, settled, committed>>
      BY DEF CreateMember, At, Writing
<1>w. Writes(o) BY <1>0, WritingFacts
<1>1. CASE LET F(d) == Fill(op.gen, op.member, "torn", d) IN Change(F) /\ Goto("fill")
  <2>1. /\ disk' = Fill(o, op.member, "torn", disk)
        /\ may' = may \cup {Fill(o, op.member, "torn", d) : d \in may}
        /\ Goto("fill")
        BY <1>1 DEF Change
  <2>2. "torn" \in Contents /\ op.member \in Members /\ o \in Generations
        BY <1>w DEF Contents, Writes, OpStates
  <2>3. Fills(o) BY <2>1, <2>2, FillFills
  <2>4. /\ op' \in OpStates /\ op'.pc = "fill" /\ op'.gen = o /\ op'.open = TRUE
        /\ op'.reserved = TRUE /\ op'.member = op.member
    <3>1. "fill" \in Pcs /\ op \in OpStates /\ op.open = TRUE /\ op.gen = o /\ op.reserved = TRUE
          BY <1>w DEF Pcs, Writes
    <3> QED BY <2>1, <3>1, GotoFields, Zenon DEF Goto
  <2>5. OpInv'
    <3>1. op'.pc \in Writing BY <2>4 DEF Writing
    <3>2. \A e \in may' : /\ e.active # o /\ e.place[o] = "pair" /\ o \in e.reserved
                          /\ op.member # "metadata" => e.files[o]["metadata"] # "torn"
      <4>1. "metadata" \in Members BY DEF Members
      <4> QED BY <1>w, <2>3, <4>1 DEF Fills, Writes
    <3> QED BY <1>0, <1>w, <2>4, <3>1, <3>2, WritingOpInv, Zenon DEF Writes
  <2> QED BY <1>0, <1>w, <2>3, <2>4, <2>5, FillsInv
<1>2. CASE NoChange /\ Fail BY <1>0, <1>2, QuietFailInv
<1> QED BY <1>1, <1>2 DEF CreateMember

LEMMA FillMemberInv == ASSUME StoreInv, FillMember PROVE StoreInv'
<1> SUFFICES ASSUME NEW o, o = op.gen PROVE StoreInv' OBVIOUS
<1>0. /\ op.pc = "fill" /\ op.pc \in Writing /\ may \subseteq Disks
      /\ UNCHANGED <<legacy, next, native, settled, committed>>
      BY DEF FillMember, At, Writing, StoreInv, TypeOK
<1>w. Writes(o) BY <1>0, WritingFacts
<1>w2. op.member \in Members /\ o \in Generations BY <1>w DEF Writes, OpStates
<1>1. ASSUME NEW c \in Written, disk' = Fill(o, op.member, c, disk),
             may' = {Fill(o, op.member, c, d) : d \in may},
             op' = IF op.member # "metadata" THEN [op EXCEPT !.pc = "finish"]
                   ELSE [op EXCEPT !.pc = IF op.kind = "delete" THEN "remove" ELSE "export",
                                   !.member = "user"]
      PROVE  StoreInv'
  <2>1. c \in Contents /\ (op.member # "metadata" => c = "whole")
        /\ (op.member = "metadata" => c \in Manifests)
        BY DEF Written, Contents, Manifests
  <2>2. Fills(o) BY <1>1, <1>w2, <2>1, FillFills
  <2>3. \A e \in may' : e.files[o][op.member] = c
        BY <1>0, <1>1, <1>w2, <2>1, FillFields
  <2>4. \A e \in may' : /\ e.active # o /\ e.place[o] = "pair" /\ o \in e.reserved
                        /\ op.member # "metadata" => e.files[o]["metadata"] # "torn"
    <3>1. "metadata" \in Members BY DEF Members
    <3> QED BY <1>w, <2>2, <3>1 DEF Fills, Writes
  <2>5. op \in OpStates /\ op.open = TRUE /\ op.gen = o /\ op.reserved = TRUE BY <1>w DEF Writes
  <2>6. CASE op.member # "metadata"
    <3>1. "finish" \in Pcs /\ op' = [op EXCEPT !.pc = "finish"] BY <1>1, <2>6 DEF Pcs
    <3>2. /\ op' \in OpStates /\ op'.pc = "finish" /\ op'.gen = o /\ op'.open = TRUE
          /\ op'.reserved = TRUE /\ op'.member = op.member
          BY <2>5, <3>1, GotoFields, Zenon
    <3>3. op'.pc \in Writing BY <3>2 DEF Writing
    <3>4. OpInv' BY <1>0, <1>w, <2>1, <2>3, <2>4, <2>6, <3>2, <3>3, WritingOpInv, ZenonT(60) DEF Writes
    <3> QED BY <1>0, <1>w, <2>2, <3>2, <3>4, FillsInv
  <2>7. CASE op.member = "metadata"
    <3> DEFINE p == IF op.kind = "delete" THEN "remove" ELSE "export"
    <3>1. p \in Pcs /\ p \in {"remove", "export"} BY DEF Pcs
    <3>2. op' = [op EXCEPT !.pc = p, !.member = "user"] BY <1>1, <2>7
    <3> HIDE DEF p
    <3>3. /\ op' \in OpStates /\ op'.pc = p /\ op'.gen = o /\ op'.open = TRUE
          /\ op'.reserved = TRUE /\ op'.member = "user"
      <4>1. "user" \in Members BY DEF Members
      <4> QED BY <2>5, <3>1, <3>2, <4>1, MemberFields, ZenonT(60)
    <3>4. op'.pc \in Writing BY <3>1, <3>3 DEF Writing
    <3>5. \A e \in may' : e.files[o]["metadata"] \in Manifests /\ e.files[o]["metadata"] # "torn"
          BY <2>1, <2>3, <2>7 DEF Manifests
    <3>6. native'[o] = {} BY <1>0, <1>w, <2>7 DEF Writes
    <3>7. OpInv' BY <1>0, <1>w, <2>4, <3>1, <3>3, <3>4, <3>5, <3>6, WritingOpInv, Zenon DEF Writes
    <3> QED BY <1>0, <1>w, <2>2, <3>3, <3>7, FillsInv
  <2> QED BY <2>6, <2>7
<1>2. ASSUME NEW c \in Written, disk' = Fill(o, op.member, c, disk),
             may' = may \cup {Fill(o, op.member, c, d) : d \in may}, Fail
      PROVE  StoreInv'
  <2>1. c \in Contents BY DEF Written, Contents, Manifests
  <2>2. Fills(o) BY <1>2, <1>w2, <2>1, FillFills
  <2> QED BY <1>0, <1>w, <1>2, <2>2, FillsFailInv
<1>3. CASE NoChange /\ Fail BY <1>0, <1>3, QuietFailInv
<1> QED BY <1>1, <1>2, <1>3 DEF FillMember, Change
=============================================================================
