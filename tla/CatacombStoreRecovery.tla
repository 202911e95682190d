----------------------- MODULE CatacombStoreRecovery ------------------------
(***************************************************************************)
(* The steps of CatacombStore that select, release and drop a candidate,   *)
(* the legacy tool beside them, crashes and recover keep the invariant.    *)
(***************************************************************************)
EXTENDS CatacombStoreSteps

-----------------------------------------------------------------------------
(* The marker, the reservation and the failed transaction *)

(* The marker's temporary file is written or removed. *)
LEMMA TemporaryView ==
  ASSUME StoreInv, NEW o \in Generations,
         \/ /\ disk' = RemoveTemporary(o, disk)
            /\ may' = may \cup {RemoveTemporary(o, d) : d \in may}
         \/ /\ disk' = [disk EXCEPT !.temporary = @ \cup {o}]
            /\ may' = may \cup {[d EXCEPT !.temporary = @ \cup {o}] : d \in may}
  PROVE  SameView
<1>0. disk \in may /\ may \subseteq Disks BY DEF StoreInv, TypeOK
<1> DEFINE G(d) == RemoveTemporary(o, d)
           H(d) == [d EXCEPT !.temporary = @ \cup {o}]
<1>1. /\ \A d \in may : /\ G(d) \in Disks /\ G(d).active = d.active /\ G(d).place = d.place
                        /\ G(d).reserved = d.reserved /\ G(d).files = d.files
      /\ \A d \in may : /\ H(d) \in Disks /\ H(d).active = d.active /\ H(d).place = d.place
                        /\ H(d).reserved = d.reserved /\ H(d).files = d.files
      BY <1>0, TemporaryFields, Zenon
<1>2. \/ disk' = G(disk) /\ may' = may \cup {G(d) : d \in may}
      \/ disk' = H(disk) /\ may' = may \cup {H(d) : d \in may}
      OBVIOUS
<1> HIDE DEF G, H
<1>3. ASSUME NEW e \in may'
      PROVE  e \in Disks /\ \E d \in may : /\ e.active = d.active /\ e.reserved = d.reserved
                                           /\ e.files = d.files /\ e.place = d.place
  <2>1. CASE e \in may BY <1>0, <2>1
  <2>2. CASE \E d \in may : e = G(d) \/ e = H(d) BY <1>1, <2>2
  <2> QED BY <1>2, <2>1, <2>2
<1>4. /\ disk' \in may' /\ disk'.active = disk.active /\ disk'.reserved = disk.reserved
      /\ disk'.files = disk.files /\ disk'.place = disk.place
      BY <1>0, <1>1, <1>2
<1> QED BY <1>3, <1>4 DEF SameView

LEMMA WriteMarkerInv == ASSUME StoreInv, WriteMarker PROVE StoreInv'
<1> SUFFICES ASSUME NEW o, o = op.gen PROVE StoreInv' OBVIOUS
<1>0. /\ op.pc = "marker" /\ op.pc \in Selecting
      /\ UNCHANGED <<legacy, next, native, settled, committed>>
      BY DEF WriteMarker, At, Selecting
<1>w. Selects(o) BY <1>0, SelectingFacts
<1>1. ASSUME SameView, Goto("replace") PROVE StoreInv'
  <2>1. "replace" \in Pcs /\ op \in OpStates /\ op.gen = o BY <1>w DEF Pcs, Selects
  <2>2. /\ op' \in OpStates /\ op'.pc = "replace" /\ op'.gen = o /\ op'.open = op.open
        /\ op'.reserved = op.reserved
        BY <1>1, <2>1, GotoFields, Zenon DEF Goto
  <2>3. op'.pc \in Selecting BY <2>2 DEF Selecting
  <2>4. \A d \in may' : Whole(d, o) BY <1>w, <1>1 DEF Selects, SameView, Whole, Readable
  <2>5. OpInv' BY <1>0, <1>w, <2>2, <2>3, <2>4, SelectingOpInv DEF Selects
  <2> QED BY <1>0, <1>1, <2>2, <2>5, SameViewInv
<1>2. CASE /\ LET F(d) == [d EXCEPT !.temporary = @ \cup {op.gen}] IN Change(F)
           /\ Goto("replace") \/ Fail
  <2>1. SameView BY <1>w, <1>2, TemporaryView, ZenonT(60) DEF Change, Selects
  <2> QED BY <1>0, <1>1, <1>2, <2>1, SameViewFailInv
<1>3. CASE LET F(d) == RemoveTemporary(op.gen, d) IN Change(F) /\ Fail
  <2>1. SameView BY <1>w, <1>3, TemporaryView, Zenon DEF Change, Selects
  <2> QED BY <1>0, <1>3, <2>1, SameViewFailInv
<1>4. CASE NoChange /\ Fail BY <1>0, <1>4, QuietFailInv
<1> QED BY <1>2, <1>3, <1>4 DEF WriteMarker

LEMMA ReplaceMarkerInv == ASSUME StoreInv, ReplaceMarker PROVE StoreInv'
<1> SUFFICES ASSUME NEW o, o = op.gen PROVE StoreInv' OBVIOUS
<1>0. /\ op.pc = "replace" /\ op.pc \in Selecting /\ disk \in may /\ may \subseteq Disks
      /\ UNCHANGED <<legacy, next, native, settled, committed>>
      BY DEF ReplaceMarker, At, Selecting, StoreInv, TypeOK
<1>w. Selects(o) BY <1>0, SelectingFacts
<1>1. CASE /\ LET F(d) == [d EXCEPT !.active = op.gen, !.temporary = @ \ {op.gen}] IN Change(F)
           /\ op' = [op EXCEPT !.pc = "replaced", !.replaced = op.open]
  <2> DEFINE G(d) == [d EXCEPT !.active = o, !.temporary = @ \ {o}]
  <2>1. o \in Generations /\ disk' = G(disk) /\ may' = may \cup {G(d) : d \in may}
        BY <1>w, <1>1, Zenon DEF Change, Selects
  <2>2. \A d \in may : /\ G(d) \in Disks /\ G(d).active = o /\ G(d).files = d.files
                       /\ G(d).reserved = d.reserved /\ G(d).place = d.place
        BY <1>0, <2>1, MarkerFields, ZenonT(60)
  <2> HIDE DEF G
  <2>3. ASSUME NEW e \in may'
        PROVE  \E d \in may : /\ e \in Disks /\ (e.active = d.active \/ e.active = o)
                              /\ e.files = d.files /\ e.reserved = d.reserved /\ e.place = d.place
    <3>1. CASE e \in may BY <1>0, <3>1
    <3>2. CASE \E d \in may : e = G(d) BY <2>2, <3>2
    <3> QED BY <2>1, <3>1, <3>2
  <2>4. disk' \in may' /\ may' \subseteq Disks /\ disk'.active = o
        /\ disk'.files = disk.files /\ disk'.place = disk.place
        BY <1>0, <2>1, <2>2, <2>3
  <2>5. \A e \in may' : Whole(e, o) BY <1>w, <2>3 DEF Selects, Whole, Readable
  <2>6. ASSUME NEW g \in Generations, g # o PROVE GenerationInv(g)'
    <3>1. disk'.place[g] = disk.place[g] /\ disk'.files[g] = disk.files[g] BY <2>4
    <3>2. \A e \in may' : \E d \in may :
            /\ e.active = g => d.active = g
            /\ e.place[g] = d.place[g] /\ e.files[g] = d.files[g]
            /\ g \notin settled /\ g \in d.reserved => g \in e.reserved
          BY <2>3, <2>6
    <3> QED BY <1>0, <3>1, <3>2, GenerationStable DEF StoreInv
  <2>7. GenerationInv(o)'
    <3>0. GenerationInv(o) BY <2>1 DEF StoreInv
    <3>1. FreshIsUnused(o)'
      <4>1. disk.place[o] # "none" BY <1>0, <1>w DEF Selects, Whole, Readable
      <4>2. ~(o >= next') BY <1>0, <3>0, <4>1 DEF GenerationInv, FreshIsUnused
      <4> QED BY <4>2 DEF FreshIsUnused
    <3>2. NothingInNone(o)' BY <2>3, <3>0 DEF GenerationInv, NothingInNone
    <3>3. WholeEverywhere(o)' BY <2>5 DEF WholeEverywhere
    <3>4. SavedInOrder(o)' BY <1>0, <2>3, <3>0 DEF GenerationInv, SavedInOrder
    <3>5. SavedIsKept(o)'
      <4>1. SUFFICES ASSUME o \notin settled, native[o] # {}, NEW e \in may'
                     PROVE  /\ o \in e.reserved
                            /\ e.place[o] = "pair"
                            /\ \A m \in native[o] \cap Members : e.files[o][m] = "whole"
                            /\ "removed" \in native[o] => e.files[o]["metadata"] \in Manifests
            BY <1>0 DEF SavedIsKept
      <4>2. PICK d \in may : e.files = d.files /\ e.reserved = d.reserved /\ e.place = d.place
            BY <2>3
      <4> QED BY <3>0, <4>1, <4>2 DEF GenerationInv, SavedIsKept
    <3> QED BY <3>1, <3>2, <3>3, <3>4, <3>5 DEF GenerationInv
  <2>8. /\ op' \in OpStates /\ op'.pc = "replaced" /\ op'.gen = o /\ op'.open = op.open
        /\ op'.reserved = op.reserved
    <3>1. "replaced" \in Pcs /\ op \in OpStates /\ op.gen = o /\ op.open \in BOOLEAN
          BY <1>w DEF Pcs, Selects, OpStates
    <3> QED BY <1>1, <3>1, Zenon DEF OpStates
  <2>9. OpInv'
    <3>1. op'.pc \in Selecting BY <2>8 DEF Selecting
    <3> QED BY <1>0, <1>w, <2>4, <2>5, <2>8, <3>1, SelectingOpInv DEF Selects
  <2>10. next' \in 1..(MaxGeneration + 1) /\ committed' \in Generations \cup {None}
        BY <1>0 DEF StoreInv, TypeOK
  <2> QED BY <1>0, <2>4, <2>6, <2>7, <2>8, <2>9, <2>10, DirectoryInv
<1>2. CASE LET F(d) == RemoveTemporary(op.gen, d) IN Change(F) /\ Fail
  <2>1. SameView BY <1>w, <1>2, TemporaryView, Zenon DEF Change, Selects
  <2> QED BY <1>0, <1>2, <2>1, SameViewFailInv
<1>3. CASE NoChange /\ Fail BY <1>0, <1>3, QuietFailInv
<1> QED BY <1>1, <1>2, <1>3 DEF ReplaceMarker

LEMMA ReleaseReservationInv == ASSUME StoreInv, ReleaseReservation PROVE StoreInv'
<1> SUFFICES ASSUME NEW o, o = op.gen PROVE StoreInv' OBVIOUS
<1>0. /\ op.pc = "release" /\ op.pc \in Selecting /\ disk \in may /\ may \subseteq Disks
      /\ UNCHANGED <<legacy, next, native, settled>> /\ o \in settled
      BY DEF ReleaseReservation, At, Selecting, StoreInv, TypeOK, OpInv, CandidateIsWhole
<1>w. Selects(o) BY <1>0, SelectingFacts
<1>1. CASE /\ LET F(d) == [d EXCEPT !.reserved = @ \ {op.gen}] IN Change(F)
           /\ committed' = op.gen /\ Goto("released")
  <2> DEFINE G(d) == [d EXCEPT !.reserved = @ \ {o}]
  <2>1. o \in Generations /\ disk' = G(disk) /\ may' = may \cup {G(d) : d \in may}
        BY <1>w, <1>1 DEF Change, Selects
  <2>2. \A d \in may : /\ G(d) \in Disks /\ G(d).active = d.active /\ G(d).files = d.files
                       /\ G(d).reserved = d.reserved \ {o} /\ G(d).place = d.place
        BY <1>0, <2>1, ReleasedFields, ZenonT(60)
  <2> HIDE DEF G
  <2>3. ASSUME NEW e \in may'
        PROVE  \E d \in may : /\ e \in Disks /\ e.active = d.active /\ e.files = d.files
                              /\ d.reserved \ {o} \subseteq e.reserved /\ e.place = d.place
    <3>1. CASE e \in may BY <1>0, <3>1
    <3>2. CASE \E d \in may : e = G(d) BY <2>2, <3>2
    <3> QED BY <2>1, <3>1, <3>2
  <2>4. disk' \in may' /\ may' \subseteq Disks BY <1>0, <2>1, <2>3
  <2>5. ASSUME NEW g \in Generations PROVE GenerationInv(g)'
    <3>1. disk'.place[g] = disk.place[g] /\ disk'.files[g] = disk.files[g]
          BY <1>0, <2>1, <2>2
    <3>2. \A e \in may' : \E d \in may :
            /\ e.active = g => d.active = g
            /\ e.place[g] = d.place[g] /\ e.files[g] = d.files[g]
            /\ g \notin settled /\ g \in d.reserved => g \in e.reserved
          BY <1>0, <2>3
    <3> QED BY <1>0, <3>1, <3>2, GenerationStable DEF StoreInv
  <2>6. /\ op' \in OpStates /\ op'.pc = "released" /\ op'.gen = o /\ op'.open = op.open
        /\ op'.reserved = op.reserved
    <3>1. "released" \in Pcs /\ op \in OpStates /\ op.gen = o BY <1>w DEF Pcs, Selects
    <3> QED BY <1>1, <3>1, GotoFields, Zenon DEF Goto
  <2>7. OpInv' BY <1>0, <1>w, <2>6, SelectingOpInv DEF Selects
  <2>8. next' \in 1..(MaxGeneration + 1) /\ committed' \in Generations \cup {None}
        BY <1>0, <1>1, <2>1 DEF StoreInv, TypeOK
  <2> QED BY <1>0, <2>4, <2>5, <2>6, <2>7, <2>8, DirectoryInv
<1>2. CASE NoChange /\ UNCHANGED committed /\ Fail BY <1>0, <1>2, QuietFailInv
<1> QED BY <1>1, <1>2 DEF ReleaseReservation

LEMMA DropTransactionInv == ASSUME StoreInv, DropTransaction PROVE StoreInv'
<1> SUFFICES ASSUME NEW o, o = op.gen PROVE StoreInv' OBVIOUS
<1>0. /\ op.pc = "drop" /\ op.open /\ disk \in may /\ may \subseteq Disks /\ op' = Idle
      /\ UNCHANGED <<legacy, next, native, settled, committed>> /\ o \in Generations /\ o < next
      BY DEF DropTransaction, At, StoreInv, TypeOK, OpInv, OpIsOpen
<1>1. PICK temporary \in BOOLEAN, generation \in BOOLEAN :
        LET F(d) == LET e == IF temporary THEN RemoveTemporary(op.gen, d) ELSE d
                    IN IF generation THEN Remove(op.gen, e) ELSE e
        IN (generation => Droppable) /\ Change(F)
      BY Zenon DEF DropTransaction
<1> DEFINE T(d) == IF temporary THEN RemoveTemporary(o, d) ELSE d
           G(d) == IF generation THEN Remove(o, T(d)) ELSE T(d)
<1>2. /\ disk' = G(disk) /\ may' = may \cup {G(d) : d \in may}
      /\ generation => Droppable
      BY <1>1 DEF Change
<1>3. \A d \in may : /\ T(d) \in Disks /\ T(d).active = d.active /\ T(d).files = d.files
                     /\ T(d).reserved = d.reserved /\ T(d).place = d.place
      BY <1>0, TemporaryFields, Zenon
<1>4. \A d \in may :
        /\ G(d) \in Disks /\ G(d).active = d.active /\ G(d).reserved = d.reserved
        /\ \A h \in Generations : h # o => G(d).place[h] = d.place[h] /\ G(d).files[h] = d.files[h]
        /\ generation => G(d).files[o] = NoFiles /\ G(d).place[o] = "none"
        /\ ~generation => G(d).files = d.files /\ G(d).place = d.place
  <2> HIDE DEF T
  <2> SUFFICES ASSUME NEW d \in may
               PROVE  /\ G(d) \in Disks /\ G(d).active = d.active /\ G(d).reserved = d.reserved
                      /\ \A h \in Generations : h # o => /\ G(d).place[h] = d.place[h]
                                                         /\ G(d).files[h] = d.files[h]
                      /\ generation => G(d).files[o] = NoFiles /\ G(d).place[o] = "none"
                      /\ ~generation => G(d).files = d.files /\ G(d).place = d.place
      BY Zenon
  <2>1. CASE generation
    <3>1. G(d) = Remove(o, T(d)) BY <2>1
    <3> HIDE DEF G
    <3> QED BY <1>0, <1>3, <2>1, <3>1, RemoveFields, SMTT(60)
  <2>2. CASE ~generation BY <1>3, <2>2
  <2> QED BY <2>1, <2>2, Zenon
<1> HIDE DEF T, G
<1>5. ASSUME NEW e \in may'
      PROVE  \E d \in may :
               /\ e \in Disks /\ e.active = d.active /\ e.reserved = d.reserved
               /\ \A h \in Generations : h # o => e.place[h] = d.place[h] /\ e.files[h] = d.files[h]
               /\ \/ e.files[o] = d.files[o] /\ e.place[o] = d.place[o]
                  \/ generation /\ e.files[o] = NoFiles /\ e.place[o] = "none"
  <2>1. CASE e \in may BY <1>0, <2>1
  <2>2. CASE \E d \in may : e = G(d) BY <1>4, <2>2
  <2> QED BY <1>2, <2>1, <2>2
<1>6. disk' \in may' /\ may' \subseteq Disks BY <1>0, <1>2, <1>5
<1>7. ASSUME NEW g \in Generations, g # o \/ ~generation PROVE GenerationInv(g)'
  <2>1. disk'.place[g] = disk.place[g] /\ disk'.files[g] = disk.files[g]
        BY <1>0, <1>2, <1>4, <1>7
  <2>2. \A e \in may' : \E d \in may :
          /\ e.active = g => d.active = g
          /\ e.place[g] = d.place[g] /\ e.files[g] = d.files[g]
          /\ g \notin settled /\ g \in d.reserved => g \in e.reserved
        BY <1>5, <1>7
  <2> QED BY <1>0, <2>1, <2>2, GenerationStable DEF StoreInv
<1>8. ASSUME generation PROVE GenerationInv(o)'
  <2>1. ~op.reserved BY <1>2, <1>8 DEF Droppable
  <2>2. /\ native[o] = {} /\ o \notin settled /\ \A d \in may : d.active # o
        BY <1>0, <2>1 DEF StoreInv, OpInv, OpIsOpen
  <2>3. \A d \in may : d.place[o] = "none" => d.files[o] = NoFiles
        BY <1>0 DEF StoreInv, GenerationInv, NothingInNone
  <2>4. \A e \in may' : e.active # o /\ (e.place[o] = "none" => e.files[o] = NoFiles)
        BY <1>5, <2>2, <2>3
  <2> QED BY <1>0, <2>2, <2>4, NextType, UnusedGeneration
<1>9. \A g \in Generations : GenerationInv(g)' BY <1>7, <1>8
<1>10. next' \in 1..(MaxGeneration + 1) /\ committed' \in Generations \cup {None}
      BY <1>0 DEF StoreInv, TypeOK
<1> QED BY <1>0, <1>6, <1>9, <1>10, IdleFields, IdleOpInv, DirectoryInv

-----------------------------------------------------------------------------
(* The legacy tool beside the operation *)

LEMMA OpStable ==
  ASSUME StoreInv, UNCHANGED <<op, native, next>>, NEW o, o = op.gen,
         \A e \in may' : \E d \in may : e.active = d.active,
         o \in Generations => \A e \in may' : \E d \in may :
           e.files[o] = d.files[o] \/ (e.files[o] = NoFiles /\ disk.place[o] = "none"),
         o \in Generations => \A e \in may' : \E d \in may :
           e.place[o] = d.place[o] /\ d.reserved \subseteq e.reserved,
         disk'.place = disk.place, disk.reserved \subseteq disk'.reserved,
         disk'.active = disk.active,
         settled \subseteq settled', settled' \subseteq settled \cup {disk.active}
  PROVE  OpInv'
<1>0. disk \in may /\ op \in OpStates BY DEF StoreInv, TypeOK
<1>1. NoFiles["metadata"] = "absent" BY DEF NoFiles, Members
<1>2. CASE op.pc \in BeforeReservation
  <2>w. Reserves(o) BY <1>2, ReservingFacts
  <2>1. o \notin settled' BY <1>0, <2>w DEF Reserves
  <2>2. \A d \in may' : d.active # o /\ d.files[o]["metadata"] # "torn"
        BY <1>1, <2>w DEF Reserves
  <2>3. op.pc = "renamed" => disk'.place[o] = "pair" BY DEF StoreInv, OpInv, Reserving
  <2>4. op.pc \in {"reserve", "reserved"} => \A d \in may' : d.place[o] = "pair"
        BY <2>w DEF StoreInv, OpInv, Reserving, Reserves
  <2>5. op.pc = "reserved" => o \in disk'.reserved /\ op.reserved
        BY <2>w DEF StoreInv, OpInv, Reserving, OpIsOpen, Reserves
  <2> QED BY <1>2, <2>w, <2>1, <2>2, <2>3, <2>4, <2>5, ReservingOpInv, Zenon DEF Reserves
<1>3. CASE op.pc \in Writing
  <2>w. Writes(o) BY <1>3, WritingFacts
  <2>1. o \notin settled' BY <1>0, <2>w DEF Writes
  <2>2. \A e \in may' : \E d \in may : e.files[o] = d.files[o]
        BY <1>0, <2>w DEF Writes
  <2>3. \A d \in may' : d.active # o /\ d.place[o] = "pair" /\ o \in d.reserved
        BY <2>w DEF Writes
  <2>4. op.member # "metadata" => \A d \in may' : d.files[o]["metadata"] # "torn"
        BY <2>w, <2>2 DEF Writes
  <2>5. /\ op.member = "metadata" => native[o] = {} /\ op.pc \in {"create", "fill"}
        /\ op.pc = "remove" =>
             op.member = "user" /\ \A d \in may : d.files[o]["metadata"] \in Manifests
        /\ op.pc = "finish" => \A d \in may : d.files[o][op.member] = "whole"
        BY <1>3 DEF StoreInv, OpInv, MembersInOrder
  <2>6. /\ op.pc = "remove" =>
             op.member = "user" /\ \A d \in may' : d.files[o]["metadata"] \in Manifests
        /\ op.pc = "finish" => \A d \in may' : d.files[o][op.member] = "whole"
        BY <2>2, <2>5
  <2> QED BY <1>3, <2>w, <2>1, <2>3, <2>4, <2>5, <2>6, WritingOpInv, ZenonT(60) DEF Writes
<1>4. CASE op.pc \in Selecting
  <2>w. Selects(o) BY <1>4, SelectingFacts
  <2>1. \A e \in may' : Whole(e, o)
    <3>1. disk.place[o] = "pair" BY <1>0, <2>w DEF Selects, Whole, Readable
    <3>2. \A e \in may' : \E d \in may : e.files[o] = d.files[o] BY <2>w, <3>1 DEF Selects
    <3>3. \A e \in may' : e.place[o] = "pair" BY <2>w DEF Selects, Whole, Readable
    <3> QED BY <2>w, <3>2, <3>3 DEF Selects, Whole, Readable
  <2>2. /\ op.pc = "replaced" => disk'.active = o
        /\ op.pc = "release" => o \in settled'
        BY DEF StoreInv, OpInv, CandidateIsWhole
  <2> QED BY <1>4, <2>w, <2>1, <2>2, SelectingOpInv DEF Selects
<1>5. CASE op.pc \notin BeforeReservation \cup Writing \cup Selecting
  <2>1. op.open /\ ~op.reserved => o \notin settled' /\ \A d \in may' : d.active # o
        BY <1>0 DEF StoreInv, OpInv, OpIsOpen
  <2>2. OpIsOpen' BY <1>5, <2>1 DEF StoreInv, OpInv, OpIsOpen
  <2>3. Reserving' /\ MembersInOrder'
        BY <1>5 DEF Reserving, MembersInOrder, BeforeReservation, Writing
  <2>4. CandidateIsWhole'
        BY <1>5 DEF StoreInv, OpInv, CandidateIsWhole, Selecting
  <2> QED BY <2>2, <2>3, <2>4 DEF OpInv
<1> QED BY <1>2, <1>3, <1>4, <1>5

LEMMA SyncOpInv ==
  ASSUME StoreInv, SyncDirectory, UNCHANGED <<op, native, next>>
  PROVE  OpInv' /\ op' \in OpStates
<1> SUFFICES ASSUME NEW o, o = op.gen PROVE OpInv' /\ op' \in OpStates OBVIOUS
<1>1. disk \in may /\ op' \in OpStates BY DEF StoreInv, TypeOK
<1>2. /\ disk' = disk /\ settled \subseteq settled' /\ settled' \subseteq settled \cup {disk.active}
      /\ \A e \in may' : e.active = disk.active
      BY SyncFacts
<1>3. o \in Generations => \A e \in may' : \E d \in may :
           e.files[o] = d.files[o] \/ (e.files[o] = NoFiles /\ disk.place[o] = "none")
      BY SyncFacts
<1>4. o \in Generations => \A e \in may' : e.place[o] = disk.place[o] /\ e.reserved = disk.reserved
      BY SyncFacts
<1> QED BY <1>1, <1>2, <1>3, <1>4, OpStable

LEMMA QuietOpInv ==
  ASSUME StoreInv, NoChange, UNCHANGED <<op, next, native, settled>>
  PROVE  OpInv'
<1>1. OpInv BY DEF StoreInv
<1>2. OpIsOpen' BY <1>1 DEF NoChange, OpInv, OpIsOpen
<1>3. Reserving' BY <1>1 DEF NoChange, OpInv, Reserving
<1>4. MembersInOrder' BY <1>1 DEF NoChange, OpInv, MembersInOrder
<1>5. CandidateIsWhole' BY <1>1 DEF NoChange, OpInv, CandidateIsWhole
<1> QED BY <1>2, <1>3, <1>4, <1>5 DEF OpInv

LEMMA LegacyInspectInv ==
  ASSUME StoreInv, NEW g \in Generations, LegacyInspect(g)
  PROVE  StoreInv'
<1> DEFINE p == IF disk.reserved = {} THEN "create" ELSE "ready"
<1>1. /\ SyncDirectory /\ UNCHANGED <<op, next, native, committed>>
      /\ legacy' = [pc |-> p, gen |-> g] /\ p \in {"create", "ready"}
      BY DEF LegacyInspect
<1> HIDE DEF p
<1>2. legacy' \in [pc: {"idle", "create", "created", "ready"}, gen: Generations \cup {None}]
      /\ LegacyInv'
      BY <1>1 DEF LegacyInv
<1> QED BY <1>1, <1>2, SyncOpInv, SyncInv

LEMMA LegacySyncInv == ASSUME StoreInv, LegacySync PROVE StoreInv'
<1>0. UNCHANGED <<op, next, native, committed>> /\ legacy.pc = "created" BY DEF LegacySync
<1>1. CASE SyncDirectory /\ legacy' = [legacy EXCEPT !.pc = "ready"]
  <2>1. legacy' \in [pc: {"idle", "create", "created", "ready"}, gen: Generations \cup {None}]
        /\ LegacyInv'
        BY <1>0, <1>1 DEF LegacyInv, StoreInv, TypeOK
  <2> QED BY <1>0, <1>1, <2>1, SyncOpInv, SyncInv
<1>2. CASE NoChange /\ UNCHANGED settled /\ legacy' = NoLegacy
  <2>1. TypeOK' /\ LegacyInv'
        BY <1>0, <1>2, IdleFields DEF StoreInv, TypeOK, LegacyInv, NoChange
  <2> QED BY <1>0, <1>2, <2>1, QuietOpInv, QuietGeneration DEF StoreInv
<1> QED BY <1>1, <1>2 DEF LegacySync

LEMMA LegacyReserveInv == ASSUME StoreInv, LegacyReserve PROVE StoreInv'
<1> SUFFICES ASSUME NEW o, o = legacy.gen PROVE StoreInv' OBVIOUS
<1>0. /\ UNCHANGED <<op, next, native, settled, committed>> /\ legacy.pc = "create"
      /\ o \in Generations /\ disk \in may /\ may \subseteq Disks
      BY DEF LegacyReserve, StoreInv, LegacyInv, TypeOK
<1>1. CASE /\ LET F(d) == [d EXCEPT !.reserved = @ \cup {legacy.gen}] IN Change(F)
           /\ legacy' = [legacy EXCEPT !.pc = "created"]
  <2> DEFINE G(d) == [d EXCEPT !.reserved = @ \cup {o}]
  <2>1. disk' = G(disk) /\ may' = may \cup {G(d) : d \in may} BY <1>1 DEF Change
  <2>2. \A d \in may : /\ G(d) \in Disks /\ G(d).active = d.active /\ G(d).files = d.files
                       /\ G(d).reserved = d.reserved \cup {o} /\ G(d).place = d.place
        BY <1>0, <2>1, ReservedFields, ZenonT(60)
  <2> HIDE DEF G
  <2>3. ASSUME NEW e \in may'
        PROVE  \E d \in may : /\ e \in Disks /\ e.active = d.active /\ e.files = d.files
                              /\ d.reserved \subseteq e.reserved /\ e.place = d.place
    <3>1. CASE e \in may BY <1>0, <3>1
    <3>2. CASE \E d \in may : e = G(d) BY <2>2, <3>2
    <3> QED BY <2>1, <3>1, <3>2
  <2>4. /\ disk' \in may' /\ may' \subseteq Disks /\ disk'.place = disk.place
        /\ disk'.active = disk.active /\ disk'.files = disk.files
        /\ disk.reserved \subseteq disk'.reserved
        BY <1>0, <2>1, <2>2, <2>3
  <2>5. ASSUME NEW g \in Generations PROVE GenerationInv(g)'
    <3>1. disk'.place[g] = disk.place[g] /\ disk'.files[g] = disk.files[g]
          BY <2>4
    <3>2. \A e \in may' : \E d \in may :
            /\ e.active = g => d.active = g
            /\ e.place[g] = d.place[g] /\ e.files[g] = d.files[g]
            /\ g \notin settled /\ g \in d.reserved => g \in e.reserved
          BY <2>3
    <3> QED BY <1>0, <3>1, <3>2, GenerationStable DEF StoreInv
  <2>6. OpInv' BY <1>0, <2>3, <2>4, OpStable
  <2>7. TypeOK' /\ LegacyInv' BY <1>0, <1>1, <2>4 DEF StoreInv, TypeOK, LegacyInv
  <2> QED BY <2>5, <2>6, <2>7 DEF StoreInv
<1>2. CASE NoChange /\ legacy' = NoLegacy
  <2>1. TypeOK' /\ LegacyInv'
        BY <1>0, <1>2, IdleFields DEF StoreInv, TypeOK, LegacyInv, NoChange
  <2> QED BY <1>0, <1>2, <2>1, QuietOpInv, QuietGeneration DEF StoreInv
<1> QED BY <1>1, <1>2 DEF LegacyReserve

LEMMA LegacyLeaseInv == ASSUME StoreInv, LegacyLease PROVE StoreInv'
<1>0. /\ NoChange /\ UNCHANGED <<next, native, settled, committed>> /\ legacy' = NoLegacy
      BY DEF LegacyLease
<1>1. OpInv' /\ op' \in OpStates
  <2>1. CASE op' = [Idle EXCEPT !.kind = "legacy", !.pc = "sync"] BY <2>1, WaitingOpInv
  <2>2. CASE UNCHANGED op BY <1>0, <2>2, QuietOpInv DEF StoreInv, TypeOK
  <2> QED BY <2>1, <2>2 DEF LegacyLease
<1>2. TypeOK' /\ LegacyInv'
      BY <1>0, <1>1, IdleFields DEF StoreInv, TypeOK, LegacyInv, NoChange
<1> QED BY <1>0, <1>1, <1>2, QuietGeneration DEF StoreInv

-----------------------------------------------------------------------------
(* Crashes *)

LEMMA ProcessCrashInv == ASSUME StoreInv, ProcessCrash PROVE StoreInv'
<1>0. NoChange /\ UNCHANGED <<next, native, settled, committed>> BY DEF ProcessCrash
<1>1. OpInv' /\ op' \in OpStates
  <2>1. CASE op' = Idle BY <2>1, IdleOpInv, IdleFields
  <2>2. CASE UNCHANGED op BY <1>0, <2>2, QuietOpInv DEF StoreInv, TypeOK
  <2> QED BY <2>1, <2>2 DEF ProcessCrash
<1>2. TypeOK' /\ LegacyInv'
  <2>1. CASE UNCHANGED legacy BY <1>0, <1>1, <2>1 DEF StoreInv, TypeOK, LegacyInv, NoChange
  <2>2. CASE legacy' = NoLegacy
        BY <1>0, <1>1, <2>2, IdleFields DEF StoreInv, TypeOK, LegacyInv, NoChange
  <2> QED BY <2>1, <2>2 DEF ProcessCrash
<1> QED BY <1>0, <1>1, <1>2, QuietGeneration DEF StoreInv

LEMMA PowerLossInv == ASSUME StoreInv, PowerLoss PROVE StoreInv'
<1>0. /\ disk' \in may /\ may' = {disk'} /\ op' = Idle /\ legacy' = NoLegacy
      /\ settled' = settled \cup ({disk'.active} \ {None})
      /\ UNCHANGED <<next, native, committed>> /\ disk' \in Disks
      BY DEF PowerLoss, StoreInv, TypeOK
<1>1. TypeOK' /\ LegacyInv'
  <2>1. disk'.active \in Generations \cup {None} BY <1>0 DEF Disks
  <2> QED BY <1>0, <2>1, IdleFields DEF StoreInv, TypeOK, LegacyInv
<1>2. ASSUME NEW g \in Generations PROVE GenerationInv(g)'
  <2>0. GenerationInv(g) BY DEF StoreInv
  <2>1. g \in settled' <=> g \in settled \/ disk'.active = g BY <1>0, NextType
  <2>2. FreshIsUnused(g)' BY <1>0, <2>0, <2>1 DEF GenerationInv, FreshIsUnused
  <2>3. NothingInNone(g)' BY <1>0, <2>0 DEF GenerationInv, NothingInNone
  <2>4. disk'.active = g => Whole(disk', g) BY <1>0, <2>0 DEF GenerationInv, WholeEverywhere
  <2>5. WholeEverywhere(g)' BY <1>0, <2>4 DEF WholeEverywhere
  <2>6. SavedInOrder(g)'
        BY <1>0, <2>0, <2>1, <2>4 DEF GenerationInv, SavedInOrder, Whole, Readable
  <2>7. SavedIsKept(g)' BY <1>0, <2>0, <2>1 DEF GenerationInv, SavedIsKept
  <2> QED BY <2>2, <2>3, <2>5, <2>6, <2>7 DEF GenerationInv
<1> QED BY <1>0, <1>1, <1>2, IdleOpInv DEF StoreInv

-----------------------------------------------------------------------------
(* recover *)

Recovered(d, gone, temporary, part, lost) ==
  [d EXCEPT
     !.temporary = @ \ temporary,
     !.place = [g \in Generations |-> IF g \in gone THEN "none" ELSE @[g]],
     !.files = [g \in Generations |-> [m \in Members |->
                  IF g \in gone \/ (g = part /\ m \in lost) THEN "absent" ELSE @[g][m]]]]

LEMMA RecoveredFields ==
  ASSUME NEW d \in Disks, NEW gone, NEW temporary, NEW part, NEW lost
  PROVE  /\ Recovered(d, gone, temporary, part, lost) \in Disks
         /\ Recovered(d, gone, temporary, part, lost).active = d.active
         /\ Recovered(d, gone, temporary, part, lost).reserved = d.reserved
         /\ \A g \in Generations :
              /\ Recovered(d, gone, temporary, part, lost).place[g] =
                   IF g \in gone THEN "none" ELSE d.place[g]
              /\ \A m \in Members :
                   Recovered(d, gone, temporary, part, lost).files[g][m] =
                     IF g \in gone \/ (g = part /\ m \in lost) THEN "absent" ELSE d.files[g][m]
<1> DEFINE F == Recovered(d, gone, temporary, part, lost)
           Lost(g, m) == g \in gone \/ (g = part /\ m \in lost)
           P == [g \in Generations |-> IF g \in gone THEN "none" ELSE d.place[g]]
           Q == [g \in Generations |-> [m \in Members |->
                   IF Lost(g, m) THEN "absent" ELSE d.files[g][m]]]
           T == d.temporary \ temporary
<1>1. F = [d EXCEPT !.temporary = T, !.place = P, !.files = Q] BY DEF Recovered
<1>2. P \in [Generations -> {"none", "stage", "pair"}] BY DEF Disks
<1>3. Q \in [Generations -> [Members -> Contents]] BY DEF Disks, Contents
<1>4. T \in SUBSET Generations BY DEF Disks
<1>5. /\ \A g \in Generations : P[g] = IF g \in gone THEN "none" ELSE d.place[g]
      /\ \A g \in Generations : \A m \in Members :
           Q[g][m] = IF Lost(g, m) THEN "absent" ELSE d.files[g][m]
      OBVIOUS
<1>6. /\ F \in Disks /\ F.active = d.active /\ F.reserved = d.reserved
      /\ F.place = P /\ F.files = Q
  <2> HIDE DEF P, Q, T, F
  <2> QED BY <1>1, <1>2, <1>3, <1>4, Zenon DEF Disks
<1> HIDE DEF P, Q, T
<1> QED BY <1>5, <1>6

RecoveredTo(gone, temporary, part, lost) ==
  LET F(d) == Recovered(d, gone, temporary, part, lost)
      before == Synced(disk, may)
      after == before \cup {F(d) : d \in before}
  IN disk' = F(disk) /\ (may' = after \/ may' = Synced(F(disk), after))

LEMMA RecoverSteps ==
  ASSUME Recover
  PROVE  \E gone \in SUBSET Abandoned, temporary \in SUBSET disk.temporary :
         \E part \in (Abandoned \ gone) \cup {None}, lost \in SUBSET Members :
           RecoveredTo(gone, temporary, part, lost)
BY Zenon DEF Recover, RecoveredTo, Recovered

LEMMA RecoverInv == ASSUME StoreInv, Recover PROVE StoreInv'
<1>0. /\ op.pc = "idle" /\ UNCHANGED <<op, legacy, next, native, committed>>
      /\ settled' = settled \cup ({disk.active} \ {None})
      /\ disk \in Disks /\ disk \in may /\ may \subseteq Disks
      BY Zenon DEF Recover, At, StoreInv, TypeOK
<1>1. PICK gone \in SUBSET Abandoned, temporary \in SUBSET disk.temporary :
      \E part \in (Abandoned \ gone) \cup {None}, lost \in SUBSET Members :
        RecoveredTo(gone, temporary, part, lost)
      BY RecoverSteps
<1>2. PICK part \in (Abandoned \ gone) \cup {None}, lost \in SUBSET Members :
        RecoveredTo(gone, temporary, part, lost)
      BY <1>1, Zenon
<1> DEFINE F(d) == Recovered(d, gone, temporary, part, lost)
           before == Synced(disk, may)
           after == before \cup {F(d) : d \in before}
           Lost(g, m) == g \in gone \/ (g = part /\ m \in lost)
<1>3. disk' = F(disk) /\ (may' = after \/ may' = Synced(F(disk), after))
      BY <1>2, Zenon DEF RecoveredTo
<1>4. ASSUME NEW d \in Disks
      PROVE  /\ F(d) \in Disks /\ F(d).active = d.active /\ F(d).reserved = d.reserved
             /\ \A g \in Generations :
                  /\ F(d).place[g] = IF g \in gone THEN "none" ELSE d.place[g]
                  /\ \A m \in Members :
                       F(d).files[g][m] = IF Lost(g, m) THEN "absent" ELSE d.files[g][m]
      BY RecoveredFields
<1> HIDE DEF F
<1> DEFINE B(d, g) == IF disk.place[g] = "none" THEN NoFiles ELSE d.files[g]
           Shape(e, d) ==
             /\ e \in Disks /\ e.active = disk.active /\ e.reserved = disk.reserved
             /\ \A g \in Generations :
                  /\ g \notin gone => e.place[g] = disk.place[g]
                  /\ g \in gone => \/ e.place[g] = "none" /\ e.files[g] = NoFiles
                                   \/ e.place[g] = disk.place[g]
                  /\ g \notin gone /\ g # part => e.files[g] = B(d, g)
                  /\ \A m \in Members : \/ e.files[g][m] = B(d, g)[m]
                                        \/ Lost(g, m) /\ e.files[g][m] = "absent"
<1>5. ASSUME NEW e \in before
      PROVE  /\ e \in Disks /\ e.active = disk.active /\ e.reserved = disk.reserved
             /\ e.place = disk.place
             /\ \E d \in may : \A g \in Generations : e.files[g] = B(d, g)
      BY <1>0, SyncedFields
<1>6. \A g \in Generations : disk.place[g] = "none" => disk.files[g] = NoFiles
      BY <1>0 DEF StoreInv, GenerationInv, NothingInNone
<1>7. disk \in before BY <1>0, <1>6, SyncedSelf
<1> HIDE DEF before, Lost, B
<1>8. ASSUME NEW e \in before PROVE \E d \in may : Shape(e, d) /\ Shape(F(e), d)
  <2>1. PICK d \in may : \A g \in Generations : e.files[g] = B(d, g) BY <1>5, Zenon
  <2>2. Shape(e, d)
    <3>1. ASSUME NEW g \in Generations
          PROVE  e.place[g] = disk.place[g] /\ \A m \in Members : e.files[g][m] = B(d, g)[m]
          BY <1>5, <2>1
    <3> QED BY <1>5, <2>1, <3>1
  <2>3. Shape(F(e), d)
    <3>1. F(e) \in Disks /\ F(e).active = disk.active /\ F(e).reserved = disk.reserved
          BY <1>4, <1>5
    <3>2. ASSUME NEW g \in Generations
          PROVE  /\ g \notin gone => F(e).place[g] = disk.place[g]
                 /\ g \in gone => F(e).place[g] = "none" /\ F(e).files[g] = NoFiles
                 /\ g \notin gone /\ g # part => F(e).files[g] = B(d, g)
                 /\ \A m \in Members : \/ F(e).files[g][m] = B(d, g)[m]
                                       \/ Lost(g, m) /\ F(e).files[g][m] = "absent"
      <4>1. /\ F(e).place[g] = IF g \in gone THEN "none" ELSE disk.place[g]
            /\ \A m \in Members : F(e).files[g][m] = IF Lost(g, m) THEN "absent" ELSE B(d, g)[m]
            BY <1>4, <1>5, <2>1
      <4>2. F(e).files[g] \in [Members -> Contents] /\ B(d, g) \in [Members -> Contents]
        <5>1. F(e).files \in [Generations -> [Members -> Contents]]
              /\ e.files \in [Generations -> [Members -> Contents]]
              BY <1>5, <3>1 DEF Disks
        <5> QED BY <2>1, <5>1
      <4>3. g \in gone => F(e).files[g] = NoFiles
        <5> SUFFICES ASSUME g \in gone PROVE F(e).files[g] = NoFiles OBVIOUS
        <5>1. \A m \in Members : F(e).files[g][m] = "absent" BY <4>1 DEF Lost
        <5> QED BY <4>2, <5>1 DEF NoFiles
      <4>4. g \notin gone /\ g # part => F(e).files[g] = B(d, g)
        <5> SUFFICES ASSUME g \notin gone, g # part PROVE F(e).files[g] = B(d, g) OBVIOUS
        <5>1. \A m \in Members : F(e).files[g][m] = B(d, g)[m] BY <4>1 DEF Lost
        <5> QED BY <4>2, <5>1
      <4>5. /\ g \notin gone => F(e).place[g] = disk.place[g]
            /\ g \in gone => F(e).place[g] = "none"
            BY <4>1
      <4>6. \A m \in Members : \/ F(e).files[g][m] = B(d, g)[m]
                               \/ Lost(g, m) /\ F(e).files[g][m] = "absent"
            BY <4>1
      <4> QED BY <4>3, <4>4, <4>5, <4>6, Zenon
    <3> QED BY <3>1, <3>2
  <2> QED BY <2>2, <2>3, Zenon
<1> HIDE DEF Shape
<1>9. ASSUME NEW e \in after PROVE \E d \in may : Shape(e, d) BY <1>8
<1>10. disk' \in after /\ disk' \in Disks /\ after \subseteq Disks
  <2>1. after \subseteq Disks BY <1>9 DEF Shape
  <2>2. disk' \in after BY <1>3, <1>7
  <2> QED BY <2>1, <2>2
<1> HIDE DEF after
<1>11. /\ disk'.active = disk.active /\ disk'.reserved = disk.reserved
       /\ \A g \in Generations :
            /\ disk'.place[g] = IF g \in gone THEN "none" ELSE disk.place[g]
            /\ \A m \in Members :
                 disk'.files[g][m] = IF Lost(g, m) THEN "absent" ELSE disk.files[g][m]
       BY <1>0, <1>3, <1>4
<1>12. Abandoned \subseteq Generations /\ gone \subseteq Abandoned
       /\ part \in (Abandoned \ gone) \cup {None}
       /\ \A g \in Abandoned : /\ disk.place[g] # "none" /\ g # disk.active
                               /\ g \notin disk.reserved
       BY DEF Abandoned, Unused
<1>13. ASSUME NEW g \in Generations, disk'.place[g] = "none" PROVE disk'.files[g] = NoFiles
  <2>1. PICK d \in may : Shape(disk', d) BY <1>9, <1>10
  <2>2. CASE g \in gone
    <3>1. disk.place[g] # "none" BY <1>12, <2>2
    <3> QED BY <1>13, <2>1, <2>2, <3>1 DEF Shape
  <2>3. CASE g \notin gone
    <3>1. disk.place[g] = "none" /\ g # part BY <1>11, <1>12, <1>13, <2>3, NextType
    <3> QED BY <2>1, <2>3, <3>1 DEF Shape, B
  <2> QED BY <2>2, <2>3
<1>14. disk' \in may' /\ \A e \in may' : \E d \in may : Shape(e, d)
  <2>1. CASE may' = after BY <1>9, <1>10, <2>1
  <2>2. CASE may' = Synced(disk', after)
    <3>1. disk' \in may' BY <1>10, <1>13, <2>2, SyncedSelf
    <3>2. ASSUME NEW e \in may' PROVE \E d \in may : Shape(e, d)
      <4>1. /\ e \in Disks /\ e.active = disk.active /\ e.reserved = disk.reserved
            /\ e.place = disk'.place
            /\ \E a \in after : \A g \in Generations :
                 e.files[g] = IF disk'.place[g] = "none" THEN NoFiles ELSE a.files[g]
            BY <1>10, <1>11, <2>2, <3>2, SyncedFields
      <4>2. PICK a \in after : \A g \in Generations :
                 e.files[g] = IF disk'.place[g] = "none" THEN NoFiles ELSE a.files[g]
            BY <4>1, Zenon
      <4>3. PICK d \in may : Shape(a, d) BY <1>9, Zenon
      <4>4. ASSUME NEW g \in Generations
            PROVE  /\ g \notin gone => e.place[g] = disk.place[g]
                   /\ g \in gone => e.place[g] = "none" /\ e.files[g] = NoFiles
                   /\ g \notin gone /\ g # part => e.files[g] = B(d, g)
                   /\ \A m \in Members : \/ e.files[g][m] = B(d, g)[m]
                                         \/ Lost(g, m) /\ e.files[g][m] = "absent"
        <5>1. CASE g \in gone
          <6>1. disk'.place[g] = "none" BY <1>11, <5>1
          <6>2. e.files[g] = NoFiles /\ e.place[g] = "none" BY <4>1, <4>2, <6>1
          <6>3. \A m \in Members : Lost(g, m) /\ NoFiles[m] = "absent" BY <5>1 DEF Lost, NoFiles
          <6> QED BY <5>1, <6>2, <6>3
        <5>2. CASE g \notin gone /\ disk.place[g] = "none"
          <6>1. g # part BY <1>12, <5>2, NextType
          <6>2. disk'.place[g] = "none" BY <1>11, <5>2
          <6>3. e.files[g] = NoFiles /\ e.place[g] = disk.place[g] BY <4>1, <4>2, <5>2, <6>2
          <6>4. B(d, g) = NoFiles BY <5>2 DEF B
          <6>5. e.files[g] = B(d, g) BY <6>3, <6>4
          <6> QED BY <5>2, <6>3, <6>5, Zenon
        <5>3. CASE g \notin gone /\ disk.place[g] # "none"
          <6>1. disk'.place[g] = disk.place[g] BY <1>11, <5>3
          <6>2. e.files[g] = a.files[g] /\ e.place[g] = disk.place[g] BY <4>1, <4>2, <5>3, <6>1
          <6>3. /\ g # part => a.files[g] = B(d, g)
                /\ \A m \in Members : \/ a.files[g][m] = B(d, g)[m]
                                      \/ Lost(g, m) /\ a.files[g][m] = "absent"
                BY <4>3, <5>3, Zenon DEF Shape
          <6> QED BY <5>3, <6>2, <6>3, Zenon
        <5> QED BY <5>1, <5>2, <5>3, Zenon
      <4> QED BY <4>1, <4>4 DEF Shape
    <3> QED BY <3>1, <3>2
  <2> QED BY <1>3, <2>1, <2>2
<1>15. ASSUME NEW g \in Generations, g \notin gone, g # part PROVE GenerationInv(g)'
  <2>1. disk'.place[g] = disk.place[g] BY <1>11, <1>15
  <2>2. disk'.files[g] = disk.files[g]
    <3>1. \A m \in Members : disk'.files[g][m] = disk.files[g][m] BY <1>11, <1>15 DEF Lost
    <3>2. disk'.files[g] \in [Members -> Contents] /\ disk.files[g] \in [Members -> Contents]
          BY <1>0, <1>10 DEF Disks
    <3> QED BY <3>1, <3>2
  <2>3. \A e \in may' :
           /\ e.active = disk.active /\ e.reserved = disk.reserved /\ e.place[g] = disk.place[g]
           /\ \E d \in may : e.files[g] = IF disk.place[g] = "none" THEN NoFiles ELSE d.files[g]
        BY <1>14, <1>15 DEF Shape, B
  <2>4. g \in settled' <=> g \in settled \/ disk.active = g BY <1>0, NextType
  <2> QED BY <1>0, <2>1, <2>2, <2>3, <2>4, GenerationSynced, Zenon DEF StoreInv
<1>16. ASSUME NEW g \in Generations, g \in gone \/ g = part PROVE GenerationInv(g)'
  <2>0. GenerationInv(g) BY DEF StoreInv
  <2>1. disk.place[g] # "none" /\ g # disk.active /\ g \notin disk.reserved
        BY <1>12, <1>16, NextType
  <2>2. (g \in settled' <=> g \in settled) /\ (g \notin settled => native[g] = {})
        BY <1>0, <2>0, <2>1, NextType, Zenon DEF GenerationInv, SavedIsKept
  <2>3. ASSUME NEW e \in may'
        PROVE  \E d \in may : \A m \in Members : \/ e.files[g][m] = d.files[g][m]
                                                 \/ Lost(g, m) /\ e.files[g][m] = "absent"
        BY <1>14, <2>1 DEF Shape, B
  <2>4. FreshIsUnused(g)'
    <3>1. ~(g >= next') BY <1>0, <2>0, <2>1, Zenon DEF GenerationInv, FreshIsUnused
    <3> QED BY <3>1 DEF FreshIsUnused
  <2>5. NothingInNone(g)' 
    <3>1. ASSUME NEW e \in may', e.place[g] = "none" PROVE e.files[g] = NoFiles
          BY <1>14, <2>1, <3>1, Zenon DEF Shape
    <3> QED BY <3>1 DEF NothingInNone
  <2>6. WholeEverywhere(g)'
    <3>1. \A e \in may' : e.active # g BY <1>14, <2>1 DEF Shape
    <3>2. ASSUME g \in settled, Whole(disk', g), NEW e \in may' PROVE Whole(e, g)
      <4>0. "metadata" \in Members /\ "user" \in Members /\ "master" \in Members BY DEF Members
      <4>1. g \notin gone /\ disk.place[g] = "pair" BY <1>11, <3>2 DEF Whole, Readable
      <4>2. /\ ~Lost(g, "user") /\ ~Lost(g, "master")
            /\ disk.files[g]["user"] = "whole" /\ disk.files[g]["master"] = "whole"
            BY <1>11, <3>2, <4>0 DEF Whole, Readable
      <4>3. \A d \in may : d.files[g]["metadata"] # "torn"
            BY <2>0, <3>2, Zenon DEF GenerationInv, SavedInOrder
      <4>4. Whole(disk, g) BY <1>0, <4>1, <4>2, <4>3 DEF Whole, Readable
      <4>5. \A d \in may : Whole(d, g)
            BY <2>0, <3>2, <4>4 DEF GenerationInv, WholeEverywhere
      <4>6. e.place[g] = "pair" BY <1>14, <4>1 DEF Shape
      <4>7. PICK d \in may : \A m \in Members : \/ e.files[g][m] = d.files[g][m]
                                                \/ Lost(g, m) /\ e.files[g][m] = "absent"
            BY <2>3, <3>2, Zenon
      <4>8. e.files[g]["user"] = "whole" /\ e.files[g]["master"] = "whole"
            BY <4>0, <4>2, <4>5, <4>7, Zenon DEF Whole
      <4>9. e.files[g]["metadata"] # "torn" BY <4>0, <4>3, <4>7
      <4> QED BY <4>6, <4>8, <4>9 DEF Whole, Readable
    <3> QED BY <2>2, <3>1, <3>2, Zenon DEF WholeEverywhere
  <2>7. SavedInOrder(g)'
    <3>0. "metadata" \in Members BY DEF Members
    <3>1. ASSUME NEW e \in may', \A d \in may : d.files[g]["metadata"] # "torn"
          PROVE  e.files[g]["metadata"] # "torn"
          BY <2>3, <3>0, <3>1
    <3> QED BY <1>0, <2>0, <2>2, <3>1 DEF GenerationInv, SavedInOrder
  <2>8. SavedIsKept(g)' BY <1>0, <2>2 DEF SavedIsKept
  <2> QED BY <2>4, <2>5, <2>6, <2>7, <2>8 DEF GenerationInv
<1>17. TypeOK' /\ LegacyInv'
  <2>1. may' \subseteq Disks BY <1>14 DEF Shape
  <2>2. settled' \subseteq Generations BY <1>0 DEF StoreInv, TypeOK, Disks
  <2> QED BY <1>0, <1>10, <1>14, <2>1, <2>2, Zenon DEF StoreInv, TypeOK, LegacyInv
<1>18. OpInv'
  <2>1. ~op.open BY <1>0, Zenon DEF StoreInv, OpInv, OpIsOpen
  <2> QED BY <1>0, <2>1, Zenon DEF OpInv, OpIsOpen, Reserving, MembersInOrder, CandidateIsWhole,
                            BeforeReservation, Writing, Selecting
<1> QED BY <1>15, <1>16, <1>17, <1>18 DEF StoreInv
=============================================================================
