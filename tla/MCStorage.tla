------------------------------ MODULE MCStorage ------------------------------
(***************************************************************************)
(* The state that outlives a power loss: the catacomb pairs, the xART      *)
(* record and keybag.state.  The stores share nothing, so one of them is   *)
(* explored at a time: part names it, the others keep their initial state. *)
(* The catacomb store appears twice, under the service alone and with the  *)
(* recovery commands of the legacy tool beside it.                         *)
(***************************************************************************)
EXTENDS CatacombStore

CONSTANTS Conns, MaxVersion, Secrets, Nil

VARIABLES
  part,
  disk2, may2, op2, legacy2, next2, native2, settled2, committed2,
  record, blobs, conn, backlog, work, made, acked,
  proc, sep, file, temp, bags, used, lent, torn

Tools == INSTANCE CatacombStore WITH
  MaxGeneration <- 2,
  Operations <- {"enroll", "label", "delete", "recover", "legacy"},
  disk <- disk2, may <- may2, op <- op2, legacy <- legacy2, next <- next2,
  native <- native2, settled <- settled2, committed <- committed2
Xart == INSTANCE XartStore WITH None <- Nil, may <- blobs
Keybag == INSTANCE KeybagState WITH None <- Nil, may <- bags

toolsVars == <<disk2, may2, op2, legacy2, next2, native2, settled2, committed2>>
xartVars == <<record, blobs, conn, backlog, work, made, acked>>
keybagVars == <<proc, sep, file, temp, bags, used, lent, torn>>

StorageInit ==
  /\ part \in {"service", "tools", "xart", "keybag"}
  /\ Init /\ (part # "service" => committed = None)
  /\ Tools!Init /\ (part # "tools" => committed2 = None)
  /\ Xart!Init
  /\ Keybag!Init

StorageNext ==
  /\ UNCHANGED part
  /\ \/ part = "service" /\ Next /\ UNCHANGED <<toolsVars, xartVars, keybagVars>>
     \/ part = "tools" /\ Tools!Next /\ UNCHANGED <<vars, xartVars, keybagVars>>
     \/ part = "xart" /\ Xart!Next /\ UNCHANGED <<vars, toolsVars, keybagVars>>
     \/ part = "keybag" /\ Keybag!Next /\ UNCHANGED <<vars, toolsVars, xartVars>>

StorageSpec ==
  StorageInit /\ [][StorageNext]_<<part, vars, toolsVars, xartVars, keybagVars>>

\* CatacombStore: with the legacy tool and recover beside the service the
\* selected pair is still whole, and what the SEP may need is kept, now and
\* after a power loss.  It follows from facts about each generation and each
\* step of the operation (StoreInv); without the tool the operation under the
\* lease is the only one undecided (RegisterInv).
ToolsKeepStore ==
  /\ part = "tools" => Tools!StoreIsKept /\ Tools!StoreInv
  /\ part = "service" => RegisterInv

\* XartStore: a save answered with success is never undone, the record is
\* always one whole blob, and a fetch is no older than the last such save.
AcknowledgedSaveSurvives ==
  /\ Xart!XartInv /\ Xart!AcknowledgedSaveSurvives
  /\ Xart!RecordIsWhole /\ Xart!FetchIsCurrent

\* KeybagState: keybag.state is absent or holds a keybag with its own secret, a
\* keybag a credential was lent under survives a power loss, and relay and
\* lease serve the stored keybag only.
StoredPairOpens ==
  /\ Keybag!TypeOK /\ Keybag!StoredPairOpens /\ Keybag!LentBagSurvives
  /\ Keybag!LentUnderStored /\ Keybag!RelayServesStored
=============================================================================
