----------------------------- MODULE KeybagState -----------------------------
(***************************************************************************)
(* The biometric keybag and its file, keybag.state: the bootstrap that     *)
(* creates both, the relay that loads the file into the SEP after a boot,  *)
(* and the lease that lends a credential under the loaded keybag           *)
(* (sep_keybag.c, sep_keystore.c, sep_keybag_store.c).                     *)
(*                                                                         *)
(* A keybag is named by the random secret it was created with.  The SEP    *)
(* keeps its keybags until the machine loses power; the file system keeps  *)
(* what was synchronised.  Every exchange may fail before or after the SEP *)
(* acted on it, every file operation may fail, the process may die at any  *)
(* step.  The operation lock keeps two operations apart (SepHandoff).      *)
(***************************************************************************)
EXTENDS Naturals, FiniteSets

CONSTANTS Secrets,  \* bound: the random secrets ever drawn
          None      \* a model value: no keybag, no file

VARIABLES proc,   \* the running operation: kind, next step, its material
          sep,    \* the SEP's system keybags, by handle
          file,   \* keybag.state: None or a secret and a serialized keybag
          temp,   \* the temporary file: None, or its bytes and whether synced
          may,    \* the values of keybag.state a power loss may leave
          used,   \* the secrets drawn so far
          lent,   \* history: keybags a credential was lent under
          torn    \* history: an attempt ended between rename and directory sync

vars == <<proc, sep, file, temp, may, used, lent, torn>>

Handles == {"device", "system", "biometric"}

Pair == [secret : Secrets, blob : Secrets]

Absent == [bag |-> None, locked |-> FALSE]

Torn == [secret |-> None, blob |-> None]

Idle == [kind |-> "none", at |-> "idle", secret |-> None, blob |-> None,
         source |-> Absent]

Init ==
  /\ proc = Idle
  /\ sep = [h \in Handles |-> Absent]
  /\ file = None
  /\ temp = None
  /\ may = {None}
  /\ used = {}
  /\ lent = {}
  /\ torn = FALSE

(* Where an operation goes from each step: the two callbacks of           *)
(* sep_keybag.c and activate_and_validate, for a keybag it created and    *)
(* for one it loaded.                                                      *)
Leases == {"authenticate", "enroll"}

Source == IF proc.blob = None THEN "create" ELSE "load"

After(kind, at) ==
  CASE at = "environment" -> IF kind \in Leases THEN "verify" ELSE "device"
    [] at = "device" -> IF kind = "relay" THEN "system" ELSE Source
    [] at = "system" -> Source
    [] at \in {"create", "load"} -> "activate"
    [] at = "activate" -> IF kind = "relay" THEN "unlock" ELSE "validate"
    [] at = "unlock" -> "validate"
    [] at = "validate" -> IF kind = "relay" THEN "publish" ELSE "configure"
    [] at = "configure" -> "serialize"
    [] at = "serialize" -> "probe"
    [] at = "probe" -> "open"
    [] at = "open" -> "write"
    [] at = "write" -> "sync"
    [] at = "sync" -> "rename"
    [] at = "rename" -> "syncdir"
    [] at = "syncdir" -> "verify"
    [] at = "verify" -> IF kind = "authenticate" THEN "publish" ELSE "lend"
    [] at = "publish" -> IF kind = "relay" THEN "ready" ELSE "lend"

At(at) == proc.at = at

Go == proc' = [proc EXCEPT !.at = After(proc.kind, proc.at)]

\* load_material_state: a relay and a lease need the file, a bootstrap needs
\* its absence; a file that does not validate is an error to all.
MaterialFits(kind) ==
  file # Torn /\ (file = None <=> kind = "bootstrap")

Begin(kind) ==
  /\ At("idle")
  /\ MaterialFits(kind)
  /\ proc' = [kind |-> kind, at |-> "environment",
              secret |-> IF file = None THEN None ELSE file.secret,
              blob |-> IF file = None THEN None ELSE file.blob,
              source |-> Absent]
  /\ UNCHANGED <<sep, file, temp, may, used, lent, torn>>

\* An error return: the temporary file of this process is unlinked.  The same
\* step is the normal end of a lease and of a cancelled relay.
End ==
  /\ ~At("idle")
  /\ proc' = Idle
  /\ temp' = None
  /\ torn' = (torn \/ At("syncdir"))
  /\ UNCHANGED <<sep, file, may, used, lent>>

\* The process dies: nothing is cleaned up.
Crash ==
  /\ ~At("idle")
  /\ proc' = Idle
  /\ torn' = (torn \/ At("syncdir"))
  /\ UNCHANGED <<sep, file, temp, may, used, lent>>

\* The machine loses power, and with it the SEP's keybags.
PowerLoss ==
  /\ proc' = Idle
  /\ sep' = [h \in Handles |-> Absent]
  /\ \E f \in may : file' = f /\ may' = {f}
  /\ temp' = None
  /\ UNCHANGED <<used, lent, torn>>

(***************************************************************************)
(* Exchanges with the SEP's keystore.  An exchange that fails after the    *)
(* SEP acted is the same step followed by End.                             *)
(***************************************************************************)
Environment ==
  /\ At("environment")
  /\ Go
  /\ UNCHANGED <<sep, file, temp, may, used, lent, torn>>

\* ensure_boot_keybag: a keybag that exists must be unlocked; an absent one is
\* created from a secret nobody keeps, promoted unlocked (device) or promoted
\* locked and then unlocked (system), the last two being separate exchanges.
EnsureBoot(h) ==
  /\ At(h)
  /\ IF sep[h].bag # None
     THEN ~sep[h].locked /\ Go /\ UNCHANGED <<sep, used>>
     ELSE \E s \in Secrets \ used :
            /\ used' = used \union {s}
            /\ sep' = [sep EXCEPT ![h] = [bag |-> s, locked |-> h = "system"]]
            /\ proc' = IF h = "system"
                       THEN [proc EXCEPT !.source = [bag |-> s, locked |-> FALSE],
                                         !.at = "unlock_system"]
                       ELSE [proc EXCEPT !.at = After(proc.kind, h)]
  /\ UNCHANGED <<file, temp, may, lent, torn>>

UnlockSystem ==
  /\ At("unlock_system")
  /\ sep' = [sep EXCEPT !["system"].locked = FALSE]
  /\ proc' = [proc EXCEPT !.at = After(proc.kind, "system")]
  /\ UNCHANGED <<file, temp, may, used, lent, torn>>

\* create_or_load: a fresh secret, or the serialized keybag of the file, which
\* is loaded locked.
CreateOrLoad ==
  /\ \/ /\ At("create")
        /\ \E s \in Secrets \ used :
             /\ used' = used \union {s}
             /\ proc' = [proc EXCEPT !.secret = s, !.at = "activate",
                                     !.source = [bag |-> s, locked |-> FALSE]]
     \/ /\ At("load")
        /\ proc' = [proc EXCEPT !.at = "activate",
                                !.source = [bag |-> proc.blob, locked |-> TRUE]]
        /\ UNCHANGED used
  /\ UNCHANGED <<sep, file, temp, may, lent, torn>>

\* activate_and_validate: make the source the biometric keybag, ...
Activate ==
  /\ At("activate")
  /\ sep' = [sep EXCEPT !["biometric"] = proc.source]
  /\ Go
  /\ UNCHANGED <<file, temp, may, used, lent, torn>>

\* ... unlock a loaded one with the file's secret, which the SEP refuses unless
\* it is the keybag's own, ...
Unlock ==
  /\ At("unlock")
  /\ sep["biometric"].bag = proc.secret
  /\ sep' = [sep EXCEPT !["biometric"].locked = FALSE]
  /\ Go
  /\ UNCHANGED <<file, temp, may, used, lent, torn>>

\* ... and require it unlocked.  Publishing queries the state once more.
Validate ==
  /\ proc.at \in {"validate", "configure", "publish"}
  /\ sep["biometric"].bag # None
  /\ ~sep["biometric"].locked
  /\ Go
  /\ UNCHANGED <<sep, file, temp, may, used, lent, torn>>

\* serialize_and_persist takes the blob of what is loaded.
Serialize ==
  /\ At("serialize")
  /\ proc' = [proc EXCEPT !.blob = sep["biometric"].bag, !.at = "probe"]
  /\ UNCHANGED <<sep, file, temp, may, used, lent, torn>>

\* verify_keybag_secret: the SEP compares the secret with the biometric keybag
\* before a credential is lent.
Verify ==
  /\ At("verify")
  /\ sep["biometric"].bag = proc.secret
  /\ proc.secret # None
  /\ Go
  /\ UNCHANGED <<sep, file, temp, may, used, lent, torn>>

Lend ==
  /\ At("lend")
  /\ lent' = lent \union {sep["biometric"].bag}
  /\ proc' = [proc EXCEPT !.at = "lending"]
  /\ UNCHANGED <<sep, file, temp, may, used, torn>>

(***************************************************************************)
(* sep_keybag_state_persist_absent_at.                                     *)
(***************************************************************************)
\* The file must still be absent; then a temporary file is created, written
\* and synchronised.
Probe ==
  /\ At("probe")
  /\ file = None
  /\ Go
  /\ UNCHANGED <<sep, file, temp, may, used, lent, torn>>

Material == [secret |-> proc.secret, blob |-> proc.blob]

WriteTemp ==
  /\ proc.at \in {"open", "write"}
  /\ temp' = IF At("open") THEN [bytes |-> Torn, synced |-> FALSE]
             ELSE [bytes |-> Material, synced |-> FALSE]
  /\ Go
  /\ UNCHANGED <<sep, file, may, used, lent, torn>>

SyncTempSkipped ==
  /\ At("sync")
  /\ Go
  /\ UNCHANGED <<sep, file, temp, may, used, lent, torn>>

SyncTemp ==
  /\ At("sync")
  /\ temp' = [temp EXCEPT !.synced = TRUE]
  /\ Go
  /\ UNCHANGED <<sep, file, may, used, lent, torn>>

\* RENAME_NOREPLACE.  Until the directory is synchronised a power loss leaves
\* the old name or the new one, whose bytes are whole only if synchronised.
Rename ==
  /\ At("rename")
  /\ file = None
  /\ file' = temp.bytes
  /\ may' = may \union {temp.bytes} \union (IF temp.synced THEN {} ELSE {Torn})
  /\ temp' = None
  /\ Go
  /\ UNCHANGED <<sep, used, lent, torn>>

SyncDirectory ==
  /\ At("syncdir")
  /\ may' = may \ {None}
  /\ Go
  /\ UNCHANGED <<sep, file, temp, used, lent, torn>>

Next ==
  \/ \E kind \in {"bootstrap", "relay"} \union Leases : Begin(kind)
  \/ End \/ Crash \/ PowerLoss
  \/ Environment \/ \E h \in {"device", "system"} : EnsureBoot(h)
  \/ UnlockSystem \/ CreateOrLoad \/ Activate \/ Unlock \/ Validate
  \/ Serialize \/ Verify \/ Lend
  \/ Probe \/ WriteTemp \/ SyncTemp \/ Rename \/ SyncDirectory

Spec == Init /\ [][Next]_vars

(***************************************************************************)
(* Properties.                                                             *)
(***************************************************************************)
\* The types of the variables.
TypeOK ==
  /\ proc.kind \in {"none", "bootstrap", "relay"} \union Leases
  /\ {proc.secret, proc.blob} \subseteq Secrets \union {None}
  /\ sep \in [Handles -> [bag : Secrets \union {None}, locked : BOOLEAN]]
  /\ file \in Pair \union {None, Torn}
  /\ may \subseteq Pair \union {None, Torn}
  /\ file \in may
  /\ used \subseteq Secrets
  /\ lent \subseteq Secrets

\* Whatever instant the power fails, keybag.state is absent or holds a keybag
\* together with the secret that opens it: persist_absent synchronises the
\* bytes before the name.
StoredPairOpens == \A f \in may : f # None => f # Torn /\ f.secret = f.blob

\* A credential is lent only under the stored keybag: never under one that an
\* attempt which lost its secret left in the SEP, nor under none.
LentUnderStored ==
  proc.at \in {"lend", "lending"} =>
    file # None /\ sep["biometric"].bag = file.blob

\* A keybag a credential was lent under is the one keybag.state holds after any
\* later power loss, so that a fingerprint enrolled with it stays usable.  The
\* exception is a file left by an attempt that ended between the rename and the
\* synchronisation of the directory: later operations take it as it is.
LentBagSurvives ==
  ~torn => /\ Cardinality(lent) <= 1
           /\ \A f \in may, b \in lent : f # None /\ f.blob = b

\* A relay that reported readiness serves the stored keybag, unlocked.
RelayServesStored ==
  At("ready") => /\ file # None
                 /\ sep["biometric"] = [bag |-> file.blob, locked |-> FALSE]
=============================================================================
