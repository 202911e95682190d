---------------------------- MODULE MesaCommands ----------------------------
(***************************************************************************)
(* One biometric command sent over the bridge: the packet built for it,    *)
(* the RPC envelope that carries it, the answer of the T1 and the parser   *)
(* of that answer (crates/t1-bridge/src/commands.rs, biometric.rs,         *)
(* catacomb.rs, policy.rs and rpc.rs).                                     *)
(*                                                                         *)
(* Sizes are the real numbers of bytes.  User numbers are scaled: I32Max   *)
(* for 2^31 - 1 and U32Max for 2^32 - 1.  The bytes of an answer are its   *)
(* length and the few of them a parser looks at.                           *)
(***************************************************************************)
EXTENDS Integers, FiniteSets, FiniteSetsExt

CONSTANTS
    Users,      \* the i64 user numbers tried
    Sizes,      \* the sizes of calibration records and catacombs tried
    Counts,     \* the component counts tried
    I32Max,
    U32Max

VARIABLES
    stage,     \* new, built, refused, unsendable, sent, answered
    cmd,       \* the command and its arguments
    packet,    \* the CommandPacket
    reply,     \* the result array of the T1
    outcome    \* what the parser of the answer gave


vars == <<stage, cmd, packet, reply, outcome>>

-----------------------------------------------------------------------------
MaxPlist == 16777216                   \* MAX_PLIST_SIZE, the frame limit
MaxRecord == 16777216 - 8              \* MAX_CALIBRATION_DATA_SIZE, MAX_SECURE_CATACOMB_SIZE
MaxComponents == 64                    \* MAX_CATACOMB_COMPONENTS
IdentitySize == 20
MaxIdentities == 5
StateEntrySize == 8
HeaderSize == 8
AuthorizationSize == 40
\* Commands by the argument they take.
Plain == {"calibrationStatus", "xartAvailable", "moduleSerial", "daemonInfo", "resetSensor",
          "systemConfiguration", "continueEnrollment", "cancelOperation"}
ForUser == {"sksLockState", "userConfiguration", "identities", "removeIdentity", "removeUser", "catacombId",
            "catacombHash", "templateListCrc", "startMatch", "forceBiolockout", "setUserConfiguration", "startEnrollment"}
ForAnyUser == {"setActiveUser", "secureCatacombSize", "saveSecureCatacomb", "finishSaveSecureCatacomb"}
Authorized == {"setSystemConfiguration", "setUserConfiguration", "startEnrollment"}
Sized == {"loadCalibration", "loadSecureCatacomb", "saveSecureCatacomb"}
Ops == Plain \cup ForUser \cup ForAnyUser \cup Authorized \cup Sized \cup {"catacombStates"}

Commands ==
    {c \in [op : Ops, user : Users, size : Sizes, count : Counts, credential : {"none", "sound", "wrongLength"},
             policy : BOOLEAN] :   \* every requested policy value is a known one
        /\ c.op \in ForUser \cup ForAnyUser \/ c.user = 0
        /\ c.op \in Sized \/ c.size = 1
        /\ c.op = "catacombStates" \/ c.count = 0
        /\ c.op \in Authorized \/ c.credential = "none"
        /\ c.op = "setUserConfiguration" \/ c.policy}

-----------------------------------------------------------------------------
(* Packets. *)

Refused == -1

\* BiometricUserId::new.
BiometricUserId(u) == IF u < 0 \/ u > U32Max \/ u > I32Max THEN Refused ELSE u

\* active_user_wire_value.
ActiveUser(u) == IF u = -1 THEN U32Max ELSE BiometricUserId(u)

\* The user number of the packet, or Refused.
WireUser(c) ==
    CASE c.op \in ForUser -> BiometricUserId(c.user)
      [] c.op \in ForAnyUser -> ActiveUser(c.user)
      [] OTHER -> 0

\* encode_authorization.
Authorization(c) == IF c.credential = "wrongLength" THEN Refused ELSE AuthorizationSize

\* validate_secure_catacomb_size.
CatacombSizeOk(n) == n # 0 /\ n <= MaxRecord

\* catacomb_state_response_capacity: one entry for every component and one for
\* the master component.
StateCapacity(n) == IF n > MaxComponents THEN Refused ELSE (n + 1) * StateEntrySize

\* The checks of each command's constructor, validate_policy_values included.
Constructible(c) ==
    /\ WireUser(c) # Refused
    /\ c.policy
    /\ Authorization(c) # Refused
    /\ (c.op = "loadCalibration") => c.size <= MaxRecord
    /\ (c.op \in {"loadSecureCatacomb", "saveSecureCatacomb"}) => CatacombSizeOk(c.size)
    /\ (c.op = "catacombStates") => StateCapacity(c.count) # Refused

\* The payload lengths of the configuration updates.
UpdateLen == [setSystemConfiguration |-> 28 + AuthorizationSize, setUserConfiguration |-> 20 + AuthorizationSize]

\* The payload lengths of the commands that run the sensor.
OperationLen == [startEnrollment |-> 8 + AuthorizationSize, continueEnrollment |-> 0, startMatch |-> 68,
                 cancelOperation |-> 0, forceBiolockout |-> 4]

\* The length of the payload after the header.
PayloadLen(c) ==
    CASE c.op \in DOMAIN UpdateLen -> UpdateLen[c.op]
      [] c.op \in DOMAIN OperationLen -> OperationLen[c.op]
      [] c.op \in {"loadCalibration", "loadSecureCatacomb"} -> c.size
      [] c.op = "removeIdentity" -> IdentitySize
      [] c.op \in {"calibrationStatus", "xartAvailable", "moduleSerial", "daemonInfo", "resetSensor",
                   "systemConfiguration", "catacombStates"} -> 0
      [] OTHER -> 4

\* The capacities announced by the queries of the sensor and its policy.
SensorCapacity == [calibrationStatus |-> 1, xartAvailable |-> 1, moduleSerial |-> 18, daemonInfo |-> 23,
                   loadCalibration |-> 0, resetSensor |-> 0, sksLockState |-> 4, systemConfiguration |-> 28,
                   userConfiguration |-> 32]

\* Those of the catacomb commands.
CatacombCapacity(c) ==
    CASE c.op = "catacombId" -> 16
      [] c.op = "catacombHash" -> 33
      [] c.op = "templateListCrc" -> 4
      [] c.op = "catacombStates" -> StateCapacity(c.count)
      [] c.op = "secureCatacombSize" -> 4
      [] c.op = "saveSecureCatacomb" -> c.size
      [] c.op \in {"finishSaveSecureCatacomb", "loadSecureCatacomb"} -> 0

CatacombOps == {"catacombId", "catacombHash", "templateListCrc", "catacombStates", "secureCatacombSize",
                "saveSecureCatacomb", "finishSaveSecureCatacomb", "loadSecureCatacomb"}

\* The response capacity announced with the command.
Capacity(c) ==
    CASE c.op \in DOMAIN SensorCapacity -> SensorCapacity[c.op]
      [] c.op \in CatacombOps -> CatacombCapacity(c)
      [] c.op = "identities" -> MaxIdentities * IdentitySize
      [] OTHER -> 0

\* command_with_sensitive_value_and_payload.
Packet(c) == [user |-> WireUser(c), length |-> HeaderSize + PayloadLen(c), capacity |-> Capacity(c)]
NoPacket == [user |-> 0, length |-> 0, capacity |-> 0]

-----------------------------------------------------------------------------
(* Envelopes: the size of the property list that carries a packet or an    *)
(* answer, as bplist::encode lays it out.                                  *)

Width(n) == IF n < 256 THEN 1 ELSE IF n < 65536 THEN 2 ELSE 4
IntegerSize(n) == 1 + Width(n)
Counted(n) == (IF n < 15 THEN 1 ELSE 1 + IntegerSize(n)) + n

\* A list of the given objects, each a size: header, objects, offsets, trailer.
PlistSize(objects, n) == 8 + objects + n * Width(8 + objects) + 32

\* [1, flag, request-id, payload], its payload an array of k objects.
EnvelopeSize(payload, k) == PlistSize(Counted(4) + IntegerSize(1) + 1 + Counted(36) + Counted(k) + payload, 5 + k)

\* perform_biometric_command_request and encode_request.
RequestSize(p) == EnvelopeSize(IntegerSize(3) + IntegerSize(0) + Counted(p.length) + IntegerSize(p.capacity), 4)

\* The reply of the T1: a status and its data.
ReplySize(n) == EnvelopeSize(IntegerSize(0) + Counted(n), 2)

-----------------------------------------------------------------------------
(* Answers. *)

\* parse_biometric_command_result: the bytes, or Refused.
Taken(r) ==
    IF r.shape # "pair" \/ r.status # 0 \/ r.output = "other" THEN Refused
    ELSE IF r.output = "nil" THEN 0 ELSE r.length

(* Whether the parser of a command's answer accepts n bytes: first is the  *)
(* first byte or word, flag the last byte, and text says that every byte   *)
(* is a digit or a capital letter.                                         *)

\* parse_calibration_status, parse_xart_available, parse_module_serial,
\* parse_daemon_info.
SensorAnswer(op, n, first, flag, text) ==
    CASE op = "calibrationStatus" -> n = 1
      [] op = "xartAvailable" -> n = 1 /\ first \in {0, 1}
      [] op = "moduleSerial" -> n = 18 /\ text
      [] op = "daemonInfo" -> n = 23 /\ first <= MaxComponents /\ flag \in {0, 1}

\* parse_catacomb_id, parse_catacomb_hash, parse_template_list_crc,
\* parse_catacomb_states, parse_secure_catacomb_size and
\* validate_secure_catacomb_export.
CatacombAnswer(c, n, first) ==
    CASE c.op = "catacombId" -> n = 16
      [] c.op = "catacombHash" -> n = 33
      [] c.op = "templateListCrc" -> n = 4
      [] c.op = "catacombStates" -> n % StateEntrySize = 0 /\ n <= StateCapacity(c.count)
      [] c.op = "secureCatacombSize" -> n = 4 /\ CatacombSizeOk(first)
      [] c.op = "saveSecureCatacomb" -> CatacombSizeOk(c.size) /\ n = c.size
      [] OTHER -> n = 0

\* parse_system_configuration and parse_user_configuration.
ConfigurationLen == [systemConfiguration |-> 28, userConfiguration |-> 32]

\* validate_empty_response, parse_sks_lock_state and
\* validate_identity_list_response.
ListOrEmpty(op, n) ==
    CASE op = "sksLockState" -> n = 4
      [] op = "identities" -> n % IdentitySize = 0 /\ n <= MaxIdentities * IdentitySize
      [] OTHER -> n = 0

Acceptable(c, n, first, flag, text) ==
    CASE c.op \in {"calibrationStatus", "xartAvailable", "moduleSerial", "daemonInfo"} ->
            SensorAnswer(c.op, n, first, flag, text)
      [] c.op \in CatacombOps -> CatacombAnswer(c, n, first)
      [] c.op \in DOMAIN ConfigurationLen -> n = ConfigurationLen[c.op]
      [] OTHER -> ListOrEmpty(c.op, n)

\* The lengths the T1 may answer with.
Lengths(c) == {0, 1, 3, 4, 5, 8, 16, 18, 20, 23, 28, 32, 33, 40, 100, 120, 512, 520, 528} \cup {c.size, c.size + 1}

NoReply == [shape |-> "none", status |-> 0, output |-> "none", length |-> 0, first |-> 0, flag |-> 0, text |-> FALSE]

-----------------------------------------------------------------------------
Init ==
    /\ stage = "new" /\ packet = NoPacket /\ reply = NoReply /\ outcome = "none"
    /\ cmd \in Commands

\* The constructor of the command.
Build ==
    /\ stage = "new"
    /\ stage' = IF Constructible(cmd) THEN "built" ELSE "refused"
    /\ packet' = IF Constructible(cmd) THEN Packet(cmd) ELSE NoPacket
    /\ UNCHANGED <<cmd, reply, outcome>>

\* encode_request: an envelope above the limit is never sent.
Send ==
    /\ stage = "built"
    /\ stage' = IF RequestSize(packet) > MaxPlist THEN "unsendable" ELSE "sent"
    /\ UNCHANGED <<cmd, packet, reply, outcome>>

\* External: the T1 answers with anything a frame can carry.
Answer(r) ==
    /\ stage = "sent"
    /\ ReplySize(r.length) <= MaxPlist
    /\ stage' = "answered"
    /\ reply' = r
    /\ outcome' = IF Taken(r) # Refused /\ Acceptable(cmd, Taken(r), r.first, r.flag, r.text) THEN "accepted" ELSE "refused"
    /\ UNCHANGED <<cmd, packet>>

Next ==
    \/ Build
    \/ Send
    \/ \E n \in Lengths(cmd), first \in {0, 1, 64, 65}, flag \in {0, 2}, text \in BOOLEAN :
          Answer([shape |-> "pair", status |-> 0, output |-> "data", length |-> n, first |-> first, flag |-> flag, text |-> text])
    \/ \E shape \in {"pair", "other"}, status \in {0, 16}, output \in {"nil", "other"} :
          Answer([NoReply EXCEPT !.shape = shape, !.status = status, !.output = output])

Spec == Init /\ [][Next]_vars

-----------------------------------------------------------------------------
(* Properties. *)

\* commands.rs and the response parsers agree on every size: the capacity
\* announced with a command is the longest answer its parser accepts, no
\* shorter, which would cut a sound answer, and no longer.
CapacityIsTight ==
    (packet # NoPacket) =>
        Max({n \in Lengths(cmd) \cup {packet.capacity} :
                \E first \in {0, 1}, text \in BOOLEAN : Acceptable(cmd, n, first, 0, text)}) = packet.capacity

\* The user number in a packet, read by the T1 as a signed word, is the one
\* the caller gave: an i64 outside the range is refused and never wraps to
\* another user or to the -1 that selects the master component.
WireUserIsMeant ==
    (packet # NoPacket) => (IF packet.user > I32Max THEN packet.user - U32Max - 1 ELSE packet.user) = cmd.user

\* An answer is taken only from a reply that reports success, and a missing
\* value counts as no bytes: it never stands for a number, a serial or a hash.
AcceptedIsSaid ==
    (outcome = "accepted") =>
        /\ reply.shape = "pair" /\ reply.status = 0
        /\ reply.output = "nil" => cmd.op \in {"identities", "catacombStates"} \/ packet.capacity = 0

=============================================================================
