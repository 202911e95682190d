---------------------------- MODULE MCOperations ----------------------------
(***************************************************************************)
(* What the broker's worker runs for a client: the conversation with the   *)
(* T1, the standard fingerprint operations over the stored pair, and the   *)
(* claim of the enrollment owner record.  Each is explored by itself: part *)
(* names it, the others keep their initial state.                          *)
(***************************************************************************)
EXTENDS EnrollmentOwner

CONSTANTS Fingers, Paired, Ids

VARIABLES
  part,
  h, toT1, toHost, link, t1, cancelled, first,
  live, pair, pending, present, op, flags, used, answer, deleted

Bridge == INSTANCE BridgeOperation WITH
  Products <- {"direct", "standard", "enroll"},
  BusyRetries <- 1, MaxBusy <- 2, MaxFails <- 1, MaxEvents <- 1
Standard == INSTANCE StandardOperations WITH
  Capacity <- 2, Kinds <- {"enroll", "direct", "verify", "identify", "delete", "list"}

bridgeVars == <<h, toT1, toHost, link, t1, cancelled, first>>
standardVars == <<live, pair, pending, present, op, flags, used, answer, deleted>>

OperationsInit ==
  /\ part \in {"owner", "bridge", "standard"}
  /\ Init /\ (part # "owner" => disk.content = None)
  /\ Bridge!Init
  /\ part # "bridge" => /\ h.product = "direct" /\ t1.ids = {} /\ ~t1.cal
                       /\ t1.pol = [touch |-> 0, pay |-> 0]
  /\ Standard!Init /\ (part # "standard" => used = {})

OperationsNext ==
  /\ UNCHANGED part
  /\ \/ part = "owner" /\ Next /\ UNCHANGED <<bridgeVars, standardVars>>
     \/ part = "bridge" /\ Bridge!Next /\ UNCHANGED <<vars, standardVars>>
     \/ part = "standard" /\ Standard!Next /\ UNCHANGED <<vars, bridgeVars>>

OperationsSpec ==
  OperationsInit /\ [][OperationsNext]_<<part, vars, bridgeVars, standardVars>>

\* BridgeOperation: a reported match is one the T1 made in this operation, a
\* finished operation leaves no sensor work on the T1, the sensor starts only
\* under the policy this lease put in force, no policy is changed beyond that,
\* and a late answer is never taken for an unsolicited one.
MatchedTruth ==
  part = "bridge" =>
    /\ Bridge!TypeOK /\ Bridge!MatchedTruth /\ Bridge!SensorReleased
    /\ Bridge!PolicyKept /\ Bridge!PolicyInForce /\ Bridge!NoFalseAlarm

\* StandardOperations: what a client was told is what the store holds, a client
\* told "cancelled" had nothing written, the manifest names the identities
\* inside its blobs, and a finger whose deletion was confirmed never matches
\* again.
AnswerIsBacked ==
  part = "standard" =>
    /\ Standard!TypeOK /\ Standard!AnswerIsBacked /\ Standard!DeletedNeverMatches
    /\ Standard!CancelledWroteNothing /\ Standard!ManifestDescribesPair
=============================================================================
