-------------------------- MODULE StandardOperations --------------------------
(***************************************************************************)
(* The operations on enrolled fingers that the broker's worker runs        *)
(* against the T1: enrol, verify, identify, delete, list                   *)
(* (live_standard_fingerprint.rs, standard_enrollment.rs,                  *)
(* identity_lifecycle.rs, auth_operation.rs, catacomb_restore.rs) and the  *)
(* direct enrolment (live_enrollment.rs, enrollment_transaction.rs).       *)
(*                                                                         *)
(* One operation runs at a time (BrokerAuthority).  Beside it run its      *)
(* monitor thread, the client that may cancel, and the T1, which may       *)
(* disappear and lose what was loaded into it.  The pair store is seen     *)
(* from above: the selected pair and at most one reserved candidate        *)
(* (CatacombStore has its files).  Every command and every file operation  *)
(* may fail.                                                               *)
(***************************************************************************)
EXTENDS Naturals, FiniteSets

CONSTANTS Ids,       \* the identities the T1 ever creates
          Capacity,  \* MAX_OWNER_IDENTITIES, 3 in the code
          Kinds,     \* the operations offered
          None


VARIABLES live,     \* the identities loaded in the T1
          pair,     \* the selected pair
          pending,  \* the reserved candidate
          present,  \* is the T1 there
          op,       \* the running operation
          flags,    \* the flags its threads share
          used,     \* identities ever created
          answer,   \* history: the last terminal answer
          deleted   \* history: identities whose deletion was answered with success

vars == <<live, pair, pending, present, op, flags, used, answer, deleted>>

\* ids are the identities inside the blobs; names the entries of the manifest
\* beside them, labels those with a finger.
Pairs == [here : BOOLEAN, whole : BOOLEAN, meta : BOOLEAN,
          ids : SUBSET Ids, names : SUBSET Ids, labels : SUBSET Ids]

NoPair == [here |-> FALSE, whole |-> FALSE, meta |-> FALSE,
           ids |-> {}, names |-> {}, labels |-> {}]

Legacy(s) == [NoPair EXCEPT !.here = TRUE, !.whole = TRUE, !.ids = s]

Idle == [at |-> "idle", kind |-> None, id |-> None, pass |-> 1, ids |-> {},
         cat |-> NoPair, restored |-> FALSE, wrote |-> FALSE, lost |-> FALSE,
         result |-> None]

\* cancelled: the client's cancellation; closed: its delivery is closed;
\* stopped: the signal shared with the SEP and the transport; reason and
\* monitor: what the monitor saw and whether it runs; finished: told to stop.
Calm == [cancelled |-> FALSE, closed |-> FALSE, stopped |-> FALSE,
         reason |-> "idle", monitor |-> FALSE, finished |-> FALSE]

NoAnswer == [kind |-> None, result |-> None, id |-> None, wrote |-> FALSE]

Init ==
  /\ \E s \in SUBSET Ids :
       /\ Cardinality(s) <= 1
       /\ pair = IF s = {} THEN NoPair ELSE Legacy(s)
       /\ used = s
       /\ live \in {{}, s}
  /\ pending = NoPair
  /\ present = TRUE
  /\ op = Idle
  /\ flags = Calm
  /\ answer = NoAnswer
  /\ deleted = {}

-----------------------------------------------------------------------------
At(at) == op.at = at
Goto(at) == op' = [op EXCEPT !.at = at]
Enrolls == op.kind \in {"enroll", "direct"}

\* standard_operation_cancelled
Stopped == flags.cancelled \/ flags.stopped

End(result) == op' = [op EXCEPT !.at = "release", !.result = result]

\* What a failed step reports: the classes of the error mappings, or the
\* cancellation once somebody asked for it.
Fail == \E result \in {"error", "lost"} \cup (IF Stopped THEN {"cancelled"} ELSE {}) :
          End(result)

\* Nothing reaches a T1 that is gone.
Command == ~op.lost

Answered(kind, result, id, wrote) ==
  /\ answer' = [kind |-> kind, result |-> result, id |-> id, wrote |-> wrote]
  /\ deleted' = IF kind = "delete" /\ result = "ok" THEN deleted \cup {id} ELSE deleted
  /\ op' = Idle
  /\ flags' = Calm

Store == <<pair, pending>>
Quiet == UNCHANGED <<present, flags, used, answer, deleted>>

-----------------------------------------------------------------------------
(* Admission and preparation *)

Start(k, i) ==
  /\ At("idle") /\ k \in Kinds
  /\ k \in {"verify", "delete"} <=> i # None
  /\ op' = [Idle EXCEPT !.at = "start", !.kind = k, !.id = i]
  /\ answer' = NoAnswer
  /\ UNCHANGED <<live, Store, present, flags, used, deleted>>

\* The client's Cancel, delivered until the worker closes delivery.
Cancel ==
  /\ ~At("idle") /\ ~flags.cancelled /\ ~flags.closed
  /\ flags' = [flags EXCEPT !.cancelled = TRUE]
  /\ UNCHANGED <<live, Store, present, op, used, answer, deleted>>

\* run_with_runtime looks at the cancellation before anything else; list only
\* reads the store.
RunWithRuntime ==
  /\ At("start")
  /\ UNCHANGED <<live, Store, present, used>>
  /\ IF flags.cancelled THEN Answered(op.kind, "cancelled", None, FALSE)
     ELSE IF op.kind = "list"
          THEN \E r \in {"ok", "error"} : Answered("list", r, None, FALSE)
     ELSE /\ Goto(IF Enrolls THEN "environment" ELSE "catalog")
          /\ UNCHANGED <<flags, answer, deleted>>

\* load_committed_catalog_for_account, and the target's label.
LoadCatalog ==
  /\ At("catalog")
  /\ UNCHANGED <<live, Store, present, used>>
  /\ \/ /\ pair.here /\ pair.meta
        /\ op.id # None => op.id \in pair.labels
        /\ op' = [op EXCEPT !.at = "environment", !.cat = pair]
        /\ UNCHANGED <<flags, answer, deleted>>
     \/ Answered(op.kind, "error", op.id, FALSE)

\* live_environment (after the owner's claim, for an enrolment), then the
\* monitor thread.
LiveEnvironment ==
  /\ At("environment")
  /\ UNCHANGED <<live, Store, present, used>>
  /\ \/ /\ present
        /\ Goto("handoff")
        /\ flags' = [flags EXCEPT !.monitor = TRUE]
        /\ UNCHANGED <<answer, deleted>>
     \/ ~present /\ Answered(op.kind, "lost", op.id, FALSE)
     \/ Answered(op.kind, "error", op.id, FALSE)

\* Relay handoff, SEP lease, connection; the cancellation is looked at again
\* and the connection registered for interruption.
Handoff ==
  /\ At("handoff")
  /\ \/ ~Stopped /\ Command /\ Goto(IF Enrolls THEN "recover" ELSE "restore")
     \/ Fail
  /\ UNCHANGED <<live, Store>> /\ Quiet

-----------------------------------------------------------------------------
(* What both enrolments and the other operations do first *)

Accepted(p) == p.whole /\ p.ids # {}

\* recover_ambiguous_pair: the candidate is loaded into the T1 and selected when
\* it holds.  Quarantine and errors end the enrolment; the T1 may be left with
\* the candidate loaded.
RecoverAmbiguousPair ==
  /\ At("recover")
  /\ \/ ~pending.here /\ Goto("restore") /\ UNCHANGED <<live, Store>>
     \/ /\ pending.here /\ Accepted(pending) /\ Command
        /\ live' = pending.ids
        /\ pair' = pending
        /\ \/ pending' = NoPair /\ Goto("restore")
           \/ UNCHANGED pending /\ Fail
     \/ /\ Fail /\ UNCHANGED Store
        /\ \/ UNCHANGED live
           \/ pending.here /\ pending.whole /\ Command /\ live' = pending.ids
  /\ Quiet

After == IF Enrolls THEN "check" ELSE IF op.kind = "delete" THEN "close" ELSE "match"

Listed(ids, restored) == [op EXCEPT !.at = After, !.ids = ids, !.restored = restored]

\* restore_pair, with the live short circuit: identities that are loaded are
\* taken as they are, otherwise the selected pair is loaded.  Only an enrolment
\* may go on with none.
RestorePair ==
  /\ pair.here /\ op.kind # "direct"
  /\ IF live # {} THEN op' = Listed(live, FALSE) /\ UNCHANGED live
     ELSE /\ live' = pair.ids
          /\ \/ (pair.ids # {} \/ Enrolls) /\ op' = Listed(pair.ids, TRUE)
             \/ Fail

\* prepare_user and rebind_empty_user: the identities the T1 has.
PrepareUser ==
  /\ Enrolls /\ (op.kind = "enroll" => ~pair.here)
  /\ op' = Listed(live, FALSE) /\ UNCHANGED live

Restore ==
  /\ At("restore")
  /\ \/ Command /\ (RestorePair \/ PrepareUser)
     \/ Fail /\ UNCHANGED live
  /\ UNCHANGED Store /\ Quiet

-----------------------------------------------------------------------------
(* Verify and identify *)

\* evaluate_verify and evaluate_identify
Evaluate(i) ==
  IF i \in op.cat.labels /\ (op.kind = "verify" => i = op.id)
  THEN [op EXCEPT !.at = "release", !.result = "matched", !.id = i]
  ELSE [op EXCEPT !.at = "release", !.result = "nomatch"]

\* The lease that restored ends before the sensor is used, once.
RestoredPass ==
  IF op.pass = 1 THEN op' = [op EXCEPT !.at = "handoff", !.pass = 2, !.ids = {}]
  ELSE End("error")

\* run_prepared_match
Match ==
  /\ At("match")
  /\ IF op.restored THEN RestoredPass
     ELSE \/ \E i \in op.ids \cap live : Command /\ op' = Evaluate(i)
          \/ Command /\ End("nomatch")
          \/ Stopped /\ End("cancelled")
          \/ Fail
  /\ UNCHANGED <<live, Store>> /\ Quiet

-----------------------------------------------------------------------------
(* Enrolment *)

\* StandardIdentityCatalog::reconcile
Reconcile == op.kind = "enroll" /\ pair.meta => pair.names = op.ids

\* Capacity, reconciliation, policies and the duplicate check; one more match
\* that may find the finger enrolled.
CheckEnrollment ==
  /\ At("check")
  /\ \/ Cardinality(op.ids) >= Capacity /\ End("capacity")
     \/ op.ids # {} /\ op.kind = "enroll" /\ End("duplicate")
     \/ /\ Cardinality(op.ids) < Capacity /\ Reconcile
        /\ Command
        /\ Goto("capture")
     \/ Fail
  /\ UNCHANGED <<live, Store>> /\ Quiet

\* run_enrollment: the T1 creates the identity; its completion may get lost.
Capture ==
  /\ At("capture")
  /\ \/ \E i \in Ids \ used :
          /\ Command
          /\ live' = live \cup {i}
          /\ used' = used \cup {i}
          /\ \/ op' = [op EXCEPT !.at = "close", !.id = i]
             \/ Fail
     \/ Fail /\ UNCHANGED <<live, used>>
  /\ UNCHANGED <<Store, present, flags, answer, deleted>>

-----------------------------------------------------------------------------
(* The durable part of enrolment and deletion *)

\* close_standard_operation_cancellation, whose last look at the shared signal
\* comes after the delivery is closed.
CloseCancellation ==
  /\ At("close")
  /\ IF Stopped THEN End("cancelled") /\ UNCHANGED flags
     ELSE flags' = [flags EXCEPT !.closed = TRUE] /\ Goto("recheck")
  /\ UNCHANGED <<live, Store, present, used, answer, deleted>>

Recheck ==
  /\ At("recheck")
  /\ IF flags.stopped /\ op.kind # "direct" THEN End("cancelled") ELSE Goto("reserve")
  /\ UNCHANGED <<live, Store>> /\ Quiet

\* begin_transaction and verify_pre_mutation_set, for a deletion.
DeletionAllowed == ~pending.here /\ op.id \in op.ids /\ op.ids = op.cat.names

\* add_labeled, remove_labeled, encode_next_manifest
NextManifest(p) ==
  CASE op.kind = "direct" -> p
    [] op.kind = "enroll" ->
         [p EXCEPT !.meta = TRUE, !.names = op.ids \cup {op.id},
                   !.labels = pair.labels \cup {op.id}]
    [] op.kind = "delete" ->
         [p EXCEPT !.meta = TRUE, !.names = op.cat.names \ {op.id},
                   !.labels = op.cat.labels \ {op.id}]

\* reserve_recovery and write_metadata
Reserve ==
  /\ At("reserve")
  /\ \/ /\ op.kind = "delete" => DeletionAllowed
        /\ pending' = NextManifest([NoPair EXCEPT !.here = TRUE])
        /\ \/ op' = [op EXCEPT !.at = IF Enrolls THEN "export" ELSE "remove", !.wrote = TRUE]
           \/ op' = [op EXCEPT !.at = "release", !.wrote = TRUE, !.result = "error"]
     \/ Fail /\ UNCHANGED pending
  /\ UNCHANGED <<live, pair>> /\ Quiet

\* remove_identity_command, which may take effect and still fail.
RemoveIdentity ==
  /\ At("remove")
  /\ \/ Command /\ live' = live \ {op.id} /\ (Goto("export") \/ Fail)
     \/ Fail /\ UNCHANGED live
  /\ UNCHANGED Store /\ Quiet

\* The exports, their native confirmations and the blobs of the candidate.
Export ==
  /\ At("export")
  /\ \/ /\ Command
        /\ pending' = [pending EXCEPT !.ids = live, !.whole = TRUE]
        /\ Goto("promote") \/ Fail
     \/ Fail /\ UNCHANGED pending
  /\ UNCHANGED <<live, pair>> /\ Quiet

PromoteDurabilityIgnored ==
  /\ At("promote")
  /\ pair' = pending /\ UNCHANGED pending /\ Goto("verify")
  /\ UNCHANGED live /\ Quiet

\* promote_after_native_finish: done, done without a durable end, not done.
Promote ==
  /\ At("promote")
  /\ \/ pair' = pending /\ pending' = NoPair /\ Goto("verify")
     \/ pair' = pending /\ UNCHANGED pending /\ Fail
     \/ UNCHANGED Store /\ Fail
  /\ UNCHANGED live /\ Quiet

\* verify_identity_delta and the comparison after an enrolment.
PostCommit ==
  CASE op.kind = "direct" -> op.id \in live
    [] op.kind = "enroll" -> live = op.ids \cup {op.id}
    [] op.kind = "delete" -> live = op.ids \ {op.id}

VerifyCommitted ==
  /\ At("verify")
  /\ \/ Command /\ PostCommit /\ End("ok")
     \/ Fail
  /\ UNCHANGED <<live, Store>> /\ Quiet

-----------------------------------------------------------------------------
(* The end of the operation *)

Succeeded(result) == result \in {"ok", "matched", "nomatch"}

\* Lease cleanup and relay recovery, whose failure replaces a success; then
\* MonitorStop.
Release ==
  /\ At("release")
  /\ \/ Goto("join")
     \/ op' = [op EXCEPT !.at = "join", !.result =
                  CASE op.kind = "direct" -> "relay"
                    [] op.kind # "direct" /\ Stopped -> "cancelled"
                    [] OTHER -> "error"]
  /\ flags' = [flags EXCEPT !.finished = TRUE]
  /\ UNCHANGED <<live, Store, present, used, answer, deleted>>

\* The monitor's loop: the client's cancellation first, then the interface (the
\* direct enrolment watches the cancellation alone).
MonitorCancelled ==
  /\ flags.monitor /\ flags.cancelled
  /\ flags' = [flags EXCEPT !.reason = "cancelled", !.stopped = TRUE, !.monitor = FALSE]
  /\ UNCHANGED <<live, Store, present, op, used, answer, deleted>>

MonitorDeviceLost ==
  /\ flags.monitor /\ ~flags.cancelled /\ op.lost /\ op.kind # "direct"
  /\ flags' = [flags EXCEPT !.reason = "lost", !.stopped = TRUE, !.monitor = FALSE]
  /\ UNCHANGED <<live, Store, present, op, used, answer, deleted>>

MonitorExit ==
  /\ flags.monitor /\ flags.finished
  /\ flags' = [flags EXCEPT !.monitor = FALSE]
  /\ UNCHANGED <<live, Store, present, op, used, answer, deleted>>

\* The monitor's reason, then the cancellation, override the result.
Outcome ==
  IF flags.reason = "lost" THEN "lost"
  ELSE IF ~Succeeded(op.result) /\ op.result # "relay" /\ flags.cancelled THEN "cancelled"
  ELSE op.result

Join ==
  /\ At("join") /\ ~flags.monitor
  /\ Answered(op.kind, Outcome, op.id, op.wrote)
  /\ UNCHANGED <<live, Store, present, used>>

-----------------------------------------------------------------------------
(* The T1 and the broker *)

\* The T1 leaves the bus, and may lose what is loaded.
Lose ==
  /\ present
  /\ present' = FALSE
  /\ live' \in {live, {}}
  /\ op' = IF At("idle") THEN op ELSE [op EXCEPT !.lost = TRUE]
  /\ UNCHANGED <<Store, flags, used, answer, deleted>>

Return ==
  /\ ~present
  /\ present' = TRUE
  /\ UNCHANGED <<live, Store, op, flags, used, answer, deleted>>

\* The broker dies with the operation.
Crash ==
  /\ ~At("idle")
  /\ op' = Idle /\ flags' = Calm /\ answer' = NoAnswer
  /\ UNCHANGED <<live, Store, present, used, deleted>>

Work ==
  \/ RunWithRuntime \/ LoadCatalog \/ LiveEnvironment \/ Handoff
  \/ RecoverAmbiguousPair \/ Restore \/ Match
  \/ CheckEnrollment \/ Capture \/ CloseCancellation \/ Recheck
  \/ Reserve \/ RemoveIdentity \/ Export \/ Promote \/ VerifyCommitted
  \/ Release \/ Join

Monitor == MonitorCancelled \/ MonitorDeviceLost \/ MonitorExit

Next ==
  \/ \E k \in Kinds, i \in Ids \cup {None} : Start(k, i)
  \/ Work \/ Monitor
  \/ Cancel \/ Lose \/ Return \/ Crash

Spec == Init /\ [][Next]_vars


-----------------------------------------------------------------------------
\* The stores, the T1, the operation and the flags have the shapes above; a
\* monitor runs only beside an operation that has reached its handoff, and no
\* cancellation is delivered once delivery is closed.
TypeOK ==
  /\ live \subseteq used /\ used \subseteq Ids
  /\ pair \in Pairs /\ pending \in Pairs
  /\ op.ids \subseteq used
  /\ flags.monitor => op.at \notin {"idle", "start", "catalog", "environment"}
  /\ ~(flags.closed /\ flags.cancelled)

\* An operation answered "cancelled" reserved no generation: the cancellation
\* is only reported while nothing durable was begun, even when the T1
\* disappears after the delivery of cancellations was closed
\* (close_standard_operation_cancellation, the monitor's reason).
CancelledWroteNothing == answer.result = "cancelled" => ~answer.wrote

\* What a client was told is what the store holds: an enrolled finger is
\* labelled in the selected pair, a deleted one is gone from it, nothing is left
\* reserved, and a matched finger is a labelled one.
AnswerIsBacked ==
  /\ answer.kind = "enroll" /\ answer.result = "ok" =>
       answer.id \in pair.labels \cap pair.ids /\ ~pending.here
  /\ answer.kind = "delete" /\ answer.result = "ok" =>
       answer.id \notin pair.ids \cup pair.names /\ ~pending.here
  /\ answer.result = "matched" => answer.id \in pair.labels \cap pair.ids

\* The manifest names exactly the identities inside the blobs it was committed
\* with, whatever identities a cancelled enrolment, a failed deletion or a
\* restarted T1 left loaded.
ManifestDescribesPair ==
  \A p \in {pair, pending} :
    p.whole /\ p.meta => p.names = p.ids /\ p.labels \subseteq p.names

\* A finger whose deletion was answered with success never matches again.
DeletedNeverMatches == answer.result = "matched" => answer.id \notin deleted

=============================================================================
