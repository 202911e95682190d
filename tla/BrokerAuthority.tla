--------------------------- MODULE BrokerAuthority ---------------------------
(***************************************************************************)
(* The authority of the Touch ID broker: which operation owns the one      *)
(* hardware worker, whether its cancellation has been accepted, and what   *)
(* its requester is told.  The code spreads it over three objects, kept    *)
(* here as three groups of variables:                                      *)
(*   - BrokerState (auth_protocol.rs): the active token and its            *)
(*     cancelled mark, shared by the direct and the standard protocol;     *)
(*   - CancellationSlot (overlay.rs): the registration through which a     *)
(*     cancellation reaches the worker thread.  It is the only part the    *)
(*     worker writes, to close its own registration;                       *)
(*   - BrokerScheduler (auth_scheduler.rs): the lease of the one worker,   *)
(*     its deadline cancellation, and the poison that ends the broker.     *)
(* One action is one method of BrokerServiceScheduler, or the worker's     *)
(* close_cancellation.  Callers may hold stale handles: every action on a  *)
(* handle is offered for every token ever issued.                          *)
(***************************************************************************)
EXTENDS Naturals

CONSTANTS
  MaxToken,  \* the largest token and lease: u64::MAX in the code
  Kinds      \* the operations offered to the broker

DirectKinds == {"Authenticate", "Enrollment"}
StandardKinds == {"ListIdentities", "Enroll", "Verify", "Identify", "DeleteIdentity"}

ASSUME MaxTokenAssumption == MaxToken \in Nat \ {0}
ASSUME KindsAssumption == Kinds \subseteq DirectKinds \cup StandardKinds

Tokens == 1..MaxToken
None == 0   \* an absent token, lease or registration; an exhausted counter

(* What a worker reports.  "OtherMatched" is Matched with an identity other *)
(* than the one a Verify asked for.                                         *)
DirectResults == {"Matched", "NoMatch", "Cancelled", "Unavailable", "Failed"}
Always == {"Cancelled", "DeviceLost", "Unsupported", "Error"}
StandardResults == Always \cup
  {"IdentityList", "Enrolled", "Duplicate", "CapacityFull", "Matched",
   "OtherMatched", "NoMatch", "Completed", "Busy", "SecondOwner"}
Results(k) == IF k \in DirectKinds THEN DirectResults ELSE StandardResults
Answers == {"none", "OKAY", "FAIL"} \cup StandardResults

(* Answers that tell a requester its operation took effect. *)
Success == {"OKAY", "IdentityList", "Enrolled", "Matched", "OtherMatched", "Completed"}

VARIABLES
  active,     \* BrokerState.active
  nextToken,  \* BrokerState.next_token
  slot,       \* CancellationSlot.registration: the registered token
  event,      \* the AtomicBool allocated for each token
  worker,     \* BrokerScheduler.active
  nextLease,  \* BrokerScheduler.next_lease
  poisoned,   \* BrokerScheduler.poisoned
  leaseOf,    \* the lease held by the handle of each issued token
  kindOf,     \* the operation each token was issued for
  acked,      \* tokens whose cancellation some caller was told succeeded
  cutoff,     \* what close_cancellation returned to the worker of each token
  answer      \* the response the broker chose for each token

authorityVars == <<active, nextToken, slot, event, worker, nextLease, poisoned,
                   leaseOf, kindOf, acked, cutoff, answer>>

NoOperation == [token |-> None, cancelled |-> FALSE]
NoWorker == [lease |-> None, cancellationSent |-> FALSE]

AuthorityInit ==
  /\ active = NoOperation /\ nextToken = 1
  /\ slot = None /\ event = [t \in Tokens |-> FALSE]
  /\ worker = NoWorker /\ nextLease = 1 /\ poisoned = FALSE
  /\ leaseOf = [t \in Tokens |-> None]
  /\ kindOf = [t \in Tokens |-> "none"]
  /\ acked = {}
  /\ cutoff = [t \in Tokens |-> "open"]
  /\ answer = [t \in Tokens |-> "none"]

(* checked_add(1).unwrap_or(0) on a token or a lease. *)
NextCounter(n) == IF n = MaxToken THEN None ELSE n + 1

Issued == {t \in Tokens : leaseOf[t] # None}
Owns(t) == worker.lease # None /\ worker.lease = leaseOf[t]

-----------------------------------------------------------------------------
(* Admission. *)

AdmitIgnoringOwner(k, representable) ==
  /\ ~poisoned
  /\ nextToken # None
  /\ nextToken' = NextCounter(nextToken)
  /\ active' = [token |-> nextToken, cancelled |-> FALSE]
  /\ slot' = nextToken
  /\ worker' = [lease |-> nextLease, cancellationSent |-> FALSE]
  /\ nextLease' = NextCounter(nextLease)
  /\ leaseOf' = [leaseOf EXCEPT ![nextToken] = nextLease]
  /\ kindOf' = [kindOf EXCEPT ![nextToken] = k]
  /\ UNCHANGED <<poisoned, event, acked, cutoff, answer>>

(* dispatch, dispatch_standard and enroll_without_owner once the request is *)
(* authorized: a token, then the cancellation registration, then the        *)
(* worker's lease.  A refused registration returns the token; a refused     *)
(* lease also poisons the scheduler.  representable: now + timeout fits in  *)
(* a Duration.  A poisoned broker, an active operation (Busy) and an        *)
(* exhausted token change nothing.                                          *)
Admit(k, representable) ==
  LET installed == slot = None
      granted == /\ installed
                 /\ worker = NoWorker /\ representable /\ nextLease # None
  IN /\ ~poisoned
     /\ active = NoOperation
     /\ nextToken # None
     /\ nextToken' = NextCounter(nextToken)
     /\ active' = IF granted THEN [token |-> nextToken, cancelled |-> FALSE]
                             ELSE NoOperation
     /\ slot' = IF granted THEN nextToken ELSE slot
     /\ worker' = IF granted THEN [lease |-> nextLease, cancellationSent |-> FALSE]
                             ELSE worker
     /\ nextLease' = IF granted THEN NextCounter(nextLease) ELSE nextLease
     /\ poisoned' = (installed /\ ~granted)
     /\ leaseOf' = IF granted THEN [leaseOf EXCEPT ![nextToken] = nextLease] ELSE leaseOf
     /\ kindOf' = IF granted THEN [kindOf EXCEPT ![nextToken] = k] ELSE kindOf
     /\ UNCHANGED <<event, acked, cutoff, answer>>

-----------------------------------------------------------------------------
(* Cancellation. *)

(* cancel_token with CancellationSlot::deliver: recorded and acknowledged   *)
(* only when the registration still belongs to this token.                  *)
CancelToken(t) ==
  /\ active.token = t
  /\ slot = t
  /\ event' = [event EXCEPT ![t] = TRUE]
  /\ active' = [active EXCEPT !.cancelled = TRUE]
  /\ acked' = acked \cup {t}
  /\ UNCHANGED <<nextToken, slot, worker, nextLease, poisoned, leaseOf, kindOf,
                 cutoff, answer>>

(* A local root's Cancel packet, with or without an owner record. *)
CancelForRoot ==
  /\ ~poisoned
  /\ active.token # None
  /\ CancelToken(active.token)

(* Disconnect, same-connection Cancel, deadline and shutdown: all four      *)
(* cancel exactly the operation whose handle they hold.                     *)
CancelExact(t) ==
  /\ Owns(t)
  /\ CancelToken(t)

(* The worker's mutation cutoff, ActiveStandardOperation::close_cancellation: *)
(* under the slot's mutex, so a cancellation is wholly before or after it.  *)
CloseCancellation(t) ==
  /\ cutoff[t] = "open"
  /\ cutoff' = [cutoff EXCEPT ![t] = IF slot = t /\ ~event[t] THEN "passed" ELSE "refused"]
  /\ slot' = IF slot = t THEN None ELSE slot
  /\ UNCHANGED <<active, nextToken, event, worker, nextLease, poisoned,
                 leaseOf, kindOf, acked, answer>>

-----------------------------------------------------------------------------
(* Completion. *)

(* result_is_compatible: what a standard worker may report for each kind. *)
ResultIsCompatible(k, r) ==
  \/ r \in Always
  \/ k = "ListIdentities" /\ r = "IdentityList"
  \/ k = "Enroll" /\ r \in {"Enrolled", "Duplicate", "CapacityFull"}
  \/ k = "Verify" /\ r \in {"Matched", "NoMatch"}
  \/ k = "Identify" /\ r \in {"Matched", "OtherMatched", "NoMatch"}
  \/ k = "DeleteIdentity" /\ r = "Completed"

RespondIgnoringCancellation(k, cancelled, r) ==
  IF k \in DirectKinds THEN IF r = "Matched" THEN "OKAY" ELSE "FAIL"
  ELSE IF ResultIsCompatible(k, r) THEN r
  ELSE "Error"

(* BrokerState::finish and BrokerState::finish_standard. *)
Respond(k, cancelled, r) ==
  IF k \in DirectKinds
  THEN IF ~cancelled /\ r = "Matched" THEN "OKAY" ELSE "FAIL"
  ELSE IF cancelled THEN "Cancelled"
  ELSE IF ResultIsCompatible(k, r) THEN r
  ELSE "Error"

(* coordinator.finish or abandon, then workers.complete, for a handle that  *)
(* owns the lease: the registration is cleared before the token is.  A      *)
(* token the state no longer knows answers with failure.                    *)
Release(t, response) ==
  /\ slot' = IF slot = t THEN None ELSE slot
  /\ active' = IF active.token = t THEN NoOperation ELSE active
  /\ worker' = NoWorker
  /\ answer' = [answer EXCEPT ![t] =
       IF active.token = t THEN response
       ELSE IF kindOf[t] \in DirectKinds THEN "FAIL" ELSE "Error"]
  /\ UNCHANGED <<nextToken, event, nextLease, poisoned, leaseOf, kindOf, acked, cutoff>>

FinishStale(t, c, r) ==
  /\ ~poisoned
  /\ c = t
  /\ Release(t, Respond(kindOf[t], active.cancelled, r))

(* finish, finish_standard: completion c of some operation is offered for   *)
(* handle t.  A poisoned broker, a stale handle and a foreign completion    *)
(* release nothing.                                                         *)
Finish(t, c, r) ==
  /\ ~poisoned
  /\ Owns(t)
  /\ c = t
  /\ Release(t, Respond(kindOf[t], active.cancelled, r))

(* abandon, abandon_standard: the worker could not be started. *)
Abandon(t) ==
  /\ Owns(t)
  /\ Release(t, Respond(kindOf[t], active.cancelled,
                        IF kindOf[t] \in DirectKinds THEN "Failed" ELSE "Error"))

-----------------------------------------------------------------------------
(* Worker lifecycle. *)

(* worker_lost, standard_worker_lost: the lease stays taken for good. *)
WorkerLost(t) ==
  /\ Owns(t)
  /\ poisoned' = TRUE
  /\ UNCHANGED <<active, nextToken, slot, event, worker, nextLease, leaseOf,
                 kindOf, acked, cutoff, answer>>

(* decide at or after the active worker's deadline: Cancel(lease), once.    *)
(* Every other decision leaves the scheduler unchanged.                     *)
DecideCancel ==
  /\ ~poisoned
  /\ worker.lease # None
  /\ ~worker.cancellationSent
  /\ worker' = [worker EXCEPT !.cancellationSent = TRUE]
  /\ UNCHANGED <<active, nextToken, slot, event, nextLease, poisoned, leaseOf,
                 kindOf, acked, cutoff, answer>>

AuthorityNext ==
  \/ \E k \in Kinds, representable \in BOOLEAN : Admit(k, representable)
  \/ CancelForRoot
  \/ DecideCancel
  \/ \E t \in Issued :
       \/ CancelExact(t)
       \/ CloseCancellation(t)
       \/ Abandon(t)
       \/ WorkerLost(t)
       \/ \E c \in Issued, r \in Results(kindOf[t]) : Finish(t, c, r)

AuthoritySpec == AuthorityInit /\ [][AuthorityNext]_authorityVars

-----------------------------------------------------------------------------
(* Properties. *)

Counters == 0..MaxToken

(* Every piece of authority state keeps its shape. *)
AuthorityTypeOK ==
  /\ active \in [token : Counters, cancelled : BOOLEAN]
  /\ nextToken \in Counters /\ nextLease \in Counters
  /\ slot \in Counters
  /\ event \in [Tokens -> BOOLEAN]
  /\ worker \in [lease : Counters, cancellationSent : BOOLEAN]
  /\ poisoned \in BOOLEAN
  /\ leaseOf \in [Tokens -> Counters]
  /\ kindOf \in [Tokens -> Kinds \cup {"none"}]
  /\ acked \subseteq Tokens
  /\ cutoff \in [Tokens -> {"open", "passed", "refused"}]
  /\ answer \in [Tokens -> Answers]

(* BrokerState, CancellationSlot and BrokerScheduler always name the same   *)
(* operation: a token is active exactly while its own lease is, and the     *)
(* registration is that token's or nobody's.  So a request never passes     *)
(* one of the three and is refused by the next.                             *)
OneAuthority ==
  /\ active.token # None <=> worker.lease # None
  /\ active.token # None => leaseOf[active.token] = worker.lease
  /\ slot # None => slot = active.token

(* What a worker sees and what the broker answers with agree: a token's     *)
(* event is set exactly when its cancellation was acknowledged, and the     *)
(* mark that turns its result into a failure is the same fact.              *)
DeliveryIsRecorded ==
  /\ \A t \in Tokens : event[t] <=> t \in acked
  /\ active.token # None => (active.cancelled <=> active.token \in acked)

(* Once close_cancellation returned true, no cancellation of that operation *)
(* is acknowledged any more, by whatever path, so a committed mutation is   *)
(* never reported as cancelled.                                             *)
CutoffIsFinal ==
  \A t \in Tokens : cutoff[t] = "passed" => t \notin acked /\ slot # t

(* Delivered cancellation always wins: no operation whose cancellation was  *)
(* acknowledged ever answers with a success, however late the worker's      *)
(* match is reported.                                                       *)
CancelledNeverSucceeds == \A t \in acked : answer[t] \notin Success

(* What a requester of each kind understands as its own success. *)
SuccessOf(k) ==
  CASE k \in DirectKinds -> {"OKAY"}
    [] k = "ListIdentities" -> {"IdentityList"}
    [] k = "Enroll" -> {"Enrolled"}
    [] k = "Verify" -> {"Matched"}
    [] k = "Identify" -> {"Matched", "OtherMatched"}
    [] k = "DeleteIdentity" -> {"Completed"}
    [] OTHER -> {}

(* Whatever a worker reports, a requester is only ever told a success of    *)
(* its own kind of request, and a Verify only of the identity it named.     *)
AnswersFitTheRequest ==
  \A t \in Tokens : answer[t] \in Success => answer[t] \in SuccessOf(kindOf[t])

(* Tokens and leases advance together, a handle holds the lease issued with *)
(* its token, and a token no handle was issued for has no trace anywhere:   *)
(* what makes an exact-token comparison mean the same operation.            *)
HandlesAreFresh ==
  /\ ~poisoned => nextLease = nextToken
  /\ active.token = None => active = NoOperation
  /\ worker.lease = None => worker = NoWorker
  /\ active.token # None => active.token \in Issued /\ answer[active.token] = "none"
  /\ \A t \in Tokens :
       /\ leaseOf[t] \in {None, t}
       /\ nextToken # None /\ t >= nextToken => leaseOf[t] = None
       /\ leaseOf[t] # None => kindOf[t] \in Kinds
       /\ leaseOf[t] = None => /\ cutoff[t] = "open" /\ t \notin acked
                               /\ answer[t] = "none"

(* No issued operation is ever dropped: each is the active one or has been  *)
(* answered.                                                                *)
AnsweredUnlessActive ==
  \A t \in Tokens : leaseOf[t] # None => active.token = t \/ answer[t] # "none"

(* The inductive invariant of the authority. *)
AuthorityInv ==
  /\ AuthorityTypeOK
  /\ OneAuthority
  /\ AnsweredUnlessActive
  /\ HandlesAreFresh
  /\ DeliveryIsRecorded
  /\ CutoffIsFinal
  /\ CancelledNeverSucceeds
  /\ AnswersFitTheRequest

(* A stale handle or a late completion never revises what an earlier        *)
(* requester was told, and never revokes an acknowledged cancellation.      *)
AnswersAreFinal ==
  [][/\ \A t \in Tokens : answer[t] # "none" => answer'[t] = answer[t]
     /\ acked \subseteq acked']_authorityVars

(* After a lost worker or an exhausted clock, no operation is ever admitted *)
(* to the hardware again by this process.                                   *)
PoisonEndsAdmission == [][poisoned => poisoned' /\ leaseOf' = leaseOf]_authorityVars

(* The broker implements the operations its callers reason about. *)
Phase == [t \in Tokens |->
  IF answer[t] \in Success THEN "succeeded"
  ELSE IF answer[t] # "none" THEN "failed"
  ELSE IF leaseOf[t] = None THEN "new"
  ELSE IF t \in acked THEN "cancelled"
  ELSE IF cutoff[t] = "passed" THEN "committed"
  ELSE "running"]

Abstract == INSTANCE CancellableOperation WITH Operations <- Tokens, phase <- Phase

(* Tokens, leases and registrations together give every caller the abstract *)
(* operation: one at a time, cancelled or committed but never both.         *)
ImplementsOperations == Abstract!Spec
=============================================================================
