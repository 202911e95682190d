------------------------- MODULE BrokerAuthorityProofs -------------------------
(***************************************************************************)
(* Proofs about BrokerAuthority for any number of tokens and any kinds.    *)
(* AuthorityInv is inductive; the step lemmas are one per action, and the  *)
(* refinement maps every step to one of CancellableOperation or a stutter. *)
(***************************************************************************)
EXTENDS BrokerAuthority, TLAPS

(* Every response the broker chooses is a known answer; a cancelled         *)
(* operation's is never a success; an uncancelled success fits its kind.    *)
LEMMA RespondFacts ==
  ASSUME NEW k, NEW cancelled \in BOOLEAN, NEW r \in Results(k)
  PROVE  /\ Respond(k, cancelled, r) \in Answers
         /\ Respond(k, cancelled, r) # "none"
         /\ cancelled => Respond(k, cancelled, r) \notin Success
         /\ Respond(k, cancelled, r) \in Success => Respond(k, cancelled, r) \in SuccessOf(k)
<1>1. CASE k \in DirectKinds
  BY <1>1 DEF Respond, Answers, Success, SuccessOf, DirectKinds
<1>2. CASE k \notin DirectKinds
  BY <1>2 DEF Respond, Results, Answers, Success, StandardResults, Always, ResultIsCompatible,
     SuccessOf, DirectKinds
<1> QED BY <1>1, <1>2

(* Advancing a token or lease counter keeps it a counter. *)
LEMMA NextCounterType ==
  ASSUME NEW n \in Counters, n # None
  PROVE  /\ NextCounter(n) \in Counters
         /\ NextCounter(n) # None => \A t \in Tokens : t >= NextCounter(n) => t > n
BY MaxTokenAssumption DEF NextCounter, Counters, None, Tokens

(* The broker starts in its invariant. *)
LEMMA InitEstablishesInv == AuthorityInit => AuthorityInv
<1> SUFFICES ASSUME AuthorityInit PROVE AuthorityInv
  OBVIOUS
<1> USE MaxTokenAssumption DEF AuthorityInit, NoOperation, NoWorker, None, Counters, Tokens
<1>1. AuthorityTypeOK
  <2>1. poisoned \in BOOLEAN /\ event \in [Tokens -> BOOLEAN] /\ acked \subseteq Tokens
    BY Zenon
  <2>2. /\ leaseOf \in [Tokens -> Counters]
        /\ kindOf \in [Tokens -> Kinds \cup {"none"}]
        /\ cutoff \in [Tokens -> {"open", "passed", "refused"}]
        /\ answer \in [Tokens -> Answers]
    BY DEF Answers
  <2>3. /\ active \in [token : Counters, cancelled : BOOLEAN]
        /\ worker \in [lease : Counters, cancellationSent : BOOLEAN]
        /\ nextToken \in Counters /\ nextLease \in Counters /\ slot \in Counters
    OBVIOUS
  <2> QED BY <2>1, <2>2, <2>3, Zenon DEF AuthorityTypeOK
<1>2. OneAuthority /\ HandlesAreFresh /\ AnsweredUnlessActive
  BY DEF OneAuthority, HandlesAreFresh, AnsweredUnlessActive, Issued
<1>3. DeliveryIsRecorded /\ CutoffIsFinal /\ CancelledNeverSucceeds
  BY DEF DeliveryIsRecorded, CutoffIsFinal, CancelledNeverSucceeds
<1>4. AnswersFitTheRequest
  BY DEF AnswersFitTheRequest, Success
<1> QED BY <1>1, <1>2, <1>3, <1>4 DEF AuthorityInv

(* A handle owns the lease exactly when its token is the active one. *)
LEMMA OwnsIsActive ==
  ASSUME AuthorityInv, NEW t \in Issued
  PROVE  /\ t \in Tokens
         /\ Owns(t) <=> active.token = t
BY MaxTokenAssumption DEF AuthorityInv, AuthorityTypeOK, OneAuthority, HandlesAreFresh, AnsweredUnlessActive, Owns, Issued,
   None, Tokens, Counters

(* Admitting an operation preserves the invariant. *)
LEMMA AdmitPreservesInv ==
  ASSUME AuthorityInv, NEW k \in Kinds, NEW representable \in BOOLEAN,
         Admit(k, representable)
  PROVE  AuthorityInv'
<1> DEFINE granted == representable
<1>1. /\ slot = None /\ worker = NoWorker /\ nextLease = nextToken /\ active = NoOperation
      /\ nextToken \in Tokens /\ leaseOf[nextToken] = None
      /\ cutoff[nextToken] = "open" /\ nextToken \notin acked
      /\ answer[nextToken] = "none"
      /\ ~event[nextToken]
  BY MaxTokenAssumption DEF AuthorityInv, Admit, AuthorityTypeOK, OneAuthority, HandlesAreFresh, AnsweredUnlessActive,
     DeliveryIsRecorded, NoOperation, NoWorker, None, Tokens, Counters
<1>2. /\ NextCounter(nextToken) \in Counters
      /\ NextCounter(nextToken) # None =>
           \A t \in Tokens : t >= NextCounter(nextToken) => t > nextToken
  BY <1>1, NextCounterType DEF Tokens, Counters, None
<1>3. CASE ~representable
  <2>1. /\ active' = NoOperation /\ worker' = NoWorker /\ slot' = None /\ poisoned' = TRUE
        /\ nextToken' = NextCounter(nextToken) /\ nextLease' = nextLease
        /\ UNCHANGED <<leaseOf, kindOf, event, acked, cutoff, answer>>
    BY <1>1, <1>3, Zenon DEF Admit, NoWorker
  <2> QED
    BY <1>1, <1>2, <2>1, MaxTokenAssumption DEF AuthorityInv, AuthorityTypeOK, OneAuthority, HandlesAreFresh, AnsweredUnlessActive,
       DeliveryIsRecorded, CutoffIsFinal, CancelledNeverSucceeds, AnswersFitTheRequest,
       NoOperation, NoWorker, None, Counters, Tokens, Issued
<1>4. CASE representable
  <2>1. /\ active' = [token |-> nextToken, cancelled |-> FALSE]
        /\ worker' = [lease |-> nextToken, cancellationSent |-> FALSE]
        /\ slot' = nextToken /\ poisoned' = FALSE
        /\ nextToken' = NextCounter(nextToken) /\ nextLease' = NextCounter(nextToken)
        /\ leaseOf' = [leaseOf EXCEPT ![nextToken] = nextToken]
        /\ kindOf' = [kindOf EXCEPT ![nextToken] = k]
        /\ UNCHANGED <<event, acked, cutoff, answer>>
    BY <1>1, <1>4, MaxTokenAssumption, Zenon DEF Admit, NoWorker, Tokens, None
  <2>2. AuthorityTypeOK'
    BY <1>1, <1>2, <2>1, Zenon DEF AuthorityInv, AuthorityTypeOK, Tokens, Counters
  <2>3. OneAuthority' /\ HandlesAreFresh' /\ AnsweredUnlessActive'
    BY <1>1, <1>2, <2>1, MaxTokenAssumption DEF AuthorityInv, AuthorityTypeOK, HandlesAreFresh, OneAuthority,
       AnsweredUnlessActive,       NoOperation, NoWorker, None, Tokens, Counters, Issued
  <2>4. DeliveryIsRecorded' /\ CutoffIsFinal' /\ CancelledNeverSucceeds'
    BY <1>1, <2>1 DEF AuthorityInv, AuthorityTypeOK, DeliveryIsRecorded, CutoffIsFinal,
       CancelledNeverSucceeds
  <2>5. AnswersFitTheRequest'
    BY <1>1, <2>1 DEF AuthorityInv, AuthorityTypeOK, AnswersFitTheRequest, Success
  <2> QED BY <2>2, <2>3, <2>4, <2>5 DEF AuthorityInv
<1> QED BY <1>3, <1>4

(* Delivering a cancellation, by whatever path, preserves the invariant. *)
LEMMA CancelPreservesInv ==
  ASSUME AuthorityInv, NEW t \in Tokens, CancelToken(t)
  PROVE  AuthorityInv'
<1>1. answer[t] = "none" /\ cutoff[t] # "passed" /\ leaseOf[t] # None
  BY DEF AuthorityInv, CancelToken, HandlesAreFresh, CutoffIsFinal, Tokens, None, Issued
<1>2. AuthorityTypeOK' /\ OneAuthority' /\ HandlesAreFresh' /\ AnsweredUnlessActive'
  BY <1>1, Zenon DEF AuthorityInv, CancelToken, AuthorityTypeOK, OneAuthority, HandlesAreFresh, AnsweredUnlessActive, Tokens, None,
     NoOperation, Issued
<1>3. DeliveryIsRecorded'
  BY DEF AuthorityInv, CancelToken, AuthorityTypeOK, DeliveryIsRecorded
<1>4. CutoffIsFinal' /\ CancelledNeverSucceeds' /\ AnswersFitTheRequest'
  BY <1>1 DEF AuthorityInv, CancelToken, CutoffIsFinal, CancelledNeverSucceeds,
     AnswersFitTheRequest, Success
<1> QED BY <1>2, <1>3, <1>4 DEF AuthorityInv

(* The worker's cutoff preserves the invariant. *)
LEMMA ClosePreservesInv ==
  ASSUME AuthorityInv, NEW t \in Issued, CloseCancellation(t)
  PROVE  AuthorityInv'
<1>1. t \in Tokens /\ leaseOf[t] # None
  BY DEF Issued
<1>2. AuthorityTypeOK' /\ OneAuthority' /\ HandlesAreFresh' /\ AnsweredUnlessActive'
  BY <1>1, SMTT(60) DEF AuthorityInv, CloseCancellation, AuthorityTypeOK, OneAuthority, HandlesAreFresh, AnsweredUnlessActive,
     Tokens, None, Counters, Issued
<1>3. DeliveryIsRecorded' /\ CutoffIsFinal' /\ CancelledNeverSucceeds' /\ AnswersFitTheRequest'
  BY <1>1 DEF AuthorityInv, CloseCancellation, AuthorityTypeOK, DeliveryIsRecorded, CutoffIsFinal,
     CancelledNeverSucceeds, AnswersFitTheRequest, None, Tokens
<1> QED BY <1>2, <1>3 DEF AuthorityInv

(* Completing or abandoning the operation that owns the lease preserves the *)
(* invariant, whatever its worker reported.                                 *)
LEMMA ReleasePreservesInv ==
  ASSUME AuthorityInv, NEW t \in Issued, Owns(t), NEW r \in Results(kindOf[t]),
         Release(t, Respond(kindOf[t], active.cancelled, r))
  PROVE  AuthorityInv'
<1> DEFINE response == Respond(kindOf[t], active.cancelled, r)
<1>1. t \in Tokens /\ active.token = t /\ leaseOf[t] # None /\ kindOf[t] \in Kinds
  BY OwnsIsActive DEF AuthorityInv, HandlesAreFresh, Issued
<1>2. /\ slot' = None /\ active' = NoOperation /\ worker' = NoWorker
      /\ answer' = [answer EXCEPT ![t] = response]
      /\ UNCHANGED <<nextToken, event, nextLease, poisoned, leaseOf, kindOf, acked, cutoff>>
  BY <1>1 DEF Release, AuthorityInv, OneAuthority, None, Tokens
<1>3. /\ response \in Answers
      /\ active.cancelled => response \notin Success
      /\ response # "none"
      /\ response \in Success => response \in SuccessOf(kindOf[t])
  BY RespondFacts DEF AuthorityInv, AuthorityTypeOK
<1>4. t \in acked <=> active.cancelled
  BY <1>1 DEF AuthorityInv, DeliveryIsRecorded, Tokens, None
<1> HIDE DEF response
<1>5. AuthorityTypeOK' /\ OneAuthority' /\ HandlesAreFresh' /\ AnsweredUnlessActive'
  BY <1>1, <1>2, <1>3, MaxTokenAssumption DEF AuthorityInv, AuthorityTypeOK, OneAuthority, HandlesAreFresh, AnsweredUnlessActive,
     NoOperation, NoWorker, Tokens, None, Counters, Issued
<1>6. DeliveryIsRecorded' /\ CutoffIsFinal'
  BY <1>1, <1>2 DEF AuthorityInv, DeliveryIsRecorded, CutoffIsFinal, NoOperation, Tokens, None
<1>7. CancelledNeverSucceeds' /\ AnswersFitTheRequest'
  BY <1>1, <1>2, <1>3, <1>4 DEF AuthorityInv, AuthorityTypeOK, CancelledNeverSucceeds,
     AnswersFitTheRequest
<1> QED BY <1>5, <1>6, <1>7 DEF AuthorityInv

(* Marking a worker lost or past its deadline preserves the invariant. *)
LEMMA LifecyclePreservesInv ==
  ASSUME AuthorityInv, (\E t \in Issued : WorkerLost(t)) \/ DecideCancel
  PROVE  AuthorityInv'
<1>1. /\ worker'.lease = worker.lease
      /\ worker' \in [lease : Counters, cancellationSent : BOOLEAN]
      /\ worker = NoWorker => worker' = NoWorker
  <2>1. CASE \E t \in Issued : WorkerLost(t)
    BY <2>1 DEF AuthorityInv, AuthorityTypeOK, WorkerLost
  <2>2. CASE DecideCancel
    <3>1. /\ worker \in [lease : Counters, cancellationSent : BOOLEAN]
          /\ worker' = [worker EXCEPT !.cancellationSent = TRUE]
          /\ worker.lease # None
      BY <2>2 DEF AuthorityInv, AuthorityTypeOK, DecideCancel
    <3>2. worker # NoWorker
      BY <3>1 DEF NoWorker
    <3> QED BY <3>1, <3>2, Zenon
  <2> QED BY <2>1, <2>2
<1>2. /\ poisoned' \in BOOLEAN /\ (poisoned => poisoned')
      /\ UNCHANGED <<active, nextToken, slot, event, nextLease, leaseOf, kindOf, acked,
                     cutoff, answer>>
  <2>1. CASE \E t \in Issued : WorkerLost(t)
    BY <2>1 DEF AuthorityInv, AuthorityTypeOK, WorkerLost
  <2>2. CASE DecideCancel
    BY <2>2 DEF AuthorityInv, AuthorityTypeOK, DecideCancel
  <2> QED BY <2>1, <2>2
<1>3. AuthorityTypeOK' /\ OneAuthority' /\ HandlesAreFresh' /\ AnsweredUnlessActive'
  BY <1>1, <1>2 DEF AuthorityInv, AuthorityTypeOK, OneAuthority, HandlesAreFresh, AnsweredUnlessActive, Issued
<1>4. DeliveryIsRecorded' /\ CutoffIsFinal' /\ CancelledNeverSucceeds' /\ AnswersFitTheRequest'
  BY <1>2 DEF AuthorityInv, DeliveryIsRecorded, CutoffIsFinal, CancelledNeverSucceeds,
     AnswersFitTheRequest
<1> QED BY <1>3, <1>4 DEF AuthorityInv

(* Every step of the broker preserves its invariant. *)
LEMMA NextPreservesInv == AuthorityInv /\ [AuthorityNext]_authorityVars => AuthorityInv'
<1> SUFFICES ASSUME AuthorityInv, [AuthorityNext]_authorityVars PROVE AuthorityInv'
  OBVIOUS
<1>1. ASSUME NEW k \in Kinds, NEW representable \in BOOLEAN, Admit(k, representable)
      PROVE  AuthorityInv'
  BY <1>1, AdmitPreservesInv
<1>2. ASSUME CancelForRoot PROVE AuthorityInv'
  <2>1. active.token \in Tokens
    BY <1>2 DEF CancelForRoot, AuthorityInv, AuthorityTypeOK, Counters, Tokens, None
  <2> QED BY <1>2, <2>1, CancelPreservesInv DEF CancelForRoot
<1>3. ASSUME NEW t \in Issued, CancelExact(t) PROVE AuthorityInv'
  BY <1>3, CancelPreservesInv DEF CancelExact, Issued
<1>4. ASSUME NEW t \in Issued, CloseCancellation(t) PROVE AuthorityInv'
  BY <1>4, ClosePreservesInv
<1>5. ASSUME NEW t \in Issued, Abandon(t) PROVE AuthorityInv'
  <2> DEFINE r == IF kindOf[t] \in DirectKinds THEN "Failed" ELSE "Error"
  <2>1. r \in Results(kindOf[t])
    BY DEF Results, DirectResults, StandardResults, Always
  <2>2. Owns(t) /\ Release(t, Respond(kindOf[t], active.cancelled, r))
    BY <1>5 DEF Abandon
  <2> HIDE DEF r
  <2> QED BY <2>1, <2>2, ReleasePreservesInv
<1>6. ASSUME NEW t \in Issued, NEW c \in Issued, NEW r \in Results(kindOf[t]), Finish(t, c, r)
      PROVE  AuthorityInv'
  BY <1>6, ReleasePreservesInv DEF Finish
<1>7. CASE (\E t \in Issued : WorkerLost(t)) \/ DecideCancel
  BY <1>7, LifecyclePreservesInv
<1>8. CASE UNCHANGED authorityVars
  BY <1>8 DEF authorityVars, AuthorityInv, AuthorityTypeOK, OneAuthority, HandlesAreFresh, AnsweredUnlessActive,
     DeliveryIsRecorded, CutoffIsFinal, CancelledNeverSucceeds, AnswersFitTheRequest, Issued
<1> QED BY <1>1, <1>2, <1>3, <1>4, <1>5, <1>6, <1>7, <1>8 DEF AuthorityNext

(* The broker's invariant holds in every reachable state: in particular     *)
(* the three authorities agree, the cutoff is final and a cancelled         *)
(* operation never succeeds.                                                *)
THEOREM AuthorityIsInvariant == AuthoritySpec => []AuthorityInv
BY InitEstablishesInv, NextPreservesInv, PTL DEF AuthoritySpec

(* The three authorities agree; the cutoff is final; a delivered            *)
(* cancellation always wins; an answer fits its request.                    *)
THEOREM AuthoritySafety ==
  AuthoritySpec => [](/\ AuthorityTypeOK /\ OneAuthority /\ HandlesAreFresh
                      /\ AnsweredUnlessActive
                      /\ DeliveryIsRecorded /\ CutoffIsFinal
                      /\ CancelledNeverSucceeds /\ AnswersFitTheRequest)
BY AuthorityIsInvariant, PTL DEF AuthorityInv

-----------------------------------------------------------------------------
(* What a step may never do. *)

(* A release answers only the active token, which has no answer yet. *)
LEMMA ReleaseAnswersActive ==
  ASSUME AuthorityInv, NEW t \in Issued, Owns(t), NEW response, Release(t, response)
  PROVE  /\ t \in Tokens /\ active.token = t /\ answer[t] = "none" /\ leaseOf[t] # None
         /\ answer' = [answer EXCEPT ![t] = response]
         /\ UNCHANGED <<acked, leaseOf, cutoff, poisoned>>
<1>1. t \in Tokens /\ active.token = t
  BY OwnsIsActive
<1>2. answer[t] = "none" /\ leaseOf[t] # None
  BY <1>1 DEF AuthorityInv, HandlesAreFresh, Issued, Tokens, None
<1> QED BY <1>1, <1>2 DEF Release

(* Every step either ends the one operation that owns the lease, or leaves  *)
(* every answer alone.                                                      *)
LEMMA StepsThatAnswer ==
  ASSUME AuthorityInv, [AuthorityNext]_authorityVars
  PROVE  \/ answer' = answer /\ acked \subseteq acked'
         \/ \E t \in Issued : \E r \in Results(kindOf[t]) :
              /\ Owns(t)
              /\ Release(t, Respond(kindOf[t], active.cancelled, r))
<1>1. ASSUME NEW t \in Issued, Abandon(t)
      PROVE  \E r \in Results(kindOf[t]) :
               Owns(t) /\ Release(t, Respond(kindOf[t], active.cancelled, r))
  <2> DEFINE r == IF kindOf[t] \in DirectKinds THEN "Failed" ELSE "Error"
  <2>1. r \in Results(kindOf[t])
    BY DEF Results, DirectResults, StandardResults, Always
  <2>2. Owns(t) /\ Release(t, Respond(kindOf[t], active.cancelled, r))
    BY <1>1 DEF Abandon
  <2> HIDE DEF r
  <2> QED BY <2>1, <2>2
<1>2. ASSUME NEW t \in Issued, NEW c \in Issued, NEW r \in Results(kindOf[t]), Finish(t, c, r)
      PROVE  Owns(t) /\ Release(t, Respond(kindOf[t], active.cancelled, r))
  BY <1>2 DEF Finish
<1>3. CASE \E k \in Kinds, representable \in BOOLEAN : Admit(k, representable)
  BY <1>3 DEF Admit
<1>4. CASE CancelForRoot \/ DecideCancel \/ UNCHANGED authorityVars
  BY <1>4 DEF CancelForRoot, CancelToken, DecideCancel, authorityVars
<1>5. CASE \E t \in Issued : CancelExact(t) \/ CloseCancellation(t) \/ WorkerLost(t)
  BY <1>5 DEF CancelExact, CancelToken, CloseCancellation, WorkerLost
<1> QED BY <1>1, <1>2, <1>3, <1>4, <1>5 DEF AuthorityNext

(* No stale handle or late completion revises an answer already given, and  *)
(* no acknowledged cancellation is revoked.                                 *)
THEOREM AnswersAreFinalTheorem == AuthoritySpec => AnswersAreFinal
<1>1. ASSUME AuthorityInv, [AuthorityNext]_authorityVars
      PROVE  [/\ \A t \in Tokens : answer[t] # "none" => answer'[t] = answer[t]
              /\ acked \subseteq acked']_authorityVars
  <2>1. ASSUME NEW t \in Issued, NEW r \in Results(kindOf[t]), Owns(t),
               Release(t, Respond(kindOf[t], active.cancelled, r))
        PROVE  /\ \A u \in Tokens : answer[u] # "none" => answer'[u] = answer[u]
               /\ acked \subseteq acked'
    <3> DEFINE response == Respond(kindOf[t], active.cancelled, r)
    <3>1. Release(t, response)
      BY <2>1
    <3> HIDE DEF response
    <3>2. /\ t \in Tokens /\ answer[t] = "none" /\ acked' = acked
          /\ answer' = [answer EXCEPT ![t] = response]
      BY <1>1, <2>1, <3>1, ReleaseAnswersActive
    <3>3. answer \in [Tokens -> Answers]
      BY <1>1 DEF AuthorityInv, AuthorityTypeOK
    <3> QED BY <3>2, <3>3
  <2> QED BY <1>1, <2>1, StepsThatAnswer
<1> QED BY <1>1, AuthorityIsInvariant, PTL DEF AuthoritySpec, AnswersAreFinal

(* A poisoned broker stays poisoned and never issues another lease. *)
THEOREM PoisonEndsAdmissionTheorem == AuthoritySpec => PoisonEndsAdmission
<1>1. ASSUME [AuthorityNext]_authorityVars
      PROVE  [poisoned => poisoned' /\ leaseOf' = leaseOf]_authorityVars
  BY <1>1 DEF AuthorityNext, Admit, CancelForRoot, CancelExact, CancelToken, CloseCancellation,
     Abandon, Finish, Release, WorkerLost, DecideCancel, authorityVars
<1> QED BY <1>1, PTL DEF AuthoritySpec, PoisonEndsAdmission

-----------------------------------------------------------------------------
(* The broker implements CancellableOperation. *)

(* The initial state maps to the abstract one. *)
LEMMA InitRefines == AuthorityInit => Abstract!Init
BY DEF AuthorityInit, Abstract!Init, Phase, Success

(* A mapping that changes at one token is the abstract function update. *)
LEMMA PhaseMoves ==
  ASSUME NEW t \in Tokens, NEW to,
         \A u \in Tokens : Phase'[u] = IF u = t THEN to ELSE Phase[u]
  PROVE  Phase' = [Phase EXCEPT ![t] = to]
<1>1. Phase = [u \in Tokens |-> Phase[u]] /\ Phase' = [u \in Tokens |-> Phase'[u]]
  BY DEF Phase
<1> QED BY <1>1

(* Admission begins the abstract operation, or changes no phase. *)
LEMMA AdmitRefines ==
  ASSUME AuthorityInv, NEW k \in Kinds, NEW representable \in BOOLEAN,
         Admit(k, representable)
  PROVE  Abstract!Next \/ Phase' = Phase
<1>1. CASE leaseOf' = leaseOf
  BY <1>1 DEF Admit, Phase
<1>2. CASE leaseOf' # leaseOf
  <2>1. /\ nextToken \in Tokens /\ nextLease # None
        /\ leaseOf' = [leaseOf EXCEPT ![nextToken] = nextLease]
        /\ UNCHANGED <<acked, cutoff, answer>>
        /\ active = NoOperation
    BY <1>2 DEF Admit, AuthorityInv, AuthorityTypeOK, Counters, Tokens, None
  <2>2. /\ leaseOf[nextToken] = None /\ answer[nextToken] = "none"
        /\ nextToken \notin acked /\ cutoff[nextToken] = "open"
    BY <2>1, MaxTokenAssumption DEF AuthorityInv, AuthorityTypeOK, HandlesAreFresh, Tokens, None
  <2>3. Phase[nextToken] = "new" /\ Phase' = [Phase EXCEPT ![nextToken] = "running"]
    <3>1. Phase[nextToken] = "new"
      BY <2>1, <2>2 DEF Phase, Success
    <3>2. ASSUME NEW u \in Tokens
          PROVE  Phase'[u] = IF u = nextToken THEN "running" ELSE Phase[u]
      <4>1. leaseOf'[u] = IF u = nextToken THEN nextLease ELSE leaseOf[u]
        BY <2>1 DEF AuthorityInv, AuthorityTypeOK
      <4> QED BY <2>1, <2>2, <4>1 DEF Phase, Success
    <3> QED BY <2>1, <3>1, <3>2, PhaseMoves
  <2>4. \A p \in Tokens : answer[p] = "none" => leaseOf[p] = None
    BY <2>1 DEF AuthorityInv, AnsweredUnlessActive, NoOperation, Tokens, None
  <2>5. \A p \in Tokens : Phase[p] \notin Abstract!Live
    BY <2>4 DEF Phase, Abstract!Live, Success
  <2> QED BY <2>1, <2>3, <2>5, Zenon DEF Abstract!Next, Abstract!Begin, Abstract!Move
<1> QED BY <1>1, <1>2

(* A delivered cancellation cancels a running abstract operation; repeating *)
(* it changes no phase.                                                     *)
LEMMA CancelRefines ==
  ASSUME AuthorityInv, NEW t \in Tokens, CancelToken(t)
  PROVE  Abstract!Next \/ Phase' = Phase
<1>1. /\ acked' = acked \cup {t} /\ UNCHANGED <<leaseOf, cutoff, answer>>
      /\ answer[t] = "none" /\ leaseOf[t] # None /\ cutoff[t] # "passed"
  BY DEF AuthorityInv, CancelToken, HandlesAreFresh, CutoffIsFinal, Issued, Tokens, None
<1>2. ASSUME NEW u \in Tokens PROVE Phase'[u] = IF u = t THEN "cancelled" ELSE Phase[u]
  BY <1>1 DEF Phase, Success
<1>3. Phase' = [Phase EXCEPT ![t] = "cancelled"]
  BY <1>2, PhaseMoves
<1>4. CASE t \in acked
  <2>1. acked' = acked
    BY <1>1, <1>4
  <2> QED BY <1>1, <2>1 DEF Phase
<1>5. CASE t \notin acked
  <2>1. Phase[t] = "running"
    BY <1>1, <1>5 DEF Phase, Success
  <2> QED BY <1>3, <2>1, Zenon DEF Abstract!Next, Abstract!Cancel, Abstract!Move
<1> QED BY <1>4, <1>5

(* Passing the cutoff commits a running abstract operation; being refused   *)
(* changes no phase.                                                        *)
LEMMA CloseRefines ==
  ASSUME AuthorityInv, NEW t \in Issued, CloseCancellation(t)
  PROVE  Abstract!Next \/ Phase' = Phase
<1>1. /\ t \in Tokens /\ leaseOf[t] # None /\ cutoff[t] = "open"
      /\ cutoff' = [cutoff EXCEPT ![t] = IF slot = t /\ ~event[t] THEN "passed" ELSE "refused"]
      /\ UNCHANGED <<leaseOf, acked, answer>>
      /\ cutoff \in [Tokens -> {"open", "passed", "refused"}]
  BY DEF Issued, CloseCancellation, AuthorityInv, AuthorityTypeOK
<1>2. CASE slot = t /\ ~event[t]
  <2>1. answer[t] = "none" /\ t \notin acked
    BY <1>1, <1>2 DEF AuthorityInv, OneAuthority, HandlesAreFresh, DeliveryIsRecorded, Tokens, None
  <2>2. \A u \in Tokens : cutoff'[u] = IF u = t THEN "passed" ELSE cutoff[u]
    BY <1>1, <1>2
  <2>3. ASSUME NEW u \in Tokens PROVE Phase'[u] = IF u = t THEN "committed" ELSE Phase[u]
    BY <1>1, <2>1, <2>2 DEF Phase, Success
  <2>4. Phase[t] = "running" /\ Phase' = [Phase EXCEPT ![t] = "committed"]
    BY <1>1, <2>1, <2>3, PhaseMoves DEF Phase, Success
  <2> QED BY <1>1, <2>4, Zenon DEF Abstract!Next, Abstract!Commit, Abstract!Move
<1>3. CASE ~(slot = t /\ ~event[t])
  <2>1. \A u \in Tokens : cutoff'[u] = "passed" <=> cutoff[u] = "passed"
    BY <1>1, <1>3
  <2> QED BY <1>1, <2>1 DEF Phase
<1> QED BY <1>2, <1>3

(* An answer ends the abstract operation: with success only if it was never *)
(* cancelled.                                                               *)
LEMMA ReleaseRefines ==
  ASSUME AuthorityInv, NEW t \in Issued, Owns(t), NEW r \in Results(kindOf[t]),
         Release(t, Respond(kindOf[t], active.cancelled, r))
  PROVE  Abstract!Next
<1> DEFINE response == Respond(kindOf[t], active.cancelled, r)
           to == IF response \in Success THEN "succeeded" ELSE "failed"
<1>1. /\ response # "none"
      /\ active.cancelled => response \notin Success
  BY RespondFacts DEF AuthorityInv, AuthorityTypeOK
<1>2. Release(t, response)
  OBVIOUS
<1> HIDE DEF response
<1>3. /\ t \in Tokens /\ active.token = t /\ answer[t] = "none" /\ leaseOf[t] # None
      /\ answer' = [answer EXCEPT ![t] = response]
      /\ UNCHANGED <<acked, leaseOf, cutoff>>
      /\ answer \in [Tokens -> Answers]
  BY <1>2, ReleaseAnswersActive DEF AuthorityInv, AuthorityTypeOK
<1>4. t \in acked <=> active.cancelled
  BY <1>3 DEF AuthorityInv, DeliveryIsRecorded, Tokens, None
<1>5. \A u \in Tokens : answer'[u] = IF u = t THEN response ELSE answer[u]
  BY <1>3
<1>6. ASSUME NEW u \in Tokens PROVE Phase'[u] = IF u = t THEN to ELSE Phase[u]
  BY <1>1, <1>3, <1>5 DEF Phase
<1>7. Phase' = [Phase EXCEPT ![t] = to]
  BY <1>3, <1>6, PhaseMoves
<1>8. Phase[t] = IF t \in acked THEN "cancelled"
                 ELSE IF cutoff[t] = "passed" THEN "committed" ELSE "running"
  BY <1>3 DEF Phase, Success
<1>9. CASE response \in Success
  <2>1. Phase[t] \in {"running", "committed"} /\ to = "succeeded"
    BY <1>1, <1>4, <1>8, <1>9
  <2> QED BY <1>3, <1>7, <2>1, Zenon DEF Abstract!Next, Abstract!Succeed, Abstract!Move
<1>10. CASE response \notin Success
  <2>1. Phase[t] \in Abstract!Live /\ to = "failed"
    BY <1>8, <1>10 DEF Abstract!Live
  <2> QED BY <1>3, <1>7, <2>1, Zenon DEF Abstract!Next, Abstract!Fail, Abstract!Move
<1> QED BY <1>9, <1>10

(* Every step of the broker is a step of the abstract operation or changes  *)
(* no phase.                                                                *)
LEMMA NextRefines ==
  ASSUME AuthorityInv, [AuthorityNext]_authorityVars
  PROVE  Abstract!Next \/ Phase' = Phase
<1>1. ASSUME NEW k \in Kinds, NEW representable \in BOOLEAN, Admit(k, representable)
      PROVE  Abstract!Next \/ Phase' = Phase
  BY <1>1, AdmitRefines
<1>2. CASE CancelForRoot
  <2>1. active.token \in Tokens
    BY <1>2 DEF CancelForRoot, AuthorityInv, AuthorityTypeOK, Counters, Tokens, None
  <2> QED BY <1>2, <2>1, CancelRefines DEF CancelForRoot
<1>3. ASSUME NEW t \in Issued, CancelExact(t) PROVE Abstract!Next \/ Phase' = Phase
  BY <1>3, CancelRefines DEF CancelExact, Issued
<1>4. ASSUME NEW t \in Issued, CloseCancellation(t) PROVE Abstract!Next \/ Phase' = Phase
  BY <1>4, CloseRefines
<1>5. ASSUME NEW t \in Issued, Abandon(t) PROVE Abstract!Next
  <2> DEFINE r == IF kindOf[t] \in DirectKinds THEN "Failed" ELSE "Error"
  <2>1. r \in Results(kindOf[t])
    BY DEF Results, DirectResults, StandardResults, Always
  <2>2. Owns(t) /\ Release(t, Respond(kindOf[t], active.cancelled, r))
    BY <1>5 DEF Abandon
  <2> HIDE DEF r
  <2> QED BY <2>1, <2>2, ReleaseRefines
<1>6. ASSUME NEW t \in Issued, NEW c \in Issued, NEW r \in Results(kindOf[t]), Finish(t, c, r)
      PROVE  Abstract!Next
  BY <1>6, ReleaseRefines DEF Finish
<1>7. CASE (\E t \in Issued : WorkerLost(t)) \/ DecideCancel \/ UNCHANGED authorityVars
  BY <1>7 DEF WorkerLost, DecideCancel, authorityVars, Phase
<1> QED BY <1>1, <1>2, <1>3, <1>4, <1>5, <1>6, <1>7 DEF AuthorityNext

(* Tokens, leases and the cancellation slot together implement the abstract *)
(* operations: at most one live, cancelled or committed but never both, and *)
(* never successful once cancelled.                                         *)
THEOREM BrokerImplementsOperations == AuthoritySpec => ImplementsOperations
<1>1. AuthorityInit => Abstract!Init
  BY InitRefines
<1>2. AuthorityInv /\ [AuthorityNext]_authorityVars => [Abstract!Next]_Phase
  BY NextRefines
<1> QED BY <1>1, <1>2, AuthorityIsInvariant, PTL DEF AuthoritySpec, ImplementsOperations, Abstract!Spec
=============================================================================
