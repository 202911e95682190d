---------------------------- MODULE MesaMessages ----------------------------
(***************************************************************************)
(* What arrives on a bridge connection while a call waits for its reply,   *)
(* and what the sensor's messages among it are taken to say: frames,       *)
(* envelopes, callbacks and Mesa messages (crates/t1-bridge/src/framing.rs,*)
(* session.rs, rpc.rs and mesa.rs).                                        *)
(*                                                                         *)
(* A frame is a record of the fields its decoders look at; lengths are     *)
(* real numbers of bytes.                                                  *)
(***************************************************************************)
EXTENDS Integers, Sequences, SequencesExt, FiniteSets

CONSTANTS
    Streams,       \* the sequences of frames that may arrive
    Identities,    \* the records listed for the user, [user, id]
    RequestedUser,
    MyId           \* the identifier of the call

VARIABLES
    stream,     \* frames not yet read
    received,   \* frames read
    acks,       \* replies sent: [id, code]
    events,     \* service_events
    result,     \* the call: "none", "failed", or the value its reply carried
    verdicts    \* what each Mesa message taken from the queue was said to mean

vars == <<stream, received, acks, events, result, verdicts>>

HeaderSize == 40            \* MESA_MESSAGE_HEADER_SIZE
CompletionSize == 20        \* MESA_ENROLLMENT_COMPLETE_V1_SIZE
MatchSize == 3184           \* MESA_MATCH_RESULT_V1_SIZE
ContinueMin == 100
ContinueMax == 355
MaxBody == 16777216         \* MAX_FRAME_BODY_LEN

-----------------------------------------------------------------------------
(* Frames and envelopes. *)

\* FrameHeader::decode_exact and the read of the body that it announces.
FrameOk(f) == f.magic /\ f.version /\ f.declared <= MaxBody /\ f.available >= f.declared

\* decode_envelope: an array of four with the version, a flag, a string, an array.
EnvelopeOk(f) == f.fields = <<"version", "boolean", "string", "array">>

\* RpcEnvelope::matching_reply.
IsOwnReply(f) == f.reply /\ f.id = MyId

-----------------------------------------------------------------------------
(* Callbacks. *)

\* handle_inbound_request: an error, or the code to reply with and whether
\* there is an event.
Inbound(f) ==
    CASE f.arity # 5 \/ f.ordinal \notin {9, 10} -> [error |-> FALSE, code |-> 22, event |-> FALSE]
      [] f.arity = 5 /\ f.ordinal \in {9, 10} /\ (f.service = "invalid" \/ f.data = "invalid" \/ ~f.timing) ->
            [error |-> TRUE, code |-> 0, event |-> FALSE]
      [] OTHER -> [error |-> FALSE, code |-> 0, event |-> TRUE]

\* The event: a missing value is no bytes.
Event(f) == [service |-> f.service, length |-> IF f.data = "nil" THEN 0 ELSE HeaderSize + f.payload, m |-> f]

-----------------------------------------------------------------------------
(* Mesa messages. *)

Say(kind, id) == [kind |-> kind, id |-> id]
Nothing == Say("nothing", 0)
Malformed == Say("malformed", 0)

\* parse_mesa_message, as far as it can refuse: too short for the header, a
\* failed result, or a declared length that is not the payload's.
MessageOk(e) == e.length >= HeaderSize /\ e.m.result = 0 /\ e.m.declaredPayload = e.length - HeaderSize

\* enrollment_needs_continue.
NeedsContinue(m) == m.status = "enrollmentStatus" /\ m.inValue \in ContinueMin .. ContinueMax

\* enrollment_completion.
Completion(m) ==
    CASE m.type # 1 \/ m.payload < CompletionSize -> Malformed
      [] m.type = 1 /\ m.payload >= CompletionSize /\ (m.user # RequestedUser \/ m.identity = 0) -> Malformed
      [] OTHER -> Say("enrolled", m.identity)

\* evaluate_matched_identity: the record, the list of users after it, and the
\* identity among those listed for the user.
Matched(m) ==
    CASE m.type # 1 \/ m.payload < MatchSize \/ m.payload < MatchSize + 4 * m.items -> Malformed
      [] m.type = 1 /\ m.payload >= MatchSize + 4 * m.items ->
            IF /\ m.user # -1
               /\ m.user = RequestedUser
               /\ \E i \in Identities : i.user = RequestedUser /\ i.id = m.identity
            THEN Say("matched", m.identity)
            ELSE Say("noMatch", 0)

\* What a workflow makes of an event.
Reading(e) ==
    CASE e.service # "mesa" -> Nothing
      [] e.service = "mesa" /\ ~MessageOk(e) -> Malformed
      [] e.service = "mesa" /\ MessageOk(e) ->
            CASE NeedsContinue(e.m) -> Say("continue", 0)
              [] e.m.status = "enrollmentComplete" -> Completion(e.m)
              [] e.m.status = "matchResult" -> Matched(e.m)
              [] OTHER -> Nothing

-----------------------------------------------------------------------------
Init ==
    /\ stream \in Streams
    /\ received = <<>> /\ acks = <<>> /\ events = <<>> /\ result = "none" /\ verdicts = <<>>

\* acknowledge_request: the reply, then the event if there is one.
Acknowledge(f) ==
    /\ acks' = IF Inbound(f).error THEN acks ELSE Append(acks, [id |-> f.id, code |-> Inbound(f).code])
    /\ events' = IF Inbound(f).event THEN Append(events, Event(f)) ELSE events

\* One turn of the loop of BridgeXpcSession::call, acknowledge_request included.
Receive ==
    /\ result = "none" /\ stream # <<>>
    /\ LET f == Head(stream)
       IN /\ received' = Append(received, f)
          /\ stream' = Tail(stream)
          /\ CASE ~FrameOk(f) -> result' = "failed" /\ UNCHANGED <<acks, events>>
               [] FrameOk(f) /\ f.kind # "plist" -> UNCHANGED <<acks, events, result>>
               [] FrameOk(f) /\ f.kind = "plist" /\ ~EnvelopeOk(f) -> result' = "failed" /\ UNCHANGED <<acks, events>>
               [] FrameOk(f) /\ f.kind = "plist" /\ EnvelopeOk(f) /\ f.reply ->
                     result' = (IF IsOwnReply(f) THEN f.id ELSE result) /\ UNCHANGED <<acks, events>>
               [] OTHER -> /\ result' = IF Inbound(f).error THEN "failed" ELSE result
                           /\ Acknowledge(f)
    /\ UNCHANGED verdicts

\* The reply to a request cannot be sent: the call ends before the event is
\* queued.
ReplyFails ==
    /\ result = "none" /\ stream # <<>>
    /\ LET f == Head(stream)
       IN /\ FrameOk(f) /\ f.kind = "plist" /\ EnvelopeOk(f) /\ ~f.reply /\ ~Inbound(f).error
          /\ received' = Append(received, f)
          /\ stream' = Tail(stream)
    /\ result' = "failed"
    /\ UNCHANGED <<acks, events, verdicts>>

\* External: the T1 closes the connection with the call unanswered.
Closed ==
    /\ result = "none" /\ stream = <<>>
    /\ result' = "failed"
    /\ UNCHANGED <<stream, received, acks, events, verdicts>>

\* take_service_event, and the workflow's reading of it.
Take ==
    /\ result \notin {"none", "failed"} /\ events # <<>>
    /\ verdicts' = Append(verdicts, Reading(Head(events)))
    /\ events' = Tail(events)
    /\ UNCHANGED <<stream, received, acks, result>>

Next == Receive \/ ReplyFails \/ Closed \/ Take

Spec == Init /\ [][Next]_vars

-----------------------------------------------------------------------------
(* Properties. *)

\* The requests received, as the protocol means them.
Requests == SelectSeq(received, LAMBDA f : f.kind = "plist" /\ FrameOk(f) /\ EnvelopeOk(f) /\ ~f.reply)
Callbacks == SelectSeq(Requests, LAMBDA f : f.arity = 5 /\ f.ordinal \in {9, 10})

\* A call waiting for its reply answers every request of the T1 once, in the
\* order of arrival and under the request's own identifier; only a request
\* that ends the connection goes unanswered.
AnsweredInOrder ==
    /\ IsPrefix([i \in DOMAIN acks |-> acks[i].id], [i \in DOMAIN Requests |-> Requests[i].id])
    /\ Len(acks) >= Len(Requests) - (IF result = "failed" THEN 1 ELSE 0)

\* A callback is acknowledged with success exactly when its event was kept:
\* none is confirmed to the T1 and then lost, and none is used unconfirmed.
ConfirmedIsKept ==
    Cardinality({i \in DOMAIN acks : acks[i].code = 0}) = Len(events) + Len(verdicts)

\* The reply taken for a call is one with its identifier, and the first.
OwnReplyFirst ==
    (result \notin {"none", "failed"}) =>
        /\ result = MyId /\ Last(received).reply /\ Last(received).id = MyId
        /\ \A i \in 1 .. Len(received) - 1 : ~(received[i].kind = "plist" /\ received[i].reply /\ received[i].id = MyId)

\* A match is reported only for the requested user and an identity listed for
\* them, an enrolment only for that user and with the nonzero identity the
\* message carries, and either only from a whole message: its record, and the
\* list it announces, are there.
VerdictIsSaid ==
    \A i \in DOMAIN verdicts :
        verdicts[i].kind \in {"matched", "noMatch", "enrolled"} =>
            \E f \in Range(Callbacks) :
                /\ f.service = "mesa" /\ f.result = 0 /\ f.type = 1 /\ f.declaredPayload = f.payload
                /\ (verdicts[i].kind \in {"matched", "noMatch"}) =>
                      f.status = "matchResult" /\ f.payload >= MatchSize + 4 * f.items
                /\ (verdicts[i].kind = "matched") =>
                      f.user = RequestedUser /\ [user |-> RequestedUser, id |-> f.identity] \in Identities
                                             /\ verdicts[i].id = f.identity
                /\ (verdicts[i].kind = "enrolled") =>
                      /\ f.status = "enrollmentComplete" /\ f.user = RequestedUser
                      /\ f.payload >= CompletionSize
                      /\ f.identity # 0 /\ verdicts[i].id = f.identity
=============================================================================
