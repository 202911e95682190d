---------------------------- MODULE SepLinkProofs ----------------------------
(***************************************************************************)
(* Proofs about SepLink, for every set of operations, every number of      *)
(* notifications and every skip limit.                                     *)
(***************************************************************************)
EXTENDS SepLink, TLAPS

-----------------------------------------------------------------------------
(* Types *)

LEMMA ScriptType ==
  ASSUME NEW k \in Kinds
  PROVE  Script(k) \in Seq(Commands) /\ Len(Script(k)) \in Nat /\ Len(Script(k)) > 0
<1>1. /\ Negotiation \in Seq(Commands) /\ Authorization \in Seq(Commands)
      /\ Len(Negotiation) = 5
      BY DEF Negotiation, Authorization, Commands, AcmCommands
<1>2. <<"state">> \in Seq(Commands) BY DEF Commands
<1>3. <<"contains", "contains", "replace", "contains", "contains", "preflight", "policy">> \in Seq(Commands)
      BY DEF Commands, AcmCommands
<1>4. <<"environment", "load", "initialize", "state">> \in Seq(Commands)
      BY DEF Commands, AcmCommands
<1>5. k \in {"authentication", "enrollment", "relay"} BY SepLinkAssumption
<1>6. \A t, v \in Seq(Commands) : /\ t \o v \in Seq(Commands)
                                  /\ Len(t \o v) = Len(t) + Len(v)
                                  /\ Len(t) \in Nat
      OBVIOUS
<1> DEFINE A == Negotiation \o Authorization
<1>7. A \in Seq(Commands) /\ Len(A) >= 5
  <2>1. Len(A) = Len(Negotiation) + Len(Authorization) /\ Len(Authorization) \in Nat BY <1>1, <1>6, Zenon
  <2> QED BY <1>1, <1>6, <2>1
<1> HIDE DEF A
<1>8. CASE k = "authentication"
  <2>1. Script(k) = A \o <<"state">> BY <1>8 DEF Script, A
  <2> QED BY <2>1, <1>2, <1>6, <1>7
<1>9. CASE k = "enrollment"
  <2>1. Script(k) = A \o <<"contains", "contains", "replace", "contains", "contains",
                           "preflight", "policy">>
        BY <1>9 DEF Script, A
  <2> QED BY <2>1, <1>3, <1>6, <1>7
<1>10. CASE k = "relay"
  <2>1. Script(k) = Negotiation \o <<"environment", "load", "initialize", "state">>
        BY <1>10 DEF Script
  <2> QED BY <2>1, <1>1, <1>4, <1>6
<1> QED BY <1>5, <1>8, <1>9, <1>10

LEMMA CommandType ==
  ASSUME TypeOK, Progress, op.stage \in {"issue", "receive", "ready"}
  PROVE  Command \in Commands /\ Id \in Nat
<1>1. op.kind \in Kinds /\ op.at \in Nat /\ op.closing \in BOOLEAN BY DEF TypeOK, Operations
<1>2. CASE op.closing
      BY <1>1, <1>2, ScriptType DEF Command, Id, Commands, AcmCommands
<1>3. CASE ~op.closing
  <2>1. op.at \in 1..Len(Script(op.kind)) BY <1>3 DEF Progress
  <2> QED BY <1>1, <1>3, <2>1, ScriptType DEF Command, Id
<1> QED BY <1>1, <1>2, <1>3

\* The kinds of a command.
LEMMA Endpoints ==
  /\ \A c \in Commands : Endpoint(c) \in {"control", "acm", "keystore"}
  /\ Endpoint("create") = "acm" /\ Endpoint("delete") = "acm" /\ Endpoint("initialize") = "acm"
  /\ Endpoint("enable") = "control"
  /\ "none" \notin Commands /\ "notification" \notin Commands
BY DEF Endpoint, Commands, AcmCommands

-----------------------------------------------------------------------------
(* The kernel and the coprocessor *)

LEMMA OutCompletesInv == ASSUME SepInv, OutCompletes PROVE SepInv'
<1> USE DEF SepInv
<1>0. /\ sep.inbox \in Seq(Requests) /\ usb.req \in Requests \cup {NoRequest}
      /\ usb'.at = [usb.at EXCEPT !["out"] = "done"] /\ usb'.msg = usb.msg /\ usb'.req = usb.req
      /\ usb.at["out"] = "pending" /\ usb.at \in [Slots -> {"none", "pending", "done"}]
      /\ UNCHANGED <<op, session, acm, urb, memory, matched>>
      /\ sep'.outbox = sep.outbox /\ sep'.context = sep.context
      BY DEF OutCompletes, TypeOK, Slots
<1>1. TypeOK'
  <2>1. usb.req.command \notin {"none", "enable"} => usb.req \in Requests
        BY <1>0 DEF NoRequest
  <2>2. usb' \in [at : [Slots -> {"none", "pending", "done"}], msg : Messages,
                  req : Requests \cup {NoRequest}]
        BY Zenon DEF OutCompletes, TypeOK, Slots
  <2>3. sep' \in [inbox : Seq(Requests), outbox : Seq(Messages), context : BOOLEAN, sent : Nat]
    <3>1. CASE usb.req.command \in {"none", "enable"} BY <3>1 DEF OutCompletes, TypeOK
    <3>2. CASE usb.req.command \notin {"none", "enable"}
      <4>1. Append(sep.inbox, usb.req) \in Seq(Requests) BY <1>0, <2>1, <3>2
      <4>2. sep' = [sep EXCEPT !.inbox = Append(sep.inbox, usb.req)] BY <3>2 DEF OutCompletes
      <4> QED BY <4>1, <4>2, Zenon DEF TypeOK
    <3> QED BY <3>1, <3>2
  <2> QED BY <1>0, <2>2, <2>3 DEF TypeOK
<1>2. Progress' BY <1>0 DEF Progress, Live, Command
<1>3. UrbsTracked'
  <2>1. urb.slot["out"] = "submitted" /\ memory # "freed" /\ op.stage \notin {"abandon", "ended"}
        BY <1>0 DEF UrbsTracked, Slots
  <2>2. Transfers' = Transfers BY <1>0 DEF Transfers, Command
  <2> QED BY <1>0, <2>1, <2>2 DEF UrbsTracked
<1>4. ~Going' /\ (Landed' <=> Landed) /\ (Coming' <=> Coming) /\ (InOrder' <=> InOrder)
      /\ (Awaiting' <=> Awaiting) /\ Command' = Command /\ Id' = Id /\ Request' = Request
      /\ (CarriedOut' <=> CarriedOut)
      BY <1>0 DEF Going, Landed, Coming, InOrder, Live, Awaiting, Command, Id, Request,
                  CarriedOut, Slots
<1>5. Queued' => (Queued /\ ~Going /\ sep'.inbox = sep.inbox)
              \/ (Going /\ sep'.inbox = Append(sep.inbox, usb.req))
  <2>1. CASE Going BY <2>1 DEF OutCompletes, Going, TypeOK
  <2>2. CASE ~Going BY <1>0, <2>2 DEF OutCompletes, Going, Queued
  <2> QED BY <2>1, <2>2
<1>6. OneExchange'
  <2> SUFFICES ASSUME InOrder
               PROVE  /\ Queued' => Awaiting /\ sep'.inbox = <<Request>> /\ ~Coming /\ ~Landed
      BY <1>0, <1>4 DEF OneExchange, Answers
  <2>1. CASE Going
    <3>1. Awaiting /\ sep.inbox = <<>> /\ usb.req = Request /\ ~Coming /\ ~Landed
          BY <2>1 DEF OneExchange, Queued
    <3> QED BY <1>5, <2>1, <3>1
  <2>2. CASE ~Going BY <1>5, <2>2 DEF OneExchange
  <2> QED BY <2>1, <2>2
<1>7. Context' BY <1>0, <1>4 DEF Context
<1>8. CreationUnderWay' => CreationUnderWay
  <2>1. CASE Going
    <3>1. sep'.inbox = Append(sep.inbox, usb.req) BY <2>1 DEF OutCompletes, Going, TypeOK
    <3> QED BY <1>0, <1>4, <2>1, <3>1 DEF CreationUnderWay
  <2>2. CASE ~Going
    <3>1. sep'.inbox = sep.inbox BY <1>0, <2>2 DEF OutCompletes, Going
    <3> QED BY <1>4, <3>1 DEF CreationUnderWay
  <2> QED BY <2>1, <2>2
<1>9. BrokenIsReported' BY <1>0, <1>8 DEF BrokenIsReported
<1> QED BY <1>0, <1>1, <1>2, <1>3, <1>6, <1>7, <1>9

LEMMA InCompletesInv == ASSUME SepInv, InCompletes PROVE SepInv'
<1> USE DEF SepInv
<1>0. /\ sep.outbox \in Seq(Messages) /\ sep.outbox # <<>>
      /\ usb'.at = [usb.at EXCEPT !["in"] = "done"] /\ usb'.msg = Head(sep.outbox) /\ usb'.req = usb.req
      /\ usb.at["in"] = "pending" /\ usb.at \in [Slots -> {"none", "pending", "done"}]
      /\ UNCHANGED <<op, session, acm, urb, memory, matched>>
      /\ sep'.outbox = Tail(sep.outbox) /\ sep'.context = sep.context /\ sep'.inbox = sep.inbox
      /\ urb.slot["in"] = "submitted"
      BY DEF InCompletes, TypeOK, Slots, UrbsTracked
<1>1. /\ Head(sep.outbox) = sep.outbox[1] /\ sep.outbox[1] \in Messages
      /\ Tail(sep.outbox) \in Seq(Messages)
      /\ Len(sep.outbox) \in Nat /\ Len(sep.outbox) >= 1
      /\ Len(Tail(sep.outbox)) = Len(sep.outbox) - 1
      /\ \A i \in 1..Len(Tail(sep.outbox)) : Tail(sep.outbox)[i] = sep.outbox[i + 1]
                                             /\ i + 1 \in 1..Len(sep.outbox) /\ i + 1 # 1
      BY <1>0
<1>2. TypeOK'
  <2>1. usb' \in [at : [Slots -> {"none", "pending", "done"}], msg : Messages,
                  req : Requests \cup {NoRequest}]
        BY <1>1, Zenon DEF InCompletes, TypeOK, Slots
  <2>2. sep' \in [inbox : Seq(Requests), outbox : Seq(Messages), context : BOOLEAN, sent : Nat]
        BY <1>1, Zenon DEF InCompletes, TypeOK
  <2> QED BY <1>0, <2>1, <2>2 DEF TypeOK
<1>3. Progress' BY <1>0 DEF Progress, Live, Command
<1>4. UrbsTracked'
  <2>1. memory # "freed" /\ op.stage \notin {"abandon", "ended"} BY <1>0 DEF UrbsTracked, Slots
  <2>2. Transfers' = Transfers BY <1>0 DEF Transfers, Command
  <2> QED BY <1>0, <2>1, <2>2 DEF UrbsTracked
<1>5. /\ (Going' <=> Going) /\ (Queued' <=> Queued) /\ ~Landed
      /\ (InOrder' <=> InOrder) /\ (Awaiting' <=> Awaiting)
      /\ Command' = Command /\ Id' = Id /\ Request' = Request
      /\ (Landed' <=> IsReply(sep.outbox[1]))
  <2>1. Going' <=> Going BY <1>0 DEF Going, Slots
  <2>2. Queued' <=> Queued BY <1>0 DEF Queued
  <2>3. ~Landed BY <1>0 DEF Landed
  <2>4. InOrder' <=> InOrder BY <1>0 DEF InOrder, Live
  <2>5. Command' = Command /\ Id' = Id BY <1>0 DEF Command, Id
  <2>6. (Awaiting' <=> Awaiting) /\ Request' = Request BY <1>0, <2>5 DEF Awaiting, Request
  <2>7. Landed' <=> IsReply(sep.outbox[1]) BY <1>0, <1>1 DEF Landed, IsReply, Slots
  <2> QED BY <2>1, <2>2, <2>3, <2>4, <2>5, <2>6, <2>7
<1>6. /\ Coming' => Coming
      /\ Landed' => Coming
      BY <1>0, <1>1, <1>5 DEF Coming, IsReply
<1>7. OneExchange'
  <2> SUFFICES ASSUME InOrder PROVE OneExchange' BY <1>5 DEF OneExchange
  <2>1. Landed' => ~Coming' BY <1>0, <1>1, <1>5 DEF OneExchange, Coming, IsReply
  <2>2. Landed' => Answers(usb.msg)' BY <1>0, <1>1, <1>5 DEF OneExchange, Answers
  <2>3. ASSUME NEW i \in 1..Len(sep'.outbox), IsReply(sep'.outbox[i])
        PROVE  Answers(sep.outbox[i])'
        BY <1>0, <1>1, <1>5, <2>3 DEF OneExchange, Answers
  <2>4. \A i, j \in 1..Len(sep'.outbox) : IsReply(sep'.outbox[i]) /\ IsReply(sep'.outbox[j]) => i = j
    <3> SUFFICES ASSUME NEW i \in 1..Len(sep'.outbox), NEW j \in 1..Len(sep'.outbox),
                        IsReply(sep'.outbox[i]), IsReply(sep'.outbox[j])
                 PROVE  i = j
        OBVIOUS
    <3>1. IsReply(sep.outbox[i + 1]) /\ IsReply(sep.outbox[j + 1])
          /\ i + 1 \in 1..Len(sep.outbox) /\ j + 1 \in 1..Len(sep.outbox)
          BY <1>0, <1>1 DEF IsReply
    <3>2. i + 1 = j + 1 BY <3>1, SMTT(60) DEF OneExchange
    <3> QED BY <3>2, <1>0, <1>1
  <2>5. /\ Going' \/ Queued' \/ Coming' \/ Landed' => Awaiting'
        /\ Going' => usb'.req = Request'
        /\ Queued' => sep'.inbox = <<Request'>>
        /\ Going' => ~Queued' /\ ~Coming' /\ ~Landed'
        /\ Queued' => ~Coming' /\ ~Landed'
        BY <1>0, <1>5, <1>6 DEF OneExchange
  <2> QED BY <2>1, <2>2, <2>3, <2>4, <2>5 DEF OneExchange, IsReply
<1>8. CarriedOut' <=> CarriedOut
  <2>1. CarriedOut => CarriedOut'
    <3>1. ASSUME NEW i \in 1..Len(sep.outbox), Done(sep.outbox[i]) PROVE CarriedOut'
      <4>1. CASE i = 1 BY <1>0, <1>1, <1>5, <3>1, <4>1 DEF CarriedOut, Done, IsReply
      <4>2. CASE i # 1
        <5>1. i - 1 \in 1..Len(sep'.outbox) /\ sep'.outbox[i - 1] = sep.outbox[i]
              BY <1>0, <1>1, <4>2
        <5> QED BY <3>1, <5>1 DEF CarriedOut, Done, IsReply
      <4> QED BY <4>1, <4>2
    <3> QED BY <1>5, <3>1 DEF CarriedOut
  <2>2. CarriedOut' => CarriedOut
        BY <1>0, <1>1, <1>5 DEF CarriedOut, Done, IsReply
  <2> QED BY <2>1, <2>2
<1>9. Context' BY <1>0, <1>5, <1>8 DEF Context
<1>10. CreationUnderWay' <=> CreationUnderWay BY <1>0, <1>5 DEF CreationUnderWay
<1>11. BrokenIsReported' BY <1>0, <1>10 DEF BrokenIsReported
<1> QED BY <1>0, <1>2, <1>3, <1>4, <1>7, <1>9, <1>11

\* The SEP moves, the host does not.
LEMMA HostStands ==
  ASSUME SepInv, UNCHANGED <<op, session, acm, urb, usb, memory, matched>>
  PROVE  /\ Progress' /\ UrbsTracked'
         /\ (InOrder' <=> InOrder) /\ (Awaiting' <=> Awaiting)
         /\ Command' = Command /\ Id' = Id /\ Request' = Request
         /\ (Going' <=> Going) /\ (Landed' <=> Landed)
<1> USE DEF SepInv
<1>1. Command' = Command /\ Id' = Id BY DEF Command, Id
<1>2. Progress' /\ (InOrder' <=> InOrder) BY <1>1 DEF Progress, InOrder, Live
<1>3. UrbsTracked'
  <2>1. Transfers' = Transfers BY <1>1 DEF Transfers
  <2> QED BY <2>1 DEF UrbsTracked
<1> QED BY <1>1, <1>2, <1>3 DEF Awaiting, Request, Going, Landed

LEMMA SepAnswersInv == ASSUME SepInv, SepAnswers PROVE SepInv'
<1> USE DEF SepInv
<1>0. sep.inbox \in Seq(Requests) /\ sep.outbox \in Seq(Messages) /\ sep.context \in BOOLEAN
      BY DEF TypeOK
<1> DEFINE q == Head(sep.inbox)
<1>1. PICK status \in {"ok", "remote", "bad"} :
        sep' = [sep EXCEPT
         !.inbox = Tail(@),
         !.outbox = Append(@, [endpoint |-> Endpoint(q.command),
                               command |-> q.command, id |-> q.id,
                               status |-> status]),
         !.context = IF status = "remote" THEN @
                     ELSE IF q.command = "create" THEN TRUE
                     ELSE @ /\ q.command # "delete"]
      BY Zenon DEF SepAnswers
<1> DEFINE m == [endpoint |-> Endpoint(q.command), command |-> q.command, id |-> q.id,
                 status |-> status]
<1>2. q = sep.inbox[1] /\ q \in Requests /\ sep.inbox # <<>> /\ Tail(sep.inbox) \in Seq(Requests)
      /\ 1 \in 1..Len(sep.inbox)
      /\ \A i \in 1..Len(Tail(sep.inbox)) : Tail(sep.inbox)[i] = sep.inbox[i + 1]
                                            /\ i + 1 \in 1..Len(sep.inbox)
      BY <1>0 DEF SepAnswers
<1>3. /\ m \in Messages /\ IsReply(m) /\ m.command = q.command /\ m.id = q.id
      /\ m.endpoint = Endpoint(q.command) /\ m.status = status
      BY <1>2, Endpoints DEF Requests, Messages, IsReply
<1>4. /\ sep'.inbox = Tail(sep.inbox) /\ sep'.outbox = Append(sep.outbox, m) /\ sep'.sent = sep.sent
      /\ sep'.context = IF status = "remote" THEN sep.context
                        ELSE IF q.command = "create" THEN TRUE
                        ELSE sep.context /\ q.command # "delete"
      BY <1>1 DEF TypeOK
<1>5. UNCHANGED <<op, session, acm, urb, usb, memory, matched>> BY DEF SepAnswers
<1> HIDE DEF m, q
<1>6. TypeOK'
  <2>1. Append(sep.outbox, m) \in Seq(Messages) BY <1>0, <1>3
  <2>2. sep'.context \in BOOLEAN BY <1>0, <1>4, Zenon
  <2>3. sep' \in [inbox : Seq(Requests), outbox : Seq(Messages), context : BOOLEAN, sent : Nat]
        BY <1>1, <1>2, <1>4, <2>1, <2>2, ZenonT(60) DEF TypeOK, m
  <2> QED BY <1>5, <2>3 DEF TypeOK
<1>7. /\ Len(sep'.outbox) = Len(sep.outbox) + 1 /\ sep'.outbox[Len(sep.outbox) + 1] = m
      /\ \A i \in 1..Len(sep.outbox) : sep'.outbox[i] = sep.outbox[i]
      /\ Len(sep.outbox) \in Nat
      BY <1>0, <1>4
<1>8. InOrder => /\ Awaiting /\ q = Request /\ sep'.inbox = <<>> /\ ~Coming /\ ~Landed /\ ~Going
  <2> SUFFICES ASSUME InOrder
               PROVE  Awaiting /\ q = Request /\ sep'.inbox = <<>> /\ ~Coming /\ ~Landed /\ ~Going
      OBVIOUS
  <2>1. Queued BY <1>2 DEF Queued
  <2>2. Awaiting /\ sep.inbox = <<Request>> /\ ~Coming /\ ~Landed /\ ~Going
        BY <2>1 DEF OneExchange
  <2> QED BY <1>2, <1>4, <2>2 DEF q
<1>9. OneExchange'
  <2> SUFFICES ASSUME InOrder PROVE OneExchange' BY <1>5, HostStands DEF OneExchange
  <2>1. ~Going' /\ ~Landed' /\ ~Queued' /\ Awaiting' BY <1>5, <1>8, HostStands DEF Queued
  <2>2. \A i \in 1..Len(sep.outbox) : ~IsReply(sep.outbox[i]) BY <1>8 DEF Coming
  <2>3. \A i \in 1..Len(sep'.outbox) : IsReply(sep'.outbox[i]) => i = Len(sep.outbox) + 1
    <3> SUFFICES ASSUME NEW i \in 1..Len(sep'.outbox), i # Len(sep.outbox) + 1
                 PROVE  ~IsReply(sep'.outbox[i])
        OBVIOUS
    <3>1. i \in 1..Len(sep.outbox) BY <1>7
    <3> QED BY <1>7, <2>2, <3>1
  <2>4. ASSUME NEW i \in 1..Len(sep'.outbox), IsReply(sep'.outbox[i]) PROVE Answers(sep.outbox[i])'
    <3>1. sep'.outbox[i] = m BY <1>7, <2>3, <2>4
    <3>2. m.command = Command /\ m.id = Id /\ m.endpoint = Endpoint(Command)
          BY <1>3, <1>8 DEF Request
    <3> QED BY <1>5, <3>1, <3>2, HostStands DEF Answers
  <2> QED BY <2>1, <2>3, <2>4 DEF OneExchange, IsReply
<1>10. CarriedOut' <=> status # "remote" \/ CarriedOut
  <2>1. Done(m) <=> status # "remote" BY <1>3 DEF Done
  <2>2. (\E i \in 1..Len(sep'.outbox) : Done(sep'.outbox[i])) <=>
        Done(m) \/ \E i \in 1..Len(sep.outbox) : Done(sep.outbox[i])
    <3>1. ASSUME NEW i \in 1..Len(sep.outbox), Done(sep.outbox[i])
          PROVE  \E j \in 1..Len(sep'.outbox) : Done(sep'.outbox[j])
          BY <1>7, <3>1
    <3>2. ASSUME Done(m) PROVE \E j \in 1..Len(sep'.outbox) : Done(sep'.outbox[j])
      <4>1. Len(sep.outbox) + 1 \in 1..Len(sep'.outbox) BY <1>7
      <4> QED BY <1>7, <3>2, <4>1
    <3>3. ASSUME NEW i \in 1..Len(sep'.outbox), Done(sep'.outbox[i])
          PROVE  Done(m) \/ \E j \in 1..Len(sep.outbox) : Done(sep.outbox[j])
      <4>1. i \in 1..Len(sep.outbox) \/ i = Len(sep.outbox) + 1 BY <1>7
      <4> QED BY <1>7, <3>3, <4>1
    <3> QED BY <3>1, <3>2, <3>3
  <2>3. (Landed' <=> Landed) /\ usb' = usb BY <1>5, HostStands
  <2> QED BY <2>1, <2>2, <2>3 DEF CarriedOut, Done, IsReply
<1>11. InOrder => ~CarriedOut BY <1>8 DEF CarriedOut, Coming, Done, Landed
<1>12. sep'.context => sep.context \/ q.command = "create" BY <1>0, <1>4, Zenon
<1>13. q.command = "create" => CreationUnderWay BY <1>2 DEF CreationUnderWay
<1>14. Context'
  <2>1. CASE InOrder
    <3>1. InOrder' /\ Awaiting' /\ Command' = Command /\ acm' = acm /\ q.command = Command /\ Awaiting
          BY <1>5, <1>8, <2>1, HostStands DEF Request
    <3>2. sep'.context => acm.phase = "active" \/ (Command = "create" /\ CarriedOut')
      <4>1. CASE sep.context BY <1>11, <2>1, <4>1 DEF Context
      <4>2. CASE ~sep.context BY <1>0, <1>4, <1>10, <3>1, <4>2, Zenon
      <4> QED BY <4>1, <4>2
    <3>3. Command = "delete" /\ CarriedOut' => ~sep'.context
          BY <1>0, <1>4, <1>10, <1>11, <2>1, <3>1, Zenon
    <3> QED BY <2>1, <3>1, <3>2, <3>3 DEF Context
  <2>2. CASE ~InOrder
    <3>1. ~InOrder' /\ acm' = acm /\ op' = op BY <1>5, <2>2, HostStands
    <3>2. op.stage \notin Exchanging BY <2>2 DEF Progress, InOrder
    <3> QED BY <1>12, <1>13, <2>2, <3>1, <3>2 DEF Context, BrokenIsReported
  <2> QED BY <2>1, <2>2
<1>15. CreationUnderWay' => CreationUnderWay
  <2>1. (Going' <=> Going) /\ usb' = usb BY <1>5, HostStands
  <2> QED BY <1>2, <1>4, <2>1 DEF CreationUnderWay
<1>16. BrokenIsReported'
  <2>1. op' = op /\ acm' = acm BY <1>5
  <2>2. op.closing /\ op.stage = "ready" /\ ~op.refused => ~sep'.context
    <3>1. op.stage = "ready" => InOrder BY DEF Progress, InOrder, Exchanging
    <3>2. op.stage # "ready" BY <3>1, <1>8 DEF Awaiting
    <3> QED BY <3>2
  <2>3. "destroy" \notin Exchanging /\ "close" \notin Exchanging
        /\ \A t \in Torn : t \notin Exchanging
        BY DEF Exchanging, Torn
  <2> QED BY <1>12, <1>13, <1>15, <2>1, <2>2, <2>3 DEF BrokenIsReported
<1> QED BY <1>5, <1>6, <1>9, <1>14, <1>16, HostStands

LEMMA SepNotifiesInv == ASSUME SepInv, SepNotifies PROVE SepInv'
<1> USE DEF SepInv
<1>0. sep.outbox \in Seq(Messages) BY DEF TypeOK
<1>1. UNCHANGED <<op, session, acm, urb, usb, memory, matched>> BY DEF SepNotifies
<1>2. sep'.inbox = sep.inbox /\ sep'.outbox = Append(sep.outbox, Notification) /\ sep'.context = sep.context
      BY DEF SepNotifies, TypeOK
<1>3. /\ Len(sep'.outbox) = Len(sep.outbox) + 1 /\ sep'.outbox[Len(sep.outbox) + 1] = Notification
      /\ \A i \in 1..Len(sep.outbox) : sep'.outbox[i] = sep.outbox[i]
      /\ Len(sep.outbox) \in Nat /\ ~IsReply(Notification)
      BY <1>0, <1>2 DEF IsReply, Notification
<1>4. TypeOK'
  <2>1. Append(sep.outbox, Notification) \in Seq(Messages) BY <1>0 DEF Messages
  <2>2. sep.sent + 1 \in Nat /\ sep \in [inbox : Seq(Requests), outbox : Seq(Messages),
                                        context : BOOLEAN, sent : Nat]
        BY DEF TypeOK
  <2>3. sep' = [sep EXCEPT !.sent = sep.sent + 1, !.outbox = Append(sep.outbox, Notification)]
        BY DEF SepNotifies
  <2>4. sep' \in [inbox : Seq(Requests), outbox : Seq(Messages), context : BOOLEAN, sent : Nat]
        BY <2>1, <2>2, <2>3, Zenon
  <2> QED BY <1>1, <2>4 DEF TypeOK
<1>5. \A i \in 1..Len(sep'.outbox) : IsReply(sep'.outbox[i]) => i \in 1..Len(sep.outbox)
      BY <1>3
<1>6. (Coming' <=> Coming) /\ (Queued' <=> Queued)
      BY <1>2, <1>3, <1>5 DEF Coming, Queued, IsReply
<1>7. CarriedOut' <=> CarriedOut
  <2>1. (Landed' <=> Landed) /\ usb' = usb BY <1>1, HostStands
  <2>2. ASSUME NEW i \in 1..Len(sep.outbox), Done(sep.outbox[i]) PROVE CarriedOut'
    <3>1. i \in 1..Len(sep'.outbox) /\ sep'.outbox[i] = sep.outbox[i] BY <1>3
    <3> QED BY <2>2, <3>1 DEF CarriedOut, Done, IsReply
  <2>3. ASSUME NEW i \in 1..Len(sep'.outbox), Done(sep'.outbox[i]) PROVE CarriedOut
    <3>1. i \in 1..Len(sep.outbox) BY <1>5, <2>3 DEF Done
    <3> QED BY <1>3, <2>3, <3>1 DEF CarriedOut
  <2> QED BY <2>1, <2>2, <2>3 DEF CarriedOut, Done, IsReply
<1>8. OneExchange'
  <2> SUFFICES ASSUME InOrder PROVE OneExchange' BY <1>1, HostStands DEF OneExchange
  <2>1. ASSUME NEW i \in 1..Len(sep'.outbox), IsReply(sep'.outbox[i])
        PROVE  Answers(sep.outbox[i])'
        BY <1>1, <1>3, <1>5, <2>1, HostStands, Zenon DEF OneExchange, Answers
  <2>2. ASSUME NEW i \in 1..Len(sep'.outbox), NEW j \in 1..Len(sep'.outbox),
               IsReply(sep'.outbox[i]), IsReply(sep'.outbox[j])
        PROVE  i = j
        BY <1>3, <1>5, <2>2 DEF OneExchange
  <2>3. Landed' => Answers(usb.msg)' BY <1>1, HostStands DEF OneExchange, Answers
  <2> QED BY <1>1, <1>2, <1>6, <2>1, <2>2, <2>3, HostStands DEF OneExchange, IsReply
<1>9. Context' BY <1>1, <1>2, <1>7, HostStands DEF Context
<1>10. BrokenIsReported'
  <2>1. CreationUnderWay' <=> CreationUnderWay BY <1>1, <1>2, HostStands DEF CreationUnderWay
  <2> QED BY <1>1, <1>2, <2>1 DEF BrokenIsReported
<1> QED BY <1>1, <1>4, <1>8, <1>9, <1>10, HostStands

-----------------------------------------------------------------------------
(* Steps of the operation *)

\* Nothing is under way.
Silent == ~Going /\ ~Queued /\ ~Coming /\ ~Landed

LEMMA SilentFacts ==
  ASSUME Silent
  PROVE  ~CreationUnderWay /\ ~CarriedOut
         /\ \A i \in 1..Len(sep.outbox) : ~IsReply(sep.outbox[i])
<1>1. sep.inbox = <<>> BY DEF Silent, Queued
<1>2. ~CreationUnderWay BY <1>1 DEF Silent, CreationUnderWay
<1>3. \A i \in 1..Len(sep.outbox) : ~IsReply(sep.outbox[i]) BY DEF Silent, Coming
<1> QED BY <1>2, <1>3 DEF Silent, CarriedOut, Done

\* Without a reply to await, a usable session has nothing under way.
LEMMA NotAwaiting ==
  ASSUME OneExchange, InOrder, ~Awaiting PROVE Silent
BY DEF OneExchange, Silent

LEMMA SameFlight ==
  ASSUME UNCHANGED <<usb, urb, sep>>
  PROVE  (Going' <=> Going) /\ (Queued' <=> Queued) /\ (Coming' <=> Coming) /\ (Landed' <=> Landed)
         /\ (CreationUnderWay' <=> CreationUnderWay) /\ (CarriedOut' <=> CarriedOut)
BY DEF Going, Queued, Coming, Landed, CreationUnderWay, CarriedOut, Done, IsReply

\* A step after which no reply is awaited and nothing is under way.
LEMMA SettledInv ==
  ASSUME SepInv, TypeOK', Progress', UrbsTracked', matched'[1] = matched'[2], Silent',
         op'.stage \in Exchanging \cup {"close", "destroy"}, ~Awaiting',
         acm'.phase # "failed", acm'.pending = FALSE,
         sep'.context => acm'.phase = "active",
         op'.closing /\ op'.stage = "ready" /\ ~op'.refused => ~sep'.context,
         op'.stage = "destroy" /\ sep'.context => ~op'.clean
  PROVE  SepInv'
<1>1. /\ ~CreationUnderWay' /\ ~CarriedOut'
      /\ \A i \in 1..Len(sep'.outbox) : ~IsReply(sep'.outbox[i])
  <2>1. (~CreationUnderWay /\ ~CarriedOut
         /\ \A i \in 1..Len(sep.outbox) : ~IsReply(sep.outbox[i]))'
        BY SilentFacts, PTL
  <2> QED BY <2>1 DEF IsReply
<1>2. OneExchange' BY <1>1 DEF OneExchange, Silent, IsReply
<1>3. Context' BY <1>1 DEF Context
<1>4. BrokenIsReported' BY <1>1 DEF BrokenIsReported, Exchanging, Torn
<1> QED BY <1>2, <1>3, <1>4 DEF SepInv

\* The session breaks: whatever is under way stays, and the command fails.
LEMMA BrokenInv ==
  ASSUME SepInv, TypeOK', UrbsTracked', matched'[1] = matched'[2],
         op.stage \in Exchanging, session'.phase = "poisoned", Failed("error"), sep' = sep,
         acm'.phase \in {acm.phase, "failed"}, Awaiting /\ acm.pending => acm'.phase = "failed",
         Going' => Going, usb'.req = usb.req
  PROVE  SepInv'
<1> USE DEF SepInv
<1>0. /\ op \in Operations /\ InOrder
      /\ op'.closing = op.closing /\ op'.busy = FALSE /\ op'.stage = IF op.closing THEN "destroy" ELSE "close"
      /\ op'.clean = (op.clean /\ ~op.closing) /\ op'.result = IF op.closing THEN op.result ELSE "error"
      BY DEF TypeOK, Operations, Failed, Progress, InOrder
<1>1. ~InOrder' BY DEF InOrder, Live
<1>2. Progress' BY <1>0 DEF Progress, Exchanging
<1>3. OneExchange' BY <1>1 DEF OneExchange
<1>4. sep.context => acm'.phase \in {"active", "failed"}
  <2>1. CASE acm.phase = "active" BY <2>1
  <2>2. CASE Awaiting /\ Command = "create" BY <1>0, <2>2, Endpoints DEF Context
  <2> QED BY <1>0, <2>1, <2>2 DEF Context
<1>5. Context' BY <1>1, <1>4 DEF Context
<1>6. CreationUnderWay' => /\ CreationUnderWay /\ Awaiting /\ Command = "create" /\ ~op.closing
                           /\ acm'.phase = "failed"
  <2> SUFFICES ASSUME CreationUnderWay'
               PROVE  /\ CreationUnderWay /\ Awaiting /\ Command = "create" /\ ~op.closing
                      /\ acm'.phase = "failed"
      OBVIOUS
  <2>1. CreationUnderWay BY DEF CreationUnderWay
  <2>2. Awaiting /\ Command = "create"
    <3>1. CASE Going /\ usb.req.command = "create" BY <1>0, <3>1 DEF OneExchange, Request
    <3>2. CASE \E i \in 1..Len(sep.inbox) : sep.inbox[i].command = "create"
      <4>1. Queued BY <3>2 DEF Queued
      <4>2. Awaiting /\ sep.inbox = <<Request>> BY <1>0, <4>1 DEF OneExchange
      <4>3. sep.inbox[1].command = "create" BY <3>2, <4>2
      <4> QED BY <4>2, <4>3 DEF Request
    <3> QED BY <2>1, <3>1, <3>2 DEF CreationUnderWay
  <2>3. acm.pending BY <1>0, <2>2, Endpoints DEF Context
  <2>4. ~op.closing BY <2>2 DEF Command
  <2> QED BY <2>1, <2>2, <2>3, <2>4
<1>7. BrokenIsReported'
  <2>1. CASE op.closing BY <1>0, <1>6, <2>1, Zenon DEF BrokenIsReported, Exchanging, Torn
  <2>2. CASE ~op.closing BY <1>0, <1>6, <2>2 DEF BrokenIsReported, Exchanging, Torn
  <2> QED BY <2>1, <2>2
<1> QED BY <1>2, <1>3, <1>5, <1>7

LEMMA PoisonFacts ==
  ASSUME SepInv, Poison
  PROVE  /\ session'.phase = "poisoned" /\ Failed("error")
         /\ acm'.phase \in {acm.phase, "failed"} /\ (Awaiting /\ acm.pending => acm'.phase = "failed")
         /\ session' \in [phase : {"new", "ready", "poisoned", "closed"}, skipped : 0..(SkipLimit - 1)]
         /\ acm' \in [phase : {"new", "ready", "active", "failed"}, pending : BOOLEAN]
         /\ op' \in Operations
<1>1. /\ session \in [phase : {"new", "ready", "poisoned", "closed"}, skipped : 0..(SkipLimit - 1)]
      /\ acm \in [phase : {"new", "ready", "active", "failed"}, pending : BOOLEAN]
      /\ op \in Operations
      BY DEF SepInv, TypeOK
<1>2. op' \in Operations BY <1>1, ZenonT(60) DEF Poison, Failed, Operations, Stages, Results
<1> QED BY <1>1, <1>2 DEF Poison, Ambiguous, Awaiting

LEMMA FailedType ==
  ASSUME SepInv, NEW r \in Results, Failed(r)
  PROVE  /\ op' \in Operations
         /\ op'.closing = op.closing /\ op'.busy = FALSE
         /\ op'.stage = IF op.closing THEN "destroy" ELSE "close"
         /\ op'.clean = (op.clean /\ ~op.closing)
BY ZenonT(60) DEF SepInv, TypeOK, Failed, Operations, Stages

LEMMA CancelInv == ASSUME SepInv, Cancel PROVE SepInv'
<1> USE DEF SepInv
<1>0. /\ op \in Operations
      /\ UNCHANGED <<session, acm, urb, usb, memory, sep, matched>>
      /\ op'.kind = op.kind /\ op'.at = op.at /\ op'.stage = op.stage /\ op'.busy = op.busy
      /\ op'.closing = op.closing /\ op'.clean = op.clean /\ op'.refused = op.refused
      /\ op'.result = op.result
      BY DEF TypeOK, Operations, Cancel
<1>1. TypeOK'
  <2>1. op' \in Operations BY <1>0, Zenon DEF Cancel, Operations
  <2> QED BY <1>0, <2>1 DEF TypeOK
<1>2. Command' = Command /\ Id' = Id BY <1>0 DEF Command, Id
<1>3. Progress' BY <1>0, <1>2 DEF Progress, Live
<1>4. UrbsTracked'
  <2>1. Transfers' = Transfers BY <1>0, <1>2 DEF Transfers
  <2> QED BY <1>0, <2>1 DEF UrbsTracked
<1>5. (InOrder' <=> InOrder) /\ (Awaiting' <=> Awaiting) /\ Request' = Request
      BY <1>0, <1>2 DEF InOrder, Live, Awaiting, Request
<1>6. OneExchange' BY <1>0, <1>2, <1>5, SameFlight DEF OneExchange, Answers
<1>7. Context' BY <1>0, <1>2, <1>5, SameFlight DEF Context
<1>8. BrokenIsReported' BY <1>0, SameFlight DEF BrokenIsReported
<1> QED BY <1>0, <1>1, <1>3, <1>4, <1>6, <1>7, <1>8

LEMMA IssueCancelledInv == ASSUME SepInv, IssueCancelled PROVE SepInv'
<1> USE DEF SepInv
<1>1. PICK r \in Results : Failed(r) BY DEF IssueCancelled, Results
<1>2. /\ op \in Operations /\ op.stage = "issue" /\ ~op.busy /\ ~op.closing /\ InOrder /\ ~Awaiting
      /\ UNCHANGED <<session, acm, urb, usb, memory, sep, matched>>
      BY DEF IssueCancelled, TypeOK, Progress, InOrder, Exchanging, Awaiting
<1>3. TypeOK'
  <2>1. op' \in Operations BY <1>1, FailedType, Zenon
  <2> QED BY <1>2, <2>1 DEF TypeOK
<1>4. op'.stage = "close" /\ ~op'.busy /\ ~op'.closing BY <1>1, <1>2, FailedType, Zenon
<1>5. Progress' BY <1>4 DEF Progress, Exchanging
<1>6. UrbsTracked' BY <1>2, <1>4 DEF UrbsTracked, Torn
<1>7. Silent' BY <1>2, NotAwaiting, SameFlight DEF Silent
<1>8. acm.phase # "failed" /\ acm.pending = FALSE /\ (sep.context => acm.phase = "active")
      BY <1>2 DEF Context, TypeOK
<1> QED BY <1>2, <1>3, <1>4, <1>5, <1>6, <1>7, <1>8, SettledInv, Zenon DEF Awaiting

LEMMA LeaseInv == ASSUME SepInv, Lease PROVE SepInv'
<1> USE DEF SepInv
<1>1. /\ op \in Operations /\ op.stage = "lease" /\ ~op.busy /\ ~op.closing /\ InOrder /\ ~Awaiting
      /\ UNCHANGED <<acm, urb, usb, memory, sep, matched>>
      BY DEF Lease, TypeOK, Progress, InOrder, Exchanging, Awaiting
<1>2. Silent' BY <1>1, NotAwaiting, SameFlight DEF Silent
<1>3. acm.phase # "failed" /\ acm.pending = FALSE /\ (sep.context => acm.phase = "active")
      BY <1>1 DEF Context, TypeOK
<1>4. CASE /\ op' = [op EXCEPT !.stage = IF op.kind = "relay" THEN "drain" ELSE "lend"]
           /\ UNCHANGED session
  <2>1. /\ op'.stage \in {"drain", "lend"} /\ ~op'.busy /\ ~op'.closing /\ op' \in Operations
        BY <1>1, <1>4 DEF Operations, Stages
  <2>2. TypeOK' BY <1>1, <1>4, <2>1 DEF TypeOK
  <2>3. Progress' BY <1>1, <1>4, <2>1 DEF Progress, InOrder, Live
  <2>4. UrbsTracked' BY <1>1, <2>1 DEF UrbsTracked, Torn
  <2> QED BY <1>1, <1>2, <1>3, <2>1, <2>2, <2>3, <2>4, SettledInv, Zenon DEF Awaiting, Exchanging
<1>5. CASE /\ Failed(IF op.cancelled THEN "cancelled" ELSE "timeout")
           /\ session' \in {session, [session EXCEPT !.phase = "poisoned"]}
  <2>0. PICK r \in Results : Failed(r) BY <1>5 DEF Results
  <2>1. op' \in Operations /\ op'.stage = "close" /\ ~op'.busy /\ ~op'.closing
        BY <1>1, <2>0, FailedType, Zenon
  <2>2. session' \in [phase : {"new", "ready", "poisoned", "closed"}, skipped : 0..(SkipLimit - 1)]
        BY <1>5 DEF TypeOK
  <2>3. TypeOK' BY <1>1, <2>1, <2>2 DEF TypeOK
  <2>4. Progress' BY <2>1 DEF Progress, Exchanging
  <2>5. UrbsTracked' BY <1>1, <2>1 DEF UrbsTracked, Torn
  <2> QED BY <1>1, <1>2, <1>3, <2>1, <2>3, <2>4, <2>5, SettledInv, Zenon DEF Awaiting
<1> QED BY <1>4, <1>5 DEF Lease

LEMMA CallbackReturnsInv == ASSUME SepInv, CallbackReturns PROVE SepInv'
<1> USE DEF SepInv
<1>1. /\ op \in Operations /\ op.stage \in {"lend", "drain"} /\ ~op.busy /\ ~op.closing
      /\ InOrder /\ ~Awaiting
      /\ UNCHANGED <<session, acm, urb, usb, memory, sep, matched>>
      BY DEF CallbackReturns, TypeOK, Progress, InOrder, Exchanging, Awaiting
<1>2. Silent' BY <1>1, NotAwaiting, SameFlight DEF Silent
<1>3. acm.phase # "failed" /\ acm.pending = FALSE /\ (sep.context => acm.phase = "active")
      BY <1>1 DEF Context, TypeOK
<1>4. op' \in Operations /\ op'.stage = "close" /\ ~op'.busy /\ ~op'.closing
      BY <1>1, ZenonT(60) DEF CallbackReturns, Operations, Stages, Results
<1>5. TypeOK' BY <1>1, <1>4 DEF TypeOK
<1>6. Progress' BY <1>4 DEF Progress, Exchanging
<1>7. UrbsTracked' BY <1>1, <1>4 DEF UrbsTracked, Torn
<1> QED BY <1>1, <1>2, <1>3, <1>4, <1>5, <1>6, <1>7, SettledInv, Zenon DEF Awaiting

LEMMA CloseContextInv == ASSUME SepInv, CloseContext PROVE SepInv'
<1> USE DEF SepInv
<1>1. /\ op \in Operations /\ op.stage = "close" /\ ~op.busy /\ ~op.closing /\ ~Awaiting
      /\ UNCHANGED <<session, acm, urb, usb, memory, sep, matched>>
      BY DEF CloseContext, TypeOK, Progress, Awaiting
<1>2. PICK run \in BOOLEAN :
        /\ run => acm.phase = "active" /\ session.phase = "ready"
        /\ op' = [op EXCEPT !.closing = run,
                            !.clean = @ /\ (acm.phase = "active" => run),
                            !.stage = IF run THEN "issue" ELSE "destroy"]
      BY Zenon DEF CloseContext
<1>3. /\ op'.closing = run /\ op'.clean = (op.clean /\ (acm.phase = "active" => run))
      /\ op'.stage = (IF run THEN "issue" ELSE "destroy") /\ ~op'.busy /\ op'.result = op.result
      /\ op' \in Operations
      BY <1>1, <1>2, Zenon DEF Operations, Stages
<1>4. TypeOK' BY <1>1, <1>3 DEF TypeOK
<1>5. Progress' BY <1>1, <1>2, <1>3 DEF Progress, Live, Exchanging
<1>6. UrbsTracked' BY <1>1, <1>3 DEF UrbsTracked, Torn
<1>7. CASE InOrder
  <2>1. Silent' BY <1>1, <1>7, NotAwaiting, SameFlight DEF Silent
  <2>2. acm.phase # "failed" /\ acm.pending = FALSE /\ (sep.context => acm.phase = "active")
        BY <1>1, <1>7 DEF Context, TypeOK
  <2> QED BY <1>1, <1>3, <1>4, <1>5, <1>6, <2>1, <2>2, SettledInv, Zenon DEF Awaiting, Exchanging
<1>8. CASE ~InOrder
  <2>1. ~run BY <1>1, <1>2, <1>8 DEF InOrder, Live
  <2>2. ~InOrder' BY <1>3, <2>1 DEF InOrder, Exchanging
  <2>3. OneExchange' BY <2>2 DEF OneExchange
  <2>4. Context' BY <1>1, <1>8, <2>2 DEF Context, Torn
  <2>5. BrokenIsReported' BY <1>1, <1>3, <2>1, SameFlight DEF BrokenIsReported, Exchanging, Torn
  <2> QED BY <1>1, <1>4, <1>5, <1>6, <2>3, <2>4, <2>5
<1> QED BY <1>7, <1>8

-----------------------------------------------------------------------------
(* Submissions *)

UrbTypes == [state : {"ready", "busy", "timed_out", "interrupted", "error", "poisoned", "uninitialized"},
             slot : [Slots -> {"idle", "submitted", "reaped"}]]

UsbTypes == [at : [Slots -> {"none", "pending", "done"}], msg : Messages,
             req : Requests \cup {NoRequest}]

LEMMA SubmitFacts ==
  ASSUME TypeOK, Progress, op.stage \in {"issue", "receive", "ready", "drain"}, Submit
  PROVE  /\ urb' \in UrbTypes /\ usb' \in UsbTypes
         /\ \A s \in Slots : urb'.slot[s] # "submitted" => usb'.at[s] = "none"
         /\ \A s \in Transfers : urb'.slot[s] # "idle"
         /\ ~Landed'
         /\ usb'.req = IF op.stage = "issue" THEN Request ELSE NoRequest
<1>1. op.stage = "issue" => Request \in Requests BY CommandType DEF Request, Requests
<1>2. Transfers \subseteq Slots BY DEF Transfers, Slots
<1>3. /\ usb'.at = [s \in Slots |-> IF s \in Transfers THEN "pending" ELSE "none"]
      /\ usb'.req = (IF op.stage = "issue" THEN Request ELSE NoRequest) /\ usb'.msg = usb.msg
      /\ usb' = [usb EXCEPT !.at = usb'.at, !.req = usb'.req]
      /\ urb' = [state |-> "busy",
                 slot |-> [s \in Slots |-> IF s \in Transfers THEN "submitted" ELSE "idle"]]
      BY DEF Submit, TypeOK
<1>4. usb' \in UsbTypes
  <2>1. usb'.at \in [Slots -> {"none", "pending", "done"}] BY <1>3
  <2>2. usb'.req \in Requests \cup {NoRequest} BY <1>1, <1>3
  <2> DEFINE a == usb'.at
             r == usb'.req
  <2>3. usb' = [usb EXCEPT !.at = a, !.req = r] BY <1>3
  <2> HIDE DEF a, r
  <2> QED BY <2>1, <2>2, <2>3, Zenon DEF TypeOK, UsbTypes, a, r
<1>5. urb' \in UrbTypes BY <1>3 DEF UrbTypes
<1> QED BY <1>2, <1>3, <1>4, <1>5 DEF Landed, Slots

LEMMA RefusedFacts ==
  ASSUME TypeOK, op.stage \in {"issue", "receive", "ready", "drain"}, Refused
  PROVE  /\ urb' \in UrbTypes /\ usb' \in UsbTypes /\ usb'.req = usb.req
         /\ \A s \in Slots : urb'.slot[s] # "submitted" => usb'.at[s] = "none"
         /\ ~Going'
<1>1. PICK left \in SUBSET (Transfers \ {"out"}) :
       /\ urb' = [state |-> IF left = {} THEN "error" ELSE "poisoned",
                  slot |-> [s \in Slots |-> IF s \in left THEN "submitted" ELSE "idle"]]
       /\ usb' = [usb EXCEPT !.at = [s \in Slots |-> IF s \in left THEN "pending" ELSE "none"]]
      BY Zenon DEF Refused
<1>2. usb'.at["out"] = "none" BY <1>1 DEF TypeOK, Slots
<1>3. urb' \in UrbTypes BY <1>1 DEF UrbTypes
<1>4. usb' \in UsbTypes BY <1>1, Zenon DEF UsbTypes, TypeOK
<1> QED BY <1>1, <1>2, <1>3, <1>4 DEF Going, TypeOK

LEMMA IssueInv == ASSUME SepInv, Issue PROVE SepInv'
<1> USE DEF SepInv
<1>1. /\ op \in Operations /\ op.stage = "issue" /\ ~op.busy /\ ~Awaiting /\ InOrder
      /\ op' = [op EXCEPT !.busy = TRUE] /\ UNCHANGED <<memory, sep, matched>> /\ Submit
      /\ session' = [session EXCEPT !.skipped = 0]
      /\ acm'.phase = acm.phase /\ acm'.pending = (Endpoint(Command) = "acm")
      /\ acm' = [acm EXCEPT !.pending = (Endpoint(Command) = "acm")]
      /\ (Endpoint(Command) = "acm" => AcmAdmits(Command))
      BY DEF Issue, TypeOK, Progress, InOrder, Exchanging, Awaiting
<1>2. /\ op'.stage = "issue" /\ op'.busy /\ op'.kind = op.kind /\ op'.at = op.at
      /\ op'.closing = op.closing /\ op' \in Operations /\ session'.phase = session.phase
      BY <1>1, Zenon DEF Operations, TypeOK
<1>3. Command' = Command /\ Id' = Id /\ Request' = Request /\ Transfers' = Transfers
      BY <1>1, <1>2 DEF Command, Id, Request, Transfers
<1>4. Command \in Commands BY <1>1, CommandType
<1>5. /\ urb' \in UrbTypes /\ usb' \in UsbTypes /\ ~Landed' /\ usb'.req = Request
      /\ \A s \in Slots : urb'.slot[s] # "submitted" => usb'.at[s] = "none"
      /\ \A s \in Transfers : urb'.slot[s] # "idle"
      BY <1>1, SubmitFacts
<1>6. TypeOK'
  <2>1. session' \in [phase : {"new", "ready", "poisoned", "closed"}, skipped : 0..(SkipLimit - 1)]
        BY <1>1, SepLinkAssumption DEF TypeOK
  <2>2. acm' \in [phase : {"new", "ready", "active", "failed"}, pending : BOOLEAN]
        BY <1>1, Zenon DEF TypeOK
  <2> QED BY <1>1, <1>2, <1>5, <2>1, <2>2 DEF TypeOK, UrbTypes, UsbTypes
<1>7. Progress' BY <1>1, <1>2, <1>3 DEF Progress, Live, Exchanging
<1>8. UrbsTracked' BY <1>1, <1>2, <1>3, <1>5 DEF UrbsTracked, Torn
<1>9. Silent BY <1>1, NotAwaiting
<1>10. ~Queued' /\ ~Coming' /\ \A i \in 1..Len(sep'.outbox) : ~IsReply(sep'.outbox[i])
       BY <1>1, <1>9, SilentFacts DEF Silent, Queued, Coming, IsReply
<1>11. Awaiting' <=> Command # "enable" BY <1>2, <1>3 DEF Awaiting
<1>12. Going' => Awaiting' BY <1>3, <1>5, <1>11 DEF Going, Request
<1>13. OneExchange' BY <1>3, <1>5, <1>10, <1>12 DEF OneExchange, IsReply
<1>14. /\ acm.phase # "failed" /\ (sep.context => acm.phase = "active")
       BY <1>1 DEF Context
<1>15. InOrder' BY <1>2, <1>7 DEF InOrder, Progress, Exchanging
<1>16. Context'
  <2>1. acm'.pending <=> Awaiting' /\ Endpoint(Command') = "acm" BY <1>1, <1>3, <1>11, Endpoints, Zenon
  <2>2. /\ Command = "initialize" => acm.phase = "new"
        /\ Command = "create" => acm.phase = "ready"
        /\ Command = "delete" => acm.phase = "active"
        BY <1>1, Endpoints DEF AcmAdmits
  <2>3. ~CarriedOut' BY <1>5, <1>10 DEF CarriedOut, Done
  <2> QED BY <1>1, <1>3, <1>14, <1>15, <2>1, <2>2, <2>3 DEF Context
<1>17. BrokenIsReported' BY <1>2 DEF BrokenIsReported, Exchanging, Torn
<1> QED BY <1>1, <1>6, <1>7, <1>8, <1>13, <1>16, <1>17

LEMMA IssueFailsInv == ASSUME SepInv, IssueFails PROVE SepInv'
<1> USE DEF SepInv
<1>1. /\ op.stage = "issue" /\ ~op.busy /\ ~Awaiting /\ session'.phase = "poisoned" /\ Failed("error")
      /\ acm'.phase \in {acm.phase, "failed"} /\ UNCHANGED <<memory, sep, matched>>
      BY DEF IssueFails, TypeOK, Awaiting
<1>2. /\ urb' \in UrbTypes /\ usb' \in UsbTypes /\ usb'.req = usb.req
      /\ \A s \in Slots : urb'.slot[s] # "submitted" => usb'.at[s] = "none"
      /\ (Going' => Going)
  <2>1. CASE UNCHANGED <<urb, usb>> BY <2>1 DEF UrbTypes, UsbTypes, TypeOK, UrbsTracked, Going
  <2>2. CASE Refused BY <1>1, <2>2, RefusedFacts
  <2> QED BY <2>1, <2>2 DEF IssueFails
<1>3. op' \in Operations /\ ~op'.busy /\ op'.stage \in {"close", "destroy"}
      BY <1>1, FailedType, Zenon DEF Results
<1>4. TypeOK'
  <2>1. session' \in [phase : {"new", "ready", "poisoned", "closed"}, skipped : 0..(SkipLimit - 1)]
        BY DEF IssueFails, TypeOK
  <2>2. acm' \in [phase : {"new", "ready", "active", "failed"}, pending : BOOLEAN]
    <3>1. acm' = acm \/ acm' = [phase |-> "failed", pending |-> FALSE] BY DEF IssueFails
    <3>2. acm \in [phase : {"new", "ready", "active", "failed"}, pending : BOOLEAN] BY DEF TypeOK
    <3>3. CASE acm' = acm BY <3>2, <3>3
    <3>4. CASE acm' = [phase |-> "failed", pending |-> FALSE] BY <3>4
    <3> QED BY <3>1, <3>3, <3>4
  <2> QED BY <1>1, <1>2, <1>3, <2>1, <2>2 DEF TypeOK, UrbTypes, UsbTypes
<1>5. UrbsTracked' BY <1>1, <1>2, <1>3 DEF UrbsTracked, Torn
<1> QED BY <1>1, <1>2, <1>4, <1>5, BrokenInv DEF Exchanging

LEMMA TransferRefusedInv == ASSUME SepInv, TransferRefused PROVE SepInv'
<1> USE DEF SepInv
<1>1. /\ op.stage \in {"receive", "ready", "drain"} /\ Poison /\ Refused
      /\ UNCHANGED <<memory, sep, matched>>
      BY DEF TransferRefused
<1>2. /\ urb' \in UrbTypes /\ usb' \in UsbTypes /\ usb'.req = usb.req
      /\ \A s \in Slots : urb'.slot[s] # "submitted" => usb'.at[s] = "none"
      /\ ~Going'
      BY <1>1, RefusedFacts
<1>3. op' \in Operations /\ ~op'.busy /\ op'.stage \in {"close", "destroy"}
      BY <1>1, FailedType, PoisonFacts, Zenon DEF Results
<1>4. TypeOK' BY <1>1, <1>2, PoisonFacts DEF TypeOK, UrbTypes, UsbTypes
<1>5. UrbsTracked' BY <1>1, <1>2, <1>3 DEF UrbsTracked, Torn
<1> QED BY <1>1, <1>2, <1>4, <1>5, BrokenInv, PoisonFacts DEF Exchanging

LEMMA TransferInv == ASSUME SepInv, Transfer PROVE SepInv'
<1> USE DEF SepInv
<1>1. /\ op \in Operations /\ op.stage \in {"receive", "ready", "drain"} /\ ~op.busy /\ InOrder
      /\ op' = [op EXCEPT !.busy = TRUE] /\ UNCHANGED <<session, acm, memory, sep, matched>> /\ Submit
      BY DEF Transfer, TypeOK, Progress, InOrder, Exchanging
<1>2. /\ op'.stage = op.stage /\ op'.busy /\ op'.kind = op.kind /\ op'.at = op.at
      /\ op'.closing = op.closing /\ op'.refused = op.refused /\ op' \in Operations
      BY <1>1, Zenon DEF Operations
<1>3. Command' = Command /\ Id' = Id /\ Request' = Request /\ Transfers' = Transfers
      /\ (InOrder' <=> InOrder) /\ (Awaiting' <=> Awaiting)
      BY <1>1, <1>2 DEF Command, Id, Request, Transfers, InOrder, Live, Awaiting
<1>4. /\ urb' \in UrbTypes /\ usb' \in UsbTypes /\ ~Landed' /\ usb'.req = NoRequest
      /\ \A s \in Slots : urb'.slot[s] # "submitted" => usb'.at[s] = "none"
      /\ \A s \in Transfers : urb'.slot[s] # "idle"
      BY <1>1, SubmitFacts
<1>5. TypeOK' BY <1>1, <1>2, <1>4 DEF TypeOK, UrbTypes, UsbTypes
<1>6. Progress' BY <1>1, <1>2, <1>3 DEF Progress, Live, Exchanging
<1>7. UrbsTracked' BY <1>1, <1>2, <1>3, <1>4 DEF UrbsTracked, Torn
<1>8. ~Going' BY <1>4 DEF Going, NoRequest
<1>9. (Queued' <=> Queued) /\ (Coming' <=> Coming) BY <1>1 DEF Queued, Coming, IsReply
<1>10. ~Landed
  <2>1. CASE op.stage = "receive"
    <3>1. urb.slot["in"] # "submitted" /\ urb.slot["in"] # "reaped"
          BY <1>1, <2>1 DEF Submit, Usable, Active, UrbsTracked, Slots
    <3> QED BY <3>1 DEF Landed, UrbsTracked, Slots
  <2>2. CASE op.stage # "receive" BY <1>1, <2>2 DEF OneExchange, Awaiting
  <2> QED BY <2>1, <2>2
<1>11. OneExchange' BY <1>1, <1>3, <1>4, <1>8, <1>9 DEF OneExchange, IsReply, Answers
<1>12. CarriedOut' <=> CarriedOut BY <1>1, <1>4, <1>10 DEF CarriedOut, Done, IsReply
<1>13. Context' BY <1>1, <1>3, <1>12 DEF Context
<1>14. BrokenIsReported' BY <1>1, <1>2 DEF BrokenIsReported, Exchanging, Torn
<1> QED BY <1>1, <1>5, <1>6, <1>7, <1>11, <1>13, <1>14

LEMMA ReapInv == ASSUME SepInv, NEW t \in Slots, Reap(t) PROVE SepInv'
<1> USE DEF SepInv
<1>1. /\ op.busy /\ urb.slot[t] = "submitted" /\ usb.at[t] = "done"
      /\ urb' = [urb EXCEPT !.slot[t] = "reaped"] /\ usb' = [usb EXCEPT !.at[t] = "none"]
      /\ UNCHANGED <<op, session, acm, memory, sep, matched>>
      /\ urb.slot \in [Slots -> {"idle", "submitted", "reaped"}]
      /\ usb.at \in [Slots -> {"none", "pending", "done"}]
      BY DEF Reap, TypeOK
<1>2. /\ urb'.slot = [urb.slot EXCEPT ![t] = "reaped"] /\ usb'.at = [usb.at EXCEPT ![t] = "none"]
      /\ usb'.msg = usb.msg /\ usb'.req = usb.req
      BY <1>1 DEF TypeOK
<1>3. TypeOK'
  <2>1. urb' \in UrbTypes BY <1>1, Zenon DEF UrbTypes, TypeOK
  <2>2. usb' \in UsbTypes BY <1>1, SMTT(60) DEF UsbTypes, TypeOK
  <2> QED BY <1>1, <2>1, <2>2, Zenon DEF TypeOK, UrbTypes, UsbTypes
<1>4. Command' = Command /\ Id' = Id /\ Request' = Request /\ Transfers' = Transfers
      /\ (InOrder' <=> InOrder) /\ (Awaiting' <=> Awaiting)
      BY <1>1 DEF Command, Id, Request, Transfers, InOrder, Live, Awaiting
<1>5. Progress' BY <1>1, <1>4 DEF Progress, Live
<1>6. UrbsTracked'
  <2>1. Transfers \subseteq Slots BY <1>1 DEF Transfers, Slots, Progress
  <2>2. \A s \in Slots : urb'.slot[s] # "submitted" => usb'.at[s] = "none"
        BY <1>1, <1>2 DEF UrbsTracked
  <2>3. \A s \in Slots : urb.slot[s] # "idle" => urb'.slot[s] # "idle" BY <1>1, <1>2
  <2>4. memory # "freed" /\ op.stage \notin {"abandon", "ended"} BY <1>1 DEF UrbsTracked
  <2> QED BY <1>1, <1>4, <2>1, <2>2, <2>3, <2>4 DEF UrbsTracked
<1>7. (Going' <=> Going) /\ (Landed' <=> Landed) /\ (Queued' <=> Queued) /\ (Coming' <=> Coming)
  <2>1. CASE t = "in" BY <1>1, <1>2, <2>1 DEF Going, Landed, Queued, Coming, IsReply, Slots
  <2>2. CASE t = "out" BY <1>1, <1>2, <2>2 DEF Going, Landed, Queued, Coming, IsReply, Slots
  <2> QED BY <2>1, <2>2 DEF Slots
<1>8. CarriedOut' <=> CarriedOut BY <1>1, <1>2, <1>7 DEF CarriedOut, Done, IsReply
<1>9. CreationUnderWay' <=> CreationUnderWay BY <1>1, <1>2, <1>7 DEF CreationUnderWay
<1>10. OneExchange' BY <1>1, <1>2, <1>4, <1>7 DEF OneExchange, IsReply, Answers
<1>11. Context' BY <1>1, <1>4, <1>8 DEF Context
<1>12. BrokenIsReported' BY <1>1, <1>9 DEF BrokenIsReported
<1> QED BY <1>1, <1>3, <1>5, <1>6, <1>10, <1>11, <1>12

-----------------------------------------------------------------------------
(* Cleanups *)

LEMMA CleanupFacts ==
  ASSUME TypeOK, UrbsTracked, NEW left \in SUBSET Active,
         NEW state \in {"timed_out", "interrupted", "error", "uninitialized"}, Cleanup(left, state)
  PROVE  /\ urb' \in UrbTypes /\ usb' \in UsbTypes /\ usb'.req = usb.req /\ usb'.msg = usb.msg
         /\ \A s \in Slots : urb'.slot[s] # "submitted" => usb'.at[s] = "none"
         /\ \A s \in Slots : usb'.at[s] \in {"none", usb.at[s]}
         /\ left = {} => \A s \in Slots : usb'.at[s] = "none" /\ urb'.slot[s] = "idle"
         /\ (Going' => Going)
<1>1. /\ usb'.at = [s \in Slots |-> IF s \in Active \ left THEN "none" ELSE usb.at[s]]
      /\ usb'.req = usb.req /\ usb'.msg = usb.msg
      BY DEF Cleanup, TypeOK
<1>2. \A s \in Slots : s \in Active <=> urb.slot[s] = "submitted" BY DEF Active
<1>3. usb' \in UsbTypes BY <1>1, Zenon DEF Cleanup, UsbTypes, TypeOK
<1>4. urb' \in UrbTypes BY DEF Cleanup, UrbTypes, TypeOK
<1>5. \A s \in Slots : usb'.at[s] \in {"none", usb.at[s]} BY <1>1
<1>6. Going' => Going BY <1>1, <1>5 DEF Going, Slots
<1>7. CASE left = {}
  <2>1. \A s \in Slots : usb'.at[s] = "none" BY <1>1, <1>2, <1>7 DEF UrbsTracked
  <2>2. \A s \in Slots : urb'.slot[s] = "idle" BY <1>7 DEF Cleanup
  <2> QED BY <1>1, <1>3, <1>4, <1>5, <1>6, <2>1, <2>2
<1>8. CASE left # {}
  <2>1. urb'.slot = [s \in Slots |-> IF s \in left THEN "submitted"
                              ELSE IF s \in Active THEN "reaped" ELSE urb.slot[s]]
        BY <1>8 DEF Cleanup
  <2>2. \A s \in Slots : urb'.slot[s] # "submitted" => usb'.at[s] = "none"
        BY <1>1, <1>2, <2>1 DEF UrbsTracked
  <2> QED BY <1>1, <1>3, <1>4, <1>5, <1>6, <1>8, <2>2
<1> QED BY <1>7, <1>8

LEMMA TransferFailsInv == ASSUME SepInv, TransferFails PROVE SepInv'
<1> USE DEF SepInv
<1>1. PICK left \in SUBSET Active, state \in {"timed_out", "interrupted", "error"} :
       /\ Cleanup(left, state)
       /\ IF op.stage = "drain" /\ left = {} /\ state # "error"
          THEN op' = [op EXCEPT !.busy = FALSE] /\ UNCHANGED <<session, acm>>
          ELSE Poison
      BY DEF TransferFails
<1>2. /\ op \in Operations /\ op.stage \in {"issue", "receive", "ready", "drain"} /\ op.busy /\ InOrder
      /\ UNCHANGED <<memory, sep, matched>>
      BY DEF TransferFails, TypeOK, Progress, InOrder, Exchanging
<1>3. /\ urb' \in UrbTypes /\ usb' \in UsbTypes /\ usb'.req = usb.req /\ usb'.msg = usb.msg
      /\ \A s \in Slots : urb'.slot[s] # "submitted" => usb'.at[s] = "none"
      /\ left = {} => \A s \in Slots : usb'.at[s] = "none" /\ urb'.slot[s] = "idle"
      /\ (Going' => Going)
      BY <1>1, CleanupFacts
<1>4. CASE Poison
  <2>1. op' \in Operations /\ ~op'.busy /\ op'.stage \in {"close", "destroy"}
        BY <1>4, FailedType, PoisonFacts, Zenon DEF Results
  <2>2. TypeOK' BY <1>2, <1>3, <1>4, PoisonFacts DEF TypeOK, UrbTypes, UsbTypes
  <2>3. UrbsTracked' BY <1>2, <1>3, <2>1 DEF UrbsTracked, Torn
  <2> QED BY <1>2, <1>3, <1>4, <2>2, <2>3, BrokenInv, PoisonFacts DEF Exchanging
<1>5. CASE /\ op.stage = "drain" /\ left = {}
           /\ op' = [op EXCEPT !.busy = FALSE] /\ UNCHANGED <<session, acm>>
  <2>1. op' \in Operations /\ ~op'.busy /\ op'.stage = "drain" /\ op'.closing = op.closing /\ ~op.closing
        BY <1>2, <1>5, Zenon DEF Operations, Progress
  <2>2. TypeOK' BY <1>2, <1>3, <1>5, <2>1 DEF TypeOK, UrbTypes, UsbTypes
  <2>3. UrbsTracked' BY <1>2, <1>3, <2>1 DEF UrbsTracked, Torn
  <2>4. Progress' BY <1>2, <1>5, <2>1 DEF Progress, InOrder, Live
  <2>5. ~Awaiting /\ ~Awaiting' BY <1>5, <2>1 DEF Awaiting
  <2>6. Silent'
    <3>1. Silent BY <1>2, <2>5, NotAwaiting
    <3>2. ~Landed' BY <1>3, <1>5 DEF Landed, Slots
    <3> QED BY <1>2, <1>3, <3>1, <3>2 DEF Silent, Queued, Coming, IsReply
  <2>7. acm.phase # "failed" /\ acm.pending = FALSE /\ (sep.context => acm.phase = "active")
        BY <1>2, <2>5 DEF Context, TypeOK
  <2> QED BY <1>2, <1>5, <2>1, <2>2, <2>3, <2>4, <2>5, <2>6, <2>7, SettledInv, Zenon DEF Exchanging
<1> QED BY <1>1, <1>4, <1>5

-----------------------------------------------------------------------------
(* Completed transfers *)

LEMMA CompletedFacts ==
  ASSUME SepInv, Completed, op.stage \in {"issue", "receive", "ready", "drain"}
  PROVE  /\ urb' \in UrbTypes /\ UNCHANGED <<usb, memory, sep>> /\ op.busy /\ InOrder
         /\ \A s \in Slots : usb.at[s] = "none" /\ urb'.slot[s] = "idle"
         /\ ~Going /\ ~Going' /\ ~Landed'
         /\ (Queued' <=> Queued) /\ (Coming' <=> Coming)
         /\ (CreationUnderWay' <=> CreationUnderWay)
         /\ Received => urb.slot["in"] = "reaped" /\ Awaiting
<1>1. /\ urb' \in UrbTypes /\ UNCHANGED <<usb, memory, sep>> /\ op.busy
      /\ \A s \in Slots : urb'.slot[s] = "idle"
      BY DEF Completed, UrbTypes
<1>2. InOrder BY DEF SepInv, Progress, InOrder, Exchanging
<1>3. \A s \in Slots : urb.slot[s] # "submitted" BY DEF Completed, Active
<1>4. \A s \in Slots : usb.at[s] = "none" BY <1>3 DEF SepInv, UrbsTracked
<1>5. ~Going /\ ~Going' BY <1>1, <1>4 DEF Going, Slots
<1>6. ~Landed' BY <1>1, <1>4 DEF Landed, Slots
<1>7. (Queued' <=> Queued) /\ (Coming' <=> Coming) BY <1>1 DEF Queued, Coming, IsReply
<1>8. CreationUnderWay' <=> CreationUnderWay BY <1>1, <1>5 DEF CreationUnderWay
<1>9. Received => urb.slot["in"] = "reaped" /\ Awaiting
  <2> HAVE Received
  <2>1. "in" \in Transfers BY DEF Received, Transfers, Slots
  <2>2. urb.slot["in"] # "idle" BY <1>1, <2>1 DEF SepInv, UrbsTracked
  <2> QED BY <1>1, <1>3, <2>2 DEF SepInv, TypeOK, Slots, Received, Awaiting
<1> QED BY <1>1, <1>2, <1>4, <1>5, <1>6, <1>7, <1>8, <1>9

\* A completed step that keeps or fails the operation is tracked.
LEMMA CompletedUrbs ==
  ASSUME SepInv, Completed, op.stage \in {"issue", "receive", "ready", "drain"}, ~op'.busy
  PROVE  UrbsTracked'
BY CompletedFacts DEF SepInv, UrbsTracked, Torn, Slots

LEMMA CompletedPoison ==
  ASSUME SepInv, Completed, op.stage \in {"issue", "receive", "ready", "drain"}, Poison,
         matched' \in Nat \X Nat, matched'[1] = matched'[2]
  PROVE  SepInv'
<1>1. op' \in Operations /\ ~op'.busy BY FailedType, PoisonFacts, Zenon DEF Results
<1>2. UrbsTracked' BY <1>1, CompletedUrbs
<1>3. TypeOK'
  <2>1. UNCHANGED <<usb, memory, sep>> /\ urb' \in UrbTypes BY CompletedFacts
  <2> QED BY <2>1, PoisonFacts DEF SepInv, TypeOK, UrbTypes
<1>4. UNCHANGED <<usb, sep>> /\ ~Going' BY CompletedFacts
<1> QED BY <1>2, <1>3, <1>4, BrokenInv, PoisonFacts DEF Exchanging

\* The reply taken is the one to the request made.
LEMMA ReplyFacts ==
  ASSUME SepInv, Completed, Received, Matches(usb.msg)
  PROVE  /\ Landed /\ Answers(usb.msg) /\ Silent' /\ Awaiting /\ InOrder /\ Command # "enable"
         /\ usb.msg.id = Id /\ Id \in Nat /\ <<Id, usb.msg.id>> \in Nat \X Nat
         /\ \A i \in 1..Len(sep.outbox) : ~IsReply(sep.outbox[i])
         /\ usb.msg.status \in {"ok", "remote", "bad"}
<1>1. op.stage \in {"issue", "receive"} BY DEF Received
<1>2. Command \in Commands /\ Id \in Nat BY <1>1, CommandType DEF SepInv
<1>3. IsReply(usb.msg)
  <2>1. usb.msg \in Messages BY DEF SepInv, TypeOK
  <2>2. CASE usb.msg = Notification
    <3>1. usb.msg.endpoint = "keystore" /\ usb.msg.command = "notification" BY <2>2 DEF Notification
    <3> QED BY <1>2, <3>1, Endpoints DEF Matches
  <2>3. CASE usb.msg # Notification
    <3>1. usb.msg.command \in Commands BY <2>1, <2>3 DEF Messages
    <3> QED BY <3>1, Endpoints DEF IsReply
  <2> QED BY <2>2, <2>3
<1>4. Landed /\ InOrder /\ Awaiting /\ ~Going' /\ ~Landed' /\ (Queued' <=> Queued) /\ (Coming' <=> Coming)
      BY <1>1, <1>3, CompletedFacts DEF Landed
<1>5. Answers(usb.msg) /\ ~Queued /\ ~Coming BY <1>4 DEF SepInv, OneExchange
<1>6. Silent' BY <1>4, <1>5 DEF Silent
<1>7. usb.msg.status \in {"ok", "remote", "bad"} BY DEF SepInv, TypeOK, Messages, Notification
<1>8. Command # "enable" BY DEF Received, SepInv, Progress
<1> QED BY <1>2, <1>4, <1>5, <1>6, <1>7, <1>8 DEF Answers, Coming

\* The next command, the lease, or the end of the deletion.
LEMMA AdvanceFacts ==
  ASSUME SepInv, Advance, op.stage \in {"issue", "receive", "ready"}
  PROVE  /\ op' \in Operations /\ ~op'.busy /\ op'.closing = op.closing /\ op'.clean = op.clean
         /\ op'.refused = op.refused /\ ~Awaiting'
         /\ op.closing => op'.stage = "destroy"
         /\ ~op.closing => op'.stage \in {"issue", "lease"}
         /\ op'.stage = "issue" => op'.at \in 1..Len(Script(op'.kind))
<1>1. op \in Operations /\ op.at \in Nat /\ Len(Script(op.kind)) \in Nat
      BY ScriptType DEF SepInv, TypeOK, Operations
<1>2. /\ op'.kind = op.kind /\ op'.at = (IF op.closing THEN op.at ELSE op.at + 1) /\ ~op'.busy
      /\ op'.stage = IF op.closing THEN "destroy"
                     ELSE IF op.at = Len(Script(op.kind)) THEN "lease" ELSE "issue"
      /\ op'.closing = op.closing /\ op'.clean = op.clean /\ op'.refused = op.refused
      BY <1>1 DEF Advance, Operations
<1>3. op' \in Operations
  <2> DEFINE a == op'.at
             g == op'.stage
  <2>1. a \in Nat \ {0} BY <1>1, <1>2 DEF Operations
  <2>2. g \in Stages BY <1>2 DEF Stages
  <2>3. op' = [op EXCEPT !.busy = FALSE, !.at = a, !.stage = g] BY <1>1, <1>2 DEF Advance
  <2> HIDE DEF a, g
  <2> QED BY <1>1, <2>1, <2>2, <2>3, Zenon DEF Operations
<1>4. op'.stage = "issue" => op'.at \in 1..Len(Script(op'.kind))
  <2> HAVE op'.stage = "issue"
  <2>1. ~op.closing /\ op.at # Len(Script(op.kind)) BY <1>2
  <2>2. op.at \in 1..Len(Script(op.kind)) BY <2>1 DEF SepInv, Progress
  <2> QED BY <1>1, <1>2, <2>1, <2>2
<1> QED BY <1>2, <1>3, <1>4 DEF Awaiting

\* A step that takes the operation on with the session as it was, and the
\* credential manager's state settled.
LEMMA SettledStep ==
  ASSUME SepInv, Completed, op.stage \in {"issue", "receive", "ready", "drain"}, Silent', ~op'.busy,
         op' \in Operations, op'.stage \in Exchanging \cup {"close", "destroy"}, ~Awaiting',
         op'.closing = op.closing, op.closing => op'.stage \in {"ready", "destroy"},
         op'.stage \in {"issue", "ready"} /\ ~op'.closing => op'.at \in 1..Len(Script(op'.kind)),
         session' \in [phase : {"new", "ready"}, skipped : 0..(SkipLimit - 1)],
         acm' \in [phase : {"new", "ready", "active"}, pending : {FALSE}],
         sep.context => acm'.phase = "active",
         op'.closing /\ op'.stage = "ready" /\ ~op'.refused => ~sep.context,
         op'.stage = "destroy" /\ sep.context => ~op'.clean,
         matched' \in Nat \X Nat, matched'[1] = matched'[2]
  PROVE  SepInv'
<1>1. UNCHANGED <<usb, memory, sep>> /\ urb' \in UrbTypes BY CompletedFacts
<1>2. acm'.phase # "failed" /\ acm'.pending = FALSE
      /\ acm' \in [phase : {"new", "ready", "active", "failed"}, pending : BOOLEAN]
      BY Zenon
<1>3. TypeOK' BY <1>1, <1>2 DEF SepInv, TypeOK, UrbTypes
<1>4. Progress'
  <2>1. op'.stage # "receive" BY DEF Awaiting
  <2>2. Live' BY DEF Live
  <2> QED BY <2>1, <2>2 DEF Progress
<1>5. UrbsTracked' BY CompletedUrbs
<1> QED BY <1>1, <1>2, <1>3, <1>4, <1>5, SettledInv

\* What a usable session says of the two small states.
LEMMA UsableFacts ==
  ASSUME SepInv, InOrder
  PROVE  /\ session \in [phase : {"new", "ready"}, skipped : 0..(SkipLimit - 1)]
         /\ ~(Awaiting /\ Endpoint(Command) = "acm") =>
              /\ acm \in [phase : {"new", "ready", "active"}, pending : {FALSE}]
              /\ sep.context => acm.phase = "active"
<1>1. session \in [phase : {"new", "ready"}, skipped : 0..(SkipLimit - 1)]
      BY DEF SepInv, TypeOK, InOrder, Live
<1>2. ASSUME ~(Awaiting /\ Endpoint(Command) = "acm")
      PROVE  /\ acm \in [phase : {"new", "ready", "active"}, pending : {FALSE}]
             /\ sep.context => acm.phase = "active"
  <2>1. acm.phase # "failed" /\ ~acm.pending BY <1>2 DEF SepInv, Context
  <2>2. acm \in [phase : {"new", "ready", "active"}, pending : {FALSE}]
        BY <2>1, Zenon DEF SepInv, TypeOK
  <2>3. ~(Awaiting /\ Command = "create") BY <1>2, Endpoints
  <2> QED BY <2>2, <2>3, Zenon DEF SepInv, Context
<1> QED BY <1>1, <1>2, Zenon

LEMMA SentInv == ASSUME SepInv, Sent PROVE SepInv'
<1>0. Command = "enable" => ~op.closing BY DEF Command
<1>1. /\ op.stage = "ready" \/ (op.stage = "issue" /\ ~op.closing)
      /\ Completed /\ UNCHANGED <<acm, matched>> /\ ~Awaiting
      BY <1>0 DEF Sent, Awaiting
<1>2. /\ InOrder /\ op.stage \in {"issue", "receive", "ready"} BY <1>1, CompletedFacts
<1>3. Silent' BY <1>1, <1>2, NotAwaiting, CompletedFacts DEF Silent, SepInv
<1>4. session' \in [phase : {"new", "ready"}, skipped : 0..(SkipLimit - 1)]
      BY <1>2, UsableFacts DEF Sent
<1>5. /\ acm \in [phase : {"new", "ready", "active"}, pending : {FALSE}]
      /\ sep.context => acm.phase = "active"
      BY <1>1, <1>2, UsableFacts, Zenon
<1>6. matched \in Nat \X Nat /\ matched[1] = matched[2] BY DEF SepInv, TypeOK
<1>7. CASE op.stage = "ready" /\ op.refused
  <2>1. Failed("remote") BY <1>7 DEF Sent
  <2>2. /\ op' \in Operations /\ ~op'.busy /\ op'.closing = op.closing
        /\ op'.stage = (IF op.closing THEN "destroy" ELSE "close") /\ (op.closing => ~op'.clean)
        BY <2>1, FailedType, Zenon DEF Results
  <2>3. ~Awaiting' BY <2>2 DEF Awaiting
  <2> QED BY <1>1, <1>2, <1>3, <1>4, <1>5, <1>6, <2>2, <2>3, SettledStep, Zenon
<1>8. CASE ~(op.stage = "ready" /\ op.refused)
  <2>1. Advance BY <1>8 DEF Sent
  <2>2. op.closing => ~sep.context BY <1>1, <1>8 DEF SepInv, BrokenIsReported
  <2>3. /\ op' \in Operations /\ ~op'.busy /\ op'.closing = op.closing /\ ~Awaiting'
        /\ op.closing => op'.stage = "destroy"
        /\ ~op.closing => op'.stage \in {"issue", "lease"}
        /\ op'.stage = "issue" => op'.at \in 1..Len(Script(op'.kind))
        BY <1>2, <2>1, AdvanceFacts
  <2>4. op'.stage \in Exchanging \cup {"close", "destroy"} BY <2>3 DEF Exchanging
  <2> QED BY <1>1, <1>2, <1>3, <1>4, <1>5, <1>6, <2>2, <2>3, <2>4, SettledStep, Zenon
<1> QED BY <1>7, <1>8

LEMMA DrainedInv == ASSUME SepInv, Drained PROVE SepInv'
<1>1. /\ op \in Operations /\ op.stage = "drain" /\ Completed /\ UNCHANGED matched /\ ~Awaiting
      /\ ~op.closing /\ matched \in Nat \X Nat /\ matched[1] = matched[2]
      BY DEF Drained, Awaiting, SepInv, TypeOK, Progress
<1>2. InOrder BY <1>1, CompletedFacts
<1>3. CASE op' = [op EXCEPT !.busy = FALSE] /\ UNCHANGED <<session, acm>>
  <2>1. Silent' BY <1>1, <1>2, NotAwaiting, CompletedFacts DEF Silent, SepInv
  <2>2. op' \in Operations /\ ~op'.busy /\ op'.stage = "drain" /\ op'.closing = op.closing
        BY <1>1, <1>3, Zenon DEF Operations
  <2>3. ~Awaiting' BY <2>2 DEF Awaiting
  <2> QED BY <1>1, <1>2, <1>3, <2>1, <2>2, <2>3, UsableFacts, SettledStep, Zenon DEF Exchanging
<1>4. CASE Poison BY <1>1, <1>4, CompletedPoison
<1> QED BY <1>3, <1>4 DEF Drained

\* A reply to a command that is not the credential manager's.
LEMMA PlainReplyInv ==
  ASSUME SepInv, Received, Endpoint(Command) # "acm", Completed, Matches(usb.msg),
         matched' = <<Id, usb.msg.id>>, UNCHANGED <<session, acm>>,
         Advance \/ Failed("remote")
  PROVE  SepInv'
<1>1. /\ Silent' /\ InOrder /\ matched' \in Nat \X Nat /\ matched'[1] = matched'[2]
      /\ op.stage \in {"issue", "receive"}
      BY ReplyFacts DEF Received
<1>2. ~op.closing BY Endpoints DEF Command
<1>3. CASE Advance
  <2>1. /\ op' \in Operations /\ ~op'.busy /\ op'.closing = op.closing /\ ~Awaiting'
        /\ op'.stage \in {"issue", "lease"}
        /\ op'.stage = "issue" => op'.at \in 1..Len(Script(op'.kind))
        BY <1>1, <1>2, <1>3, AdvanceFacts
  <2>2. op'.stage \in Exchanging \cup {"close", "destroy"} BY <2>1 DEF Exchanging
  <2> QED BY <1>1, <1>2, <2>1, <2>2, UsableFacts, SettledStep, Zenon
<1>4. CASE Failed("remote")
  <2>1. /\ op' \in Operations /\ ~op'.busy /\ op'.closing = op.closing /\ op'.stage = "close"
        BY <1>2, <1>4, FailedType, Zenon DEF Results
  <2>2. ~Awaiting' BY <2>1 DEF Awaiting
  <2> QED BY <1>1, <1>2, <2>1, <2>2, UsableFacts, SettledStep, Zenon
<1> QED BY <1>3, <1>4

\* A reply that is fatal.
LEMMA PoisonReplyInv ==
  ASSUME SepInv, Received, Completed, Matches(usb.msg), matched' = <<Id, usb.msg.id>>, Poison
  PROVE  SepInv'
<1>1. /\ matched' \in Nat \X Nat /\ matched'[1] = matched'[2] /\ op.stage \in {"issue", "receive"}
      BY ReplyFacts DEF Received
<1> QED BY <1>1, CompletedPoison

LEMMA ControlReplyInv == ASSUME SepInv, ControlReply PROVE SepInv'
BY PlainReplyInv, PoisonReplyInv DEF ControlReply

LEMMA KeystoreReplyInv == ASSUME SepInv, KeystoreReply PROVE SepInv'
<1>1. ((Advance \/ Failed("remote")) /\ UNCHANGED <<session, acm>>) \/ Poison BY DEF KeystoreReply
<1> QED BY <1>1, PlainReplyInv, PoisonReplyInv DEF KeystoreReply

LEMMA AcmReplyInv == ASSUME SepInv, AcmReply PROVE SepInv'
<1>1. /\ Received /\ Endpoint(Command) = "acm" /\ Completed /\ Matches(usb.msg)
      /\ matched' = <<Id, usb.msg.id>>
      BY DEF AcmReply
<1>2. CASE Poison BY <1>1, <1>2, PoisonReplyInv
<1>3. CASE /\ usb.msg.status # "bad"
           /\ acm' = IF usb.msg.status = "ok" THEN Accepted ELSE [acm EXCEPT !.pending = FALSE]
           /\ op' = [op EXCEPT !.busy = FALSE, !.stage = "ready", !.refused = (usb.msg.status # "ok")]
           /\ UNCHANGED session
  <2>1. /\ Silent' /\ InOrder /\ matched' \in Nat \X Nat /\ matched'[1] = matched'[2] /\ Awaiting /\ Landed
        /\ op.stage \in {"issue", "receive"} /\ op \in Operations /\ IsReply(usb.msg)
        /\ \A i \in 1..Len(sep.outbox) : ~IsReply(sep.outbox[i])
        BY <1>1, ReplyFacts DEF Received, SepInv, TypeOK, Landed
  <2>2. /\ op' \in Operations /\ ~op'.busy /\ op'.stage = "ready" /\ op'.closing = op.closing
        /\ op'.refused = (usb.msg.status # "ok") /\ op'.at = op.at /\ op'.kind = op.kind
        BY <1>3, <2>1, Zenon DEF Operations, Stages
  <2>3. ~op.closing => op'.at \in 1..Len(Script(op'.kind)) BY <2>1, <2>2 DEF SepInv, Progress
  <2>4. session \in [phase : {"new", "ready"}, skipped : 0..(SkipLimit - 1)] BY <2>1, UsableFacts
  <2>5. acm.phase \in {"new", "ready", "active"} BY <2>1 DEF SepInv, Context, TypeOK
  <2>6. acm' \in [phase : {"new", "ready", "active"}, pending : {FALSE}]
    <3>1. CASE usb.msg.status = "ok" BY <1>3, <2>5, <3>1 DEF Accepted
    <3>2. CASE usb.msg.status # "ok" BY <1>3, <2>5, <3>2, Zenon DEF SepInv, TypeOK
    <3> QED BY <3>1, <3>2, Zenon
  <2>7. CarriedOut <=> usb.msg.status # "remote" BY <2>1 DEF CarriedOut, Done
  <2>8. usb.msg.status = "ok" /\ Command = "delete" => ~sep.context BY <2>1, <2>7 DEF SepInv, Context
  <2>9. sep.context => acm'.phase = "active"
    <3>1. CASE usb.msg.status = "ok"
      <4>1. acm'.phase = CASE Command \in {"initialize", "delete"} -> "ready"
                           [] Command = "create" -> "active"
                           [] OTHER -> acm.phase
            BY <1>3, <3>1 DEF Accepted
      <4>2. Command = "initialize" => ~sep.context BY <2>1 DEF SepInv, Context
      <4>3. sep.context => acm.phase = "active" \/ Command = "create" BY <2>1 DEF SepInv, Context
      <4> QED BY <2>8, <3>1, <4>1, <4>2, <4>3
    <3>2. CASE usb.msg.status # "ok"
      <4>1. usb.msg.status = "remote" BY <1>1, <1>3, <3>2, ReplyFacts
      <4>2. sep.context => acm.phase = "active" BY <2>1, <2>7, <4>1 DEF SepInv, Context
      <4>3. acm'.phase = acm.phase BY <1>3, <3>2 DEF SepInv, TypeOK
      <4> QED BY <4>2, <4>3
    <3> QED BY <3>1, <3>2
  <2>10. op'.closing /\ ~op'.refused => ~sep.context BY <2>2, <2>8, Zenon DEF Command
  <2>11. ~Awaiting' BY <2>2 DEF Awaiting
  <2>12. op'.stage \in Exchanging \cup {"close", "destroy"} BY <2>2 DEF Exchanging
  <2> QED BY <1>1, <1>3, <2>1, <2>2, <2>3, <2>4, <2>6, <2>9, <2>10, <2>11, <2>12, SettledStep, Zenon
<1> QED BY <1>2, <1>3 DEF AcmReply

LEMMA UnrelatedInv == ASSUME SepInv, Unrelated PROVE SepInv'
<1> USE DEF SepInv
<1>1. /\ op \in Operations /\ Received /\ Completed /\ ~Matches(usb.msg) /\ UNCHANGED matched
      /\ op.stage \in {"issue", "receive"} /\ matched \in Nat \X Nat
      BY DEF Unrelated, Received, TypeOK
<1>2. CASE Poison BY <1>1, <1>2, CompletedPoison
<1>3. CASE /\ session.skipped + 1 < SkipLimit
           /\ session' = [session EXCEPT !.skipped = @ + 1]
           /\ op' = [op EXCEPT !.busy = FALSE, !.stage = "receive"]
           /\ UNCHANGED acm
  <2>1. /\ urb' \in UrbTypes /\ UNCHANGED <<usb, memory, sep>> /\ InOrder /\ Awaiting
        /\ ~Going /\ ~Going' /\ ~Landed' /\ (Queued' <=> Queued) /\ (Coming' <=> Coming)
        /\ urb.slot["in"] = "reaped" /\ \A s \in Slots : urb'.slot[s] = "idle"
        BY <1>1, CompletedFacts
  <2>2. /\ op' \in Operations /\ ~op'.busy /\ op'.stage = "receive" /\ op'.closing = op.closing
        /\ op'.kind = op.kind /\ op'.at = op.at /\ session'.phase = session.phase
        BY <1>1, <1>3, Zenon DEF Operations, Stages, TypeOK
  <2>3. session' \in [phase : {"new", "ready", "poisoned", "closed"}, skipped : 0..(SkipLimit - 1)]
        BY <1>3, SepLinkAssumption, SMTT(60) DEF TypeOK
  <2>4. TypeOK' BY <1>1, <1>3, <2>1, <2>2, <2>3 DEF TypeOK, UrbTypes
  <2>5. Command' = Command /\ Id' = Id /\ Request' = Request /\ InOrder' /\ Awaiting'
        BY <2>1, <2>2 DEF Command, Id, Request, InOrder, Live, Awaiting, Exchanging
  <2>6. Command # "enable" BY <1>1 DEF Received, Progress
  <2>7. Progress'
    <3>1. ~op.closing => op.at \in 1..Len(Script(op.kind)) BY <1>1 DEF Progress
    <3> QED BY <2>1, <2>2, <2>5, <2>6, <3>1 DEF Progress, InOrder, Live, Exchanging
  <2>8. UrbsTracked' BY <1>1, <2>2, CompletedUrbs
  <2>9. ~Landed
    <3> SUFFICES ASSUME Landed PROVE FALSE OBVIOUS
    <3>1. Answers(usb.msg) BY <2>1 DEF OneExchange
    <3>2. Endpoint(Command) \in {"control", "acm", "keystore"} BY <1>1, CommandType, Endpoints
    <3> QED BY <1>1, <3>1, <3>2, Zenon DEF Answers, Matches
  <2>10. OneExchange' BY <2>1, <2>5 DEF OneExchange, IsReply, Answers
  <2>11. CarriedOut' <=> CarriedOut BY <2>1, <2>9 DEF CarriedOut, Done, IsReply
  <2>12. Context' BY <1>3, <2>1, <2>5, <2>11 DEF Context
  <2>13. BrokenIsReported' BY <2>2, Zenon DEF BrokenIsReported, Exchanging, Torn
  <2> QED BY <1>1, <2>4, <2>7, <2>8, <2>10, <2>12, <2>13
<1>4. session.skipped \in Nat /\ SkipLimit \in Nat BY SepLinkAssumption DEF TypeOK
<1> QED BY <1>2, <1>3, <1>4 DEF Unrelated

-----------------------------------------------------------------------------
(* The teardown *)

LEMMA DestroyInv == ASSUME SepInv, Destroy PROVE SepInv'
<1> USE DEF SepInv
<1>1. PICK left \in SUBSET Active, released \in BOOLEAN :
       /\ Cleanup(left, "uninitialized")
       /\ memory' = IF left = {} THEN "freed" ELSE "held"
       /\ op' = [op EXCEPT !.stage = "closefd", !.clean = @ /\ left = {} /\ released]
      BY Zenon DEF Destroy
<1>2. /\ op \in Operations /\ op.stage = "destroy" /\ ~op.busy
      /\ acm' = [phase |-> "failed", pending |-> FALSE]
      /\ session' = [session EXCEPT !.phase = "closed"] /\ UNCHANGED <<sep, matched>>
      BY DEF Destroy, TypeOK, Progress
<1>3. /\ urb' \in UrbTypes /\ usb' \in UsbTypes /\ usb'.req = usb.req
      /\ \A s \in Slots : urb'.slot[s] # "submitted" => usb'.at[s] = "none"
      /\ left = {} => \A s \in Slots : usb'.at[s] = "none"
      /\ (Going' => Going)
      BY <1>1, CleanupFacts
<1>4. /\ op' \in Operations /\ op'.stage = "closefd" /\ ~op'.busy /\ op'.result = op.result
      /\ (op'.clean => op.clean) /\ op'.closing = op.closing
      BY <1>1, <1>2, Zenon DEF Operations, Stages
<1>5. TypeOK'
  <2>1. session' \in [phase : {"new", "ready", "poisoned", "closed"}, skipped : 0..(SkipLimit - 1)]
        BY <1>2 DEF TypeOK
  <2>2. acm' \in [phase : {"new", "ready", "active", "failed"}, pending : BOOLEAN] BY <1>2
  <2> QED BY <1>1, <1>2, <1>3, <1>4, <2>1, <2>2 DEF TypeOK, UrbTypes, UsbTypes
<1>6. Progress' BY <1>4 DEF Progress, Exchanging
<1>7. UrbsTracked' BY <1>1, <1>3, <1>4 DEF UrbsTracked, Torn
<1>8. ~InOrder' BY <1>4 DEF InOrder, Exchanging
<1>9. OneExchange' BY <1>8 DEF OneExchange
<1>10. Context' BY <1>4, <1>8 DEF Context, Torn
<1>11. CreationUnderWay' => CreationUnderWay BY <1>2, <1>3 DEF CreationUnderWay
<1>12. BrokenIsReported' BY <1>2, <1>4, <1>11 DEF BrokenIsReported, Exchanging, Torn
<1> QED BY <1>2, <1>5, <1>6, <1>7, <1>9, <1>10, <1>12

LEMMA CloseDescriptorInv == ASSUME SepInv, CloseDescriptor PROVE SepInv'
<1> USE DEF SepInv
<1>1. /\ op \in Operations /\ op.stage = "closefd" /\ ~op.busy
      /\ UNCHANGED <<session, acm, urb, memory, sep, matched>>
      /\ usb' = [usb EXCEPT !.at = [s \in Slots |-> "none"]]
      /\ op' = [op EXCEPT !.stage = "abandon"]
      BY DEF CloseDescriptor, TypeOK, Progress
<1>2. usb' \in UsbTypes /\ \A s \in Slots : usb'.at[s] = "none" BY <1>1, Zenon DEF TypeOK, UsbTypes
<1>3. /\ op' \in Operations /\ op'.stage = "abandon" /\ ~op'.busy /\ op'.result = op.result
      /\ op'.clean = op.clean /\ op'.closing = op.closing
      BY <1>1 DEF Operations, Stages
<1>4. TypeOK' BY <1>1, <1>2, <1>3 DEF TypeOK, UsbTypes
<1>5. Progress' BY <1>3 DEF Progress, Exchanging
<1>6. UrbsTracked' BY <1>1, <1>2, <1>3 DEF UrbsTracked, Torn
<1>7. ~InOrder' BY <1>3 DEF InOrder, Exchanging
<1>8. OneExchange' BY <1>7 DEF OneExchange
<1>9. Context' BY <1>3, <1>7 DEF Context, Torn
<1>10. CreationUnderWay' => CreationUnderWay BY <1>1, <1>2 DEF CreationUnderWay, Going, Slots
<1>11. BrokenIsReported' BY <1>1, <1>3, <1>10 DEF BrokenIsReported, Exchanging, Torn
<1> QED BY <1>1, <1>4, <1>5, <1>6, <1>8, <1>9, <1>11

LEMMA AbandonInv == ASSUME SepInv, Abandon PROVE SepInv'
<1> USE DEF SepInv
<1>1. /\ op \in Operations /\ op.stage = "abandon" /\ ~op.busy
      /\ UNCHANGED <<session, acm, usb, sep, matched>> /\ memory' = "freed"
      /\ urb' = [state |-> "uninitialized", slot |-> [s \in Slots |-> "idle"]]
      /\ op' = [op EXCEPT !.stage = "ended",
                  !.result = IF ~op.clean /\ @ \in {"ok", "cancelled"} THEN "teardown" ELSE @]
      BY DEF Abandon, TypeOK, Progress
<1>2. urb' \in UrbTypes BY <1>1 DEF UrbTypes
<1>3. /\ op' \in Operations /\ op'.stage = "ended" /\ ~op'.busy
      /\ op'.result = (IF ~op.clean /\ op.result \in {"ok", "cancelled"} THEN "teardown" ELSE op.result)
      /\ op'.clean = op.clean /\ op'.closing = op.closing
      BY <1>1, Zenon DEF Operations, Stages, Results
<1>4. TypeOK' BY <1>1, <1>2, <1>3 DEF TypeOK, UrbTypes
<1>5. Progress' BY <1>3 DEF Progress, Exchanging
<1>6. UrbsTracked' BY <1>1, <1>3 DEF UrbsTracked, Torn
<1>7. ~InOrder' BY <1>3 DEF InOrder, Exchanging
<1>8. OneExchange' BY <1>7 DEF OneExchange
<1>9. Context' BY <1>3, <1>7 DEF Context, Torn
<1>10. CreationUnderWay' => CreationUnderWay BY <1>1 DEF CreationUnderWay, Going
<1>11. BrokenIsReported' BY <1>1, <1>3, <1>10 DEF BrokenIsReported, Exchanging, Torn
<1> QED BY <1>1, <1>4, <1>5, <1>6, <1>8, <1>9, <1>11

-----------------------------------------------------------------------------
(* The invariant and the theorems *)

LEMMA InitInv == ASSUME Init PROVE SepInv
<1>0. /\ session = [phase |-> "new", skipped |-> 0]
      /\ acm = [phase |-> "new", pending |-> FALSE]
      /\ urb = [state |-> "ready", slot |-> [s \in Slots |-> "idle"]]
      /\ usb = [at |-> [s \in Slots |-> "none"], msg |-> Notification, req |-> NoRequest]
      /\ memory = "held" /\ matched = <<0, 0>>
      /\ sep = [inbox |-> <<>>, outbox |-> <<>>, context |-> FALSE, sent |-> 0]
      BY Zenon DEF Init
<1>1. PICK kind \in Kinds :
       op = [kind |-> kind, at |-> 1, stage |-> "issue", busy |-> FALSE,
             closing |-> FALSE, clean |-> TRUE, cancelled |-> FALSE,
             refused |-> FALSE, result |-> "none"]
      BY Zenon DEF Init
<1>2. /\ op \in Operations /\ op.kind = kind /\ op.at = 1 /\ op.stage = "issue" /\ ~op.busy
      /\ ~op.closing
      BY <1>1 DEF Operations, Stages, Results
<1>3. sep.inbox = <<>> /\ sep.outbox = <<>> /\ ~sep.context BY <1>0, Zenon
<1>4. \A s \in Slots : usb.at[s] = "none" /\ urb.slot[s] = "idle" BY <1>0
<1>5. TypeOK
  <2>1. session \in [phase : {"new", "ready", "poisoned", "closed"}, skipped : 0..(SkipLimit - 1)]
        BY <1>0, SepLinkAssumption
  <2>2. acm \in [phase : {"new", "ready", "active", "failed"}, pending : BOOLEAN] BY <1>0, Zenon
  <2>3. urb \in UrbTypes BY <1>0, Zenon DEF UrbTypes
  <2>4. usb \in UsbTypes BY <1>0, Zenon DEF UsbTypes, Messages
  <2>5. sep \in [inbox : Seq(Requests), outbox : Seq(Messages), context : BOOLEAN, sent : Nat]
    <3>1. <<>> \in Seq(Requests) /\ <<>> \in Seq(Messages) /\ 0 \in Nat OBVIOUS
    <3> QED BY <1>0, <3>1, Zenon
  <2>6. matched \in Nat \X Nat BY <1>0
  <2> QED BY <1>0, <1>2, <2>1, <2>2, <2>3, <2>4, <2>5, <2>6, Zenon DEF TypeOK, UrbTypes, UsbTypes
<1>6. Live BY <1>0 DEF Live
<1>7. op.at \in 1..Len(Script(op.kind)) BY <1>2, ScriptType
<1>8. Progress BY <1>2, <1>6, <1>7, Zenon DEF Progress
<1>9. UrbsTracked BY <1>0, <1>2, <1>4 DEF UrbsTracked, Slots
<1>10. Len(sep.outbox) = 0 /\ Len(sep.inbox) = 0 BY <1>3
<1>11. ~Going /\ ~Queued /\ ~Coming /\ ~Landed
       BY <1>3, <1>4, <1>10 DEF Going, Queued, Coming, Landed, Slots
<1>12. \A i \in 1..Len(sep.outbox) : FALSE BY <1>10
<1>13. OneExchange BY <1>11, <1>12 DEF OneExchange
<1>14. ~Awaiting BY <1>2 DEF Awaiting
<1>15. acm.phase = "new" /\ ~acm.pending BY <1>0
<1>16. Context BY <1>3, <1>14, <1>15 DEF Context
<1>17. BrokenIsReported BY <1>2 DEF BrokenIsReported, Exchanging, Torn
<1>18. matched[1] = matched[2] BY <1>0
<1> QED BY <1>5, <1>8, <1>9, <1>13, <1>16, <1>17, <1>18, Zenon DEF SepInv

LEMMA StutterInv == ASSUME SepInv, UNCHANGED vars PROVE SepInv'
<1>1. UNCHANGED <<op, session, acm, urb, usb, memory, sep, matched>> BY DEF vars
<1>2. TypeOK' /\ matched'[1] = matched'[2] BY <1>1, ZenonT(60) DEF SepInv, TypeOK
<1>3. Command' = Command /\ Id' = Id /\ Request' = Request /\ (InOrder' <=> InOrder)
      /\ (Awaiting' <=> Awaiting) /\ Transfers' = Transfers /\ (Live' <=> Live)
      BY <1>1 DEF Command, Id, Request, InOrder, Live, Awaiting, Transfers
<1>4. Progress' BY <1>1, <1>3 DEF SepInv, Progress
<1>5. UrbsTracked' BY <1>1, <1>3 DEF SepInv, UrbsTracked
<1>6. OneExchange' BY <1>1, <1>3, SameFlight DEF SepInv, OneExchange, Answers, IsReply
<1>7. Context' BY <1>1, <1>3, SameFlight DEF SepInv, Context
<1>8. BrokenIsReported' BY <1>1, SameFlight DEF SepInv, BrokenIsReported
<1> QED BY <1>2, <1>4, <1>5, <1>6, <1>7, <1>8 DEF SepInv

LEMMA NextInv == ASSUME SepInv, [Next]_vars PROVE SepInv'
BY OutCompletesInv, InCompletesInv, SepAnswersInv, SepNotifiesInv, CancelInv, IssueCancelledInv,
   IssueInv, IssueFailsInv, TransferRefusedInv, TransferInv, TransferFailsInv, ReapInv, SentInv,
   UnrelatedInv, ControlReplyInv, KeystoreReplyInv, AcmReplyInv, DrainedInv, LeaseInv,
   CallbackReturnsInv, CloseContextInv, DestroyInv, CloseDescriptorInv, AbandonInv, StutterInv
   DEF Next, Ended

\* The invariant holds in every reachable state.
LEMMA SepInvariant == Spec => []SepInv
BY InitInv, NextInv, PTL DEF Spec

\* Every reply the session hands to its caller answers the request that caller
\* made, whatever the SEP delays or adds (sep_relay.c, sep_session.c); a context
\* the SEP holds is accounted for by the credential manager's state until the
\* teardown, and an operation that reports success or cancellation leaves none
\* (sep_acm.c, sep_operation.c).
THEOREM RepliesAreMatched == Spec => []ReplyAnswersRequest
<1>1. SepInv => ReplyAnswersRequest
  <2> SUFFICES ASSUME SepInv PROVE ContextIsTracked /\ SuccessLeavesNoContext
      BY DEF ReplyAnswersRequest, SepInv
  <2>1. ContextIsTracked
    <3> SUFFICES ASSUME sep.context, op.stage \notin Torn
                 PROVE  acm.phase \in {"active", "failed"} \/ acm.pending
        BY DEF ContextIsTracked, Torn
    <3>1. CASE InOrder BY <3>1, Endpoints DEF SepInv, Context
    <3>2. CASE ~InOrder BY <3>2 DEF SepInv, Context
    <3> QED BY <3>1, <3>2
  <2>2. SuccessLeavesNoContext BY DEF SuccessLeavesNoContext, SepInv, BrokenIsReported, Torn
  <2> QED BY <2>1, <2>2
<1> QED BY <1>1, SepInvariant, PTL

\* The kernel never holds a URB whose buffer was freed, and none the library
\* thinks is its own, on any path of a refused, timed-out or interrupted
\* transfer and of the teardown (sep_urb.c, sep_session_destroy,
\* abandon_after_close).
THEOREM BuffersAreSafe == Spec => []BuffersOutliveUrbs
<1>1. SepInv => BuffersOutliveUrbs
      BY DEF SepInv, BuffersOutliveUrbs, IdleSlotIsOurs, UrbsTracked, TypeOK
<1> QED BY <1>1, SepInvariant, PTL
=============================================================================
