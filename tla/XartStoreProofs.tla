--------------------------- MODULE XartStoreProofs ---------------------------
(***************************************************************************)
(* Proofs about XartStore, for every set of connections and every number   *)
(* of versions.                                                            *)
(***************************************************************************)
EXTENDS XartStore, TLAPS

-----------------------------------------------------------------------------
LEMMA RequestFacts == ASSUME MaxVersion \in Nat, NEW r \in Requests PROVE r.v \in Nat
BY DEF Requests, Versions

LEMMA WorkType ==
  ASSUME TypeOK, NEW c \in Conns, NEW w \in Works, work' = [work EXCEPT ![c] = w]
  PROVE  work' \in [Conns -> Works]
BY DEF TypeOK

LEMMA GoType ==
  ASSUME TypeOK, NEW c \in Conns, NEW at \in Stages, Go(c, at) PROVE work' \in [Conns -> Works]
<1>1. work[c] \in Works BY DEF TypeOK
<1>2. [work[c] EXCEPT !.at = at] \in Works BY <1>1 DEF Works
<1> QED BY <1>2, WorkType, Zenon DEF Go

LEMMA InitInv == ASSUME MaxVersion \in Nat PROVE Init => XartInv
<1> USE DEF Init, Idle, Closed, Serving, Unread, Saving
<1> SUFFICES ASSUME Init PROVE XartInv OBVIOUS
<1>1. TypeOK BY DEF TypeOK, Versions, Works, Connections, Inboxes, Stages
<1>2. Queue /\ Progress BY DEF Queue, Progress
<1>3. Bounds /\ Waiting /\ Served /\ InHand /\ Answers BY DEF Bounds, Waiting, Served, InHand, Answers
<1> QED BY <1>1, <1>2, <1>3 DEF XartInv

LEMMA ConnectInv ==
  ASSUME MaxVersion \in Nat, XartInv, NEW c \in Conns, Connect(c) PROVE XartInv'
<1> USE RequestFacts DEF XartInv
<1>1. TypeOK'
  <2>1. work' \in [Conns -> Works] BY DEF Connect, Closed, TypeOK, Works, Stages, Saving
  <2>2. conn' \in [Conns -> Connections] BY ZenonT(60) DEF Connect, TypeOK, Connections
  <2>3. backlog' \in Seq(Conns) BY DEF Connect, Closed, TypeOK
  <2> QED BY <2>1, <2>2, <2>3 DEF Connect, Closed, TypeOK, Serving, Progress
<1>2. \A e \in Conns : e # c => work'[e] = work[e] /\ conn'[e] = conn[e]
      BY DEF Connect, Closed, TypeOK
<1>3. /\ \A e \in Conns : e # c => (Unread(e)' <=> Unread(e)) /\ Version(e)' = Version(e)
      /\ ~Unread(c) /\ ~Unread(c)'
  <2>1. \A e \in Conns : e # c => (Unread(e)' <=> Unread(e)) /\ Version(e)' = Version(e)
        BY <1>2 DEF Unread, Version
  <2>2. ~Unread(c) /\ ~Unread(c)' BY DEF Connect, Closed, TypeOK, Connections, Inboxes, Unread, Version
  <2> QED BY <2>1, <2>2
<1>4. Queue' BY <1>1, <1>2 DEF Connect, Closed, TypeOK, Queue, Serving
<1>5. Progress' BY <1>1, <1>2 DEF Connect, Closed, TypeOK, Progress, Saving
<1>6. Bounds' BY <1>1, <1>3 DEF Connect, Closed, TypeOK, Bounds
<1>7. Waiting'
  <2>1. \A i \in 1..Len(backlog) : backlog'[i] = backlog[i] /\ backlog[i] # c /\ backlog[i] \in Conns
        BY DEF Connect, TypeOK, Queue
  <2>2. Len(backlog') = Len(backlog) + 1 /\ backlog'[Len(backlog')] = c
        BY DEF Connect, TypeOK
  <2>3. may' = may /\ Len(backlog) \in Nat BY DEF Connect, TypeOK
  <2> QED BY <1>3, <2>1, <2>2, <2>3 DEF Waiting
<1>8. Served' BY <1>1, <1>2, <1>3 DEF Connect, Closed, TypeOK, Served, Serving
<1>9. InHand' BY <1>1, <1>2, <1>3 DEF Connect, Closed, TypeOK, InHand, Saving
<1>10. Answers' BY <1>1, <1>2 DEF Connect, Closed, TypeOK, Answers
<1> QED BY <1>1, <1>4, <1>5, <1>6, <1>7, <1>8, <1>9, <1>10

LEMMA TakeResponseInv ==
  ASSUME MaxVersion \in Nat, XartInv, NEW c \in Conns, TakeResponse(c) PROVE XartInv'
<1> USE RequestFacts DEF XartInv
<1>1. TypeOK'
  <2>1. work' \in [Conns -> Works] BY DEF TakeResponse, TypeOK, Works, Stages, Saving
  <2>2. conn' \in [Conns -> Connections] BY DEF TakeResponse, TypeOK, Connections
  <2>3. backlog' \in Seq(Conns) BY DEF TakeResponse, TypeOK
  <2> QED BY <2>1, <2>2, <2>3 DEF TakeResponse, TypeOK, Serving, Progress
<1>2. \A e \in Conns : e # c => work'[e] = work[e] /\ conn'[e] = conn[e]
      BY DEF TakeResponse, TypeOK
<1>3. /\ \A e \in Conns : e # c => (Unread(e)' <=> Unread(e)) /\ Version(e)' = Version(e)
      /\ (Unread(c)' <=> Unread(c)) /\ Version(c)' = Version(c)
  <2>1. \A e \in Conns : e # c => (Unread(e)' <=> Unread(e)) /\ Version(e)' = Version(e)
        BY <1>2 DEF Unread, Version
  <2>2. (Unread(c)' <=> Unread(c)) /\ Version(c)' = Version(c) BY DEF TakeResponse, TypeOK, Connections, Inboxes, Unread, Version
  <2> QED BY <2>1, <2>2
<1>4. Queue' BY <1>1, <1>2 DEF TakeResponse, TypeOK, Queue, Serving
<1>5. Progress' BY <1>1, <1>2 DEF TakeResponse, TypeOK, Progress, Saving
<1>6. Bounds' BY <1>1, <1>3 DEF TakeResponse, TypeOK, Bounds
<1>7. Waiting' BY <1>1, <1>3 DEF TakeResponse, TypeOK, Waiting
<1>8. Served' BY <1>1, <1>2, <1>3 DEF TakeResponse, TypeOK, Served, Serving
<1>9. InHand' BY <1>1, <1>2, <1>3 DEF TakeResponse, TypeOK, InHand, Saving
<1>10. Answers' BY <1>1, <1>2 DEF TakeResponse, TypeOK, Answers
<1> QED BY <1>1, <1>4, <1>5, <1>6, <1>7, <1>8, <1>9, <1>10

LEMMA AbandonInv ==
  ASSUME MaxVersion \in Nat, XartInv, NEW c \in Conns, Abandon(c) PROVE XartInv'
<1> USE RequestFacts DEF XartInv
<1>1. TypeOK'
  <2>1. work' \in [Conns -> Works] BY DEF Abandon, TypeOK, Works, Stages, Saving
  <2>2. conn' \in [Conns -> Connections] BY DEF Abandon, TypeOK, Works, Connections, Inboxes
  <2>3. backlog' \in Seq(Conns) BY DEF Abandon, TypeOK
  <2> QED BY <2>1, <2>2, <2>3 DEF Abandon, TypeOK, Serving, Progress
<1>2. \A e \in Conns : e # c => work'[e] = work[e] /\ conn'[e] = conn[e]
      BY DEF Abandon, TypeOK
<1>3. /\ \A e \in Conns : e # c => (Unread(e)' <=> Unread(e)) /\ Version(e)' = Version(e)
      /\ Unread(c)' => Unread(c) /\ Version(c)' = Version(c)
  <2>1. \A e \in Conns : e # c => (Unread(e)' <=> Unread(e)) /\ Version(e)' = Version(e)
        BY <1>2 DEF Unread, Version
  <2>2. Unread(c)' => Unread(c) /\ Version(c)' = Version(c) BY DEF Abandon, TypeOK, Connections, Inboxes, Unread, Version
  <2> QED BY <2>1, <2>2
<1>4. Queue' BY <1>1, <1>2 DEF Abandon, TypeOK, Queue, Serving
<1>5. Progress' BY <1>1, <1>2 DEF Abandon, TypeOK, Progress, Saving
<1>6. Bounds' BY <1>1, <1>3 DEF Abandon, TypeOK, Bounds
<1>7. Waiting' BY <1>1, <1>3, SMTT(60) DEF Abandon, TypeOK, Waiting
<1>8. Served' BY <1>1, <1>2, <1>3 DEF Abandon, TypeOK, Served, Serving
<1>9. InHand' BY <1>1, <1>2, <1>3 DEF Abandon, TypeOK, InHand, Saving
<1>10. Answers' BY <1>1, <1>2 DEF Abandon, TypeOK, Answers
<1> QED BY <1>1, <1>4, <1>5, <1>6, <1>7, <1>8, <1>9, <1>10

LEMMA AcceptInv ==
  ASSUME MaxVersion \in Nat, XartInv, NEW c \in Conns, Accept(c) PROVE XartInv'
<1> USE RequestFacts DEF XartInv
<1>1. TypeOK'
  <2>1. work' \in [Conns -> Works]
    <3>1. {"hello"} \subseteq Stages BY DEF Stages
    <3> QED BY <3>1, GoType DEF Accept
  <2>2. backlog' \in Seq(Conns) BY DEF Accept, Go, At, TypeOK
  <2> QED BY <2>1, <2>2 DEF Accept, Go, At, TypeOK, Serving, Queue, Progress
<1>2. \A e \in Conns : e # c => work'[e] = work[e]
      BY DEF Accept, Go, At, TypeOK
<1>3. \A e \in Conns : (Unread(e)' <=> Unread(e)) /\ Version(e)' = Version(e)
      BY DEF Accept, Go, At, Unread, Version
<1>b. /\ Len(backlog) \in Nat /\ Len(backlog) > 0 /\ Len(backlog') = Len(backlog) - 1
      /\ c = backlog[1] /\ \A i \in 1..Len(backlog') : i + 1 \in 1..Len(backlog) /\ backlog'[i] = backlog[i + 1]
      BY DEF Accept, TypeOK
<1>c. work'[c].at = "hello" /\ \A e \in Conns : ~Serving(e)
      BY DEF Accept, Go, At, TypeOK, Works, Serving
<1>d. may' = may /\ made' = made /\ conn' = conn /\ \A i \in 1..Len(backlog) : backlog[i] \in Conns
      BY DEF Accept, TypeOK
<1>e. \A e \in Conns : Serving(e)' <=> e = c BY <1>2, <1>c DEF Serving
<1>4. Queue'
  <2>1. \A i \in 1..Len(backlog') :
          /\ backlog'[i] # c /\ conn[backlog'[i]].state # "unused"
          /\ \A j \in 1..Len(backlog') : i < j =>
               backlog'[i] # backlog'[j] /\ conn[backlog'[i]].state # "open"
    <3> TAKE i \in 1..Len(backlog')
    <3>1. /\ i + 1 \in 1..Len(backlog) /\ backlog'[i] = backlog[i + 1]
          /\ 1 \in 1..Len(backlog) /\ 1 < i + 1
          BY <1>b
    <3>2. backlog'[i] # c /\ conn[backlog'[i]].state # "unused" BY <1>b, <3>1 DEF Queue
    <3>3. ASSUME NEW j \in 1..Len(backlog'), i < j
          PROVE  backlog'[i] # backlog'[j] /\ conn[backlog'[i]].state # "open"
      <4>1. j + 1 \in 1..Len(backlog) /\ backlog'[j] = backlog[j + 1] /\ i + 1 < j + 1
            BY <1>b, <3>3
      <4> QED BY <3>1, <4>1 DEF Queue
    <3> QED BY <3>2, <3>3
  <2>2. Len(backlog') > 0 => conn[c].state # "open" BY <1>b DEF Queue
  <2>3. \A i \in 1..Len(backlog') : backlog'[i] \in Conns BY <1>b, <1>d
  <2> QED BY <1>d, <1>e, <2>1, <2>2, <2>3 DEF Queue
<1>5. Progress' BY <1>1, <1>2 DEF Accept, Go, At, TypeOK, Progress, Saving
<1>6. Bounds' BY <1>1, <1>3 DEF Accept, Go, At, TypeOK, Bounds
<1>7. Waiting' BY <1>3, <1>b, <1>d, SMTT(60) DEF Waiting
<1>8. Served' BY <1>2, <1>3, <1>b, <1>c, <1>d, SMTT(60) DEF Served, Waiting, Serving
<1>9. InHand' BY <1>1, <1>2, <1>3 DEF Accept, Go, At, TypeOK, InHand, Saving
<1>10. Answers' BY <1>1, <1>2 DEF Accept, Go, At, TypeOK, Answers
<1> QED BY <1>1, <1>4, <1>5, <1>6, <1>7, <1>8, <1>9, <1>10

LEMMA HelloInv ==
  ASSUME MaxVersion \in Nat, XartInv, NEW c \in Conns, Hello(c) PROVE XartInv'
<1> USE RequestFacts DEF XartInv
<1>1. TypeOK'
  <2>1. work' \in [Conns -> Works]
    <3>1. {"receive", "close"} \subseteq Stages BY DEF Stages
    <3> QED BY <3>1, GoType DEF Hello
  <2>2. backlog' \in Seq(Conns) BY DEF Hello, Go, At, TypeOK
  <2> QED BY <2>1, <2>2 DEF Hello, Go, At, TypeOK, Serving, Queue, Progress
<1>2. \A e \in Conns : e # c => work'[e] = work[e]
      BY DEF Hello, Go, At, TypeOK
<1>3. \A e \in Conns : (Unread(e)' <=> Unread(e)) /\ Version(e)' = Version(e)
      BY DEF Hello, Go, At, Unread, Version
<1>4. Queue' BY <1>1, <1>2 DEF Hello, Go, At, TypeOK, Queue, Serving
<1>5. Progress' BY <1>1, <1>2 DEF Hello, Go, At, TypeOK, Progress, Saving
<1>6. Bounds' BY <1>1, <1>3 DEF Hello, Go, At, TypeOK, Bounds
<1>7. Waiting' BY <1>1, <1>3 DEF Hello, Go, At, TypeOK, Waiting
<1>8. Served' BY <1>1, <1>2, <1>3 DEF Hello, Go, At, TypeOK, Served, Serving
<1>9. InHand' BY <1>1, <1>2, <1>3 DEF Hello, Go, At, TypeOK, InHand, Saving
<1>10. Answers' BY <1>1, <1>2 DEF Hello, Go, At, TypeOK, Answers
<1> QED BY <1>1, <1>4, <1>5, <1>6, <1>7, <1>8, <1>9, <1>10

LEMMA ReceiveInv ==
  ASSUME MaxVersion \in Nat, XartInv, NEW c \in Conns, Receive(c) PROVE XartInv'
<1> USE RequestFacts DEF XartInv
<1>1. PICK r \in Requests : conn[c].inbox = <<r>>
      BY DEF Receive, TypeOK, Connections, Inboxes
<1>2. /\ work[c].at = "receive" /\ UNCHANGED <<record, may, backlog, made, acked>>
      /\ conn' = [conn EXCEPT ![c].inbox = <<>>]
      BY <1>1 DEF Receive, At
<1> DEFINE q == IF r.cmd \in {"other", "garbled"} THEN None ELSE r
<1>3. work' = [work EXCEPT ![c] = [Idle EXCEPT !.at = FirstStep(r), !.req = q]]
      BY <1>1 DEF Receive
<1>4. /\ FirstStep(r) \in {"create", "fetch", "respond", "receive", "close"}
      /\ FirstStep(r) = "create" => r.cmd = "save"
      /\ FirstStep(r) = "fetch" => r.cmd = "fetch"
      /\ FirstStep(r) = "respond" => r.cmd = "refused"
  <2>1. r.cmd \in {"save", "fetch", "refused", "other", "garbled"} BY DEF Requests
  <2> QED BY <2>1 DEF FirstStep
<1> HIDE DEF q
<1>5. FirstStep(r) \in Stages BY <1>4 DEF Stages, Saving
<1>6. q \in Requests \cup {None} BY DEF q
<1>7. work' \in [Conns -> Works] BY <1>3, <1>5, <1>6, Zenon DEF TypeOK, Works, Idle
<1>8. /\ work'[c].at = FirstStep(r) /\ work'[c].temp = None /\ work'[c].ok = FALSE
      /\ work'[c].req = q
      BY <1>3 DEF TypeOK, Idle
<1>9. work'[c].at \in {"create", "fetch", "respond"} => work'[c].req = r
      BY <1>4, <1>8 DEF q
<1>10. \A e \in Conns : e # c => work'[e] = work[e] /\ conn'[e] = conn[e] /\ work[e].at = "idle"
      BY <1>2, <1>3 DEF TypeOK, Queue, Serving
<1>11. conn' \in [Conns -> Connections]
  <2>1. <<>> \in Inboxes BY DEF Inboxes
  <2> QED BY <1>2, <2>1 DEF TypeOK, Connections
<1>12. \A e \in Conns : conn'[e].state = conn[e].state BY <1>2 DEF TypeOK, Connections, Inboxes
<1>13. \A e \in Conns : e # c => (Unread(e)' <=> Unread(e)) /\ Version(e)' = Version(e)
      BY <1>10 DEF Unread, Version
<1>14. conn'[c].inbox = <<>> /\ ~Unread(c)' BY <1>2 DEF TypeOK, Connections, Inboxes, Unread
<1>15. r.cmd = "save" => Unread(c) /\ Version(c) = r.v BY <1>1 DEF Unread, Version
<1>16. \A e \in Conns : Serving(e)' <=> Serving(e)
      BY <1>2, <1>4, <1>8, <1>10 DEF Serving
<1>17. \A i \in 1..Len(backlog) : backlog[i] \in Conns /\ backlog[i] # c
      BY <1>2 DEF TypeOK, Queue, Serving
<1>18. r.v \in Nat BY RequestFacts
<1>20. TypeOK' BY <1>2, <1>7, <1>10, <1>11, <1>12, <1>14, <1>16 DEF TypeOK
<1>21. Queue' BY <1>2, <1>12, <1>16, <1>17 DEF Queue
<1>22. Progress' BY <1>4, <1>8, <1>9, <1>10 DEF Progress, Saving
<1>23. Bounds' BY <1>2, <1>13, <1>14 DEF Bounds
<1>24. Waiting' BY <1>2, <1>13, <1>17 DEF Waiting
<1>25. Served' BY <1>10, <1>14 DEF Served, Serving
<1>26. InHand'
  <2>1. CASE FirstStep(r) # "create" BY <2>1, <1>4, <1>8, <1>10 DEF InHand, Saving
  <2>2. CASE FirstStep(r) = "create"
    <3>1. Unread(c) /\ Version(c) = r.v /\ work'[c].req = r /\ Serving(c)
          BY <2>2, <1>2, <1>4, <1>8, <1>9, <1>15 DEF Serving
    <3> QED BY <3>1, <1>2, <1>10, <1>13, <1>14, <1>17, <1>18, SMTT(60) DEF InHand, Saving, Served, Bounds
  <2> QED BY <2>1, <2>2
<1>27. Answers' BY <1>4, <1>8, <1>10 DEF Answers
<1> QED BY <1>20, <1>21, <1>22, <1>23, <1>24, <1>25, <1>26, <1>27

LEMMA ReceiveNothingInv ==
  ASSUME MaxVersion \in Nat, XartInv, NEW c \in Conns, ReceiveNothing(c) PROVE XartInv'
<1> USE RequestFacts DEF XartInv
<1>1. TypeOK'
  <2>1. work' \in [Conns -> Works]
    <3>1. "close" \in Stages BY DEF Stages
    <3> QED BY <3>1, GoType DEF ReceiveNothing
  <2>2. backlog' \in Seq(Conns) BY DEF ReceiveNothing, Go, At, TypeOK
  <2> QED BY <2>1, <2>2 DEF ReceiveNothing, Go, At, TypeOK, Serving, Queue, Progress
<1>2. \A e \in Conns : e # c => work'[e] = work[e]
      BY DEF ReceiveNothing, Go, At, TypeOK
<1>3. \A e \in Conns : (Unread(e)' <=> Unread(e)) /\ Version(e)' = Version(e)
      BY DEF ReceiveNothing, Go, At, Unread, Version
<1>4. Queue' BY <1>1, <1>2 DEF ReceiveNothing, Go, At, TypeOK, Queue, Serving
<1>5. Progress' BY <1>1, <1>2 DEF ReceiveNothing, Go, At, TypeOK, Progress, Saving
<1>6. Bounds' BY <1>1, <1>3 DEF ReceiveNothing, Go, At, TypeOK, Bounds
<1>7. Waiting' BY <1>1, <1>3 DEF ReceiveNothing, Go, At, TypeOK, Waiting
<1>8. Served' BY <1>1, <1>2, <1>3 DEF ReceiveNothing, Go, At, TypeOK, Served, Serving
<1>9. InHand' BY <1>1, <1>2, <1>3 DEF ReceiveNothing, Go, At, TypeOK, InHand, Saving
<1>10. Answers' BY <1>1, <1>2 DEF ReceiveNothing, Go, At, TypeOK, Answers
<1> QED BY <1>1, <1>4, <1>5, <1>6, <1>7, <1>8, <1>9, <1>10

LEMMA FetchInv ==
  ASSUME MaxVersion \in Nat, XartInv, NEW c \in Conns, Fetch(c) PROVE XartInv'
<1> USE RequestFacts DEF XartInv
<1>1. TypeOK'
  <2>1. work' \in [Conns -> Works]
    <3>1. PICK ok \in BOOLEAN :
            work' = [work EXCEPT ![c] = [@ EXCEPT !.at = "respond", !.ok = ok, !.v = IF ok THEN record ELSE 0]]
          BY Zenon DEF Fetch
    <3> DEFINE v == IF ok THEN record ELSE 0
    <3>2. "respond" \in Stages /\ v \in Nat BY DEF Stages, TypeOK
    <3> HIDE DEF v
    <3>3. work' = [work EXCEPT ![c] = [@ EXCEPT !.at = "respond", !.ok = ok, !.v = v]]
          BY <3>1 DEF v
    <3>4. work[c] \in Works BY DEF TypeOK
    <3>5. [work[c] EXCEPT !.at = "respond", !.ok = ok, !.v = v] \in Works BY <3>2, <3>4, Zenon DEF Works
    <3> QED BY <3>3, <3>5, WorkType, Zenon
  <2>2. backlog' \in Seq(Conns) BY DEF Fetch, At, TypeOK
  <2> QED BY <2>1, <2>2 DEF Fetch, At, TypeOK, Serving, Queue, Progress
<1>2. \A e \in Conns : e # c => work'[e] = work[e]
      BY DEF Fetch, At, TypeOK
<1>3. \A e \in Conns : (Unread(e)' <=> Unread(e)) /\ Version(e)' = Version(e)
      BY DEF Fetch, At, Unread, Version
<1>4. Queue' BY <1>1, <1>2 DEF Fetch, At, TypeOK, Queue, Serving
<1>5. Progress' BY <1>1, <1>2 DEF Fetch, At, TypeOK, Progress, Saving
<1>6. Bounds' BY <1>1, <1>3 DEF Fetch, At, TypeOK, Bounds
<1>7. Waiting' BY <1>1, <1>3 DEF Fetch, At, TypeOK, Waiting
<1>8. Served' BY <1>1, <1>2, <1>3 DEF Fetch, At, TypeOK, Served, Serving
<1>9. InHand' BY <1>1, <1>2, <1>3 DEF Fetch, At, TypeOK, InHand, Saving
<1>10. Answers'
  <2>1. PICK ok \in BOOLEAN :
          work' = [work EXCEPT ![c] = [@ EXCEPT !.at = "respond", !.ok = ok, !.v = IF ok THEN record ELSE 0]]
        BY Zenon DEF Fetch
  <2>2. /\ work'[c].req = work[c].req /\ work[c].req.cmd = "fetch" /\ work'[c].at = "respond"
        /\ work'[c].ok => work'[c].v = record
        BY <2>1 DEF Fetch, At, TypeOK, Works, Progress
  <2>3. acked <= record /\ record <= made BY DEF TypeOK, Bounds
  <2>4. may' = may /\ acked' = acked /\ made' = made /\ record' = record BY DEF Fetch
  <2> QED BY <1>2, <2>2, <2>3, <2>4 DEF Answers
<1> QED BY <1>1, <1>4, <1>5, <1>6, <1>7, <1>8, <1>9, <1>10

LEMMA RespondInv ==
  ASSUME MaxVersion \in Nat, XartInv, NEW c \in Conns, Respond(c) PROVE XartInv'
<1> USE RequestFacts DEF XartInv
<1>1. work[c].at = "respond" /\ UNCHANGED <<record, may, backlog, made>>
      BY DEF Respond, At
<1>2. PICK at \in {"receive", "close"} : work' = [work EXCEPT ![c] = [Idle EXCEPT !.at = at]]
      BY DEF Respond
<1>3. work' \in [Conns -> Works] BY <1>2, Zenon DEF TypeOK, Works, Stages, Idle
<1>4. work'[c].at \in {"receive", "close"} /\ work'[c].temp = None
      BY <1>2 DEF TypeOK, Idle
<1>5. \A e \in Conns : e # c => work'[e] = work[e] /\ work[e].at = "idle"
      BY <1>1, <1>2 DEF TypeOK, Queue, Serving
<1>6. /\ conn' \in [Conns -> Connections]
      /\ \A e \in Conns : conn'[e].state = conn[e].state /\ conn'[e].inbox = conn[e].inbox
  <2>1. CASE UNCHANGED conn BY <2>1 DEF TypeOK
  <2>2. CASE conn' = [conn EXCEPT ![c].out = [ok |-> work[c].ok, v |-> work[c].v]]
    <3>1. [ok |-> work[c].ok, v |-> work[c].v] \in [ok : BOOLEAN, v : Nat] BY DEF TypeOK, Works
    <3> QED BY <2>2, <3>1 DEF TypeOK, Connections, Inboxes
  <2> QED BY <2>1, <2>2 DEF Respond
<1>7. \A e \in Conns : /\ Unread(e)' <=> Unread(e)
                       /\ Version(e)' = Version(e)
                       /\ Serving(e)' <=> Serving(e)
      BY <1>1, <1>4, <1>5, <1>6 DEF Unread, Version, Serving
<1>8. \A i \in 1..Len(backlog) : backlog[i] \in Conns BY DEF TypeOK
<1>9. acked' \in Versions /\ \A r \in may : acked' <= r
  <2>1. CASE work[c].ok /\ work[c].req.cmd = "save"
    <3>1. may = {work[c].req.v} /\ acked' = work[c].req.v
          BY <1>1, <2>1 DEF Respond, Answers
    <3>2. work[c].req.v \in Nat /\ work[c].req.v <= made /\ made <= MaxVersion
          BY <1>1, <3>1 DEF TypeOK, Bounds, Versions
    <3>3. made \in Nat BY DEF TypeOK, Versions
    <3>4. acked' \in Versions BY <3>1, <3>2, <3>3 DEF Versions
    <3> QED BY <3>1, <3>2, <3>4
  <2>2. CASE ~(work[c].ok /\ work[c].req.cmd = "save")
        BY <2>2 DEF Respond, TypeOK, Bounds
  <2> QED BY <2>1, <2>2
<1>10. TypeOK' BY <1>1, <1>3, <1>6, <1>7, <1>9 DEF TypeOK
<1>11. Queue' BY <1>1, <1>6, <1>7, <1>8 DEF Queue
<1>12. Progress' BY <1>4, <1>5 DEF Progress, Saving
<1>13. Bounds' BY <1>1, <1>7, <1>9 DEF Bounds
<1>14. Waiting' BY <1>1, <1>7, <1>8 DEF Waiting
<1>15. Served' BY <1>1, <1>7, <1>8 DEF Served
<1>16. InHand' BY <1>4, <1>5 DEF InHand, Saving
<1>17. Answers' BY <1>4, <1>5 DEF Answers
<1> QED BY <1>10, <1>11, <1>12, <1>13, <1>14, <1>15, <1>16, <1>17

LEMMA CloseInv ==
  ASSUME MaxVersion \in Nat, XartInv, NEW c \in Conns, Close(c) PROVE XartInv'
<1> USE RequestFacts DEF XartInv
<1>1. TypeOK'
  <2>1. work' \in [Conns -> Works] BY DEF Close, At, Idle, Closed, TypeOK, Works, Stages, Saving
  <2>2. conn' \in [Conns -> Connections] BY DEF Close, At, Idle, Closed, TypeOK, Works, Connections, Inboxes
  <2>3. backlog' \in Seq(Conns) BY DEF Close, At, Idle, Closed, TypeOK
  <2> QED BY <2>1, <2>2, <2>3 DEF Close, At, Idle, Closed, TypeOK, Serving, Progress
<1>2. \A e \in Conns : e # c => work'[e] = work[e] /\ conn'[e] = conn[e]
      BY DEF Close, At, Idle, Closed, TypeOK
<1>3. /\ \A e \in Conns : e # c => (Unread(e)' <=> Unread(e)) /\ Version(e)' = Version(e)
      /\ ~Unread(c)'
  <2>1. \A e \in Conns : e # c => (Unread(e)' <=> Unread(e)) /\ Version(e)' = Version(e)
        BY <1>2 DEF Unread, Version
  <2>2. ~Unread(c)' BY DEF Close, At, Idle, Closed, TypeOK, Connections, Inboxes, Unread, Version
  <2> QED BY <2>1, <2>2
<1>4. Queue' BY <1>1, <1>2 DEF Close, At, Idle, Closed, TypeOK, Queue, Serving
<1>5. Progress' BY <1>1, <1>2 DEF Close, At, Idle, Closed, TypeOK, Progress, Saving
<1>6. Bounds' BY <1>1, <1>3 DEF Close, At, Idle, Closed, TypeOK, Bounds
<1>7. Waiting'
  <2>1. may' = may /\ backlog' = backlog /\ \A i \in 1..Len(backlog) : backlog[i] \in Conns
        BY DEF Close, TypeOK
  <2> QED BY <1>3, <2>1 DEF Waiting
<1>8. Served' BY <1>1, <1>2, <1>3, SMTT(60) DEF Close, At, Idle, Closed, TypeOK, Served, Serving
<1>9. InHand' BY <1>1, <1>2, <1>3 DEF Close, At, Idle, Closed, TypeOK, InHand, Saving
<1>10. Answers' BY <1>1, <1>2 DEF Close, At, Idle, Closed, TypeOK, Answers
<1> QED BY <1>1, <1>4, <1>5, <1>6, <1>7, <1>8, <1>9, <1>10

LEMMA CreateTemporaryInv ==
  ASSUME MaxVersion \in Nat, XartInv, NEW c \in Conns, CreateTemporary(c) PROVE XartInv'
<1> USE RequestFacts DEF XartInv
<1>1. TypeOK'
  <2>1. work' \in [Conns -> Works]
    <3>1. "sync" \in Stages BY DEF Stages, Saving
    <3>2. work[c] \in Works BY DEF TypeOK
    <3>3. [work[c] EXCEPT !.at = "sync", !.temp = "written"] \in Works BY <3>1, <3>2, Zenon DEF Works
    <3> QED BY <3>3, WorkType, Zenon DEF CreateTemporary
  <2>2. backlog' \in Seq(Conns) BY DEF CreateTemporary, At, TypeOK
  <2> QED BY <2>1, <2>2 DEF CreateTemporary, At, TypeOK, Serving, Queue, Progress
<1>2. \A e \in Conns : e # c => work'[e] = work[e]
      BY DEF CreateTemporary, At, TypeOK
<1>3. \A e \in Conns : (Unread(e)' <=> Unread(e)) /\ Version(e)' = Version(e)
      BY DEF CreateTemporary, At, Unread, Version
<1>4. Queue' BY <1>1, <1>2 DEF CreateTemporary, At, TypeOK, Queue, Serving
<1>5. Progress' BY <1>1, <1>2 DEF CreateTemporary, At, TypeOK, Progress, Saving
<1>6. Bounds' BY <1>1, <1>3 DEF CreateTemporary, At, TypeOK, Bounds
<1>7. Waiting' BY <1>1, <1>3 DEF CreateTemporary, At, TypeOK, Waiting
<1>8. Served' BY <1>1, <1>2, <1>3 DEF CreateTemporary, At, TypeOK, Served, Serving
<1>9. InHand' BY <1>1, <1>2, <1>3 DEF CreateTemporary, At, TypeOK, InHand, Saving
<1>10. Answers' BY <1>1, <1>2 DEF CreateTemporary, At, TypeOK, Answers
<1> QED BY <1>1, <1>4, <1>5, <1>6, <1>7, <1>8, <1>9, <1>10

LEMMA SyncTemporaryInv ==
  ASSUME MaxVersion \in Nat, XartInv, NEW c \in Conns, SyncTemporary(c) PROVE XartInv'
<1> USE RequestFacts DEF XartInv
<1>1. TypeOK'
  <2>1. work' \in [Conns -> Works]
    <3>1. "rename" \in Stages BY DEF Stages, Saving
    <3>2. work[c] \in Works BY DEF TypeOK
    <3>3. [work[c] EXCEPT !.at = "rename", !.temp = "synced"] \in Works BY <3>1, <3>2, Zenon DEF Works
    <3> QED BY <3>3, WorkType, Zenon DEF SyncTemporary
  <2>2. backlog' \in Seq(Conns) BY DEF SyncTemporary, At, TypeOK
  <2> QED BY <2>1, <2>2 DEF SyncTemporary, At, TypeOK, Serving, Queue, Progress
<1>2. \A e \in Conns : e # c => work'[e] = work[e]
      BY DEF SyncTemporary, At, TypeOK
<1>3. \A e \in Conns : (Unread(e)' <=> Unread(e)) /\ Version(e)' = Version(e)
      BY DEF SyncTemporary, At, Unread, Version
<1>4. Queue' BY <1>1, <1>2 DEF SyncTemporary, At, TypeOK, Queue, Serving
<1>5. Progress' BY <1>1, <1>2 DEF SyncTemporary, At, TypeOK, Progress, Saving
<1>6. Bounds' BY <1>1, <1>3 DEF SyncTemporary, At, TypeOK, Bounds
<1>7. Waiting' BY <1>1, <1>3 DEF SyncTemporary, At, TypeOK, Waiting
<1>8. Served' BY <1>1, <1>2, <1>3 DEF SyncTemporary, At, TypeOK, Served, Serving
<1>9. InHand' BY <1>1, <1>2, <1>3 DEF SyncTemporary, At, TypeOK, InHand, Saving
<1>10. Answers' BY <1>1, <1>2 DEF SyncTemporary, At, TypeOK, Answers
<1> QED BY <1>1, <1>4, <1>5, <1>6, <1>7, <1>8, <1>9, <1>10

LEMMA RenameInv ==
  ASSUME MaxVersion \in Nat, XartInv, NEW c \in Conns, Rename(c) PROVE XartInv'
<1> USE RequestFacts DEF XartInv
<1>1. /\ work[c].at = "rename" /\ work[c].req.v \in Nat /\ work[c].req.v <= made
      /\ record' = work[c].req.v /\ may' = may \cup {work[c].req.v}
      /\ UNCHANGED <<conn, backlog, made, acked>>
      BY DEF Rename, At, Progress, InHand, Saving
<1>2. work' = [work EXCEPT ![c] = [@ EXCEPT !.at = "syncdir", !.temp = None]]
      BY DEF Rename
<1>3. work' \in [Conns -> Works]
  <2>1. "syncdir" \in Stages BY DEF Stages
  <2>2. work[c] \in Works BY DEF TypeOK
  <2>3. [work[c] EXCEPT !.at = "syncdir", !.temp = None] \in Works BY <2>1, <2>2, Zenon DEF Works
  <2> QED BY <1>2, <2>3, WorkType, Zenon
<1>4. work'[c].at = "syncdir" /\ work'[c].req = work[c].req /\ work'[c].temp = None
      BY <1>2 DEF TypeOK, Works
<1>5. \A e \in Conns : e # c => work'[e] = work[e] /\ work[e].at = "idle"
      BY <1>1, <1>2 DEF TypeOK, Queue, Serving
<1>6. \A e \in Conns : /\ Unread(e)' <=> Unread(e)
                       /\ Version(e)' = Version(e)
                       /\ Serving(e)' <=> Serving(e)
      BY <1>1, <1>4, <1>5 DEF Unread, Version, Serving
<1>7. \A i \in 1..Len(backlog) : backlog[i] \in Conns BY DEF TypeOK
<1>8. \A r \in may : r \in Nat /\ r < work[c].req.v BY <1>1 DEF InHand, Saving, TypeOK
<1>9. acked \in Nat /\ made \in Nat /\ acked <= work[c].req.v
      BY <1>1, <1>8 DEF TypeOK, Bounds, Versions
<1>10. TypeOK' BY <1>1, <1>3, <1>6, Zenon DEF TypeOK
<1>11. Queue' BY <1>1, <1>6, <1>7, SMTT(30) DEF Queue
<1>12. Progress' BY <1>1, <1>4, <1>5 DEF Progress, Saving
<1>13. Bounds' BY <1>1, <1>6, <1>9 DEF Bounds
<1>14. Waiting' BY <1>1, <1>6, <1>7 DEF Waiting, InHand, Saving
<1>15. Served' BY <1>1, <1>5, <1>6, <1>7 DEF Served, InHand, Saving, Serving
<1>16. InHand' BY <1>4, <1>5 DEF InHand, Saving
<1>17. Answers' BY <1>1, <1>4, <1>5 DEF Answers
<1> QED BY <1>10, <1>11, <1>12, <1>13, <1>14, <1>15, <1>16, <1>17

LEMMA SyncDirectoryInv ==
  ASSUME MaxVersion \in Nat, XartInv, NEW c \in Conns, SyncDirectory(c) PROVE XartInv'
<1> USE RequestFacts DEF XartInv
<1>1. TypeOK'
  <2>1. work' \in [Conns -> Works]
    <3>1. "respond" \in Stages BY DEF Stages, Saving
    <3>2. work[c] \in Works BY DEF TypeOK
    <3>3. [work[c] EXCEPT !.at = "respond", !.ok = TRUE] \in Works BY <3>1, <3>2, Zenon DEF Works
    <3> QED BY <3>3, WorkType, Zenon DEF SyncDirectory
  <2>2. backlog' \in Seq(Conns) BY DEF SyncDirectory, At, TypeOK
  <2> QED BY <2>1, <2>2 DEF SyncDirectory, At, TypeOK, Serving, Queue, Progress
<1>2. \A e \in Conns : e # c => work'[e] = work[e]
      BY DEF SyncDirectory, At, TypeOK
<1>3. \A e \in Conns : (Unread(e)' <=> Unread(e)) /\ Version(e)' = Version(e)
      BY DEF SyncDirectory, At, Unread, Version
<1>4. Queue' BY <1>1, <1>2 DEF SyncDirectory, At, TypeOK, Queue, Serving
<1>5. Progress' BY <1>1, <1>2 DEF SyncDirectory, At, TypeOK, Progress, Saving
<1>6. Bounds' BY <1>1, <1>3 DEF SyncDirectory, At, TypeOK, Bounds
<1>7. Waiting' BY <1>1, <1>3 DEF SyncDirectory, At, TypeOK, Waiting
<1>8. Served' BY <1>1, <1>2, <1>3 DEF SyncDirectory, At, TypeOK, Served, Serving
<1>9. InHand' BY <1>1, <1>2, <1>3 DEF SyncDirectory, At, TypeOK, InHand, Saving
<1>10. Answers'
  <2>1. may' = {record} BY DEF SyncDirectory, TypeOK, Bounds, Torn, Versions
  <2>2. /\ record = work[c].req.v /\ work'[c].req = work[c].req /\ work'[c].at = "respond"
        /\ work[c].req.cmd = "save" /\ acked' = acked /\ made' = made /\ record' = record
        /\ Serving(c)
        BY DEF SyncDirectory, At, TypeOK, Works, Answers, Progress, Serving
  <2>3. \A e \in Conns : e # c => work'[e].at = "idle"
        BY <1>2, <2>2 DEF Queue, Serving
  <2> QED BY <2>1, <2>2, <2>3 DEF Answers
<1> QED BY <1>1, <1>4, <1>5, <1>6, <1>7, <1>8, <1>9, <1>10

LEMMA SaveFailsInv ==
  ASSUME MaxVersion \in Nat, XartInv, NEW c \in Conns, SaveFails(c) PROVE XartInv'
<1> USE RequestFacts DEF XartInv
<1>1. TypeOK'
  <2>1. work' \in [Conns -> Works]
    <3>1. "respond" \in Stages BY DEF Stages, Saving
    <3>2. work[c] \in Works BY DEF TypeOK
    <3>3. [work[c] EXCEPT !.at = "respond", !.ok = FALSE, !.temp = None] \in Works BY <3>1, <3>2, Zenon DEF Works
    <3> QED BY <3>3, WorkType, Zenon DEF SaveFails
  <2>2. backlog' \in Seq(Conns) BY DEF SaveFails, At, TypeOK
  <2> QED BY <2>1, <2>2 DEF SaveFails, At, TypeOK, Serving, Queue, Progress
<1>2. \A e \in Conns : e # c => work'[e] = work[e]
      BY DEF SaveFails, At, TypeOK
<1>3. \A e \in Conns : (Unread(e)' <=> Unread(e)) /\ Version(e)' = Version(e)
      BY DEF SaveFails, At, Unread, Version
<1>4. Queue' BY <1>1, <1>2 DEF SaveFails, At, TypeOK, Queue, Serving
<1>5. Progress' BY <1>1, <1>2 DEF SaveFails, At, TypeOK, Progress, Saving
<1>6. Bounds' BY <1>1, <1>3 DEF SaveFails, At, TypeOK, Bounds
<1>7. Waiting' BY <1>1, <1>3 DEF SaveFails, At, TypeOK, Waiting
<1>8. Served' BY <1>1, <1>2, <1>3 DEF SaveFails, At, TypeOK, Served, Serving
<1>9. InHand' BY <1>1, <1>2, <1>3 DEF SaveFails, At, TypeOK, InHand, Saving
<1>10. Answers' BY <1>1, <1>2 DEF SaveFails, At, TypeOK, Answers
<1> QED BY <1>1, <1>4, <1>5, <1>6, <1>7, <1>8, <1>9, <1>10

LEMMA SendInv ==
  ASSUME MaxVersion \in Nat, XartInv, NEW c \in Conns, NEW r \in Requests, Send(c, r) PROVE XartInv'
<1> USE RequestFacts DEF XartInv
<1>1. /\ conn[c].state = "open" /\ conn[c].inbox = <<>> /\ work[c].req = None
      /\ conn' = [conn EXCEPT ![c].inbox = <<r>>]
      /\ UNCHANGED <<record, may, backlog, work, acked>>
      BY DEF Send
<1>2. /\ r.v \in Nat /\ made \in Nat /\ made' \in Versions /\ made <= made'
      /\ r.cmd = "save" => r.v = made + 1 /\ made' = r.v
      BY DEF Send, Requests, TypeOK, Versions
<1>3. conn' \in [Conns -> Connections] BY <1>1 DEF TypeOK, Connections, Inboxes
<1>4. \A e \in Conns : conn'[e].state = conn[e].state /\ (e # c => conn'[e] = conn[e])
      BY <1>1 DEF TypeOK, Connections, Inboxes
<1>5. conn'[c].inbox = <<r>> BY <1>1 DEF TypeOK, Connections, Inboxes
<1>6. \A e \in Conns : e # c => (Unread(e)' <=> Unread(e)) /\ Version(e)' = Version(e)
      BY <1>4 DEF Unread, Version
<1>7. ~Unread(c) /\ (Unread(c)' => Version(c)' = r.v /\ r.v = made + 1 /\ made' = r.v)
      BY <1>1, <1>2, <1>5 DEF Unread, Version
<1>8. \A e \in Conns : Serving(e)' <=> Serving(e) BY <1>1 DEF Serving
<1>9. \A i \in 1..Len(backlog) : backlog[i] \in Conns /\ (i # Len(backlog) => backlog[i] # c)
      BY <1>1 DEF TypeOK, Queue
<1>10. made' \in Nat /\ acked \in Nat /\ \A x \in may : x \in Nat BY <1>2 DEF TypeOK, Versions
<1>11. TypeOK' BY <1>1, <1>2, <1>3, <1>4, <1>8 DEF TypeOK
<1>12. Queue' BY <1>1, <1>4, <1>8, <1>9 DEF Queue
<1>13. Progress' BY <1>1 DEF Progress
<1>14. Bounds' BY <1>1, <1>2, <1>6, <1>7, <1>10 DEF Bounds
<1>15. Waiting'
  <2>1. \A x \in may : x \in Nat /\ x <= made BY DEF TypeOK, Bounds
  <2>2. \A e \in Conns : Unread(e) => Version(e) \in Nat /\ Version(e) <= made BY DEF Bounds
  <2>3. Len(backlog) \in Nat BY DEF TypeOK
  <2>4. may' = may /\ backlog' = backlog BY <1>1
  <2>5. ASSUME NEW i \in 1..Len(backlog), Unread(backlog[i])'
        PROVE  /\ \A x \in may : x < Version(backlog[i])'
               /\ \A j \in 1..Len(backlog) :
                    i < j /\ Unread(backlog[j])' => Version(backlog[i])' < Version(backlog[j])'
    <3>1. CASE backlog[i] = c
      <4>1. i = Len(backlog) BY <1>9, <3>1
      <4>2. Version(backlog[i])' = made + 1 BY <1>4, <1>7, <2>4, <2>5, <3>1
      <4> QED BY <1>2, <2>1, <2>3, <4>1, <4>2
    <3>2. CASE backlog[i] # c
      <4>1. Unread(backlog[i]) /\ Version(backlog[i])' = Version(backlog[i])
            BY <1>6, <1>9, <2>4, <2>5, <3>2
      <4> QED BY <1>2, <1>6, <1>7, <1>9, <2>2, <2>4, <4>1 DEF Waiting
    <3> QED BY <3>1, <3>2
  <2> QED BY <2>4, <2>5 DEF Waiting
<1>16. Served'
  <2>1. \A x \in may : x \in Nat /\ x <= made BY DEF TypeOK, Bounds
  <2>2. \A e \in Conns : Unread(e) => Version(e) \in Nat /\ Version(e) <= made BY DEF Bounds
  <2>3. Len(backlog) \in Nat /\ (Serving(c) => Len(backlog) = 0) BY <1>1 DEF TypeOK, Queue
  <2> QED BY <1>1, <1>2, <1>6, <1>7, <1>8, <1>9, <2>1, <2>2, <2>3, SMTT(60) DEF Served
<1>17. InHand'
  <2>1. \A e \in Conns : Unread(e) => Version(e) \in Nat BY DEF Bounds
  <2> QED BY <1>1, <1>2, <1>6, <1>7, <1>9, <1>10, <2>1, SMTT(60) DEF InHand
<1>18. Answers'
  <2>1. \A e \in Conns : work[e].v \in Nat BY DEF TypeOK, Works
  <2> QED BY <1>1, <1>2, <1>10, <2>1 DEF Answers
<1> QED BY <1>11, <1>12, <1>13, <1>14, <1>15, <1>16, <1>17, <1>18

LEMMA ResetInv ==
  ASSUME MaxVersion \in Nat, XartInv, Crash \/ PowerLoss PROVE XartInv'
<1> USE DEF XartInv
<1>1. /\ work' = [c \in Conns |-> Idle] /\ backlog' = <<>> /\ UNCHANGED <<made, acked>>
      /\ conn' = [c \in Conns |-> IF conn[c].state = "unused" THEN Closed
                                  ELSE [Closed EXCEPT !.state = "gone"]]
      /\ record' \in may' /\ may' \subseteq may
      BY DEF Crash, PowerLoss, TypeOK
<1>2. \A c \in Conns : work'[c] = Idle /\ conn'[c].inbox = <<>> /\ conn'[c].state # "open"
      BY <1>1 DEF Closed
<1>3. \A c \in Conns : work'[c].at = "idle" /\ work'[c].temp = None /\ ~Serving(c)' /\ ~Unread(c)'
      BY <1>2 DEF Idle, Serving, Unread
<1>4. TypeOK'
  <2>1. work' \in [Conns -> Works] BY <1>1 DEF Works, Stages, Idle
  <2>2. conn' \in [Conns -> Connections] BY <1>1 DEF Connections, Inboxes, Closed
  <2>3. record' \in may' /\ may' \subseteq Nat BY <1>1 DEF TypeOK
  <2>4. made' \in Versions /\ acked' \in Versions /\ backlog' \in Seq(Conns) BY <1>1 DEF TypeOK
  <2>5. record' \in Nat BY <2>3
  <2> QED BY <1>2, <1>3, <2>1, <2>2, <2>3, <2>4, <2>5, Zenon DEF TypeOK
<1>5. Queue' BY <1>1, <1>2, <1>3 DEF Queue
<1>6. Progress' BY <1>3 DEF Progress, Saving
<1>7. Bounds' BY <1>1, <1>3 DEF Bounds
<1>8. Waiting' /\ Served' /\ InHand' /\ Answers'
      BY <1>1, <1>3 DEF Waiting, Served, InHand, Answers, Saving
<1> QED BY <1>4, <1>5, <1>6, <1>7, <1>8

(* XartStore: what waits is newer than what is stored, on every step. *)
LEMMA XartInvIsInductive ==
  ASSUME MaxVersion \in Nat, XartInv, [Next]_vars PROVE XartInv'
<1>1. CASE UNCHANGED vars
  <2> USE <1>1 DEF vars, XartInv, Serving, Unread, Version
  <2>1. TypeOK' /\ Queue' BY DEF TypeOK, Queue
  <2>2. Progress' /\ Bounds' /\ Answers' BY DEF Progress, Bounds, Answers
  <2>3. Waiting' BY DEF Waiting
  <2>4. Served' BY DEF Served
  <2>5. InHand' BY DEF InHand
  <2> QED BY <2>1, <2>2, <2>3, <2>4, <2>5
<1>2. CASE Crash \/ PowerLoss BY <1>2, ResetInv
<1>3. CASE \E c \in Conns : Serve(c)
  <2>1. PICK c \in Conns : Serve(c) BY <1>3
  <2> QED BY <2>1, AcceptInv, HelloInv, ReceiveInv, ReceiveNothingInv, FetchInv, RespondInv,
             CloseInv, CreateTemporaryInv, SyncTemporaryInv, RenameInv, SyncDirectoryInv,
             SaveFailsInv DEF Serve, Save
<1>4. CASE \E c \in Conns : T1(c)
  <2>1. PICK c \in Conns : T1(c) BY <1>4
  <2> QED BY <2>1, ConnectInv, TakeResponseInv, AbandonInv, SendInv DEF T1
<1> QED BY <1>1, <1>2, <1>3, <1>4 DEF Next

(* The save the T1 was told is stored survives, the record is whole and a   *)
(* fetch is current, whatever the number of connections and of versions.    *)
THEOREM XartSafety ==
  ASSUME MaxVersion \in Nat
  PROVE Spec => [](TypeOK /\ AcknowledgedSaveSurvives /\ RecordIsWhole /\ FetchIsCurrent)
<1>1. XartInv => TypeOK /\ AcknowledgedSaveSurvives /\ RecordIsWhole /\ FetchIsCurrent
  <2> SUFFICES ASSUME XartInv
               PROVE  TypeOK /\ AcknowledgedSaveSurvives /\ RecordIsWhole /\ FetchIsCurrent
      OBVIOUS
  <2>1. AcknowledgedSaveSurvives /\ RecordIsWhole
        BY DEF XartInv, TypeOK, Bounds, Versions, AcknowledgedSaveSurvives, RecordIsWhole
  <2>2. FetchIsCurrent
        BY DEF XartInv, TypeOK, Works, Answers, Versions, At, FetchIsCurrent
  <2> QED BY <2>1, <2>2 DEF XartInv
<1> QED BY <1>1, InitInv, XartInvIsInductive, PTL DEF Spec

=============================================================================
