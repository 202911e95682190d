------------------------------ MODULE XartStore ------------------------------
(***************************************************************************)
(* The xART record: the anti-replay blob that the T1 saves to the host and *)
(* fetches from it over TCP (xart_store.rs, xart_protocol.rs,              *)
(* xart_session.rs, the serving loop of xart_daemon.rs).                   *)
(*                                                                         *)
(* The T1 gives every blob it saves the next version.  A connection        *)
(* carries requests one at a time; the T1 may give up on a connection and  *)
(* open another while its request is still in the socket's buffer.  The    *)
(* daemon serves one accepted connection after the other.  Every file      *)
(* operation may fail, the daemon may be killed and the machine may lose   *)
(* power at any step.                                                      *)
(***************************************************************************)
EXTENDS Naturals, Sequences, FiniteSets

CONSTANTS Conns,       \* bound: the connections the T1 ever opens
          MaxVersion,  \* bound: the blobs it ever saves
          None         \* a model value: no request, nothing to answer

VARIABLES record,   \* the visible record: 0 when absent, a version, or Torn
          may,      \* the records a power loss may leave
          conn,     \* per connection: its state, unread requests, responses
          backlog,  \* the listening socket's accept queue
          work,     \* per connection: the daemon's progress in serving it
          made,     \* the last version the T1 produced
          acked     \* history: the last version answered with success

vars == <<record, may, conn, backlog, work, made, acked>>

Versions == 0..MaxVersion

Torn == MaxVersion + 1

\* A save of a well-formed blob, a fetch, a request that is answered with a
\* failure without reaching the store (handle_request, validate_wire_blob), a
\* frame that is not a property list, and a property list that does not decode.
Requests == [cmd : {"save"}, v : Versions] \cup
            [cmd : {"fetch", "refused", "other", "garbled"}, v : {0}]

Idle == [at |-> "idle", req |-> None, temp |-> None, ok |-> FALSE, v |-> 0]

Closed == [state |-> "unused", inbox |-> <<>>, out |-> None]

Init ==
  /\ record = 0
  /\ may = {0}
  /\ conn = [c \in Conns |-> Closed]
  /\ backlog = <<>>
  /\ work = [c \in Conns |-> Idle]
  /\ made = 0
  /\ acked = 0

At(c, at) == work[c].at = at

Go(c, at) == work' = [work EXCEPT ![c].at = at]

-----------------------------------------------------------------------------
(* The T1. *)

Connect(c) ==
  /\ conn[c].state = "unused"
  /\ \A d \in Conns : conn[d].state # "open"
  /\ conn' = [conn EXCEPT ![c].state = "open"]
  /\ backlog' = Append(backlog, c)
  /\ UNCHANGED <<record, may, work, made, acked>>

\* A request goes out once the previous one was answered.
Send(c, r) ==
  /\ conn[c].state = "open" /\ conn[c].inbox = <<>> /\ conn[c].out = None
  /\ work[c].req = None
  /\ r.cmd = "save" => r.v = made + 1
  /\ made' = IF r.cmd = "save" THEN r.v ELSE made
  /\ conn' = [conn EXCEPT ![c].inbox = <<r>>]
  /\ UNCHANGED <<record, may, backlog, work, acked>>

TakeResponse(c) ==
  /\ conn[c].state = "open" /\ conn[c].out # None
  /\ conn' = [conn EXCEPT ![c].out = None]
  /\ UNCHANGED <<record, may, backlog, work, made, acked>>

\* The T1 gives up on a connection: what it sent stays readable, or is lost
\* with a reset.
Abandon(c) ==
  /\ conn[c].state = "open"
  /\ \E inbox \in {conn[c].inbox, <<>>} :
       conn' = [conn EXCEPT ![c] = [state |-> "gone", inbox |-> inbox,
                                    out |-> None]]
  /\ UNCHANGED <<record, may, backlog, work, made, acked>>

-----------------------------------------------------------------------------
(* One connection: serve_next, serve_connection, handle_request. *)

\* XartDaemon::run serves the accepted connection to its end before it
\* accepts the next.
Accept(c) ==
  /\ \A d \in Conns : At(d, "idle")
  /\ Len(backlog) > 0 /\ c = Head(backlog)
  /\ backlog' = Tail(backlog)
  /\ Go(c, "hello")
  /\ UNCHANGED <<record, may, conn, made, acked>>

\* The exchange of hellos; the peer may be refused, silent or gone.
Hello(c) ==
  /\ At(c, "hello")
  /\ \E at \in {"receive", "close"} : Go(c, at)
  /\ UNCHANGED <<record, may, conn, backlog, made, acked>>

FirstStep(r) ==
  CASE r.cmd = "save" -> "create"
    [] r.cmd = "fetch" -> "fetch"
    [] r.cmd = "refused" -> "respond"
    [] r.cmd = "other" -> "receive"
    [] r.cmd = "garbled" -> "close"

Receive(c) ==
  /\ At(c, "receive") /\ conn[c].inbox # <<>>
  /\ LET r == Head(conn[c].inbox) IN
       /\ conn' = [conn EXCEPT ![c].inbox = Tail(@)]
       /\ work' = [work EXCEPT ![c] =
            [Idle EXCEPT !.at = FirstStep(r),
                         !.req = IF r.cmd \in {"other", "garbled"} THEN None ELSE r]]
  /\ UNCHANGED <<record, may, backlog, made, acked>>

\* End of stream, or thirty seconds without a frame.
ReceiveNothing(c) ==
  /\ At(c, "receive") /\ conn[c].inbox = <<>>
  /\ Go(c, "close")
  /\ UNCHANGED <<record, may, conn, backlog, made, acked>>

Fetch(c) ==
  /\ At(c, "fetch")
  /\ \E ok \in BOOLEAN :
       work' = [work EXCEPT ![c] = [@ EXCEPT !.at = "respond", !.ok = ok,
                                             !.v = IF ok THEN record ELSE 0]]
  /\ UNCHANGED <<record, may, conn, backlog, made, acked>>

\* The response is sent, or the connection fails under it.
Respond(c) ==
  /\ At(c, "respond")
  /\ acked' = IF work[c].ok /\ work[c].req.cmd = "save"
              THEN work[c].req.v ELSE acked
  /\ \/ /\ conn[c].state = "open"
        /\ conn' = [conn EXCEPT ![c].out = [ok |-> work[c].ok, v |-> work[c].v]]
        /\ work' = [work EXCEPT ![c] = [Idle EXCEPT !.at = "receive"]]
     \/ /\ work' = [work EXCEPT ![c] = [Idle EXCEPT !.at = "close"]]
        /\ UNCHANGED conn
  /\ UNCHANGED <<record, may, backlog, made>>

\* The stream is dropped; the loop goes on whatever the connection's result
\* was (disposition).
Close(c) ==
  /\ At(c, "close")
  /\ work' = [work EXCEPT ![c] = Idle]
  /\ conn' = [conn EXCEPT ![c] = [Closed EXCEPT !.state = "gone"]]
  /\ UNCHANGED <<record, may, backlog, made, acked>>

-----------------------------------------------------------------------------
(* XartStore::save, one file operation at a time. *)

\* prepare_directory, create_temporary_file, the mode and the bytes.
CreateTemporary(c) ==
  /\ At(c, "create")
  /\ work' = [work EXCEPT ![c] = [@ EXCEPT !.at = "sync", !.temp = "written"]]
  /\ UNCHANGED <<record, may, conn, backlog, made, acked>>

SyncTemporary(c) ==
  /\ At(c, "sync")
  /\ work' = [work EXCEPT ![c] = [@ EXCEPT !.at = "rename", !.temp = "synced"]]
  /\ UNCHANGED <<record, may, conn, backlog, made, acked>>

\* The visible record is replaced at once; after a power loss the name may
\* lead to either file, and to a torn one when its bytes were not synced.
Rename(c) ==
  /\ At(c, "rename")
  /\ record' = work[c].req.v
  /\ may' = may \cup {record'} \cup
            (IF work[c].temp = "synced" THEN {} ELSE {Torn})
  /\ work' = [work EXCEPT ![c] = [@ EXCEPT !.at = "syncdir", !.temp = None]]
  /\ UNCHANGED <<conn, backlog, made, acked>>

SyncDirectorySkipped(c) ==
  /\ At(c, "syncdir")
  /\ work' = [work EXCEPT ![c] = [@ EXCEPT !.at = "respond", !.ok = TRUE]]
  /\ UNCHANGED <<record, may, conn, backlog, made, acked>>

SyncDirectory(c) ==
  /\ At(c, "syncdir")
  /\ may' = {record} \cup (may \cap {Torn})
  /\ work' = [work EXCEPT ![c] = [@ EXCEPT !.at = "respond", !.ok = TRUE]]
  /\ UNCHANGED <<record, conn, backlog, made, acked>>

\* Any operation of save fails: the temporary file is removed (after the
\* rename there is none) and the caller gets an error.
SaveFails(c) ==
  /\ work[c].at \in {"create", "sync", "rename", "syncdir"}
  /\ work' = [work EXCEPT ![c] = [@ EXCEPT !.at = "respond", !.ok = FALSE, !.temp = None]]
  /\ UNCHANGED <<record, may, conn, backlog, made, acked>>

-----------------------------------------------------------------------------
(* Faults. *)

\* The daemon is killed and restarted; the kernel resets its connections.  A
\* temporary file it leaves is never opened again.
Crash ==
  /\ \E c \in Conns : ~At(c, "idle")
  /\ work' = [c \in Conns |-> Idle]
  /\ backlog' = <<>>
  /\ conn' = [c \in Conns |-> IF conn[c].state = "unused" THEN Closed
                              ELSE [Closed EXCEPT !.state = "gone"]]
  /\ UNCHANGED <<record, may, made, acked>>

PowerLoss ==
  /\ \E r \in may : record' = r /\ may' = {r}
  /\ work' = [c \in Conns |-> Idle]
  /\ backlog' = <<>>
  /\ conn' = [c \in Conns |-> IF conn[c].state = "unused" THEN Closed
                              ELSE [Closed EXCEPT !.state = "gone"]]
  /\ UNCHANGED <<made, acked>>

Save(c) == \/ CreateTemporary(c) \/ SyncTemporary(c) \/ Rename(c)
           \/ SyncDirectory(c) \/ SaveFails(c)

Serve(c) == \/ Accept(c) \/ Hello(c) \/ Receive(c) \/ ReceiveNothing(c)
            \/ Fetch(c) \/ Respond(c) \/ Close(c) \/ Save(c)

T1(c) == \/ Connect(c) \/ TakeResponse(c) \/ Abandon(c)
         \/ \E r \in Requests : Send(c, r)

Next == (\E c \in Conns : Serve(c) \/ T1(c)) \/ Crash \/ PowerLoss

Spec == Init /\ [][Next]_vars

-----------------------------------------------------------------------------
\* A save that was answered with success is never undone: no power loss, no
\* failed or interrupted later save, and no earlier save still buffered on a
\* connection the T1 gave up on, leaves the host with an older record.
AcknowledgedSaveSurvives == \A r \in may \cup {record} : r >= acked

\* The record is always one whole blob the T1 produced: a torn one would be
\* handed to the T1 unnoticed, because fetch checks only its size.
RecordIsWhole == \A r \in may : r <= made

\* A fetch answers with a record no older than the last acknowledged save, up
\* to the moment the response is sent.
FetchIsCurrent ==
  \A c \in Conns :
    At(c, "respond") /\ work[c].ok /\ work[c].req.cmd = "fetch" =>
      work[c].v \in acked..made

-----------------------------------------------------------------------------
(* The inductive invariant. *)

Saving == {"create", "sync", "rename"}

Stages == Saving \cup {"idle", "hello", "receive", "fetch", "syncdir", "respond", "close"}

Works == [at : Stages, req : Requests \cup {None}, temp : {None, "written", "synced"},
          ok : BOOLEAN, v : Nat]

Inboxes == {<<>>} \cup {<<r>> : r \in Requests}

Connections == [state : {"unused", "open", "gone"},
                inbox : Inboxes,
                out : {None} \cup [ok : BOOLEAN, v : Nat]]

Serving(c) == work[c].at # "idle"

\* The save a connection has sent and the daemon has not read.
Unread(c) == conn[c].inbox # <<>> /\ conn[c].inbox[1].cmd = "save"

Version(c) == conn[c].inbox[1].v

\* The type of the state; no connection but an opened one is worked on or has
\* anything to read.
TypeOK ==
  /\ record \in Nat /\ may \subseteq Nat /\ record \in may
  /\ made \in Versions /\ acked \in Versions
  /\ backlog \in Seq(Conns)
  /\ work \in [Conns -> Works]
  /\ conn \in [Conns -> Connections]
  /\ \A c \in Conns : conn[c].state = "unused" => conn[c].inbox = <<>> /\ ~Serving(c)

(* One connection is served at a time; the others wait in the order in     *)
(* which they were opened, and only the newest of all is still open.       *)
Queue ==
  /\ \A c, d \in Conns : Serving(c) /\ Serving(d) => c = d
  /\ \A c, d \in Conns : conn[c].state = "open" /\ conn[d].state = "open" => c = d
  /\ \A i \in 1..Len(backlog) :
       /\ ~Serving(backlog[i]) /\ conn[backlog[i]].state # "unused"
       /\ \A j \in 1..Len(backlog) : i < j =>
            backlog[i] # backlog[j] /\ conn[backlog[i]].state # "open"
  /\ \A c \in Conns : Serving(c) /\ Len(backlog) > 0 => conn[c].state # "open"

(* A stage of the service says what it has of the request and of the file. *)
Progress ==
  \A c \in Conns :
    /\ work[c].at \in Saving \cup {"syncdir"} =>
         work[c].req \in Requests /\ work[c].req.cmd = "save"
    /\ work[c].at = "rename" => work[c].temp = "synced"
    /\ work[c].temp # None => work[c].at \in {"sync", "rename"}
    /\ work[c].at = "fetch" => work[c].req \in Requests /\ work[c].req.cmd = "fetch"
    /\ work[c].at = "respond" => work[c].req \in Requests

(* What may be stored was made, and is no older than what was acknowledged. *)
Bounds ==
  /\ \A r \in may : acked <= r /\ r <= made
  /\ \A c \in Conns : Unread(c) => Version(c) \in Nat /\ Version(c) <= made

(* Saves are read in the order in which the T1 made them: what waits is     *)
(* newer than what may be stored, and newer the later it is read.           *)
Waiting ==
  \A i \in 1..Len(backlog) : Unread(backlog[i]) =>
    /\ \A r \in may : r < Version(backlog[i])
    /\ \A j \in 1..Len(backlog) :
         i < j /\ Unread(backlog[j]) => Version(backlog[i]) < Version(backlog[j])

Served ==
  \A c \in Conns : Serving(c) /\ Unread(c) =>
    /\ \A r \in may : r < Version(c)
    /\ \A j \in 1..Len(backlog) : Unread(backlog[j]) => Version(c) < Version(backlog[j])

(* The save in hand is newer than what may be stored and older than what    *)
(* still waits.                                                             *)
InHand ==
  \A c \in Conns : work[c].at \in Saving =>
    /\ work[c].req.v \in Nat /\ work[c].req.v <= made
    /\ \A r \in may : r < work[c].req.v
    /\ Unread(c) => work[c].req.v < Version(c)
    /\ \A j \in 1..Len(backlog) :
         Unread(backlog[j]) => work[c].req.v < Version(backlog[j])

(* What is about to be answered with success is what is stored. *)
Answers ==
  \A c \in Conns :
    /\ work[c].at = "syncdir" => record = work[c].req.v
    /\ work[c].at = "respond" /\ work[c].ok =>
         /\ work[c].req.cmd = "save" => may = {work[c].req.v}
         /\ work[c].req.cmd = "fetch" => acked <= work[c].v /\ work[c].v <= made

\* Why no earlier save is stored over an acknowledged one: the invariant that
\* every step of the T1, the daemon and the faults preserves.
XartInv == TypeOK /\ Queue /\ Progress /\ Bounds /\ Waiting /\ Served /\ InHand /\ Answers

=============================================================================
