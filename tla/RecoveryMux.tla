---------------------------- MODULE RecoveryMux ----------------------------
(***************************************************************************)
(* One channel of the USB multiplexer of the online recovery               *)
(* (recovery/mux.rs) carrying one factory-data connection                  *)
(* (recovery/fdr_proxy.rs) between the T1 and Apple's service: the         *)
(* TCP-like channel with sequence numbers, windows, FIN and RST, and the   *)
(* worker that greets the T1, connects and tunnels both directions.        *)
(*                                                                         *)
(* The bulk pipes are reliable and ordered. A part of a handshake message  *)
(* that the worker takes at once and a byte of the tunnel are one item     *)
(* each; sequence numbers are modulo Modulus. The T1 and the service are   *)
(* external; the T1 follows the protocol until it resets the channel. With *)
(* one channel the sum of all buffers (mux.rs:290) has no limit of its own.*)
(***************************************************************************)
EXTENDS Naturals, SequencesExt

CONSTANTS DataOut,     \* items the T1 sends through the tunnel
          DataIn,      \* items the service answers
          Modulus,     \* of the sequence numbers
          Capacity,    \* of the channel's input, and of its output
          DevCapacity, \* of the T1's receive buffer
          Unit,        \* granularity of a window (1 << 8)
          Payload,     \* items in one packet
          Chunk,       \* items the tunnel takes at once (64 KiB)
          Backlog,     \* output that stops the reading of the service
          MaxFaults    \* resets by the T1, failures of the service's socket

VARIABLES
    pc,       \* the host's loop: mux.poll, then fdr_proxy.poll
    ch,       \* the channel
    worker,
    err,      \* why the recovery failed
    dev,      \* the T1's end
    srv,      \* the service's end
    toDev, toHost,  \* the bulk pipes
    faults

vars == <<pc, ch, worker, err, dev, srv, toDev, toHost, faults>>

Outside == <<dev, srv, faults>>

Add(a, b) == (a + b) % Modulus
Sub(a, b) == (a + Modulus - b) % Modulus
Least(S) == CHOOSE x \in S : \A y \in S : x <= y
Window(capacity, held) == ((capacity - held) \div Unit) * Unit

\* What the T1 says in order, and what it needs to have heard before.
Greeting == <<"HelloConn", "plist", "Ping", "socks", "greeting", "socks", "connect">>
Says == Greeting \o [i \in 1..DataOut |-> "out"]
Hears == <<"HelloConn", "Pong", "method", "connected">> \o [i \in 1..DataIn |-> "in"]
HeardBefore == <<1, 1, 1, 2, 2, 3, 3>> \o [i \in 1..DataOut |-> 4]

Packet(flags, seq, ack, window, data) ==
    [flags |-> flags, seq |-> seq, ack |-> ack, window |-> window, data |-> data]

Init ==
    /\ pc = "mux"
    /\ ch = [there |-> TRUE, connected |-> FALSE, closed |-> FALSE, fin_sent |-> FALSE,
             send_next |-> 1, send_ack |-> 0, receive_next |-> 0, window |-> 0,
             input |-> <<>>, output |-> <<>>]
    /\ worker = [state |-> "Connecting", greeted |-> FALSE, pending |-> <<>>, written |-> 0]
    /\ err = "none"
    /\ dev = [open |-> FALSE, next |-> 0, una |-> 0, receive_next |-> 0, window |-> 0,
              said |-> 0, buffer |-> <<>>, heard |-> <<>>, fin_sent |-> FALSE,
              fin_seen |-> FALSE, reset |-> FALSE, bad |-> FALSE]
    /\ srv = [open |-> FALSE, got |-> <<>>, sent |-> 0, eof |-> FALSE]
    /\ toDev = <<Packet({"SYN"}, 0, 0, Window(Capacity, 0), <<>>)>>
    /\ toHost = <<>> /\ faults = 0

-----------------------------------------------------------------------------
(* The channel (mux.rs). An operation yields the channel and the packets   *)
(* it sends.                                                               *)

Tcp(c, flags, data) ==
    Packet(flags, c.send_next, c.receive_next, Window(Capacity, Len(c.input)), data)

Drained(c) == c.output = <<>> /\ c.send_next = c.send_ack

\* flush: as much as the T1's window still takes, one packet.
Flush(c) ==
    LET inFlight == Sub(c.send_next, c.send_ack)
        sendable == IF c.window > inFlight THEN c.window - inFlight ELSE 0
        count == Least({sendable, Payload, Len(c.output)})
        data == SubSeq(c.output, 1, count)
    IN IF ~c.connected \/ c.closed \/ count = 0 THEN [ch |-> c, out |-> <<>>]
       ELSE [ch |-> [c EXCEPT !.output = SubSeq(@, count + 1, Len(@)),
                              !.send_next = Add(@, count)],
             out |-> <<Tcp(c, {"ACK"}, data)>>]

Quiet(c) == [ch |-> c, out |-> <<>>, err |-> "none"]
Invalid(c) == [ch |-> c, out |-> <<>>, err |-> "invalid"]

\* A connection is established by a SYN-ACK of our SYN and nothing else.
Establish(c, p) ==
    IF p.flags # {"SYN", "ACK"} \/ p.ack # 1 \/ p.data # <<>> THEN Invalid(c)
    ELSE LET n == [c EXCEPT !.receive_next = Add(p.seq, 1), !.send_ack = p.ack,
                            !.connected = TRUE]
         IN [ch |-> n, out |-> <<Tcp(n, {"ACK"}, <<>>)>>, err |-> "none"]

\* Data and FIN in sequence, acknowledged.
Accept(c, p) ==
    LET n == [c EXCEPT !.send_ack = p.ack, !.input = @ \o p.data,
                       !.receive_next = Add(@, Len(p.data) + (IF "FIN" \in p.flags THEN 1 ELSE 0)),
                       !.closed = "FIN" \in p.flags]
    IN [ch |-> n, err |-> "none",
        out |-> IF p.data # <<>> \/ "FIN" \in p.flags THEN <<Tcp(n, {"ACK"}, <<>>)>> ELSE <<>>]

\* input_tcp.
InputTcp(c, p) ==
    IF ~c.there THEN Quiet(c)
    ELSE IF "RST" \in p.flags THEN Quiet([c EXCEPT !.closed = TRUE])
    ELSE IF c.closed THEN Quiet(c)
    ELSE LET w == [c EXCEPT !.window = p.window] IN
         IF ~c.connected THEN Establish(w, p)
         ELSE IF \/ "ACK" \notin p.flags \/ p.seq # c.receive_next
                 \/ Sub(p.ack, c.send_ack) > Sub(c.send_next, c.send_ack)
                 \/ Len(p.data) > Capacity - Len(c.input)
              THEN Invalid(w)
              ELSE Accept(w, p)

\* send: refused once either side has closed, and beyond the capacity.
Send(c, items) ==
    IF c.closed \/ c.fin_sent \/ Len(items) > Capacity - Len(c.output) THEN Invalid(c)
    ELSE Quiet([c EXCEPT !.output = @ \o items])

\* take: the items go, and the T1 hears of the larger window.
Take(c, count) ==
    LET n == [c EXCEPT !.input = SubSeq(@, count + 1, Len(@))] IN
    [ch |-> n, items |-> SubSeq(c.input, 1, count),
     out |-> IF count > 0 /\ c.connected /\ ~c.closed THEN <<Tcp(n, {"ACK"}, <<>>)>> ELSE <<>>]

\* finish: the FIN, once everything is acknowledged.
Finish(c) ==
    [ch |-> [c EXCEPT !.fin_sent = TRUE, !.send_next = Add(@, 1)],
     out |-> <<Tcp(c, {"FIN", "ACK"}, <<>>)>>]

\* close: a reset, unless either side has closed.
Close(c) ==
    [ch |-> [c EXCEPT !.there = FALSE],
     out |-> IF c.closed \/ c.fin_sent THEN <<>> ELSE <<Tcp(c, {"RST"}, <<>>)>>]

-----------------------------------------------------------------------------
(* The host's loop.                                                        *)

Running == err = "none" /\ ch.there

\* Every packet of what was read, until one is refused.
InputAll(c, packets) ==
    FoldLeft(LAMBDA done, p :
               IF done.err # "none" THEN done
               ELSE LET r == InputTcp(done.ch, p) IN [r EXCEPT !.out = done.out \o @],
             Quiet(c), packets)

\* mux.poll: flush, then whatever one read of the pipe returns, which may be
\* nothing or several packets; of a torn one the rest is waited for.
PollMux ==
    /\ Running /\ pc = "mux" /\ pc' = "worker"
    /\ \E n \in 0..Len(toHost) :
          LET f == Flush(ch)
              r == InputAll(f.ch, SubSeq(toHost, 1, n))
          IN /\ ch' = r.ch /\ err' = r.err /\ toDev' = toDev \o f.out \o r.out
             /\ toHost' = SubSeq(toHost, n + 1, Len(toHost))
    /\ UNCHANGED <<worker, Outside>>

Host(c, w, out) ==
    /\ ch' = c /\ worker' = w /\ toDev' = toDev \o out
    /\ pc' = "mux" /\ UNCHANGED toHost

Idles == Host(ch, worker, <<>>) /\ UNCHANGED <<err, Outside>>

Served == worker.written = Len(worker.pending)

\* A worker whose T1 has closed and whose items are all forwarded goes.
Retire ==
    LET r == Close(ch) IN
    Host(r.ch, [worker EXCEPT !.state = "Gone"], r.out) /\ UNCHANGED err

\* What the worker expects in each state, its reply and its next state.
Expects ==
    [Hello |-> {"HelloConn"}, Command |-> {"plist", "socks"}, Plist |-> {"Ping"},
     SocksGreeting |-> {"greeting"}, SocksConnect |-> {"connect"}]
Reply == [Plist |-> "Pong", SocksGreeting |-> "method", SocksConnect |-> "connected"]
After(w, item) ==
    CASE item = "plist" -> "Plist"
      [] item = "socks" -> IF w.greeted THEN "SocksConnect" ELSE "SocksGreeting"
      [] item = "connect" -> "Tunnel"
      [] OTHER -> "Command"

\* One item is taken and perhaps answered.  A worker that is to answer on a
\* channel the T1 has closed meanwhile fails.
Handshake ==
    LET t == Take(ch, 1)
        item == ch.input[1]
        s == IF item \notin Expects[worker.state] THEN Invalid(t.ch)
             ELSE IF worker.state \in DOMAIN Reply THEN Send(t.ch, <<Reply[worker.state]>>)
             ELSE Quiet(t.ch)
        w == [worker EXCEPT !.state = After(worker, item), !.greeted = @ \/ item = "greeting"]
    IN /\ worker.state \in DOMAIN Expects /\ ch.input # <<>> /\ UNCHANGED dev
       /\ \/ /\ err' = s.err /\ Host(s.ch, IF s.err = "none" THEN w ELSE worker, t.out)
             /\ srv' = [srv EXCEPT !.open = item = "connect"] /\ UNCHANGED faults
          \/ /\ item = "connect" /\ faults < MaxFaults /\ faults' = faults + 1
             /\ err' = "connect"                         \* connect_apple
             /\ Host(t.ch, worker, t.out) /\ UNCHANGED srv

\* Worker::poll before the tunnel.
PollWorker ==
    \/ /\ worker.state = "Connecting" /\ UNCHANGED Outside
       /\ LET up == ch.connected /\ ~ch.closed
              s == IF up THEN Send(ch, <<"HelloConn">>) ELSE Quiet(ch)
          IN /\ err' = IF ch.closed THEN "refused" ELSE s.err
             /\ Host(s.ch, [worker EXCEPT !.state = IF up THEN "Hello" ELSE @], <<>>)
    \/ Handshake
    \/ worker.state \in DOMAIN Expects /\ ch.input = <<>> /\ Idles

\* The first half of tunnel: what the T1 sent becomes pending.
Pending(w, c) ==
    LET t == Take(c, Least({Len(c.input), Chunk})) IN
    IF w.written = Len(w.pending)
    THEN [w |-> [w EXCEPT !.pending = t.items, !.written = 0], ch |-> t.ch, out |-> t.out]
    ELSE [w |-> w, ch |-> c, out |-> <<>>]

\* The items waiting are dropped with the channel.
DoneEarly(w, c) == TRUE

\* After the T1 has closed, the worker is done when all is written.
DoneClosed(w, c) == w.written = Len(w.pending) /\ c.input = <<>>

\* The FIN waits until the T1 has acknowledged everything.
EndsDrained(c) == Drained(c)

\* The second half: what the service says goes to the channel, and its end is
\* passed on.
TunnelBack(c, w, s, out) ==
    IF c.closed
    THEN /\ LET r == Close(c) IN
            IF DoneClosed(w, c) THEN Host(r.ch, [w EXCEPT !.state = "Gone"], out \o r.out)
            ELSE Host(c, w, out)
         /\ srv' = s /\ UNCHANGED err
    ELSE \/ Host(c, w, out) /\ srv' = s /\ UNCHANGED err      \* it would block
         \/ /\ s.eof /\ EndsDrained(c) /\ w.written = Len(w.pending) /\ srv' = s
            /\ LET f == Finish(c) IN Host(f.ch, [w EXCEPT !.state = "Finishing"], out \o f.out)
            /\ UNCHANGED err
         \/ /\ s.eof /\ EndsDrained(c) /\ w.written # Len(w.pending) /\ srv' = s
            /\ err' = "unsent" /\ Host(c, w, out)
         \/ /\ Len(c.output) < Backlog /\ s.sent < DataIn
            /\ LET n == Send(c, <<"in">>) IN err' = n.err /\ Host(n.ch, w, out)
            /\ srv' = [s EXCEPT !.sent = @ + 1]

\* The socket takes n of the pending items; what a service that has closed
\* is sent is lost.
Written(w, n) ==
    IF srv.eof THEN srv
    ELSE [srv EXCEPT !.got = @ \o SubSeq(w.pending, w.written + 1, w.written + n)]

Tunnel ==
    LET f == Pending(worker, ch)
        rest == Len(f.w.pending) - f.w.written
    IN /\ worker.state = "Tunnel" /\ UNCHANGED dev
       /\ \/ \E n \in 0..rest :
                /\ TunnelBack(f.ch, [f.w EXCEPT !.written = @ + n], Written(f.w, n), f.out)
                /\ UNCHANGED faults
          \/ /\ IF rest > 0 /\ srv.eof THEN UNCHANGED faults
                ELSE faults < MaxFaults /\ faults' = faults + 1
             /\ err' = "socket" /\ Host(f.ch, f.w, f.out) /\ UNCHANGED srv

\* In Finishing the worker waits for the acknowledgement of its FIN.
Finishing ==
    /\ worker.state = "Finishing" /\ UNCHANGED <<err, Outside>>
    /\ LET r == Close(ch) IN
       IF Drained(ch) THEN Host(r.ch, [worker EXCEPT !.state = "Gone"], r.out)
       ELSE Host(ch, worker, <<>>)

\* fdr_proxy.poll for this worker.
PollFdr ==
    /\ Running /\ pc = "worker"
    /\ IF ch.closed /\ ch.input = <<>> /\ Served
       THEN Retire /\ UNCHANGED Outside
       ELSE PollWorker \/ Tunnel \/ Finishing

-----------------------------------------------------------------------------
(* The T1 (external).                                                      *)

DevPacket(d, flags, data) ==
    Packet(flags, d.next, d.receive_next, Window(DevCapacity, Len(d.buffer)), data)

Says1(d) == d.open /\ ~d.fin_sent /\ ~d.reset

DevReceive ==
    /\ toDev # <<>> /\ toDev' = Tail(toDev)
    /\ LET p == Head(toDev)
           d == [dev EXCEPT !.una = p.ack, !.window = p.window]
           fin == "FIN" \in p.flags
           n == [d EXCEPT !.buffer = @ \o p.data, !.fin_seen = @ \/ fin,
                          !.receive_next = Add(@, Len(p.data) + (IF fin THEN 1 ELSE 0)),
                          !.bad = @ \/ p.seq # dev.receive_next
                                    \/ Len(p.data) > DevCapacity - Len(dev.buffer)]
           o == [dev EXCEPT !.open = TRUE, !.receive_next = Add(p.seq, 1), !.window = p.window,
                            !.next = 1]
       IN IF dev.reset THEN UNCHANGED <<dev, toHost>>
          ELSE IF "SYN" \in p.flags
          THEN dev' = o /\ toHost' = Append(toHost, [DevPacket(o, {"SYN", "ACK"}, <<>>)
                                                     EXCEPT !.seq = 0])
          ELSE /\ dev' = n
               /\ toHost' = IF p.data # <<>> \/ fin THEN Append(toHost, DevPacket(n, {"ACK"}, <<>>))
                            ELSE toHost
    /\ UNCHANGED <<pc, ch, worker, err, srv, faults>>

DevRead ==
    /\ dev.buffer # <<>> /\ ~dev.reset
    /\ LET n == [dev EXCEPT !.heard = @ \o dev.buffer, !.buffer = <<>>] IN
       dev' = n /\ toHost' = Append(toHost, DevPacket(n, {"ACK"}, <<>>))
    /\ UNCHANGED <<pc, ch, worker, err, srv, toDev, faults>>

\* The next thing to say, if the host's window takes it; its last one may
\* carry the FIN.
DevSay ==
    /\ Says1(dev) /\ dev.said < Len(Says) /\ Len(dev.heard) >= HeardBefore[dev.said + 1]
    /\ Sub(dev.next, dev.una) < dev.window
    /\ \E fin \in IF dev.said + 1 = Len(Says) THEN BOOLEAN ELSE {FALSE} :
          LET n == [dev EXCEPT !.next = Add(@, IF fin THEN 2 ELSE 1), !.said = @ + 1,
                               !.fin_sent = fin] IN
          /\ dev' = n
          /\ toHost' = Append(toHost, DevPacket(dev, {"ACK"} \union (IF fin THEN {"FIN"} ELSE {}),
                                               <<Says[dev.said + 1]>>))
    /\ UNCHANGED <<pc, ch, worker, err, srv, toDev, faults>>

\* Nothing listens on that port of the T1.
DevRefuses ==
    /\ ~dev.open /\ ~dev.reset /\ faults < MaxFaults /\ faults' = faults + 1
    /\ dev' = [dev EXCEPT !.reset = TRUE]
    /\ toHost' = Append(toHost, DevPacket(dev, {"RST", "ACK"}, <<>>))
    /\ UNCHANGED <<pc, ch, worker, err, srv, toDev>>

\* It closes when it has said all, or has heard the host's FIN.
DevFin ==
    /\ Says1(dev) /\ (dev.said = Len(Says) \/ dev.fin_seen)
    /\ dev' = [dev EXCEPT !.fin_sent = TRUE, !.next = Add(@, 1)]
    /\ toHost' = Append(toHost, DevPacket(dev, {"FIN", "ACK"}, <<>>))
    /\ UNCHANGED <<pc, ch, worker, err, srv, toDev, faults>>

DevReset ==
    /\ Says1(dev) /\ faults < MaxFaults /\ faults' = faults + 1
    /\ dev' = [dev EXCEPT !.reset = TRUE]
    /\ toHost' = Append(toHost, DevPacket(dev, {"RST"}, <<>>))
    /\ UNCHANGED <<pc, ch, worker, err, srv, toDev>>

\* The service closes its connection once it has answered.
SrvCloses ==
    /\ srv.open /\ ~srv.eof /\ srv.sent = DataIn /\ srv' = [srv EXCEPT !.eof = TRUE]
    /\ UNCHANGED <<pc, ch, worker, err, dev, toDev, toHost, faults>>

Peers == DevReceive \/ DevRead \/ DevSay \/ DevFin

\* The worker can only wait for the T1.
Waiting ==
    \/ worker.state = "Connecting" /\ ~ch.connected /\ ~ch.closed
    \/ worker.state \in DOMAIN Expects /\ ch.input = <<>> /\ ~ch.closed
    \/ /\ worker.state = "Tunnel" /\ ch.input = <<>> /\ ~ch.closed /\ Served
       /\ srv.sent = DataIn /\ ~srv.eof
    \/ worker.state = "Finishing" /\ ~Drained(ch) /\ (ch.closed => ch.input # <<>>)

\* 180 seconds pass although the T1 has nothing left to do.
Timeout ==
    /\ Running /\ pc = "worker" /\ Waiting /\ toHost = <<>> /\ ch.output = <<>>
    /\ ~ENABLED Peers
    /\ err' = "timeout" /\ UNCHANGED <<pc, ch, worker, Outside, toDev, toHost>>

Loop == PollMux \/ PollFdr
Next == Loop \/ Timeout \/ Peers \/ DevReset \/ DevRefuses \/ SrvCloses
Spec == Init /\ [][Next]_vars


-----------------------------------------------------------------------------
\* Types; the host's view of what is in flight agrees with the modulus, and
\* both buffers keep their limits.
TypeOK ==
    /\ {ch.send_next, ch.send_ack, ch.receive_next} \subseteq 0..(Modulus - 1)
    /\ Len(ch.input) <= Capacity /\ Len(dev.buffer) <= DevCapacity
    /\ worker.written <= Len(worker.pending)
    /\ worker.state = "Gone" <=> ~ch.there

\* Both directions deliver in order, without loss or repetition in between:
\* the T1 hears the greeting's answers and then the service, the service gets
\* the tunnelled items only.
InOrder ==
    /\ IsPrefix(dev.heard \o dev.buffer, Hears)
    /\ IsPrefix(srv.got, [i \in 1..DataOut |-> "out"])

\* A T1 that follows the protocol is never sent more than its window takes or
\* a packet out of sequence.
HostConforms == ~dev.bad

\* A T1 that follows the protocol makes the recovery fail as invalid in one
\* way only: it reset the channel behind a request that was still to answer.
NeverMisjudged ==
    err = "invalid" => dev.reset /\ ch.closed /\ worker.state \in DOMAIN Reply

\* When the worker goes, the service, unless it closed first, has everything
\* the T1 sent; and the T1 is told that the service ended only when it holds
\* everything the service said.
NothingLost ==
    /\ worker.state = "Gone" /\ ~dev.reset /\ ~srv.eof =>
          srv.got = [i \in 1..DataOut |-> "out"]
    /\ worker.state = "Finishing" => Len(dev.heard) + Len(dev.buffer) = Len(Hears)

\* With a T1 that answers, the idle limit strikes only in one situation: the
\* T1's last items and its FIN crossed the host's FIN, so that neither the
\* items are read nor the acknowledgement is looked at.
Crossed == worker.state = "Finishing" /\ ch.closed /\ ch.input # <<>>

TimesOutOnlyCrossed == err = "timeout" => Crossed

=============================================================================
