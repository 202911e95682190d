------------------------------- MODULE NcmLink -------------------------------
(***************************************************************************)
(* The private network link to the T1 and the services bound to it: the    *)
(* readiness check (t1_ncm_ready.c), the xART listener (t1_xart_listener.c,*)
(* xart_live.rs, xart_service.rs, xart_daemon.rs) and the systemd units    *)
(* that start and stop one instance of each per interface name.            *)
(*                                                                         *)
(* The T1 re-enumerates at any moment: its interface vanishes and comes    *)
(* back with a fresh index, under the old name or another; an unrelated    *)
(* device may take the name that was freed.  An index is never reused and  *)
(* an interface keeps its name (50-t1bridge-ncm.link).  systemd learns of  *)
(* both through udev events, in order but late.                            *)
(***************************************************************************)
EXTENDS Naturals, Sequences, FiniteSets

CONSTANTS Names,      \* interface names
          MaxIndex,   \* bound: interfaces ever created
          Faults,     \* bound: transient failures of a service's system calls
          ReadyFaults \* whether the readiness check may meet one as well

VARIABLES net,     \* the interface behind each name: its index, and whether
                   \* it is the T1's; index 0 when there is none
          last,    \* the last interface index the kernel gave out
          t1s,     \* history: the indices that were the T1's
          usable,  \* indices with the link up and a settled link-local address
          up,      \* indices whose link was set up
          events,  \* udev events systemd has not handled
          device,  \* names whose device unit systemd holds plugged
          ready,   \* per name: t1-ncm-ready@name
          xart,    \* per name: t1-xart-storage@name
          term,    \* names whose storage process was sent SIGTERM and lives
          faults   \* the transient failures so far

vars == <<net, last, t1s, usable, up, events, device, ready, xart, term,
          faults>>

kernel == <<net, last, t1s, usable, up>>

Gone == [index |-> 0, t1 |-> FALSE]

Off == [at |-> "off", sel |-> 0, name |-> "none", bound |-> 0]

Init ==
  /\ net = [n \in Names |-> Gone]
  /\ last = 0 /\ t1s = {} /\ usable = {} /\ up = {}
  /\ events = <<>>
  /\ device = {}
  /\ ready = [n \in Names |-> Off]
  /\ xart = [n \in Names |-> Off]
  /\ term = {}
  /\ faults = 0

Present(i) == \E n \in Names : net[n].index = i /\ i # 0

NameOf(i) == CHOOSE n \in Names : net[n].index = i

T1Names == {n \in Names : net[n].t1}

-----------------------------------------------------------------------------
(* The kernel. *)

Plug(n, t1) ==
  /\ net[n] = Gone /\ last < MaxIndex
  /\ t1 => T1Names = {}
  /\ last' = last + 1
  /\ net' = [net EXCEPT ![n] = [index |-> last', t1 |-> t1]]
  /\ t1s' = IF t1 THEN t1s \cup {last'} ELSE t1s
  /\ events' = IF t1 THEN Append(events, <<"add", n>>) ELSE events
  /\ UNCHANGED <<term, usable, up, device, ready, xart, faults>>

Unplug(n) ==
  /\ net[n] # Gone
  /\ net' = [net EXCEPT ![n] = Gone]
  /\ usable' = usable \ {net[n].index}
  /\ up' = up \ {net[n].index}
  /\ events' = IF net[n].t1 THEN Append(events, <<"remove", n>>) ELSE events
  /\ UNCHANGED <<term, last, t1s, device, ready, xart, faults>>

\* Duplicate address detection ends on a link that is up.
AddressSettles(i) ==
  /\ i \in up \ usable
  /\ usable' = usable \cup {i}
  /\ UNCHANGED <<term, net, last, t1s, up, events, device, ready, xart, faults>>

-----------------------------------------------------------------------------
(* systemd: the udev rule's SYSTEMD_WANTS, and the units' BindsTo, Requires, *)
(* After and Restart.                                                       *)

HandleAdd ==
  /\ events # <<>> /\ Head(events)[1] = "add"
  /\ events' = Tail(events)
  /\ LET n == Head(events)[2] IN
       /\ device' = device \cup {n}
       /\ ready' = IF ready[n].at = "off" THEN [ready EXCEPT ![n].at = "name"] ELSE ready
       /\ xart' = IF xart[n].at = "off" THEN [xart EXCEPT ![n].at = "wait"] ELSE xart
  /\ UNCHANGED <<term, kernel, faults>>

HandleRemoveUnbound ==
  /\ events # <<>> /\ Head(events)[1] = "remove"
  /\ events' = Tail(events)
  /\ device' = device \ {Head(events)[2]}
  /\ ready' = [ready EXCEPT ![Head(events)[2]] = Off]
  /\ UNCHANGED <<term, kernel, xart, faults>>

\* Both units are stopped, whatever they are doing.  The storage process runs
\* on until the signal ends it; only then can its unit start again.
HandleRemove ==
  /\ events # <<>> /\ Head(events)[1] = "remove"
  /\ events' = Tail(events)
  /\ LET n == Head(events)[2] IN
       /\ device' = device \ {n}
       /\ ready' = [ready EXCEPT ![n] = Off]
       /\ \/ /\ xart[n].at \in {"off", "wait", "failed"}
             /\ xart' = [xart EXCEPT ![n] = Off]
             /\ UNCHANGED term
          \/ /\ xart[n].at \notin {"off", "wait", "failed"}
             /\ term' = term \cup {n}
             /\ UNCHANGED xart
  /\ UNCHANGED <<kernel, faults>>

\* The process is gone; a start that was asked for meanwhile begins now.
Terminated(n) ==
  /\ n \in term
  /\ term' = term \ {n}
  /\ xart' = [xart EXCEPT ![n] = [Off EXCEPT !.at = IF n \in device THEN "wait" ELSE "off"]]
  /\ UNCHANGED <<kernel, events, device, ready, faults>>

\* The storage service waits for the readiness unit; its failure is a failed
\* dependency, which no Restart= revives.
StartStorage(n) ==
  /\ xart[n].at = "wait"
  /\ \/ ready[n].at = "active" /\ xart' = [xart EXCEPT ![n].at = "discover"]
     \/ ready[n].at = "off" /\ xart' = [xart EXCEPT ![n].at = "off"]
  /\ UNCHANGED <<term, kernel, events, device, ready, faults>>

\* Restart=on-failure, two seconds later.
RestartStorage(n) ==
  /\ xart[n].at = "failed" /\ n \notin term
  /\ xart' = [xart EXCEPT ![n] = [Off EXCEPT !.at = "discover"]]
  /\ UNCHANGED <<term, kernel, events, device, ready, faults>>

-----------------------------------------------------------------------------
(* t1_ncm_ready_prepare_for_interface, for the name the unit was given. *)

Ready(n, at) == ready[n].at = at

\* A failed check, or a transient failure of a call, ends the unit.
ReadyStep(n, ok, at) ==
  \/ /\ ok
     /\ ready' = [ready EXCEPT ![n].at = at]
     /\ UNCHANGED faults
  \/ /\ ~ok
     /\ ready' = [ready EXCEPT ![n] = Off]
     /\ UNCHANGED faults
  \/ /\ ReadyFaults /\ faults < Faults
     /\ faults' = faults + 1
     /\ ready' = [ready EXCEPT ![n] = Off]

NameToIndex(n) ==
  /\ Ready(n, "name")
  /\ \/ /\ net[n] # Gone
        /\ ready' = [ready EXCEPT ![n].at = "discover", ![n].sel = net[n].index]
     \/ net[n] = Gone /\ ready' = [ready EXCEPT ![n] = Off]
  /\ UNCHANGED <<term, kernel, events, device, xart, faults>>

\* t1_xart_interface_discover: exactly one interface with the T1's driver and
\* USB identity.
Discovers(i) == \E n \in T1Names : net[n].index = i

Discover(n) ==
  /\ Ready(n, "discover")
  /\ ReadyStep(n, Discovers(ready[n].sel), "set_up")
  /\ UNCHANGED <<term, kernel, events, device, xart>>

\* RTM_NEWLINK by index.
SetUp(n) ==
  /\ Ready(n, "set_up")
  /\ ReadyStep(n, Present(ready[n].sel), "poll")
  /\ up' = IF Ready(n, "set_up") /\ ready'[n].at = "poll"
           THEN up \cup {ready[n].sel} ELSE up
  /\ UNCHANGED <<term, net, last, t1s, usable, events, device, xart>>

\* The address dump finds a usable address; otherwise the loop waits for the
\* next poll, up to the deadline, which passes only when the interface is gone
\* or as a transient failure.
IsReady(n) ==
  /\ Ready(n, "poll")
  /\ ready[n].sel \in usable \/ ~Present(ready[n].sel) \/ (ReadyFaults /\ faults < Faults)
  /\ ReadyStep(n, ready[n].sel \in usable, "revalidate")
  /\ UNCHANGED <<term, kernel, events, device, xart>>

Revalidate(n) ==
  /\ Ready(n, "revalidate")
  /\ ReadyStep(n, Discovers(ready[n].sel), "confirm")
  /\ UNCHANGED <<term, kernel, events, device, xart>>

Confirm(n) ==
  /\ Ready(n, "confirm")
  /\ ReadyStep(n, net[n].index = ready[n].sel, "active")
  /\ UNCHANGED <<term, kernel, events, device, xart>>

-----------------------------------------------------------------------------
(* The storage daemon: t1_xart_listener_open, then the accept loop. *)

Xart(n, at) == xart[n].at = at

\* A failure closes the socket; the process exits with a failure status.
Exit(n) == xart' = [xart EXCEPT ![n] = [Off EXCEPT !.at = "failed"]]

Transient(n) ==
  /\ faults < Faults
  /\ faults' = faults + 1
  /\ Exit(n)

Select(n) ==
  /\ Xart(n, "discover")
  /\ \/ \E m \in T1Names :
          xart' = [xart EXCEPT ![n].at = "bind", ![n].sel = net[m].index]
     \/ T1Names = {} /\ Exit(n)
  /\ UNCHANGED <<term, kernel, events, device, ready, faults>>

\* if_indextoname and SO_BINDTODEVICE by that name, as two steps.
IndexToName(n) ==
  /\ Xart(n, "bind")
  /\ \/ /\ Present(xart[n].sel)
        /\ xart' = [xart EXCEPT ![n].at = "bindto", ![n].name = NameOf(xart[n].sel)]
     \/ ~Present(xart[n].sel) /\ Exit(n)
  /\ UNCHANGED <<term, kernel, events, device, ready, faults>>

\* bind() on the port fails while another socket is bound to it on the same
\* interface.
BindToDevice(n) ==
  /\ Xart(n, "bindto")
  /\ LET i == net[xart[n].name].index
         free == i # 0 /\ \A o \in Names : xart[o].bound # i IN
       \/ free /\ xart' = [xart EXCEPT ![n].at = "check", ![n].bound = i]
       \/ ~free /\ Exit(n)
  /\ UNCHANGED <<term, kernel, events, device, ready, faults>>

\* bound_interface: the socket's interface, by its name.
CheckBound(n) ==
  /\ Xart(n, "check")
  /\ \/ /\ Present(xart[n].bound) /\ xart[n].bound = xart[n].sel
        /\ xart' = [xart EXCEPT ![n].at = "recheck"]
     \/ (~Present(xart[n].bound) \/ xart[n].bound # xart[n].sel) /\ Exit(n)
  /\ UNCHANGED <<term, kernel, events, device, ready, faults>>

\* The second discovery, listen(), the lease of a fresh lifecycle
\* (device_added), and the readiness notification.
Listen(n) ==
  /\ Xart(n, "recheck")
  /\ \/ Discovers(xart[n].sel) /\ xart' = [xart EXCEPT ![n].at = "listening"]
     \/ ~Discovers(xart[n].sel) /\ Exit(n)
  /\ UNCHANGED <<term, kernel, events, device, ready, faults>>

\* The accept loop looks the bound interface up, then blocks in accept4; a
\* daemon that was already blocked when its interface vanished stays there.
Inspect(n) ==
  /\ Xart(n, "listening")
  /\ \/ Present(xart[n].bound) /\ xart' = [xart EXCEPT ![n].at = "accept"]
     \/ ~Present(xart[n].bound) /\ Exit(n)
  /\ UNCHANGED <<term, kernel, events, device, ready, faults>>

\* A connection arrived on the bound interface; admit compares the interface
\* of the lease, and serving it ends in the next accept.
Serve(n) ==
  /\ Xart(n, "accept")
  /\ Present(xart[n].bound)
  /\ xart' = [xart EXCEPT ![n].at = IF xart[n].bound = xart[n].sel
                                    THEN "serving" ELSE "listening"]
  /\ UNCHANGED <<term, kernel, events, device, ready, faults>>

EndOfConnection(n) ==
  /\ Xart(n, "serving")
  /\ xart' = [xart EXCEPT ![n].at = "listening"]
  /\ UNCHANGED <<term, kernel, events, device, ready, faults>>

\* A system call of the open sequence or accept4 itself fails: disposition is
\* Exit.
StorageFails(n) ==
  /\ xart[n].at \notin {"off", "wait", "failed", "serving"}
  /\ Transient(n)
  /\ UNCHANGED <<term, kernel, events, device, ready>>

ReadyUnit(n) == \/ NameToIndex(n) \/ Discover(n) \/ SetUp(n) \/ IsReady(n)
                \/ Revalidate(n) \/ Confirm(n)

StorageUnit(n) == \/ StartStorage(n) \/ RestartStorage(n) \/ Select(n) \/ Terminated(n)
                  \/ IndexToName(n) \/ BindToDevice(n) \/ CheckBound(n)
                  \/ Listen(n) \/ Inspect(n) \/ EndOfConnection(n)

Kernel == \/ \E n \in Names : (\E t1 \in BOOLEAN : Plug(n, t1)) \/ Unplug(n)
          \/ \E i \in up : AddressSettles(i)

Next == \/ Kernel \/ HandleAdd \/ HandleRemove
        \/ \E n \in Names : \/ ReadyUnit(n) \/ StorageUnit(n) \/ Serve(n)
                            \/ StorageFails(n)

Spec == Init /\ [][Next]_vars


-----------------------------------------------------------------------------
\* The type of the state.  Two sockets are never bound to one interface.
TypeOK ==
  /\ \A n \in Names : net[n].index \in 0..last
  /\ usable \subseteq up /\ up \subseteq 1..last /\ t1s \subseteq 1..last
  /\ \A n, m \in Names : xart[n].bound = xart[m].bound /\ n # m => xart[n].bound = 0
  /\ faults \in 0..Faults

\* The anti-replay record is offered on the T1's interface only: a socket that
\* listens is bound to an interface that is, or was while it lived, the T1's,
\* even when another device takes over its name between the steps of opening.
ListensOnT1 ==
  \A n \in Names : xart[n].at \in {"listening", "accept", "serving"} =>
    xart[n].bound \in t1s /\ xart[n].bound = xart[n].sel

\* A daemon left behind on a vanished interface is one systemd still has to
\* hear about, or has already signalled: its own unit's removal is among the
\* unhandled events.
NoStrandedListener ==
  \A n \in Names : xart[n].at = "accept" /\ ~Present(xart[n].bound) /\ n \notin term =>
    \E k \in 1..Len(events) : events[k] = <<"remove", n>>

\* Once the T1 stays, the record is served on its interface for good, however
\* often it re-enumerated before, whatever names it used, and whatever the
\* daemons were doing; transient failures of the storage daemon included.
ServiceComesBack ==
  \A i \in 1..MaxIndex :
    <>[](Discovers(i)) =>
      <>[](\E n \in Names : xart[n].at \in {"listening", "accept", "serving"}
                            /\ xart[n].bound = i)
=============================================================================
