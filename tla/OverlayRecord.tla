--------------------------- MODULE OverlayRecord ---------------------------
(***************************************************************************)
(* The cosmetic Touch ID state file /run/t1bridge/touch-id-state.json:     *)
(* the OverlaySession of a producing daemon (t1-daemons/src/overlay.rs)    *)
(* that publishes, updates and removes it, and the watcher thread of the   *)
(* built-in renderer (t1-touchbar/src/overlay_state.rs) that polls it.     *)
(*                                                                         *)
(* A producer's file operations are separate steps, so two producers and   *)
(* the watcher interleave, and a producer may fail or be killed between    *)
(* any two of them.  A pid belongs to one process only.                    *)
(***************************************************************************)
EXTENDS Naturals, FiniteSets

CONSTANTS
    Pids,         \* producer processes
    MaxUpdates,   \* state updates in one behaviour
    MaxFaults     \* failed file operations and kills in one behaviour

VARIABLES
    file,      \* the record at the state path, or NoRecord
    proc,      \* each producer: alive, step, what it publishes, OverlaySession.active
               \* and, as a history, whether a failure made it leave its record
    watch,     \* the watcher: record just read, observation last sent
    shown,     \* the newest observation the renderer took
    budget

vars == <<file, proc, watch, shown, budget>>

States == {"enrollment", "authenticate", "success"}
NoRecord == [version |-> 0, pid |-> 0, state |-> "none", progress |-> 0]
Hidden == [state |-> "none", progress |-> 0]

\* replace_state's payload: progress only with enrollment (version 2).
Payload(p, state, progress) ==
    [version |-> IF state = "enrollment" THEN 2 ELSE 1, pid |-> p, state |-> state,
     progress |-> IF state = "enrollment" THEN progress ELSE 0]

\* The reader's schema check, and its test that the producer still exists.
Validate(record) ==
    IF record.version \in {1, 2} /\ record.state \in States
        /\ (record.version = 2 <=> record.state = "enrollment")
        /\ proc[record.pid].alive
    THEN [state |-> record.state, progress |-> record.progress]
    ELSE Hidden

Init ==
    /\ file = NoRecord
    /\ proc = [p \in Pids |-> [alive |-> TRUE, pc |-> "idle", active |-> FALSE, new |-> NoRecord,
                             left |-> FALSE]]
    /\ watch = [pc |-> "read", got |-> NoRecord, sent |-> Hidden]
    /\ shown = Hidden
    /\ budget = [updates |-> MaxUpdates, faults |-> MaxFaults]

-----------------------------------------------------------------------------
At(p, pc) == proc[p].alive /\ proc[p].pc = pc

Begin(p) ==
    \E s \in States \ {"success"} :
      proc' = [proc EXCEPT ![p].pc = "rename", ![p].new = Payload(p, s, 0)]

\* Opens a session, unless the record belongs to another live producer.
Start(p) ==
    /\ At(p, "idle") /\ ~proc[p].active /\ budget.updates > 0
    /\ IF file.pid \in Pids \ {p} /\ proc[file.pid].alive
       THEN UNCHANGED proc       \* LiveForeignOwner
       ELSE Begin(p)
    /\ budget' = [budget EXCEPT !.updates = @ - 1]
    /\ UNCHANGED <<file, watch, shown>>

\* read_owner_pid fails: the session is opened whoever owns the record.
StartUnread(p) ==
    /\ At(p, "idle") /\ ~proc[p].active /\ budget.updates > 0 /\ budget.faults > 0
    /\ Begin(p)
    /\ budget' = [updates |-> budget.updates - 1, faults |-> budget.faults - 1]
    /\ UNCHANGED <<file, watch, shown>>

Update(p) ==
    /\ At(p, "idle") /\ proc[p].active /\ budget.updates > 0
    /\ \E s \in States, n \in 0..1 :
         proc' = [proc EXCEPT ![p].pc = "rename", ![p].new = Payload(p, s, n)]
    /\ budget' = [budget EXCEPT !.updates = @ - 1]
    /\ UNCHANGED <<file, watch, shown>>

\* The temporary file is written, synced and renamed into place.
Rename(p) ==
    /\ At(p, "rename")
    /\ file' = proc[p].new
    /\ proc' = [proc EXCEPT ![p].pc = "sync", ![p].left = FALSE]
    /\ UNCHANGED <<watch, shown, budget>>

\* Writing or renaming fails: a session that was starting never becomes
\* active, one that was active stays so.
WriteFails(p) ==
    /\ At(p, "rename") /\ budget.faults > 0
    /\ proc' = [proc EXCEPT ![p].pc = "idle", ![p].new = NoRecord]
    /\ budget' = [budget EXCEPT !.faults = @ - 1]
    /\ UNCHANGED <<file, watch, shown>>

Synced(p) ==
    /\ At(p, "sync")
    /\ proc' = [proc EXCEPT ![p].pc = "idle", ![p].active = TRUE, ![p].new = NoRecord]
    /\ UNCHANGED <<file, watch, shown, budget>>

\* sync_parent_directory fails although the record is in place: a session
\* that was starting never becomes active, and nothing removes its record.
SyncFails(p) ==
    /\ At(p, "sync") /\ budget.faults > 0
    /\ proc' = [proc EXCEPT ![p].pc = "idle", ![p].new = NoRecord, ![p].left = ~proc[p].active]
    /\ budget' = [budget EXCEPT !.faults = @ - 1]
    /\ UNCHANGED <<file, watch, shown>>

\* restore, called when the session is dropped: who owns the record?
Restore(p) ==
    /\ At(p, "idle") /\ proc[p].active
    /\ proc' = IF file.pid = p THEN [proc EXCEPT ![p].pc = "remove"]
               ELSE [proc EXCEPT ![p].active = FALSE]
    /\ UNCHANGED <<file, watch, shown, budget>>

\* read_owner_pid fails: restore ends well and leaves the record.
RestoreUnread(p) ==
    /\ At(p, "idle") /\ proc[p].active /\ budget.faults > 0
    /\ proc' = [proc EXCEPT ![p].active = FALSE, ![p].left = TRUE]
    /\ budget' = [budget EXCEPT !.faults = @ - 1]
    /\ UNCHANGED <<file, watch, shown>>

\* remove_file, on whatever record is there by now, or on none; what the
\* sync after it returns changes nothing more.
Remove(p) ==
    /\ At(p, "remove")
    /\ file' = NoRecord
    /\ proc' = [proc EXCEPT ![p].pc = "idle", ![p].active = FALSE]
    /\ UNCHANGED <<watch, shown, budget>>

\* remove_file fails: the session ends and the record stays.
RemoveFails(p) ==
    /\ At(p, "remove") /\ budget.faults > 0
    /\ proc' = [proc EXCEPT ![p].pc = "idle", ![p].active = FALSE, ![p].left = TRUE]
    /\ budget' = [budget EXCEPT !.faults = @ - 1]
    /\ UNCHANGED <<file, watch, shown>>

\* The producer is killed; its record stays.
Killed(p) ==
    /\ proc[p].alive /\ budget.faults > 0
    /\ proc' = [proc EXCEPT ![p] = [alive |-> FALSE, pc |-> "idle", active |-> FALSE,
                                    new |-> NoRecord, left |-> FALSE]]
    /\ budget' = [budget EXCEPT !.faults = @ - 1]
    /\ UNCHANGED <<file, watch, shown>>

-----------------------------------------------------------------------------
WatchRead ==
    /\ watch.pc = "read"
    /\ watch' = [watch EXCEPT !.pc = "check", !.got = file]
    /\ UNCHANGED <<file, proc, shown, budget>>

\* Sent only when it differs from the one before; the renderer takes the
\* newest.
Announce(observation) ==
    /\ watch' = [watch EXCEPT !.pc = "read", !.got = NoRecord, !.sent = observation]
    /\ shown' = IF observation # watch.sent THEN observation ELSE shown

WatchCheck ==
    /\ watch.pc = "check"
    /\ Announce(Validate(watch.got))
    /\ UNCHANGED <<file, proc, budget>>

Producer(p) ==
    \/ Start(p) \/ StartUnread(p) \/ Update(p) \/ Rename(p) \/ WriteFails(p)
    \/ Synced(p) \/ SyncFails(p) \/ Restore(p) \/ RestoreUnread(p)
    \/ Remove(p) \/ RemoveFails(p) \/ Killed(p)

Next == (\E p \in Pids : Producer(p)) \/ WatchRead \/ WatchCheck

Spec == Init /\ [][Next]_vars


-----------------------------------------------------------------------------
\* A producer between operations and without a session, or dead.
Done(p) == proc[p].pc = "idle" /\ ~proc[p].active

\* When every operation has ended, by itself or by its process dying, the bar
\* eventually shows no overlay and none comes back, however starts, updates,
\* removals and kills fell between one another.  One exception: the record of
\* a live producer that could not sync its first record, or could not read or
\* remove the file when its session ended, stays and is shown.
OverlayCleared ==
    <>[](\A p \in Pids : Done(p)) =>
        <>[](\/ shown = Hidden
             \/ \E p \in Pids : /\ proc[p].alive /\ proc[p].left /\ file.pid = p
                                 /\ shown = Validate(file))

=============================================================================
