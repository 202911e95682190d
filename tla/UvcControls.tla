---------------------------- MODULE UvcControls ----------------------------
(***************************************************************************)
(* Control transactions of the camera driver and its status interrupt:     *)
(* src/kernel/uvcvideo-t1/uvc_ctrl.c, uvc_status.c and the control ioctls  *)
(* of uvc_v4l2.c.                                                          *)
(*                                                                         *)
(* A thread is an open file handle (it runs ioctls and its own release),   *)
(* the asynchronous control work ("work") or the power management core     *)
(* ("pm").  todo[t] is what is left of the function thread t runs, as a    *)
(* sequence of steps; a call prepends the callee's steps.  A step that     *)
(* takes a mutex or waits for the work is disabled until it can proceed,   *)
(* so a cycle of waits shows as threads that never finish.                 *)
(*                                                                         *)
(* The value of a control is a function from its fields to Values; a       *)
(* mapping <<c, f>> is the V4L2 control for field f of UVC control c.      *)
(* Which error an ioctl returns, the events sent to subscribers and the    *)
(* clamping of values are left out.                                        *)
(***************************************************************************)
EXTENDS Naturals, Sequences, FiniteSets, SequencesExt, FiniteSetsExt

CONSTANTS
    Handles,     \* file handles
    Ctrls,       \* UVC controls, numbered in the order of the entity's list
    Fields,      \* Fields[c]: the fields of control c
    Values,      \* values of a field
    Auto,        \* controls with UVC_CTRL_FLAG_AUTO_UPDATE
    Async,       \* controls with UVC_CTRL_FLAG_ASYNCHRONOUS
    Restore,     \* controls with UVC_CTRL_FLAG_RESTORE
    Slaves,      \* Slaves[m]: the mappings whose master is mapping m
    Ops,         \* ioctls the users issue: "set", "try", "get", "subscribe"
    None,
    MaxCalls,    \* bound on ioctls
    MaxReq,      \* bound on the controls of one request
    MaxEvents,   \* bound on status events of the device
    MaxFaults,   \* bound on transfers and submissions that fail
    MaxSleeps,   \* bound on suspends
    MaxCloses    \* bound on closed handles

VARIABLES
    dev,    \* dev[c]: the value the camera has
    ctl,    \* ctl[c]: struct uvc_control
    mutex,  \* holders of ctrl_mutex, status_lock and the video node's lock
    st,     \* status endpoint: users, urb, flush_status, the work, its control
    todo,   \* todo[t]: the steps thread t still has to run
    req,    \* req[h]: the request handle h works on
    fh,     \* fh[h]: open?, pending_async_ctrls
    power,  \* "on" | "down" | "off": system sleep
    left    \* what is left of the bounds

vars == <<dev, ctl, mutex, st, todo, req, fh, power, left>>

Threads == Handles \cup {"work", "pm"}
Mappings == {m \in Ctrls \X UNION {Fields[c] : c \in Ctrls} : m[2] \in Fields[m[1]]}
Data(c) == [Fields[c] -> Values]
Zero(c) == [f \in Fields[c] |-> 0]

\* What the camera starts with; the driver's memory starts as zeros.
PowerOn(c) == [f \in Fields[c] |-> Max(Values)]

\* A request: what the ioctl asks for, one value per mapping.
Requests == UNION {[S -> Values] : S \in {S \in SUBSET Mappings : Cardinality(S) \in 1..MaxReq}}
NoReq == [op |-> "none", want |-> <<>>, rest |-> {}, roll |-> FALSE]

Init ==
    /\ dev = [c \in Ctrls |-> PowerOn(c)]
    /\ ctl = [c \in Ctrls |-> [cur |-> Zero(c), bak |-> Zero(c), loaded |-> FALSE,
                               dirty |-> FALSE, modified |-> FALSE, handle |-> None]]
    /\ mutex = [ctrl |-> None, status |-> None, vdev |-> None]
    /\ st = [users |-> 0, urb |-> "off", flush |-> FALSE, pending |-> FALSE,
             ctrl |-> 0, failed |-> FALSE]
    /\ todo = [t \in Threads |-> <<>>]
    /\ req = [h \in Handles |-> NoReq]
    /\ fh = [h \in Handles |-> [open |-> TRUE, pending |-> 0]]
    /\ power = "on"
    /\ left = [calls |-> MaxCalls, events |-> MaxEvents, faults |-> MaxFaults,
               sleeps |-> MaxSleeps, closes |-> MaxCloses]

-----------------------------------------------------------------------------
(* Helpers. *)

At(t, s) == todo[t] # <<>> /\ Head(todo[t]) = s
Go(t) == todo' = [todo EXCEPT ![t] = Tail(@)]
Call(t, steps) == todo' = [todo EXCEPT ![t] = steps \o Tail(@)]
Jump(t, steps) == todo' = [todo EXCEPT ![t] = steps]
Acquire(m, t) == mutex[m] = None /\ mutex' = [mutex EXCEPT ![m] = t]
Free(m) == mutex' = [mutex EXCEPT ![m] = None]
Spend(what) == left[what] > 0 /\ left' = [left EXCEPT ![what] = @ - 1]
WorkIdle == todo["work"] = <<>> /\ ~st.pending

\* The work of status_stop: set flush_status, cancel the work, kill the URB,
\* cancel the work again.
StopSteps == <<"flush", "cancel", "kill", "cancel">>

\* uvc_ctrl_status_event: lock, flush the cache and release the handle, notify.
EventSteps == <<"e_lock", "e_clear", "e_send">>

\* __uvc_ctrl_load_cur for a set of controls: read what is not in the cache.
Loaded(cs, k) ==
    [c \in Ctrls |-> IF c \in cs /\ ~k[c].loaded
                     THEN [k[c] EXCEPT !.cur = dev[c], !.loaded = TRUE] ELSE k[c]]

-----------------------------------------------------------------------------
(* uvc_pm_get, uvc_pm_put and the status endpoint.                         *)

\* uvc_status_get takes status_lock.
PmGet(t) ==
    /\ At(t, "get") /\ Acquire("status", t)
    /\ Call(t, <<"start">>)
    /\ UNCHANGED <<dev, ctl, st, req, fh, power, left>>

\* What a thread does when uvc_pm_get fails: the ioctl returns the error, a
\* subscription unlocks first.
AfterGetFailed(t) == IF mutex.ctrl = t THEN <<"unlock", "vunlock">> ELSE <<>>

\* usb_autopm_get_interface fails in the wrapper of an ioctl or a subscription.
PmGetFails(t) ==
    /\ At(t, "get") /\ Spend("faults")
    /\ Jump(t, AfterGetFailed(t))
    /\ req' = [req EXCEPT ![t] = NoReq]
    /\ UNCHANGED <<dev, ctl, mutex, st, fh, power>>

\* uvc_status_get under status_lock: the first user waits for the work
\* (flush_work), clears flush_status and submits the URB (uvc_status_start).
StatusGet(t) ==
    /\ At(t, "start")
    /\ (st.users = 0 => WorkIdle)
    /\ st' = IF st.users = 0
             THEN [st EXCEPT !.flush = FALSE, !.urb = "in", !.users = 1, !.failed = FALSE]
             ELSE [st EXCEPT !.users = @ + 1]
    /\ Free("status") /\ Go(t)
    /\ UNCHANGED <<dev, ctl, req, fh, power, left>>

\* The URB cannot be submitted: the first user gets the error.
StatusGetFails(t) ==
    /\ At(t, "start") /\ st.users = 0 /\ WorkIdle /\ Spend("faults")
    /\ st' = [st EXCEPT !.flush = FALSE]
    /\ Free("status")
    /\ Jump(t, AfterGetFailed(t))
    /\ req' = [req EXCEPT ![t] = NoReq]
    /\ UNCHANGED <<dev, ctl, fh, power>>

\* uvc_status_put takes status_lock; the last user stops the URB.
PmPut(t) ==
    /\ At(t, "put") /\ Acquire("status", t)
    /\ Call(t, (IF st.users = 1 THEN StopSteps ELSE <<>>) \o <<"drop">>)
    /\ UNCHANGED <<dev, ctl, st, req, fh, power, left>>

StatusDrop(t) ==
    /\ At(t, "drop")
    /\ st' = [st EXCEPT !.users = IF @ > 0 THEN @ - 1 ELSE 0]
    /\ Free("status") /\ Go(t)
    /\ UNCHANGED <<dev, ctl, req, fh, power, left>>

\* uvc_status_stop sets flush_status; called from the work it does no more.
StopFlush(t) ==
    /\ At(t, "flush")
    /\ st' = [st EXCEPT !.flush = TRUE]
    /\ todo' = [todo EXCEPT ![t] = IF t = "work" THEN SubSeq(@, 5, Len(@)) ELSE Tail(@)]
    /\ UNCHANGED <<dev, ctl, mutex, req, fh, power, left>>

\* cancel_work_sync waits for a running work; a queued one is taken over and
\* its event processed here.
StopCancel(t) ==
    /\ At(t, "cancel")
    /\ todo["work"] = <<>>
    /\ st' = [st EXCEPT !.pending = FALSE]
    /\ Call(t, IF st.pending THEN EventSteps ELSE <<>>)
    /\ UNCHANGED <<dev, ctl, mutex, req, fh, power, left>>

StopKill(t) ==
    /\ At(t, "kill")
    /\ st' = [st EXCEPT !.urb = "off"]
    /\ Go(t)
    /\ UNCHANGED <<dev, ctl, mutex, req, fh, power, left>>

-----------------------------------------------------------------------------
(* Status events.                                                          *)

\* The camera reports that control c changed: of an auto-update control the
\* value may be a new one, of an asynchronous one the operation has ended.
\* uvc_status_complete hands the event and the URB to the work.
StatusComplete(c) ==
    /\ st.urb = "in" /\ power # "off" /\ c \in Auto \cup Async /\ Spend("events")
    /\ (c \in Async => ctl[c].handle # None)
    /\ st' = [st EXCEPT !.urb = "off", !.pending = TRUE, !.ctrl = c]
    /\ \E v \in IF c \in Auto THEN Data(c) ELSE {dev[c]} : dev' = [dev EXCEPT ![c] = v]
    /\ UNCHANGED <<ctl, mutex, todo, req, fh, power>>

\* A control without a mapping, a streaming event or an unknown one: the
\* handler resubmits at once, and the submission may fail.
StatusIgnored ==
    /\ st.urb = "in" /\ power # "off" /\ Spend("faults")
    /\ st' = [st EXCEPT !.urb = "off", !.failed = TRUE]
    /\ UNCHANGED <<dev, ctl, mutex, todo, req, fh, power>>

\* An auto-update control changes while nothing listens.
Drifts(c) ==
    /\ c \in Auto /\ st.urb = "off" /\ WorkIdle /\ Spend("events")
    /\ \E v \in Data(c) \ {dev[c]} : dev' = [dev EXCEPT ![c] = v]
    /\ UNCHANGED <<ctl, mutex, st, todo, req, fh, power>>

\* uvc_ctrl_status_event_work starts.
WorkRuns ==
    /\ st.pending /\ todo["work"] = <<>>
    /\ st' = [st EXCEPT !.pending = FALSE]
    /\ todo' = [todo EXCEPT !["work"] = EventSteps \o <<"resubmit">>]
    /\ UNCHANGED <<dev, ctl, mutex, req, fh, power, left>>

EventLock(t) ==
    /\ At(t, "e_lock") /\ Acquire("ctrl", t) /\ Go(t)
    /\ UNCHANGED <<dev, ctl, st, req, fh, power, left>>

\* uvc_ctrl_status_event flushes the cached value and releases the handle that
\* waits for the control (uvc_ctrl_clear_handle), with its power reference.
EventClear(t) ==
    /\ At(t, "e_clear")
    /\ LET c == st.ctrl h == ctl[c].handle IN
       /\ ctl' = [ctl EXCEPT ![c].loaded = FALSE, ![c].handle = None]
       /\ fh' = IF h = None THEN fh ELSE [fh EXCEPT ![h].pending = @ - 1]
       /\ Call(t, IF h = None THEN <<>> ELSE <<"put">>)
    /\ UNCHANGED <<dev, mutex, st, req, power, left>>

\* The events of the control's slaves carry their values, which are read if
\* they are not cached (uvc_ctrl_send_slave_event).
EventSend(t) ==
    /\ At(t, "e_send")
    /\ LET sl == UNION {Slaves[<<st.ctrl, f>>] : f \in Fields[st.ctrl]} IN
       \/ ctl' = Loaded({m[1] : m \in sl}, ctl) /\ UNCHANGED left
       \/ sl # {} /\ Spend("faults") /\ UNCHANGED ctl
    /\ Free("ctrl") /\ Go(t)
    /\ UNCHANGED <<dev, st, req, fh, power>>

\* The work resubmits the URB unless uvc_status_stop was called meanwhile.
Resubmit ==
    /\ At("work", "resubmit")
    /\ \/ st' = [st EXCEPT !.urb = IF st.flush THEN @ ELSE "in"] /\ UNCHANGED left
       \/ ~st.flush /\ Spend("faults") /\ st' = [st EXCEPT !.failed = TRUE]
    /\ Go("work")
    /\ UNCHANGED <<dev, ctl, mutex, req, fh, power>>

-----------------------------------------------------------------------------
(* Control ioctls: uvc_v4l2_unlocked_ioctl takes a power reference, then   *)
(* the video node's lock.                                                  *)

IoctlSteps(op) ==
    CASE op = "set" -> <<"get", "vlock", "access", "begin", "each", "commit", "end", "vunlock", "put">>
      [] op = "subscribe" -> <<"vlock", "begin", "get", "initial", "put", "unlock", "vunlock">>
      [] OTHER -> <<"get", "vlock", "begin", "each", "rollback", "end", "vunlock", "put">>

Ioctl(h) ==
    /\ power = "on" /\ fh[h].open /\ todo[h] = <<>> /\ Spend("calls")
    /\ \E op \in Ops, r \in Requests :
         /\ (op \in {"get", "subscribe"} => \A m \in DOMAIN r : r[m] = 0)
         /\ req' = [req EXCEPT ![h] = [op |-> op, want |-> r, rest |-> DOMAIN r, roll |-> FALSE]]
         /\ Jump(h, IoctlSteps(op))
    /\ UNCHANGED <<dev, ctl, mutex, st, fh, power>>

VdevLock(h) ==
    /\ At(h, "vlock") /\ Acquire("vdev", h) /\ Go(h)
    /\ UNCHANGED <<dev, ctl, st, req, fh, power, left>>

VdevUnlock(h) ==
    /\ At(h, "vunlock") /\ Free("vdev") /\ Go(h)
    /\ UNCHANGED <<dev, ctl, st, req, fh, power, left>>

\* The masters a set request has to look up: those not set by the request.
MastersOf(h) == {m \in Mappings : m \notin DOMAIN req[h].want /\ Slaves[m] \cap DOMAIN req[h].want # {}}
SetMasters(h) == {m \in DOMAIN req[h].want : Slaves[m] \cap DOMAIN req[h].want # {}}
Manual == 0

\* uvc_ctrl_check_access reads the masters without ctrl_mutex: first the
\* transfer, which may fail and then refuses nothing ...
AccessRead(h) ==
    /\ At(h, "access")
    /\ \/ /\ ctl' = [c \in Ctrls |-> IF (\E m \in MastersOf(h) : m[1] = c) /\ ~ctl[c].loaded
                                     THEN [ctl[c] EXCEPT !.cur = dev[c]] ELSE ctl[c]]
          /\ Call(h, IF MastersOf(h) \cup SetMasters(h) = {} THEN <<>> ELSE <<"access2">>)
          /\ UNCHANGED left
       \/ MastersOf(h) # {} /\ Spend("faults") /\ Go(h) /\ UNCHANGED ctl
    /\ UNCHANGED <<dev, mutex, st, req, fh, power>>

\* ... then the cache is marked loaded and the masters' values looked at.
AccessCheck(h) ==
    /\ At(h, "access2")
    /\ ctl' = [c \in Ctrls |-> IF \E m \in MastersOf(h) : m[1] = c
                               THEN [ctl[c] EXCEPT !.loaded = TRUE] ELSE ctl[c]]
    /\ IF (\A m \in MastersOf(h) : ctl[m[1]].cur[m[2]] = Manual)
          /\ (\A m \in SetMasters(h) : req[h].want[m] = Manual)
       THEN Go(h) /\ UNCHANGED req
       ELSE Jump(h, <<"vunlock", "put">>) /\ req' = [req EXCEPT ![h] = NoReq]
    /\ UNCHANGED <<dev, mutex, st, fh, power, left>>

\* uvc_ctrl_begin.
Begin(h) ==
    /\ At(h, "begin") /\ Acquire("ctrl", h) /\ Go(h)
    /\ UNCHANGED <<dev, ctl, st, req, fh, power, left>>

\* uvc_ctrl_set: load the control when the mapping is only a part of it, keep
\* a backup, store the field, mark the control dirty and modified.
SetOne(h, m) ==
    /\ At(h, "each") /\ req[h].op # "get" /\ m \in req[h].rest
    /\ LET c == m[1]
           k == IF Fields[c] = {m[2]} THEN ctl[c] ELSE Loaded({c}, ctl)[c]
       IN ctl' = [ctl EXCEPT ![c] = [k EXCEPT !.bak = IF k.dirty THEN @ ELSE k.cur,
                                              !.cur = [k.cur EXCEPT ![m[2]] = req[h].want[m]],
                                              !.dirty = TRUE, !.modified = TRUE]]
    /\ req' = [req EXCEPT ![h].rest = @ \ {m}]
    /\ UNCHANGED <<dev, mutex, st, todo, fh, power, left>>

\* uvc_ctrl_get of the current value.
GetOne(h, m) ==
    /\ At(h, "each") /\ req[h].op = "get" /\ m \in req[h].rest
    /\ ctl' = Loaded({m[1]}, ctl)
    /\ req' = [req EXCEPT ![h].rest = @ \ {m}]
    /\ UNCHANGED <<dev, mutex, st, todo, fh, power, left>>

\* uvc_ctrl_set or uvc_ctrl_get fails: everything set so far is rolled back.
EachFails(h) ==
    /\ At(h, "each") /\ req[h].rest # {} /\ Spend("faults")
    /\ Jump(h, <<"rollback", "end", "vunlock", "put">>)
    /\ UNCHANGED <<dev, ctl, mutex, st, req, fh, power>>

EachDone(h) ==
    /\ At(h, "each") /\ req[h].rest = {} /\ Go(h)
    /\ UNCHANGED <<dev, ctl, mutex, st, req, fh, power, left>>

-----------------------------------------------------------------------------
(* uvc_ctrl_commit_entity: the dirty controls in their order.              *)

Dirty == {c \in Ctrls : ctl[c].dirty}

\* The backup comes back.
Reverted(k) == [k EXCEPT !.cur = k.bak, !.dirty = FALSE]

MutMoveHandle(h, c) == [fh EXCEPT ![ctl[c].handle].pending = @ - 1]

\* uvc_ctrl_set_handle for a control that another operation still holds.
MoveHandle(h, c) ==
    [fh EXCEPT ![ctl[c].handle].pending = @ - 1, ![h].pending = @ + 1]

\* SET_CUR succeeds.  An asynchronous control keeps the handle, and with the
\* first one a power reference, until its event.
CommitOne(h) ==
    /\ At(h, "commit") /\ Dirty # {} /\ ~req[h].roll
    /\ LET c == Min(Dirty) old == ctl[c].handle IN
       /\ dev' = [dev EXCEPT ![c] = ctl[c].cur]
       /\ ctl' = [ctl EXCEPT ![c].dirty = FALSE,
                             ![c].handle = IF c \in Async /\ old # None THEN h ELSE @]
       /\ fh' = IF c \in Async /\ old \notin {None, h} THEN MoveHandle(h, c) ELSE fh
       /\ IF c \in Async /\ old = None
          THEN todo' = [todo EXCEPT ![h] = <<"get", "handle">> \o @]
          ELSE UNCHANGED todo
       /\ req' = [req EXCEPT ![h].rest = IF c \in Async /\ old = None THEN {c} ELSE {}]
    /\ UNCHANGED <<mutex, st, power, left>>

\* uvc_ctrl_set_handle has its power reference.
SetHandle(h) ==
    /\ At(h, "handle")
    /\ ctl' = [c \in Ctrls |-> IF c \in req[h].rest THEN [ctl[c] EXCEPT !.handle = h] ELSE ctl[c]]
    /\ fh' = [fh EXCEPT ![h].pending = @ + 1]
    /\ Go(h)
    /\ UNCHANGED <<dev, mutex, st, req, power, left>>

MutCommitFails(h) ==
    /\ At(h, "commit") /\ Dirty # {} /\ ~req[h].roll /\ Spend("faults")
    /\ ctl' = [ctl EXCEPT ![Min(Dirty)] = [@ EXCEPT !.dirty = FALSE]]
    /\ req' = [req EXCEPT ![h].roll = TRUE]
    /\ UNCHANGED <<dev, mutex, st, todo, fh, power>>

\* SET_CUR fails: the backup comes back and the later controls are rolled back.
CommitFails(h) ==
    /\ At(h, "commit") /\ Dirty # {} /\ ~req[h].roll /\ Spend("faults")
    /\ ctl' = [ctl EXCEPT ![Min(Dirty)] = Reverted(@)]
    /\ req' = [req EXCEPT ![h].roll = TRUE]
    /\ UNCHANGED <<dev, mutex, st, todo, fh, power>>

\* SET_CUR succeeds and the power reference of uvc_ctrl_set_handle is refused.
SetHandleFails(h) ==
    /\ At(h, "get") /\ Len(todo[h]) > 1 /\ todo[h][2] = "handle" /\ Spend("faults")
    /\ todo' = [todo EXCEPT ![h] = Tail(Tail(@))]
    /\ req' = [req EXCEPT ![h].roll = TRUE]
    /\ UNCHANGED <<dev, ctl, mutex, st, fh, power>>

\* Rollback: the backup comes back, the camera is not told.
RollBack(h) ==
    /\ (At(h, "rollback") \/ At(h, "commit")) /\ Dirty # {}
    /\ (At(h, "commit") => req[h].roll)
    /\ ctl' = [ctl EXCEPT ![Min(Dirty)] = Reverted(@)]
    /\ UNCHANGED <<dev, mutex, st, todo, req, fh, power, left>>

CommitDone(h) ==
    /\ (At(h, "rollback") \/ At(h, "commit")) /\ Dirty = {} /\ Go(h)
    /\ UNCHANGED <<dev, ctl, mutex, st, req, fh, power, left>>

\* The slaves uvc_ctrl_send_events reads for a committed request.
SlavesToTell(h) ==
    IF req[h].op = "set" /\ ~req[h].roll
    THEN {s[1] : s \in UNION {Slaves[m] : m \in {m \in DOMAIN req[h].want : m[1] \notin Async}}
                       \ DOMAIN req[h].want}
    ELSE {}

\* The loop over the controls also drops the cached value of the auto-update
\* ones; then the slaves' events are sent, with the values of those that can
\* be read, and ctrl_mutex is released.
CommitEnd(h) ==
    /\ At(h, "end")
    /\ \E read \in SUBSET SlavesToTell(h) :
         ctl' = Loaded(read, [c \in Ctrls |-> IF c \in Auto THEN [ctl[c] EXCEPT !.loaded = FALSE] ELSE ctl[c]])
    /\ req' = [req EXCEPT ![h] = NoReq]
    /\ Free("ctrl") /\ Go(h)
    /\ UNCHANGED <<dev, st, fh, power, left>>

-----------------------------------------------------------------------------
(* Subscriptions, release of a handle.                                     *)

\* uvc_ctrl_add_event with V4L2_EVENT_SUB_FL_SEND_INITIAL reads the control
\* and, for the flags, its master; a read that fails is left out of the event.
SubscribeInitial(h) ==
    /\ At(h, "initial")
    /\ LET ms == DOMAIN req[h].want IN
       \E read \in SUBSET ({m[1] : m \in ms} \cup {m[1] : m \in {m \in Mappings : Slaves[m] \cap ms # {}}}) :
         ctl' = Loaded(read, ctl)
    /\ Go(h)
    /\ UNCHANGED <<dev, mutex, st, req, fh, power, left>>

Unlock(h) ==
    /\ At(h, "unlock") /\ Free("ctrl") /\ Go(h)
    /\ req' = [req EXCEPT ![h] = NoReq]
    /\ UNCHANGED <<dev, ctl, st, fh, power, left>>

\* uvc_v4l2_release calls uvc_ctrl_cleanup_fh.
Close(h) ==
    /\ power = "on" /\ fh[h].open /\ todo[h] = <<>> /\ Spend("closes")
    /\ Jump(h, <<"begin", "cleanup", "unlock", "closed">>)
    /\ UNCHANGED <<dev, ctl, mutex, st, req, fh, power>>

\* uvc_ctrl_cleanup_fh: every control the handle still holds is released.
CleanupFh(h) ==
    /\ At(h, "cleanup")
    /\ LET held == {c \in Ctrls : ctl[c].handle = h} IN
       IF fh[h].pending = 0 \/ held = {}
       THEN Go(h) /\ UNCHANGED <<ctl, fh>>
       ELSE /\ ctl' = [ctl EXCEPT ![Min(held)].handle = None]
            /\ fh' = [fh EXCEPT ![h].pending = @ - 1]
            /\ Call(h, <<"put", "cleanup">>)
    /\ UNCHANGED <<dev, mutex, st, req, power, left>>

Closed(h) ==
    /\ At(h, "closed") /\ Go(h)
    /\ fh' = [fh EXCEPT ![h].open = FALSE]
    /\ UNCHANGED <<dev, ctl, mutex, st, req, power, left>>

-----------------------------------------------------------------------------
(* System sleep: user threads are frozen outside the driver (external).    *)

\* uvc_suspend of the control interface: uvc_status_suspend.
Suspend ==
    /\ power = "on" /\ Spend("sleeps") /\ todo["pm"] = <<>>
    /\ \A h \in Handles : todo[h] = <<>>
    /\ power' = "down"
    /\ todo' = [todo EXCEPT !["pm"] = <<"s_lock">>]
    /\ UNCHANGED <<dev, ctl, mutex, st, req, fh>>

SuspendLock ==
    /\ At("pm", "s_lock") /\ Acquire("status", "pm")
    /\ Call("pm", (IF st.users > 0 THEN StopSteps ELSE <<>>) \o <<"s_done">>)
    /\ UNCHANGED <<dev, ctl, st, req, fh, power, left>>

\* The machine sleeps; the camera may lose its values.
SuspendDone ==
    /\ At("pm", "s_done") /\ Free("status") /\ Go("pm")
    /\ power' = "off"
    /\ UNCHANGED <<dev, ctl, st, req, fh, left>>

\* uvc_ctrl_restore_values marks the modified controls it has to restore.
ToRestore(c) == c \in Restore /\ ctl[c].modified

\* uvc_resume or, when the camera was reset, uvc_reset_resume.
Resume ==
    /\ power = "off" /\ todo["pm"] = <<>> /\ power' = "down"
    /\ \/ Jump("pm", <<"r_lock">>) /\ UNCHANGED dev
       \/ Jump("pm", <<"restore", "r_lock">>) /\ dev' = [c \in Ctrls |-> PowerOn(c)]
    /\ ctl' = IF todo'["pm"][1] = "restore" THEN
                 [c \in Ctrls |-> [ctl[c] EXCEPT !.dirty = @ \/ ToRestore(c),
                                                 !.loaded = @ /\ c \notin Auto]]
              ELSE ctl
    /\ UNCHANGED <<mutex, st, req, fh, left>>

\* uvc_ctrl_restore_values: one control at a time; an error ends the resume
\* after the remaining ones were rolled back to their backups.
RestoreOne ==
    /\ At("pm", "restore")
    /\ \/ /\ Dirty # {} /\ UNCHANGED <<left, todo, st, power>>
          /\ dev' = [dev EXCEPT ![Min(Dirty)] = ctl[Min(Dirty)].cur]
          /\ ctl' = [ctl EXCEPT ![Min(Dirty)].dirty = FALSE]
       \/ /\ Dirty # {} /\ Spend("faults") /\ UNCHANGED dev
          /\ ctl' = [c \in Ctrls |-> IF c \in Dirty THEN Reverted(ctl[c]) ELSE ctl[c]]
          /\ Jump("pm", <<>>)
          /\ st' = [st EXCEPT !.failed = TRUE]
          /\ power' = "on"
       \/ Dirty = {} /\ Go("pm") /\ UNCHANGED <<dev, ctl, left, st, power>>
    /\ UNCHANGED <<mutex, req, fh>>

\* uvc_status_resume.
ResumeStatus ==
    /\ At("pm", "r_lock") /\ mutex.status = None
    /\ (st.users > 0 => WorkIdle)
    /\ st' = IF st.users > 0 THEN [st EXCEPT !.flush = FALSE, !.urb = "in"] ELSE st
    /\ Go("pm") /\ power' = "on"
    /\ UNCHANGED <<dev, ctl, mutex, req, fh, left>>

-----------------------------------------------------------------------------
PmStep(t) ==
    \/ PmGet(t) \/ StatusGet(t) \/ PmPut(t) \/ StatusDrop(t)
    \/ StopFlush(t) \/ StopCancel(t) \/ StopKill(t)
    \/ EventLock(t) \/ EventClear(t) \/ EventSend(t)

IoctlStep(h) ==
    \/ VdevLock(h) \/ VdevUnlock(h) \/ AccessRead(h) \/ AccessCheck(h) \/ Begin(h)
    \/ \E m \in Mappings : SetOne(h, m) \/ GetOne(h, m)
    \/ EachDone(h) \/ CommitOne(h) \/ SetHandle(h) \/ RollBack(h) \/ CommitDone(h)
    \/ CommitEnd(h) \/ SubscribeInitial(h) \/ Unlock(h) \/ CleanupFh(h) \/ Closed(h)

SleepStep == SuspendLock \/ SuspendDone \/ RestoreOne \/ ResumeStatus

\* A step of the code of thread t.
ThreadStep(t) ==
    \/ PmStep(t)
    \/ t \in Handles /\ IoctlStep(t)
    \/ t = "work" /\ (WorkRuns \/ Resubmit)
    \/ t = "pm" /\ SleepStep

Fails(h) ==
    \/ Len(todo[h]) > 1 /\ todo[h][2] # "handle" /\ PmGetFails(h)
    \/ StatusGetFails(h) \/ EachFails(h) \/ CommitFails(h) \/ SetHandleFails(h)

Next ==
    \/ \E t \in Threads : ThreadStep(t)
    \/ \E h \in Handles : Ioctl(h) \/ Close(h) \/ Fails(h)
    \/ \E c \in Ctrls : StatusComplete(c) \/ Drifts(c)
    \/ StatusIgnored \/ Suspend \/ Resume

Spec == Init /\ [][Next]_vars


-----------------------------------------------------------------------------
(* Properties.                                                             *)

\* Types of the variables: struct uvc_control, the status endpoint, the locks.
TypeOK ==
    /\ \A c \in Ctrls : /\ dev[c] \in Data(c)
                        /\ ctl[c].cur \in Data(c) /\ ctl[c].bak \in Data(c)
                        /\ ctl[c].handle \in Handles \cup {None}
                        /\ {ctl[c].loaded, ctl[c].dirty, ctl[c].modified} \subseteq BOOLEAN
    /\ mutex \in [{"ctrl", "status", "vdev"} -> Threads \cup {None}]
    /\ st.users \in Nat /\ st.urb \in {"in", "off"} /\ st.ctrl \in Ctrls \cup {0}
    /\ \A h \in Handles : fh[h].pending \in Nat /\ fh[h].open \in BOOLEAN
    /\ power \in {"on", "down", "off"}

Quiet == (\A t \in Threads : todo[t] = <<>>) /\ ~st.pending

\* When nothing runs, status_users counts exactly the controls that wait for
\* an asynchronous event: every uvc_pm_get of an ioctl, a subscription and
\* uvc_ctrl_set_handle is matched by one uvc_pm_put, on every error path.
UsersCounted == Quiet => st.users = Cardinality({c \in Ctrls : ctl[c].handle # None})

\* When nothing runs and the machine is awake, the status URB is in flight
\* exactly when the camera is in use, unless a submission failed: neither a
\* stop that races the work nor a start after it loses the URB or leaves it on.
UrbMatchesUse == (Quiet /\ power = "on" /\ ~st.failed) => (st.urb = "in" <=> st.users > 0)

\* The status URB is never in flight while the work still processes the
\* event it delivered: the work's data (uvc_ctrl_work) has one owner.
UrbHasOneOwner == st.urb = "in" => WorkIdle \/ todo["work"] = <<"resubmit">>

\* Under no lock, a handle's pending_async_ctrls is the number of controls that
\* wait for it, and no control waits for a handle that was released.
HandlesCounted ==
    mutex.ctrl = None =>
      \A h \in Handles : /\ fh[h].pending = Cardinality({c \in Ctrls : ctl[c].handle = h})
                         /\ (~fh[h].open => \A c \in Ctrls : ctl[c].handle # h)

\* Outside a transaction no control is dirty, and a cached value of a control
\* that does not change by itself is the value the camera has: a failed or
\* abandoned transaction leaves cache and hardware in sync, except for the
\* controls in `but`.
CacheMatchesCamera(but) ==
    (mutex.ctrl = None /\ power = "on" /\ todo["pm"] = <<>>) =>
      \A c \in Ctrls : /\ ~ctl[c].dirty
                       /\ (ctl[c].loaded /\ c \notin Auto \cup but => ctl[c].cur = dev[c])

\* Whom the next step of thread t has to wait for: the holder of a mutex, or
\* the work.
Takes == [get |-> "status", put |-> "status", s_lock |-> "status", r_lock |-> "status",
          e_lock |-> "ctrl", begin |-> "ctrl", vlock |-> "vdev"]
WaitsForWork(t) ==
    At(t, "cancel") \/ (At(t, "start") /\ st.users = 0) \/ (At(t, "r_lock") /\ st.users > 0)
WaitsFor(t) ==
    (IF todo[t] # <<>> /\ Head(todo[t]) \in DOMAIN Takes THEN {mutex[Takes[Head(todo[t])]]} ELSE {})
    \cup (IF WaitsForWork(t) /\ todo["work"] # <<>> THEN {"work"} ELSE {})

\* Threads that wait for one another, or one for itself.
Waiters == {t \in Threads : WaitsFor(t) \cap Threads # {}}
Stalled == {S \in SUBSET Waiters : S # {} /\ \A t \in S : WaitsFor(t) \cap S # {}}

\* Threads wait for one another in one way only: one of them, under
\* status_lock, waits for the event work or processes its event itself.
StallsOnlyAtEvents ==
    \A S \in Stalled : \E t \in S :
       mutex.status = t /\ (WaitsForWork(t) \/ \E i \in DOMAIN todo[t] : todo[t][i] = "e_send")

=============================================================================
