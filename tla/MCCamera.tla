------------------------------ MODULE MCCamera ------------------------------
(***************************************************************************)
(* The camera driver, one part explored at a time.  Its control interface: *)
(* transactions over two controls with failing transfers (commit), a sleep *)
(* between them (sleep), asynchronous controls of two handles (async),     *)
(* handles that subscribe, wait and close (handles).  The lifetime of the  *)
(* device with its nodes (life).  The stream: an uncompressed one over     *)
(* isochronous packets that sleeps and loses its camera (iso), a           *)
(* compressed one without end markers over a bulk endpoint (bulk).         *)
(***************************************************************************)
EXTENDS Integers, Sequences, TLC

CONSTANTS h1, h2, Nobody, b1, b2

VARIABLES
  part,
  dev, ctl, mutex, st, todo, req, fh, power, left,
  pc, k, streams, claimed, node, owner,
  buf, vbq, done, irq, urb, fly, str, call, cam, used,
  unrestored     \* history: cached controls a resume left unlike the camera

-----------------------------------------------------------------------------
(* The controls and the lifetime *)

Mapped(c) == IF c = 1 THEN {1, 2} ELSE {1}
TwoAndOne == [c \in {1, 2} |-> Mapped(c)]
OneEach == [c \in {1, 2} |-> {1}]
OnePair == {<<1, 1>>, <<2, 1>>}

Commit == INSTANCE UvcControls WITH
  Handles <- {h1}, Ctrls <- {1, 2}, Fields <- TwoAndOne,
  Slaves <- [m \in OnePair \cup {<<1, 2>>} |-> {}], Values <- {0, 1},
  Auto <- {2}, Async <- {}, Restore <- {1}, Ops <- {"set", "try"},
  MaxCalls <- 2, MaxReq <- 2, MaxEvents <- 1, MaxFaults <- 1, MaxSleeps <- 0,
  MaxCloses <- 0, None <- Nobody
Sleep == INSTANCE UvcControls WITH
  Handles <- {h1}, Ctrls <- {1, 2}, Fields <- TwoAndOne,
  Slaves <- [m \in OnePair \cup {<<1, 2>>} |-> IF m = <<1, 1>> THEN {<<2, 1>>} ELSE {}],
  Values <- {0, 1}, Auto <- {2}, Async <- {}, Restore <- {1, 2}, Ops <- {"set", "get"},
  MaxCalls <- 2, MaxReq <- 1, MaxEvents <- 2, MaxFaults <- 0, MaxSleeps <- 1,
  MaxCloses <- 0, None <- Nobody
Waiting == INSTANCE UvcControls WITH
  Handles <- {h1, h2}, Ctrls <- {1, 2}, Fields <- OneEach,
  Slaves <- [m \in OnePair |-> IF m = <<1, 1>> THEN {<<2, 1>>} ELSE {}],
  Values <- {0, 1}, Auto <- {}, Async <- {1}, Restore <- {}, Ops <- {"set"},
  MaxCalls <- 2, MaxReq <- 1, MaxEvents <- 2, MaxFaults <- 1, MaxSleeps <- 1,
  MaxCloses <- 1, None <- Nobody
Closing == INSTANCE UvcControls WITH
  Handles <- {h1, h2}, Ctrls <- {1, 2}, Fields <- OneEach,
  Slaves <- [m \in OnePair |-> IF m = <<2, 1>> THEN {<<1, 1>>} ELSE {}],
  Values <- {0, 1}, Auto <- {}, Async <- {1, 2}, Restore <- {1},
  Ops <- {"set", "subscribe"}, MaxCalls <- 2, MaxReq <- 1, MaxEvents <- 0,
  MaxFaults <- 1, MaxSleeps <- 1, MaxCloses <- 1,
  None <- Nobody
Life == INSTANCE UvcLifetime WITH Streams <- {1, 2}, MaxOpens <- 2, dev <- owner

-----------------------------------------------------------------------------
(* The stream *)

Two == {b1, b2}
Symmetric == Permutations(Two)

Iso == INSTANCE UvcStream WITH
  Bufs <- Two, Urbs <- 1 .. 2, FrameLen <- 2, Slots <- 2, Parts <- 1,
  Bulk <- FALSE, EofBit <- TRUE, Compressed <- FALSE, NoDrop <- FALSE,
  MaxFrames <- 2, MaxFaults <- 1, MaxUrbErrors <- 0, MaxCalls <- 2,
  MaxSleeps <- 1, Unplug <- TRUE
BulkStream == INSTANCE UvcStream WITH
  Bufs <- Two, Urbs <- 1 .. 2, FrameLen <- 2, Slots <- 1, Parts <- 2,
  Bulk <- TRUE, EofBit <- FALSE, Compressed <- TRUE, NoDrop <- TRUE,
  MaxFrames <- 3, MaxFaults <- 1, MaxUrbErrors <- 0, MaxCalls <- 3,
  MaxSleeps <- 1, Unplug <- FALSE

-----------------------------------------------------------------------------
(* One part moves *)

controlVars == <<dev, ctl, mutex, st, todo, req, fh, power, left>>
lifeVars == <<pc, k, streams, claimed, node, owner>>
streamVars == <<buf, vbq, done, irq, urb, fly, str, call, cam, used>>

Controlling == {"commit", "sleep", "async", "handles"}
Streaming == {"iso", "bulk"}

Init ==
  /\ part \in Controlling \cup {"life"} \cup Streaming
  /\ CASE part = "sleep" -> Sleep!Init
       [] part = "async" -> Waiting!Init
       [] part = "handles" -> Closing!Init
       [] OTHER -> Commit!Init
  /\ Life!Init
  /\ Iso!Init
  /\ unrestored = {}

\* A resume of a camera that was reset skips the controls without the RESTORE
\* flag, and gives up when a write fails.  The control is in step again when
\* it is written or dropped from the cache.
Restored == CASE part = "sleep" -> {1, 2} [] part = "handles" -> {1} [] OTHER -> {}
Skipped ==
  IF power = "off" /\ power' = "down" /\ Head(todo'["pm"]) = "restore"
  THEN {c \in {1, 2} \ Restored : ctl[c].modified} ELSE {}
GivenUp ==
  IF todo["pm"] # <<>> /\ Head(todo["pm"]) = "restore" /\ power' = "on"
  THEN {c \in {1, 2} : ctl[c].dirty} ELSE {}
InStep(c) ==
  ~ctl'[c].loaded \/ (ctl[c].dirty /\ ~ctl'[c].dirty /\ ctl'[c].cur = dev'[c])

NextControl ==
  /\ \/ part = "commit" /\ Commit!Next
     \/ part = "sleep" /\ Sleep!Next
     \/ part = "async" /\ Waiting!Next
     \/ part = "handles" /\ Closing!Next
  /\ unrestored' = {c \in unrestored \cup Skipped \cup GivenUp : ~InStep(c)}
  /\ UNCHANGED <<lifeVars, streamVars>>

NextLife ==
  /\ part = "life" /\ Life!Next
  /\ UNCHANGED <<controlVars, streamVars, unrestored>>

NextStream ==
  /\ \/ part = "iso" /\ Iso!Next
     \/ part = "bulk" /\ BulkStream!Next
  /\ UNCHANGED <<controlVars, lifeVars, unrestored>>

Next ==
  /\ UNCHANGED part
  /\ NextControl \/ NextLife \/ NextStream

Spec == Init /\ [][Next]_<<part, unrestored, controlVars, lifeVars, streamVars>>

-----------------------------------------------------------------------------
(* What each part keeps *)

\* UvcControls: outside a transaction no control is dirty, and a cached value
\* of a control that does not change by itself is the camera's.  There are two
\* exceptions, both after a sleep in which the camera was reset and until the
\* control is written or read anew: a modified control without the RESTORE flag
\* keeps its cached value, and when a restoring write fails
\* uvc_ctrl_commit_entity puts the backup of the last transaction in the cache.
CacheMatchesCamera ==
  /\ part = "commit" => Commit!TypeOK /\ Commit!CacheMatchesCamera({})
  /\ part = "sleep" => Sleep!CacheMatchesCamera(unrestored)
  /\ part = "async" => Waiting!CacheMatchesCamera(unrestored)
  /\ part = "handles" => Closing!CacheMatchesCamera(unrestored)

\* UvcControls: the status URB is never in flight while the work still
\* processes the event it delivered, and when nothing runs it is in flight
\* exactly when the camera is in use.  Under no lock, a handle's pending count
\* is the number of controls that wait for it, no control waits for a released
\* handle, and the users of the status URB are accounted for.  Threads wait for
\* one another in one way only, the stall of uvc_status_stop and
\* uvc_status_start: under status_lock they wait for the event work or process
\* its event themselves.
HandlesCounted ==
  /\ part \in {"commit", "sleep"} => Commit!UrbHasOneOwner /\ Commit!UrbMatchesUse
  /\ part \in {"async", "handles"} =>
       /\ Waiting!UrbHasOneOwner /\ Waiting!UrbMatchesUse
       /\ Waiting!HandlesCounted /\ Waiting!UsersCounted
       /\ Waiting!StallsOnlyAtEvents

\* UvcLifetime: the device is not freed while anyone can still reach it, and
\* freeing it leaves nothing behind; once the driver has let go of the camera
\* its status URB is not in flight.
HeldWhileUsed ==
  part = "life" =>
    /\ Life!TypeOK /\ Life!HeldWhileUsed /\ Life!NothingLeftBehind
    /\ Life!FreedWhenLetGo /\ Life!QuietAfterDisconnect

\* UvcStream: a buffer the driver owns is in its queue or still being written
\* by a copy that gives it back; once a stream has stopped nothing is in
\* flight and the driver owns no buffer.
DriverHoldsItsBuffers ==
  /\ part = "iso" => Iso!TypeOK /\ Iso!DriverHoldsItsBuffers
  /\ part = "bulk" => BulkStream!DriverHoldsItsBuffers
  /\ part \in Streaming => Iso!StoppedIsQuiet /\ Iso!StopReturnsBuffers

\* UvcStream: a buffer given back as a good frame holds consecutive packets of
\* one frame, none of them bad, and numbers follow the camera's frames.
DoneIsOneFrame ==
  /\ part = "iso" => Iso!DoneIsOneFrame /\ Iso!NumbersFollowFrames
  /\ part = "bulk" => BulkStream!DoneIsOneFrame
=============================================================================
