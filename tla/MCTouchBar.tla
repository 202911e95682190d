----------------------------- MODULE MCTouchBar -----------------------------
(***************************************************************************)
(* The Touch Bar hardware service under six loads, one explored at a time: *)
(* frames of two renderers of one user, frames of a single renderer with a *)
(* failing panel, taps with failing writes while sessions of two users     *)
(* take turns, touches beside requests, the Fn key, and brightness.        *)
(***************************************************************************)
EXTENDS TLC

CONSTANTS r1, r2, s1, s2, None

VARIABLES part, pc, back, due, seat, watch, first, listen, cl, conn, pend, kb,
          bright, panel, lit, inp, hw, faults

Users == r1 :> "u1" @@ r2 :> "u1" @@ s1 :> "u1" @@ s2 :> "u2"

Frames == INSTANCE TouchBarService WITH
  Clients <- {r1, r2}, Sessions <- {s1}, UserOf <- Users, Buffers <- {1},
  MaxBuffers <- 1, Regions <- {"left", "right"}, Damages <- {{"left"}},
  Ops <- {"hello", "register", "submit"}, Kinds <- {}, Minors <- {1}, Room <- 1,
  HwEvents <- {}, MaxFaults <- 0
Alone == INSTANCE TouchBarService WITH
  Clients <- {r1}, Sessions <- {s1}, UserOf <- Users, Buffers <- {1},
  MaxBuffers <- 1, Regions <- {"left", "right"}, Damages <- {{}, {"left"}},
  Ops <- {"hello", "register", "submit"}, Kinds <- {}, Minors <- {1}, Room <- 1,
  HwEvents <- {}, MaxFaults <- 1
Taps == INSTANCE TouchBarService WITH
  Clients <- {r1}, Sessions <- {s1, s2}, UserOf <- Users, Buffers <- {1},
  MaxBuffers <- 1, Regions <- {"left"}, Damages <- {{}},
  Ops <- {"hello", "tap", "malformed"}, Kinds <- {}, Minors <- {1}, Room <- 1,
  HwEvents <- {}, MaxFaults <- 3
Input == INSTANCE TouchBarService WITH
  Clients <- {r1}, Sessions <- {s1}, UserOf <- Users, Buffers <- {1},
  MaxBuffers <- 1, Regions <- {"left"}, Damages <- {{}},
  Ops <- {"hello", "cancel", "unknown"}, Kinds <- {}, Minors <- {1}, Room <- 1,
  HwEvents <- {"finger", "silent"}, MaxFaults <- 0
FnKey == INSTANCE TouchBarService WITH
  Clients <- {r1}, Sessions <- {s1}, UserOf <- Users, Buffers <- {1},
  MaxBuffers <- 1, Regions <- {"left"}, Damages <- {{}}, Ops <- {"hello"},
  Kinds <- {}, Minors <- {0, 1}, Room <- 1, HwEvents <- {"fn"}, MaxFaults <- 0
Bright == INSTANCE TouchBarService WITH
  Clients <- {r1}, Sessions <- {s1}, UserOf <- Users, Buffers <- {1},
  MaxBuffers <- 1, Regions <- {"left"}, Damages <- {{}}, Ops <- {"hello", "set", "step"},
  Kinds <- {"display"}, Minors <- {1}, Room <- 1, HwEvents <- {}, MaxFaults <- 1

\* Only "frames" has both renderers, and it treats them alike.
Symmetry == Permutations({r1, r2})

vars == <<part, pc, back, due, seat, watch, first, listen, cl, conn, pend, kb,
          bright, panel, lit, inp, hw, faults>>

Init ==
  \/ part = "frames" /\ Frames!Init
  \/ part = "alone" /\ Alone!Init
  \/ part = "taps" /\ Taps!Init
  \/ part = "input" /\ Input!Init
  \/ part = "fn" /\ FnKey!Init
  \/ part = "bright" /\ Bright!Init

Next ==
  /\ UNCHANGED part
  /\ \/ part = "frames" /\ Frames!Next
     \/ part = "alone" /\ Alone!Next
     \/ part = "taps" /\ Taps!Next
     \/ part = "input" /\ Input!Next
     \/ part = "fn" /\ FnKey!Next
     \/ part = "bright" /\ Bright!Next

Spec == Init /\ [][Next]_vars

\* TouchBarService: once a client's first frame was presented, no pixel of
\* another client is left on the panel, whatever damage its frames name; while
\* the service has yet to read a submitted frame its client does not regard
\* the buffer as its own, and a client told of a release can submit it again.
NoForeignPixels ==
  /\ part = "frames" => /\ Frames!NoForeignPixels
                        /\ Frames!DrawnBufferNotRead /\ Frames!ReleasedMeansFree
  /\ part = "alone" => /\ Alone!NoForeignPixels
                       /\ Alone!DrawnBufferNotRead /\ Alone!ReleasedMeansFree

\* TouchBarService: a key the kernel holds down belongs to a client that is
\* being revoked.  Three writes may fail: the release of a tap, the release
\* tried after it and the one of the revocation, which ends the service.
KeyNeverStuck == part = "taps" => Taps!KeyNeverStuck

\* TouchBarService: there is a connection exactly while the session watch is
\* admitted, and it is one of that session's user; the frame waiting for it,
\* or else the last one sent, is the current state of finger and Fn key.
SessionFollowsConnection ==
  /\ part = "taps" => Taps!TypeOK /\ Taps!SessionFollowsConnection
  /\ part = "input" => Input!LatestInputKept
  /\ part = "fn" => FnKey!LatestInputKept
=============================================================================
