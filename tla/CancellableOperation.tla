------------------------- MODULE CancellableOperation -------------------------
(***************************************************************************)
(* What the broker promises about operations, with no tokens, leases or    *)
(* registrations: at most one is live; an accepted cancellation and the    *)
(* worker's commitment to a durable mutation exclude each other; a         *)
(* cancelled operation never succeeds; an ended operation never changes.   *)
(***************************************************************************)
CONSTANT Operations

VARIABLE phase

Live == {"running", "cancelled", "committed"}
Init == phase = [o \in Operations |-> "new"]

Move(o, from, to) ==
  /\ phase[o] \in from
  /\ phase' = [phase EXCEPT ![o] = to]

Begin(o) == Move(o, {"new"}, "running") /\ \A p \in Operations : phase[p] \notin Live
Cancel(o) == Move(o, {"running"}, "cancelled")
Commit(o) == Move(o, {"running"}, "committed")
Succeed(o) == Move(o, {"running", "committed"}, "succeeded")
Fail(o) == Move(o, Live, "failed")

Next == \E o \in Operations :
          Begin(o) \/ Cancel(o) \/ Commit(o) \/ Succeed(o) \/ Fail(o)

Spec == Init /\ [][Next]_phase
=============================================================================
