---------------------------- MODULE PairRegister ----------------------------
(***************************************************************************)
(* What the catacomb store promises whoever loads a pair: the pair         *)
(* selected is the one last committed, or a candidate that the store still *)
(* remembers as undecided.  A generation is committed only while it is     *)
(* selected, and stops being a candidate by that.  An interruption may     *)
(* undo a selection or forget a candidate that is not selected; it never   *)
(* selects anything else.                                                  *)
(***************************************************************************)
EXTENDS Naturals

CONSTANT Generations

VARIABLES
  committed,   \* the generation last committed, 0 for none
  candidates,  \* generations whose fate is undecided
  selected     \* the generation a load returns, 0 for none

vars == <<committed, candidates, selected>>

Init ==
  /\ committed \in Generations \cup {0}
  /\ candidates = {}
  /\ selected = committed

Reserve(g) ==
  /\ candidates' = candidates \cup {g}
  /\ UNCHANGED <<committed, selected>>

Select(g) ==
  /\ g \in candidates
  /\ selected' = g
  /\ UNCHANGED <<committed, candidates>>

Commit(g) ==
  /\ g \in candidates
  /\ selected = g
  /\ committed' = g
  /\ candidates' = candidates \ {g}
  /\ UNCHANGED selected

Interrupt ==
  /\ candidates' \in SUBSET (candidates \cup {committed})
  /\ selected' \in {committed} \cup (candidates' \cap Generations)
  /\ UNCHANGED committed

Next ==
  \/ \E g \in Generations : Reserve(g) \/ Select(g) \/ Commit(g)
  \/ Interrupt

Spec == Init /\ [][Next]_vars
=============================================================================
