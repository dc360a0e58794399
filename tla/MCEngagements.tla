----------------------------- MODULE MCEngagements -----------------------------
(***************************************************************************)
(* Small instances of Engagements for TLC.                                 *)
(***************************************************************************)
EXTENDS Engagements, TLC

CONSTANTS v1, m1, m2

\* Both milestones want to be number 1 of the same service.
MCSlot == m1 :> <<v1, 1>> @@ m2 :> <<v1, 1>>

\* Milestones with one slot, and sessions, are interchangeable.
Symmetry == Permutations({m1, m2}) \cup Permutations(Sessions)
=============================================================================
