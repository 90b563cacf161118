----------------------------- MODULE MCMatchSearch -----------------------------
(***************************************************************************)
(* The grid of the MatchSearch run: full-resolution scores with their peak *)
(* in the middle, at a corner, twice, and none at all.                     *)
(***************************************************************************)
EXTENDS MatchSearch

Peaks(P) == [x \in Rotations |-> [y \in Shifts |->
               CASE <<x, y>> \in P -> 4 [] (x + y) % 3 = 0 -> 1 [] OTHER -> 2]]

Corner == Peaks({<<0, 0>>})
Edge == Peaks({<<2 * RotK, Width - 1>>})
Twice == Peaks({<<RotK, 1>>, <<2 * RotK, Width>>})
MCFines == {Corner, Edge, Twice, [x \in Rotations |-> [y \in Shifts |-> 1]]}
=============================================================================
