----------------------------- MODULE MatchSearch -----------------------------
(***************************************************************************)
(* The search of eg_match_core (gabor/egis_match_gabor.c): a coarse pass   *)
(* over every EG_ROT_COARSE-th rotation and every EG_SHIFT_STEP-th shift,  *)
(* decimated in pixels, keeps the EG_REFINE best alignments by insertion;  *)
(* a fine pass at full resolution looks around each for the best of all.   *)
(* What eg_ncc gives is the input: any score in the coarse pass, one of    *)
(* Fines in the fine one. The two shift loops, which are alike, are one.   *)
(*                                                                         *)
(* Scores are ranks: 0 is the -2.0 of an entry not filled, 1 the -1.0 of   *)
(* frames that do not overlap enough, the rest are correlations. Rotations *)
(* count from 0 as r does, shifts from 0 for -EG_SRCH.                     *)
(***************************************************************************)
EXTENDS Integers, FiniteSets

CONSTANTS
  RotK,        \* EG_ROT_K: 4, the index of 0 degrees
  RotCoarse,   \* EG_ROT_COARSE: 2
  Width,       \* 2 * EG_SRCH: 38
  ShiftStep,   \* EG_SHIFT_STEP: 1
  Refine,      \* EG_REFINE: 3
  Scores,      \* what eg_ncc gives in the coarse pass
  Fines        \* [Rotations -> [Shifts -> ..]]: at full resolution

Rotations == 0 .. 2 * RotK
Shifts == 0 .. Width
Reach == 2

ASSUME GridAssumption ==
  /\ RotK \in Nat /\ RotCoarse \in Nat \ {0}
  /\ Width \in Nat /\ ShiftStep \in Nat \ {0} /\ Refine \in Nat \ {0}
ASSUME ScoresAssumption ==
  /\ Scores \subseteq Nat \ {0}
  /\ Fines \subseteq [Rotations -> [Shifts -> Nat \ {0}]]

Unset == 0
NoOverlap == 1

VARIABLES
  fine,        \* this pair's full-resolution scores
  r, d,        \* the loops of the coarse pass
  cand,        \* cand_s, cand_r, cand_dx and cand_dy
  c,           \* the loop of the fine pass, from 1
  best, at,    \* best; brot and bdx, bdy
  coarse       \* for the properties: what the coarse pass has scored

vars == <<fine, r, d, cand, c, best, at, coarse>>

Init ==
  /\ fine \in Fines
  /\ r = RotK % RotCoarse /\ d = 0
  /\ cand = [i \in 1 .. Refine |-> [s |-> Unset, r |-> 0, d |-> 0]]
  /\ c = 1 /\ best = NoOverlap /\ at = [r |-> RotK, d |-> Width \div 2]
  /\ coarse = {}

-----------------------------------------------------------------------------
(* The coarse pass                                                          *)

\* (slip) The entry displaced is overwritten, not moved down.
InsertedOver(e) ==
  [j \in 1 .. Refine |->
    IF e.s > cand[j].s /\ \A i \in 1 .. j - 1 : e.s <= cand[i].s
    THEN e ELSE cand[j]]

\* Before the first entry it beats; the ones from there move down, the last
\* one out.
Inserted(e) ==
  [j \in 1 .. Refine |->
    IF \A i \in 1 .. j : e.s <= cand[i].s THEN cand[j]
    ELSE IF \A i \in 1 .. j - 1 : e.s <= cand[i].s THEN e
    ELSE cand[j - 1]]

Taken(e) ==
  cand' = IF e.s <= NoOverlap \/ e.s <= cand[Refine].s THEN cand
          ELSE Inserted(e)

Step ==
  IF d + ShiftStep <= Width THEN d' = d + ShiftStep /\ r' = r
  ELSE d' = 0 /\ r' = r + RotCoarse

CoarseDone == r > 2 * RotK

Coarse(s) ==
  /\ ~CoarseDone
  /\ Taken([s |-> s, r |-> r, d |-> d])
  /\ coarse' = coarse \cup {[s |-> s, r |-> r, d |-> d]}
  /\ Step
  /\ UNCHANGED <<fine, c, best, at>>

-----------------------------------------------------------------------------
(* The fine pass                                                            *)

Alignments == [r : Rotations, d : Shifts]

\* (slip) The neighbouring rotations are left out.
WindowFlat(e) ==
  {a \in Alignments :
     a.r = e.r /\ a.d \in e.d - Reach .. e.d + Reach}

\* The alignments around a candidate, those outside the search left out.
Window(e) ==
  {a \in Alignments :
     /\ a.r \in e.r - (RotCoarse - 1) .. e.r + (RotCoarse - 1)
     /\ a.d \in e.d - Reach .. e.d + Reach}

Before(a, b) == a.r < b.r \/ (a.r = b.r /\ a.d < b.d)

Full(a) == fine[a.r][a.d]

\* The first alignment around @e with its best score, if that is a new best.
NewBest(e, a) ==
  /\ a \in Window(e) /\ Full(a) > best
  /\ \A b \in Window(e) :
       Full(b) <= Full(a) /\ (Before(b, a) => Full(b) < Full(a))

Skipped ==
  \/ cand[c].s <= NoOverlap
  \/ \A a \in Window(cand[c]) : Full(a) <= best

Fine ==
  /\ CoarseDone /\ c <= Refine
  /\ c' = c + 1
  /\ \/ Skipped /\ UNCHANGED <<best, at>>
     \/ /\ cand[c].s > NoOverlap
        /\ \E a \in Alignments :
             NewBest(cand[c], a) /\ best' = Full(a) /\ at' = a
  /\ UNCHANGED <<fine, r, d, cand, coarse>>

Next == Fine \/ \E s \in Scores : Coarse(s)

Spec == Init /\ [][Next]_vars

-----------------------------------------------------------------------------
(* Properties                                                               *)

\* The entries and the alignment handed to the period check are on the grid.
TypeOK ==
  /\ fine \in Fines /\ r \in Nat /\ d \in Shifts
  /\ cand \in [1 .. Refine -> [s : Nat, r : Rotations, d : Shifts]]
  /\ c \in 1 .. Refine + 1
  /\ best \in Nat /\ at \in Alignments

\* The list is the EG_REFINE best of what the coarse pass has scored, in
\* order, the one met first ahead where scores are equal; entries not filled
\* are at its end, and nothing is lost while there is one.
KeepsTheBest ==
  /\ \A i \in 1 .. Refine : cand[i].s # Unset => cand[i] \in coarse
  /\ \A i, j \in 1 .. Refine : i < j =>
       \/ cand[j].s < cand[i].s
       \/ cand[j].s = cand[i].s /\ Before(cand[i], cand[j])
       \/ cand[i].s = Unset /\ cand[j].s = Unset
  /\ \A e \in coarse :
       \/ e.s <= NoOverlap
       \/ \E i \in 1 .. Refine : cand[i] = e
       \/ e.s < cand[Refine].s
       \/ e.s = cand[Refine].s /\ Before(cand[Refine], e)

Done == CoarseDone /\ c > Refine

\* The fine pass's result is the best around any of the entries, at an
\* alignment that has it; -1 only if no entry was filled.
FindsThePeak ==
  Done =>
    /\ \A i \in 1 .. Refine : cand[i].s > NoOverlap =>
         \A a \in Window(cand[i]) : Full(a) <= best
    /\ best > NoOverlap =>
         /\ Full(at) = best
         /\ \E i \in 1 .. Refine : cand[i].s > NoOverlap /\ at \in Window(cand[i])

\* The two passes look where the exhaustive search (EG_COARSE 0) looks: between
\* the steps of the coarse pass, and from its last step to the end of the range,
\* there is no angle and no shift that the window of something it scored does
\* not reach; and 0 degrees, "always visited", is scored itself.
MissesNoAlignment ==
  CoarseDone =>
    /\ \A a \in Alignments : \E e \in coarse : a \in Window(e)
    /\ \E e \in coarse : e.r = RotK
=============================================================================
