--------------------------- MODULE MatchSearchProofs ---------------------------
(***************************************************************************)
(* Proofs, for every grid, every number of entries and every score, that   *)
(* the list kept by insertion is the best of what the coarse pass has      *)
(* scored and that the fine pass finds the best around its entries.        *)
(***************************************************************************)
EXTENDS MatchSearch, TLAPS, WellFoundedInduction

LEMMA Smallest ==
  ASSUME NEW T, T \subseteq Nat, T # {}
  PROVE  \E x \in T : \A y \in T : x <= y
<1>1. IsWellFoundedOn(OpToRel(<, Nat), Nat)
  BY NatLessThanWellFounded
<1>2. PICK x \in T : \A y \in T : <<y, x>> \notin OpToRel(<, Nat)
  BY <1>1, WFMin, Zenon
<1>3. \A y \in T : ~(y < x)
  BY <1>2 DEF OpToRel
<1> QED BY <1>3

Entry == [s : Nat, r : Rotations, d : Shifts]

\* What the coarse pass has scored lies before where its loops are.
Scanned ==
  /\ coarse \subseteq Entry
  /\ \A e \in coarse : e.s # Unset /\ (e.r < r \/ (e.r = r /\ e.d < d))

Filled == \A i \in 1 .. Refine : cand[i].s # Unset => cand[i].s > NoOverlap

Listed == TypeOK /\ Scanned /\ Filled /\ KeepsTheBest

\* The list is sorted, so the entry goes before the first one it beats.
LEMMA InsertedAt ==
  ASSUME Listed, NEW e \in Entry, NEW j \in 1 .. Refine
  PROVE  Inserted(e)[j] = IF e.s <= cand[j].s THEN cand[j]
                          ELSE IF j = 1 \/ e.s <= cand[j - 1].s THEN e
                          ELSE cand[j - 1]
<1>1. /\ \A i \in 1 .. Refine : cand[i].s \in Nat
      /\ \A i, k \in 1 .. Refine : i < k => cand[k].s <= cand[i].s
      /\ Refine \in Nat /\ e.s \in Nat
  BY GridAssumption DEF Listed, TypeOK, KeepsTheBest, Entry
<1>2. ASSUME NEW k \in 1 .. Refine
      PROVE  (\A i \in 1 .. k : e.s <= cand[i].s) <=> e.s <= cand[k].s
  <2>1. \A i \in 1 .. k : i \in 1 .. Refine /\ (i = k \/ i < k)
    BY <1>1
  <2> QED BY <1>1, <2>1
<1>3. (\A i \in 1 .. j : e.s <= cand[i].s) <=> e.s <= cand[j].s
  BY <1>2
<1>4. (\A i \in 1 .. j - 1 : e.s <= cand[i].s)
        <=> (j = 1 \/ e.s <= cand[j - 1].s)
  <2>1. CASE j = 1
    <3>1. 1 .. j - 1 = {}
      BY <2>1
    <3> QED BY <2>1, <3>1
  <2>2. CASE j # 1
    <3>1. j - 1 \in 1 .. Refine
      BY <1>1, <2>2
    <3> QED BY <1>2, <2>2, <3>1
  <2> QED BY <2>1, <2>2
<1> QED BY <1>3, <1>4, Zenon DEF Inserted

LEMMA InsertedKeeps ==
  ASSUME Listed, NEW e \in Entry, e.s > NoOverlap, e.s > cand[Refine].s,
         \A b \in coarse : Before(b, e),
         cand' = Inserted(e), coarse' = coarse \cup {e}
  PROVE  /\ cand' \in [1 .. Refine -> Entry] /\ Filled' /\ KeepsTheBest'
<1> DEFINE I == 1 .. Refine
<1>1. /\ Refine \in Nat /\ Refine >= 1 /\ e.s \in Nat
      /\ \A i \in I : cand[i] \in Entry /\ cand[i].s \in Nat
      /\ coarse \subseteq Entry
  BY GridAssumption DEF Listed, TypeOK, Entry, Scanned
<1>2. /\ \A i \in I : cand[i].s # Unset =>
                        cand[i] \in coarse /\ cand[i].s > NoOverlap
      /\ \A i, j \in I : i < j =>
           \/ cand[j].s < cand[i].s
           \/ cand[j].s = cand[i].s /\ Before(cand[i], cand[j])
           \/ cand[i].s = Unset /\ cand[j].s = Unset
  BY DEF Listed, Filled, KeepsTheBest
<1>3. \A j \in I : cand'[j] = IF e.s <= cand[j].s THEN cand[j]
                              ELSE IF j = 1 \/ e.s <= cand[j - 1].s THEN e
                              ELSE cand[j - 1]
  BY InsertedAt
<1>4. \A j \in I : j = 1 \/ j - 1 \in I
  BY <1>1
<1>5. cand' \in [I -> Entry]
  <2>1. cand' = [j \in I |-> cand'[j]]
    BY DEF Inserted
  <2>2. \A j \in I : cand'[j] \in Entry
    BY <1>1, <1>3, <1>4
  <2> QED BY <2>1, <2>2
<1>6. \A j \in I : cand'[j] = cand[j] \/ cand'[j] = e \/ (j - 1 \in I /\ cand'[j] = cand[j - 1])
  BY <1>3, <1>4
<1>7. Filled'
  BY <1>2, <1>6 DEF Filled
<1>8. \A i \in I : cand'[i].s # Unset => cand'[i] \in coarse'
  BY <1>2, <1>6
<1>9. PICK q \in I : /\ ~(e.s <= cand[q].s)
                     /\ \A i \in I : i < q => e.s <= cand[i].s
  <2> DEFINE T == {i \in I : ~(e.s <= cand[i].s)}
  <2>1. T \subseteq Nat /\ T # {}
    BY <1>1
  <2>2. PICK q \in T : \A i \in T : q <= i
    BY <2>1, Smallest, Zenon
  <2> QED BY <1>1, <2>2
<1>10. cand'[q] = e
  BY <1>1, <1>3, <1>4, <1>9
<1>13. /\ \A j \in I : j < q => cand'[j] = cand[j] /\ e.s <= cand[j].s
       /\ \A j \in I : q < j => /\ j - 1 \in I /\ cand'[j] = cand[j - 1]
                                /\ cand[j - 1].s < e.s
  <2>1. ASSUME NEW j \in I, q < j
        PROVE  j - 1 \in I /\ cand[j - 1].s < e.s /\ cand[j].s < e.s
    <3>1. j - 1 \in I /\ (j - 1 = q \/ q < j - 1)
      BY <1>1, <2>1
    <3>2. \A k \in I : q < k => cand[k].s <= cand[q].s
      BY <1>1, <1>2
    <3> QED BY <1>1, <1>9, <2>1, <3>1, <3>2
  <2>2. ASSUME NEW j \in I, q < j PROVE cand'[j] = cand[j - 1]
    <3>1. j # 1 /\ ~(e.s <= cand[j].s) /\ ~(e.s <= cand[j - 1].s)
      BY <1>1, <1>9, <2>1, <2>2
    <3> QED BY <1>3, <3>1
  <2> QED BY <1>3, <1>9, <2>1, <2>2
<1> DEFINE Ordered(x, y) == \/ y.s < x.s
                            \/ y.s = x.s /\ Before(x, y)
                            \/ x.s = Unset /\ y.s = Unset
<1>14. \A i, j \in I : i < j => Ordered(cand[i], cand[j])
  BY <1>2
<1>15. ASSUME NEW i \in I, i < q PROVE Ordered(cand[i], e)
  <2>1. e.s <= cand[i].s /\ cand[i].s \in Nat
    BY <1>1, <1>13, <1>15
  <2>2. CASE e.s = cand[i].s
    <3>1. cand[i].s # Unset
      BY <2>2 DEF Unset, NoOverlap
    <3>2. Before(cand[i], e)
      BY <1>2, <3>1
    <3> QED BY <2>2, <3>2
  <2> QED BY <1>1, <2>1, <2>2
<1> HIDE DEF Ordered
<1>11. ASSUME NEW i \in I, NEW j \in I, i < j
       PROVE  Ordered(cand'[i], cand'[j])
  <2>1. CASE j < q
    BY <1>11, <1>13, <1>14, <2>1
  <2>2. CASE i < q /\ j = q
    BY <1>10, <1>13, <1>15, <2>2
  <2>3. CASE i < q /\ q < j
    <3>1. j - 1 \in I /\ i < j - 1
      BY <1>13, <2>3
    <3> QED BY <1>13, <1>14, <2>3, <3>1
  <2>4. CASE i = q
    BY <1>10, <1>11, <1>13, <2>4 DEF Ordered
  <2>5. CASE q < i
    <3>1. i - 1 \in I /\ j - 1 \in I /\ i - 1 < j - 1 /\ q < j
      BY <1>11, <1>13, <2>5
    <3> QED BY <1>13, <1>14, <2>5, <3>1
  <2> QED BY <1>11, <2>1, <2>2, <2>3, <2>4, <2>5
<1> DEFINE last == cand[Refine]
           last2 == cand'[Refine]
           Out(b, l) == b.s < l.s \/ (b.s = l.s /\ Before(l, b))
<1>16. Refine \in I /\ last \in Entry
  BY <1>1
<1>17. \/ q = Refine /\ last2 = e /\ last.s < e.s
       \/ last2 \in Entry /\ Ordered(last2, last)
  <2>1. CASE q = Refine
    BY <1>1, <1>9, <1>10, <2>1
  <2>2. CASE q # Refine
    <3>1. q < Refine
      BY <1>1, <2>2
    <3>2. Refine - 1 \in I /\ last2 = cand[Refine - 1] /\ Refine - 1 < Refine
      BY <1>13, <1>16, <3>1
    <3> QED BY <1>1, <1>14, <1>16, <3>2
  <2> QED BY <2>1, <2>2
<1>18. ASSUME NEW b \in Entry, Out(b, last) \/ b = last
       PROVE  b.s <= NoOverlap \/ Out(b, last2)
  <2>1. b.s \in Nat /\ last.s \in Nat /\ last2.s \in Nat
    BY <1>1, <1>16, <1>17 DEF Entry
  <2> HIDE DEF last, last2
  <2>2. CASE q = Refine /\ last2 = e /\ last.s < e.s
    BY <1>18, <2>1, <2>2
  <2>3. CASE last2 \in Entry /\ Ordered(last2, last)
    BY <1>16, <1>18, <2>1, <2>3
       DEF Ordered, Before, Unset, NoOverlap, Entry, Rotations, Shifts
  <2> QED BY <1>17, <2>2, <2>3
<1>12. ASSUME NEW b \in coarse'
       PROVE  b.s <= NoOverlap \/ (\E i \in I : cand'[i] = b) \/ Out(b, last2)
  <2>1. CASE b = e
    BY <1>10, <2>1
  <2>2. CASE b \in coarse
    <3>1. \/ b.s <= NoOverlap \/ Out(b, last)
          \/ \E i \in I : cand[i] = b
      BY <2>2 DEF Listed, KeepsTheBest
    <3>2. ASSUME NEW i \in I, cand[i] = b, i # Refine
          PROVE  \E k \in I : cand'[k] = b
      <4>1. CASE i < q
        BY <1>13, <3>2, <4>1
      <4>2. CASE ~(i < q)
        <5>1. i + 1 \in I /\ q < i + 1 /\ (i + 1) - 1 = i
          BY <1>1, <3>2, <4>2
        <5>2. cand'[i + 1] = b
          BY <1>13, <3>2, <5>1
        <5> QED BY <5>1, <5>2
      <4> QED BY <4>1, <4>2
    <3> QED BY <1>1, <1>18, <2>2, <3>1, <3>2
  <2> QED BY <2>1, <2>2
<1> QED BY <1>5, <1>7, <1>8, <1>11, <1>12 DEF KeepsTheBest, Ordered

\* The fine pass has looked around the entries before its loop's.
Peaked ==
  /\ best >= NoOverlap
  /\ ~CoarseDone => c = 1 /\ best = NoOverlap
  /\ \A i \in 1 .. Refine : i < c /\ cand[i].s > NoOverlap =>
       \A a \in Window(cand[i]) : Full(a) <= best
  /\ best > NoOverlap =>
       /\ Full(at) = best
       /\ \E i \in 1 .. Refine : cand[i].s > NoOverlap /\ at \in Window(cand[i])

SearchInv == Listed /\ Peaked

LEMMA GridFacts ==
  /\ RotK \in Nat /\ RotCoarse \in Nat /\ RotCoarse >= 1 /\ Width \in Nat
  /\ ShiftStep \in Nat /\ ShiftStep >= 1 /\ Refine \in Nat /\ Refine >= 1
  /\ 0 \in Rotations /\ RotK \in Rotations /\ 0 \in Shifts
  /\ Width \div 2 \in Shifts
  BY GridAssumption DEF Rotations, Shifts

LEMMA FullTyped ==
  ASSUME fine \in Fines, NEW a \in Alignments
  PROVE  Full(a) \in Nat
  BY ScoresAssumption DEF Alignments, Full

LEMMA SearchInit == Init => SearchInv
<1> SUFFICES ASSUME Init PROVE SearchInv
  OBVIOUS
<1> DEFINE none == [s |-> Unset, r |-> 0, d |-> 0]
<1>1. /\ fine \in Fines /\ r = RotK % RotCoarse /\ d = 0 /\ coarse = {}
      /\ cand = [i \in 1 .. Refine |-> none] /\ c = 1 /\ best = NoOverlap
      /\ at = [r |-> RotK, d |-> Width \div 2]
  BY DEF Init
<1>2. none \in Entry /\ none.s = Unset
  BY GridFacts DEF Entry, Unset
<1>3. r \in Nat
  BY <1>1, GridFacts
<1>4. at \in Alignments
  BY <1>1, GridFacts DEF Alignments
<1> HIDE DEF none
<1>5. \A i \in 1 .. Refine : cand[i].s = Unset
  BY <1>1, <1>2
<1>6. TypeOK
  BY <1>1, <1>2, <1>3, <1>4, GridFacts DEF TypeOK, Entry, NoOverlap
<1>7. KeepsTheBest
  BY <1>1, <1>5 DEF KeepsTheBest
<1>8. Scanned /\ Filled
  BY <1>1, <1>5 DEF Scanned, Filled
<1>9. Peaked
  BY <1>1 DEF Peaked, NoOverlap
<1> QED BY <1>6, <1>7, <1>8, <1>9 DEF SearchInv, Listed

LEMMA CoarseStep ==
  ASSUME SearchInv, NEW s \in Scores, Coarse(s)
  PROVE  SearchInv'
<1> DEFINE e == [s |-> s, r |-> r, d |-> d]
<1>1. /\ ~CoarseDone /\ Taken(e) /\ coarse' = coarse \cup {e} /\ Step
      /\ fine' = fine /\ c' = c /\ best' = best /\ at' = at
  BY DEF Coarse
<1>2. /\ Listed /\ Peaked /\ TypeOK /\ Scanned /\ Filled /\ KeepsTheBest
      /\ c = 1 /\ best = NoOverlap
  BY <1>1 DEF SearchInv, Listed, Peaked
<1>3. e \in Entry /\ e.s # Unset /\ e.r = r /\ e.d = d /\ e.s \in Nat
  BY <1>1, <1>2, ScoresAssumption, GridFacts
     DEF Entry, TypeOK, CoarseDone, Rotations, Unset
<1>4. \A b \in coarse : Before(b, e)
  BY <1>2, <1>3 DEF Scanned, Before
<1> HIDE DEF e
<1>5. /\ r' \in Nat /\ d' \in Shifts
      /\ r < r' \/ (r' = r /\ d < d')
  BY <1>1, <1>2, GridFacts DEF Step, TypeOK, Shifts
<1>6. Scanned'
  <2>1. \A b \in coarse : /\ b \in Entry /\ b.s # Unset
                          /\ b.r < r \/ (b.r = r /\ b.d < d)
    BY <1>2 DEF Scanned
  <2>2. \A b \in Entry : b.r \in Nat /\ b.d \in Nat
    BY GridFacts DEF Entry, Rotations, Shifts
  <2>3. ASSUME NEW b \in coarse'
        PROVE  /\ b \in Entry /\ b.s # Unset
               /\ b.r < r' \/ (b.r = r' /\ b.d < d')
    <3>1. CASE b = e
      BY <1>3, <1>5, <3>1
    <3>2. CASE b \in coarse
      BY <1>2, <1>5, <2>1, <2>2, <3>2 DEF TypeOK, Shifts
    <3> QED BY <1>1, <3>1, <3>2
  <2> QED BY <2>3 DEF Scanned
<1>7. /\ cand' \in [1 .. Refine -> Entry] /\ Filled' /\ KeepsTheBest'
  <2>1. CASE e.s <= NoOverlap \/ e.s <= cand[Refine].s
    <3>1. cand' = cand
      BY <1>1, <2>1 DEF Taken
    <3>2. cand \in [1 .. Refine -> Entry] /\ Filled'
      BY <1>2, <3>1 DEF TypeOK, Entry, Filled
    <3>3. \/ e.s <= NoOverlap \/ e.s < cand[Refine].s
          \/ e.s = cand[Refine].s /\ Before(cand[Refine], e)
      <4>1. Refine \in 1 .. Refine /\ cand[Refine].s \in Nat
        BY <1>2, GridFacts DEF TypeOK
      <4>2. CASE e.s = cand[Refine].s
        <5>1. cand[Refine] \in coarse
          BY <1>2, <1>3, <4>1, <4>2 DEF KeepsTheBest
        <5> QED BY <1>4, <4>2, <5>1
      <4> QED BY <1>3, <2>1, <4>1, <4>2
    <3>4. KeepsTheBest'
      BY <1>1, <1>2, <3>1, <3>3 DEF KeepsTheBest
    <3> QED BY <3>1, <3>2, <3>4
  <2>2. CASE ~(e.s <= NoOverlap \/ e.s <= cand[Refine].s)
    <3>1. cand' = Inserted(e)
      BY <1>1, <2>2 DEF Taken
    <3>2. Refine \in 1 .. Refine /\ cand[Refine].s \in Nat
      BY <1>2, GridFacts DEF TypeOK
    <3>3. e.s > NoOverlap /\ e.s > cand[Refine].s
      BY <1>3, <2>2, <3>2 DEF NoOverlap
    <3> QED BY <1>1, <1>2, <1>3, <1>4, <3>1, <3>3, InsertedKeeps
  <2> QED BY <2>1, <2>2
<1>8. TypeOK'
  BY <1>1, <1>2, <1>5, <1>7 DEF TypeOK, Entry
<1>9. Peaked'
  <2>1. \A i \in 1 .. Refine : ~(i < c')
    BY <1>1, <1>2, GridFacts
  <2>2. best' = NoOverlap /\ ~(best' > NoOverlap) /\ best' >= NoOverlap /\ c' = 1
    BY <1>1, <1>2 DEF NoOverlap
  <2> QED BY <2>1, <2>2 DEF Peaked
<1> QED BY <1>6, <1>7, <1>8, <1>9 DEF SearchInv, Listed

LEMMA FineStep ==
  ASSUME SearchInv, Fine
  PROVE  SearchInv'
<1>1. /\ CoarseDone /\ c <= Refine /\ c' = c + 1 /\ fine' = fine /\ r' = r
      /\ d' = d /\ cand' = cand /\ coarse' = coarse
  BY DEF Fine
<1>2. /\ Listed /\ Peaked /\ TypeOK /\ Scanned /\ Filled /\ KeepsTheBest
  BY DEF SearchInv, Listed
<1>3. c \in 1 .. Refine /\ c' \in 1 .. Refine + 1 /\ CoarseDone'
  BY <1>1, <1>2, GridFacts DEF TypeOK, CoarseDone
<1>4. Scanned' /\ Filled' /\ KeepsTheBest'
  BY <1>1, <1>2 DEF Scanned, Filled, KeepsTheBest
<1>5. \A i \in 1 .. Refine : i < c' => i < c \/ i = c
  BY <1>1, <1>3
<1>6. \A i \in 1 .. Refine : Window(cand'[i]) = Window(cand[i])
  BY <1>1
<1>7. \A a : Full(a)' = Full(a)
  BY <1>1 DEF Full
<1>8. CASE Skipped /\ UNCHANGED <<best, at>>
  <2>1. TypeOK'
    BY <1>1, <1>2, <1>3, <1>8 DEF TypeOK
  <2>2. cand[c].s > NoOverlap => \A a \in Window(cand[c]) : Full(a) <= best
    BY <1>2, <1>3, <1>8 DEF Skipped, TypeOK, NoOverlap
  <2>3. Peaked'
    BY <1>1, <1>2, <1>3, <1>5, <1>8, <2>2 DEF Peaked, Full
  <2> QED BY <1>4, <2>1, <2>3 DEF SearchInv, Listed
<1>9. CASE cand[c].s > NoOverlap /\ \E a \in Alignments :
             NewBest(cand[c], a) /\ best' = Full(a) /\ at' = a
  <2>1. PICK a \in Alignments : /\ NewBest(cand[c], a)
                                /\ best' = Full(a) /\ at' = a
    BY <1>9
  <2>2. /\ a \in Window(cand[c]) /\ Full(a) > best /\ Full(a) \in Nat
        /\ \A b \in Window(cand[c]) : Full(b) <= Full(a)
    BY <1>2, <2>1, FullTyped DEF NewBest, TypeOK
  <2>3. TypeOK'
    BY <1>1, <1>2, <1>3, <2>1, <2>2 DEF TypeOK
  <2>4. best \in Nat /\ best >= NoOverlap /\ best' > best /\ best' \in Nat
    BY <1>2, <2>1, <2>2 DEF TypeOK, Peaked
  <2>5. ASSUME NEW i \in 1 .. Refine, i < c', cand[i].s > NoOverlap,
               NEW b \in Window(cand[i])
        PROVE  Full(b) <= best'
    <3>1. Full(b) \in Nat
      BY <1>2, FullTyped DEF Window, TypeOK
    <3>2. CASE i = c
      BY <2>1, <2>2, <2>5, <3>2
    <3>3. CASE i < c
      <4>1. Full(b) <= best
        BY <1>2, <2>5, <3>3 DEF Peaked
      <4> QED BY <2>4, <3>1, <4>1
    <3> QED BY <1>5, <2>5, <3>2, <3>3
  <2>6. best' >= NoOverlap
    BY <2>4 DEF NoOverlap
  <2>7. /\ Full(at') = best' /\ at' \in Window(cand[c])
    BY <2>1, <2>2
  <2>8. Peaked'
    BY <1>1, <1>3, <1>9, <2>5, <2>6, <2>7 DEF Peaked, Full
  <2> QED BY <1>4, <2>3, <2>8 DEF SearchInv, Listed
<1> QED BY <1>8, <1>9 DEF Fine

LEMMA SearchNext == SearchInv /\ [Next]_vars => SearchInv'
<1>1. SearchInv /\ UNCHANGED vars => SearchInv'
  BY DEF vars, SearchInv, Listed, TypeOK, Scanned, Filled, KeepsTheBest,
         Peaked, CoarseDone, Full
<1> QED BY <1>1, CoarseStep, FineStep DEF Next

\* The list, the loops and the result belong together at every step.
THEOREM SearchInvariant == Spec => []SearchInv
  BY SearchInit, SearchNext, PTL DEF Spec

\* The entries and the result are on the grid.
THEOREM SearchTypeCorrect == Spec => []TypeOK
<1>1. SearchInv => TypeOK
  BY DEF SearchInv, Listed
<1> QED BY <1>1, SearchInvariant, PTL

\* Insertion keeps the EG_REFINE best, and the earlier where scores are equal.
THEOREM ListIsTheBest == Spec => []KeepsTheBest
<1>1. SearchInv => KeepsTheBest
  BY DEF SearchInv, Listed
<1> QED BY <1>1, SearchInvariant, PTL

\* The result is the best around any entry.
THEOREM PeakIsFound == Spec => []FindsThePeak
<1>1. SearchInv => FindsThePeak
  <2> SUFFICES ASSUME SearchInv, Done PROVE FindsThePeak
    BY DEF FindsThePeak
  <2>1. Peaked /\ \A i \in 1 .. Refine : i < c
    BY GridFacts DEF SearchInv, Listed, TypeOK, Done
  <2> QED BY <2>1 DEF Peaked, FindsThePeak
<1> QED BY <1>1, SearchInvariant, PTL

-----------------------------------------------------------------------------
(* What the two passes can reach.                                           *)

LEMMA Remainder ==
  ASSUME NEW n \in Nat, NEW m \in Nat, m >= 1
  PROVE  n % m \in 0 .. m - 1 /\ \E k \in Nat : n = (n % m) + k * m
<1>1. n % m \in 0 .. m - 1
  OBVIOUS
<1>2. n = m * (n \div m) + (n % m)
  OBVIOUS
<1>3. n \div m \in Nat
  OBVIOUS
<1>4. n = (n % m) + (n \div m) * m
  BY <1>1, <1>2, <1>3
<1> QED BY <1>1, <1>3, <1>4

RowStart == RotK % RotCoarse

\* The alignments a window of something scored reaches.
Passed(a) == \E e \in coarse : a \in Window(e)

\* Whole rows are passed behind the loop's rotation, and around it what lies
\* before its shift.
RowsPassed ==
  /\ r >= RowStart
  /\ r > RowStart => \A a \in Alignments : a.r < r => Passed(a)
  /\ \A a \in Alignments :
       /\ a.r \in r - (RotCoarse - 1) .. r + (RotCoarse - 1)
       /\ a.d < d
       => Passed(a)

\* The loop's rotation has 0 degrees still before it, or has been there.
ZeroAhead ==
  (\E e \in coarse : e.r = RotK) \/ (\E k \in Nat : RotK = r + k * RotCoarse)

ReachInv == RowsPassed /\ ZeroAhead

LEMMA ReachInit == Init => ReachInv
<1> SUFFICES ASSUME Init PROVE ReachInv
  OBVIOUS
<1>1. r = RowStart /\ d = 0 /\ RowStart \in Nat
  BY GridFacts, Remainder DEF Init, RowStart
<1>2. \A a \in Alignments : ~(a.d < d)
  BY <1>1, GridFacts DEF Alignments, Shifts
<1>3. RowsPassed
  BY <1>1, <1>2 DEF RowsPassed
<1>4. \E k \in Nat : RotK = r + k * RotCoarse
  BY <1>1, GridFacts, Remainder DEF RowStart
<1> QED BY <1>3, <1>4 DEF ReachInv, ZeroAhead

\* The windows of one step's score reach to the next step's, and those of the
\* last step to the end of the range.
LEMMA ReachStep ==
  ASSUME ShiftStep <= Reach + 1, SearchInv, ReachInv,
         NEW s \in Scores, Coarse(s)
  PROVE  ReachInv'
<1> DEFINE e == [s |-> s, r |-> r, d |-> d]
           Near(a) == a.r \in r - (RotCoarse - 1) .. r + (RotCoarse - 1)
<1>1. /\ ~CoarseDone /\ coarse' = coarse \cup {e} /\ Step
  BY DEF Coarse
<1>2. r \in Nat /\ d \in Nat /\ d <= Width /\ RowStart \in 0 .. RotCoarse - 1
  <2>1. RowStart \in 0 .. RotCoarse - 1
    BY GridFacts, Remainder DEF RowStart
  <2> QED BY <2>1, GridFacts DEF SearchInv, Listed, TypeOK, Shifts
<1>3. \A a \in Alignments : a.r \in Nat /\ a.d \in Nat /\ a.d <= Width
  BY GridFacts DEF Alignments, Rotations, Shifts
<1>4. \A a : Passed(a) => Passed(a)'
  BY <1>1 DEF Passed, Window
<1>5. ASSUME NEW a \in Alignments, Near(a), a.d < d + ShiftStep
      PROVE  Passed(a)'
  <2>1. CASE a.d < d
    BY <1>4, <1>5, <2>1 DEF ReachInv, RowsPassed
  <2>2. CASE a.d >= d
    <3>1. a.d \in d - Reach .. d + Reach
      BY <1>2, <1>3, <1>5, <2>2, GridFacts DEF Reach
    <3>2. a \in Window(e)
      BY <1>5, <3>1 DEF Window
    <3> QED BY <1>1, <3>2 DEF Passed, Window
  <2> QED BY <1>2, <1>3, <2>1, <2>2
<1>6. CASE d + ShiftStep <= Width
  <2>1. r' = r /\ d' = d + ShiftStep
    BY <1>1, <1>6 DEF Step
  <2>2. RowsPassed'
    BY <1>4, <1>5, <2>1 DEF ReachInv, RowsPassed, RowStart
  <2>3. ZeroAhead'
    BY <1>1, <2>1 DEF ReachInv, ZeroAhead
  <2> QED BY <2>2, <2>3 DEF ReachInv
<1>7. CASE ~(d + ShiftStep <= Width)
  <2>1. r' = r + RotCoarse /\ d' = 0
    BY <1>1, <1>7 DEF Step
  <2>2. ASSUME NEW a \in Alignments, a.r < r' PROVE Passed(a)'
    <3>1. CASE Near(a)
      BY <1>2, <1>3, <1>5, <1>7, <3>1, GridFacts
    <3>2. CASE ~Near(a)
      <4>1. a.r < r - (RotCoarse - 1)
        BY <1>2, <1>3, <2>1, <2>2, <3>2, GridFacts
      <4>2. a.r < r /\ r > RowStart
        BY <1>2, <1>3, <4>1, GridFacts
      <4> QED BY <1>4, <4>2 DEF ReachInv, RowsPassed
    <3> QED BY <3>1, <3>2
  <2>3. r' >= RowStart /\ \A a \in Alignments : ~(a.d < d')
    BY <1>2, <1>3, <2>1, GridFacts DEF ReachInv, RowsPassed
  <2>4. RowsPassed'
    BY <2>2, <2>3 DEF RowsPassed, RowStart
  <2>5. ZeroAhead'
    <3>1. CASE \E b \in coarse : b.r = RotK
      BY <1>1, <3>1 DEF ZeroAhead
    <3>2. CASE \E k \in Nat : RotK = r + k * RotCoarse
      <4>1. PICK k \in Nat : RotK = r + k * RotCoarse
        BY <3>2
      <4>2. CASE k = 0
        <5>1. e \in coarse' /\ e.r = RotK
          BY <1>1, <1>2, <4>1, <4>2, GridFacts
        <5> QED BY <5>1 DEF ZeroAhead
      <4>3. CASE k # 0
        <5>1. k - 1 \in Nat /\ k * RotCoarse = RotCoarse + (k - 1) * RotCoarse
          BY <4>3, GridFacts
        <5>2. RotK = r' + (k - 1) * RotCoarse
          BY <1>2, <2>1, <4>1, <5>1, GridFacts
        <5> QED BY <5>1, <5>2 DEF ZeroAhead
      <4> QED BY <4>2, <4>3
    <3> QED BY <3>1, <3>2 DEF ReachInv, ZeroAhead
  <2> QED BY <2>4, <2>5 DEF ReachInv
<1> QED BY <1>6, <1>7

LEMMA ReachNext ==
  ASSUME ShiftStep <= Reach + 1
  PROVE  SearchInv /\ ReachInv /\ [Next]_vars => ReachInv'
<1>1. ReachInv /\ (Fine \/ UNCHANGED vars) => ReachInv'
  BY DEF ReachInv, RowsPassed, RowStart, ZeroAhead, Passed, Window, Fine, vars
<1> QED BY <1>1, ReachStep DEF Next

\* However wide the search, however coarse its rotations, and whatever the
\* scores: with shifts of at most one more than a window reaches to a side, the
\* coarse pass leaves no alignment out of the fine pass's reach, and scores 0
\* degrees itself. EG_SHIFT_STEP is 1, and the window two shifts wide.
THEOREM NoAlignmentMissed ==
  ShiftStep <= Reach + 1 => (Spec => []MissesNoAlignment)
<1> SUFFICES ASSUME ShiftStep <= Reach + 1
             PROVE  Spec => []MissesNoAlignment
  OBVIOUS
<1>1. SearchInv /\ ReachInv => MissesNoAlignment
  <2> SUFFICES ASSUME SearchInv, ReachInv, CoarseDone PROVE MissesNoAlignment
    BY DEF MissesNoAlignment
  <2>1. r \in Nat /\ r > 2 * RotK /\ RowStart <= RotK
    <3>1. \E k \in Nat : RotK = RowStart + k * RotCoarse
      BY GridFacts, Remainder DEF RowStart
    <3>2. \A k \in Nat : k * RotCoarse \in Nat
      BY GridFacts
    <3>3. RowStart \in Nat
      BY GridFacts, Remainder DEF RowStart
    <3> QED BY <3>1, <3>2, <3>3, GridFacts
            DEF SearchInv, Listed, TypeOK, CoarseDone
  <2>2. \A a \in Alignments : a.r < r
    BY <2>1, GridFacts DEF Alignments, Rotations
  <2>3. r > RowStart
    <3>1. RowStart \in Nat
      BY GridFacts, Remainder DEF RowStart
    <3> QED BY <2>1, <3>1, GridFacts
  <2>4. \A a \in Alignments : Passed(a)
    BY <2>2, <2>3 DEF ReachInv, RowsPassed
  <2>5. \E b \in coarse : b.r = RotK
    <3>1. \A k \in Nat : k * RotCoarse \in Nat
      BY GridFacts
    <3>2. ~\E k \in Nat : RotK = r + k * RotCoarse
      BY <2>1, <3>1, GridFacts
    <3> QED BY <3>2 DEF ReachInv, ZeroAhead
  <2> QED BY <2>4, <2>5 DEF MissesNoAlignment, Passed
<1> QED BY <1>1, ReachInit, ReachNext, SearchInvariant, PTL DEF Spec
=============================================================================
