--------------------------- MODULE CalibrateProofs ---------------------------
(***************************************************************************)
(* The calibration finds the best exposure, whatever the unit: proofs for  *)
(* every rising curve.                                                     *)
(***************************************************************************)
EXTENDS Calibrate, TLAPS

\* Half the bracket's width after each iteration, 64 at the start.
Width(n) == CASE n = 0 -> 64 [] n = 1 -> 32 [] n = 2 -> 16 [] n = 3 -> 8
              [] n = 4 -> 4 [] n = 5 -> 2 [] n = 6 -> 1

\* The bracket halves with every value: exactly, once its lower end was tried.
Halving ==
  \/ lo = 0 /\ hi = Width(it) - 1
  \/ hi - lo = Width(it)

\* The ends of the bracket that were tried: too dark below, too bright above,
\* neither nearer to the target than the best.
LowTried == Curve[unit][lo] <= Target /\ bestDiff <= Off(lo)
HighTried == Curve[unit][hi] > Target /\ bestDiff <= Off(hi)

Ends ==
  /\ LowTried \/ (lo = 0 /\ hi = Width(it) - 1)
  /\ HighTried \/ hi = 63

\* The best so far is the value bestDiff was measured at.
BestIsBest == IF it = 0 THEN best = 31 /\ bestDiff = NoDiff
                        ELSE bestDiff = Off(best)

\* Where the search is; the register is where the cache says unless a write
\* was lost.
Stage ==
  /\ pc \in {"write", "frame"} => it < Iterations /\ mid = Midpoint
  /\ pc \in {"apply", "done"} => it = Iterations
  /\ pc = "frame" => dcC = mid
  /\ ~deaf => reg = dcC
  /\ calibrated # -1 => pc = "done"
  /\ pc = "done" => calibrated = best
  /\ it > 0 /\ pc # "done" => dcC \in lo .. hi

SearchInv ==
  /\ TypeOK
  /\ Halving
  /\ Stage
  /\ ~deaf => Ends /\ BestIsBest

-----------------------------------------------------------------------------
(* Arithmetic of the search                                                 *)

\* The bracket's midpoint is inside, below the upper end while it is open.
LEMMA MidpointInside ==
  ASSUME TypeOK, Halving, it < Iterations
  PROVE  Midpoint \in lo .. hi /\ Midpoint \in Registers
  BY DEF TypeOK, Halving, Width, Midpoint, Registers, Iterations

\* Narrowing at the midpoint halves the bracket.
LEMMA NarrowingHalves ==
  ASSUME TypeOK, Halving, it < Iterations
  PROVE  /\ \/ lo = 0 /\ Midpoint = Width(it + 1) - 1
            \/ Midpoint - lo = Width(it + 1)
         /\ hi - Midpoint = Width(it + 1)
  BY DEF TypeOK, Halving, Width, Midpoint, Registers, Iterations

\* A unit's means are numbers of a byte, and so is their distance to the
\* target.
LEMMA OffTypes ==
  ASSUME unit \in Units, NEW r \in Registers
  PROVE  Curve[unit][r] \in 0 .. 255 /\ Off(r) \in 0 .. 255
  <1>1. Curve[unit][r] \in 0 .. 255
    BY CurvesAssumption DEF Levels
  <1>2. QED
    BY <1>1 DEF Off, Diff, Target
\* The curve rises: a value below one that is not too bright is darker still,
\* one above a value that is too bright is brighter still.
LEMMA FartherOut ==
  ASSUME unit \in Units, NEW r \in Registers, NEW s \in Registers, r <= s
  PROVE  /\ Curve[unit][s] <= Target => Off(s) <= Off(r)
         /\ Curve[unit][r] > Target => Off(r) <= Off(s)
  <1> DEFINE a == Curve[unit][r]
             b == Curve[unit][s]
  <1>1. a <= b
    BY CurvesAssumption
  <1>2. a \in 0 .. 255 /\ b \in 0 .. 255
    BY OffTypes
  <1>3. Off(r) = Diff(a) /\ Off(s) = Diff(b)
    BY DEF Off
  <1> HIDE DEF a, b
  <1>4. /\ b <= Target => Diff(b) <= Diff(a)
        /\ a > Target => Diff(a) <= Diff(b)
    BY <1>1, <1>2 DEF Diff, Target
  <1>5. QED
    BY <1>3, <1>4 DEF a, b

-----------------------------------------------------------------------------
(* The invariant                                                            *)

LEMMA SearchInit == Init => SearchInv
  <1> SUFFICES ASSUME Init PROVE SearchInv
    OBVIOUS
  <1>1. TypeOK
    <2>1. /\ lo \in Registers /\ hi \in Registers /\ mid \in Registers
          /\ best \in Registers /\ bestDiff \in 0 .. NoDiff
          /\ it \in 0 .. Iterations
      BY DEF Init, Midpoint, Registers, NoDiff, Iterations
    <2>2. reg \in Registers /\ dcC \in Registers
      BY BakedAssumption DEF Init
    <2>3. QED
      BY <2>1, <2>2 DEF Init, TypeOK
  <1>2. Halving /\ Stage
    BY DEF Init, Halving, Stage, Width, Iterations
  <1>3. Ends /\ BestIsBest
    BY DEF Init, Ends, BestIsBest, Width
  <1>4. QED
    BY <1>1, <1>2, <1>3 DEF SearchInv

LEMMA WriteDoneStep == SearchInv /\ WriteDone => SearchInv'
  <1> SUFFICES ASSUME SearchInv, WriteDone PROVE SearchInv'
    OBVIOUS
  <1>1. /\ TypeOK /\ pc = "write" /\ it < Iterations /\ mid = Midpoint
        /\ Midpoint \in lo .. hi /\ calibrated = -1
    BY MidpointInside DEF SearchInv, Stage, WriteDone
  <1>2. /\ UNCHANGED <<lo, hi, best, bestDiff, it, mid, calibrated, cancelled,
                       unit>>
        /\ dcC' = mid /\ pc' \in {"frame", "failed"}
        /\ \/ reg' = mid /\ deaf' = deaf
           \/ reg' = reg /\ deaf' = TRUE
    BY DEF WriteDone, Written, search
  <1>3. TypeOK'
    BY <1>1, <1>2 DEF TypeOK
  <1>4. Halving' /\ Stage'
    BY <1>1, <1>2 DEF SearchInv, Halving, Stage, Midpoint
  <1>5. ~deaf' => Ends' /\ BestIsBest'
    BY <1>2 DEF SearchInv, Ends, LowTried, HighTried, BestIsBest, Off
  <1>6. QED
    BY <1>3, <1>4, <1>5 DEF SearchInv

\* cal_write_cb's and cal_frame_cb's failures, a cancel: the search stands.
LEMMA StandingStep ==
  SearchInv /\ (WriteRefused \/ FrameFails \/ CancelRequest \/ UNCHANGED vars)
    => SearchInv'
  <1> SUFFICES ASSUME SearchInv,
                      WriteRefused \/ FrameFails \/ CancelRequest
                        \/ UNCHANGED vars
               PROVE  SearchInv'
    OBVIOUS
  <1>1. /\ UNCHANGED <<lo, hi, best, bestDiff, it, mid, dcC, calibrated, unit,
                       reg, deaf>>
        /\ cancelled' \in BOOLEAN
        /\ pc' = pc \/ (pc' = "failed" /\ pc # "done")
    BY DEF WriteRefused, FrameFails, CancelRequest, vars, search, SearchInv,
           TypeOK
  <1>2. TypeOK'
    BY <1>1 DEF SearchInv, TypeOK
  <1>3. Halving' /\ Stage'
    BY <1>1 DEF SearchInv, Halving, Stage, Midpoint
  <1>4. ~deaf' => Ends' /\ BestIsBest'
    BY <1>1 DEF SearchInv, Ends, LowTried, HighTried, BestIsBest, Off
  <1>5. QED
    BY <1>2, <1>3, <1>4 DEF SearchInv

LEMMA ApplyDoneStep == SearchInv /\ ApplyDone => SearchInv'
  <1> SUFFICES ASSUME SearchInv, ApplyDone PROVE SearchInv'
    OBVIOUS
  <1>1. /\ UNCHANGED <<lo, hi, best, bestDiff, it, mid, cancelled, unit>>
        /\ dcC' = best /\ calibrated' = best /\ pc' = "done" /\ pc = "apply"
        /\ \/ reg' = best /\ deaf' = deaf
           \/ reg' = reg /\ deaf' = TRUE
    BY DEF ApplyDone, Written, search
  <1>2. TypeOK'
    BY <1>1 DEF SearchInv, TypeOK
  <1>3. Halving' /\ Stage'
    BY <1>1 DEF SearchInv, Halving, Stage, Midpoint
  <1>4. ~deaf' => Ends' /\ BestIsBest'
    BY <1>1 DEF SearchInv, Ends, LowTried, HighTried, BestIsBest, Off
  <1>5. QED
    BY <1>2, <1>3, <1>4 DEF SearchInv

LEMMA FrameDoneStep == SearchInv /\ FrameDone => SearchInv'
  <1> SUFFICES ASSUME SearchInv, FrameDone PROVE SearchInv'
    OBVIOUS
  <1> DEFINE level == Curve[unit][reg]
  <1>1. /\ TypeOK /\ Halving /\ Stage /\ pc = "frame" /\ it < Iterations
        /\ mid = Midpoint /\ dcC = mid /\ calibrated = -1
    BY DEF SearchInv, Stage, FrameDone
  <1>2. /\ mid \in lo .. hi /\ mid \in Registers /\ it + 1 \in 1 .. Iterations
        /\ lo \in Nat /\ hi \in Nat
    BY <1>1, MidpointInside DEF TypeOK, Iterations, Registers
  <1>3. /\ \/ lo = 0 /\ mid = Width(it + 1) - 1
           \/ mid - lo = Width(it + 1)
        /\ hi - mid = Width(it + 1)
    BY <1>1, NarrowingHalves
  <1>4. /\ UNCHANGED <<dcC, calibrated, cancelled, unit, reg, deaf>>
        /\ it' = it + 1
        /\ \/ Better(Diff(level)) /\ best' = mid /\ bestDiff' = Diff(level)
           \/ ~Better(Diff(level)) /\ best' = best /\ bestDiff' = bestDiff
        /\ \/ level > Target /\ hi' = mid /\ lo' = lo
           \/ ~(level > Target) /\ lo' = mid /\ hi' = hi
        /\ \/ it + 1 < Iterations /\ pc' = "write" /\ mid' = Midpoint'
           \/ ~(it + 1 < Iterations) /\ pc' = "apply" /\ mid' = mid
    BY DEF FrameDone, Eval, TooBright, MoreToTry
  <1>5. Diff(level) \in 0 .. 255 /\ level \in 0 .. 255
    BY <1>1, OffTypes DEF TypeOK, Off
  <1>6. /\ lo' \in Registers /\ hi' \in Registers /\ lo' \in Nat /\ hi' \in Nat
        /\ lo' <= hi' /\ mid \in lo' .. hi'
    BY <1>1, <1>2, <1>4 DEF TypeOK, Registers
  <1>7. mid' \in Registers
    BY <1>2, <1>4, <1>6 DEF Midpoint, Registers
  <1>8. TypeOK'
    <2>1. it' \in 0 .. Iterations /\ pc' \in {"write", "apply"}
      BY <1>2, <1>4
    <2>2. best' \in Registers /\ bestDiff' \in 0 .. NoDiff
      BY <1>1, <1>2, <1>4, <1>5 DEF TypeOK, NoDiff
    <2>3. QED
      BY <1>1, <1>4, <1>6, <1>7, <2>1, <2>2 DEF TypeOK
  <1>9. Halving'
    BY <1>3, <1>4 DEF Halving
  <1>10. Stage'
    <2>1. it + 1 = Iterations \/ it + 1 < Iterations
      BY <1>2 DEF Iterations
    <2>2. pc' = "write" => it' < Iterations /\ mid' = Midpoint'
      BY <1>4
    <2>3. pc' = "apply" => it' = Iterations
      BY <1>4, <2>1
    <2>4. dcC' \in lo' .. hi'
      BY <1>1, <1>4, <1>6
    <2>5. ~deaf' => reg' = dcC'
      BY <1>1, <1>4 DEF Stage
    <2>6. pc' \in {"write", "apply"}
      BY <1>4
    <2>7. QED
      BY <1>1, <1>4, <2>2, <2>3, <2>4, <2>5, <2>6 DEF Stage
  <1>11. ~deaf' => Ends' /\ BestIsBest'
    <2> SUFFICES ASSUME ~deaf PROVE Ends' /\ BestIsBest'
      BY <1>4
    <2>1. reg = mid /\ Ends /\ BestIsBest /\ Diff(level) = Off(mid)
      BY <1>1 DEF Stage, SearchInv, Off
    <2>2. bestDiff' <= Off(mid) /\ bestDiff' <= bestDiff
      BY <1>1, <1>4, <1>5, <2>1 DEF Better, TypeOK, NoDiff
    <2>3. /\ unit' = unit
          /\ Off(lo) \in 0 .. 255 /\ Off(hi) \in 0 .. 255
          /\ bestDiff \in Int /\ bestDiff' \in Int
      BY <1>1, <1>4, <1>8, OffTypes DEF TypeOK, NoDiff
    <2>4. BestIsBest'
      <3>1. Better(Diff(level)) \/ it # 0
        BY <1>5, <2>1 DEF BestIsBest, Better, NoDiff
      <3>2. it' # 0
        BY <1>4, <1>2
      <3>3. bestDiff' = Off(best')
        BY <1>4, <2>1, <3>1 DEF BestIsBest
      <3>4. QED
        BY <2>3, <3>2, <3>3 DEF BestIsBest, Off
    <2>5. CASE level > Target /\ hi' = mid /\ lo' = lo
      <3>1. HighTried'
        BY <2>1, <2>2, <2>3, <2>5 DEF HighTried, Off
      <3>2. LowTried \/ lo = 0
        BY <2>1 DEF Ends
      <3>3. CASE LowTried
        <4>1. LowTried'
          BY <2>2, <2>3, <2>5, <3>3 DEF LowTried, Off
        <4>2. QED
          BY <2>4, <3>1, <4>1 DEF Ends
      <3>4. CASE lo = 0 /\ hi = Width(it) - 1
        <4>1. mid = Width(it + 1) - 1
          BY <1>1, <1>2, <1>3, <3>4 DEF Width, Iterations, TypeOK
        <4>2. QED
          BY <1>4, <2>4, <2>5, <3>1, <3>4, <4>1 DEF Ends
      <3>5. QED
        BY <2>1, <3>3, <3>4 DEF Ends
    <2>6. CASE ~(level > Target) /\ lo' = mid /\ hi' = hi
      <3>1. LowTried'
        BY <1>5, <2>1, <2>2, <2>3, <2>6 DEF LowTried, Off, Target
      <3>2. HighTried => HighTried'
        BY <2>2, <2>3, <2>6 DEF HighTried, Off
      <3>3. QED
        BY <2>1, <2>4, <2>6, <3>1, <3>2 DEF Ends
    <2>7. QED
      BY <1>4, <2>5, <2>6
  <1>12. QED
    BY <1>8, <1>9, <1>10, <1>11 DEF SearchInv

LEMMA SearchStep == SearchInv /\ [Next]_vars => SearchInv'
  BY WriteDoneStep, StandingStep, ApplyDoneStep, FrameDoneStep
     DEF Next, Machine

THEOREM SearchInvariant == Spec => []SearchInv
  BY SearchInit, SearchStep, PTL DEF Spec

-----------------------------------------------------------------------------
(* The properties                                                           *)

\* The search's fields keep their types, the register its six bits.
THEOREM CalibrateTypeCorrect == Spec => []TypeOK
  <1>1. SearchInv => TypeOK
    BY DEF SearchInv
  <1>2. QED
    BY <1>1, SearchInvariant, PTL

\* The order is transitive.
LEMMA Between ==
  ASSUME NEW x \in Int, NEW y \in 0 .. 255, NEW z \in 0 .. 255,
         x <= y, y <= z
  PROVE  x <= z
  OBVIOUS

\* For a rising curve, what is outside the bracket is no nearer to the target
\* than the best value tried (CAL_EVAL).
LEMMA OutsideIsWorse ==
  ASSUME SearchInv, ~deaf, NEW r \in Registers \ {63}, r \notin lo .. hi
  PROVE  bestDiff <= Off(r)
  <1>1. /\ TypeOK /\ Ends /\ lo \in Registers /\ hi \in Registers
        /\ unit \in Units /\ r \in Registers /\ bestDiff \in Int
    BY DEF SearchInv, TypeOK, NoDiff
  <1>2. Off(r) \in 0 .. 255 /\ Off(lo) \in 0 .. 255 /\ Off(hi) \in 0 .. 255
    BY <1>1, OffTypes
  <1>3. bestDiff \in Int
    BY <1>1
  <1>4. CASE r < lo
    <2>1. lo # 0
      BY <1>1, <1>4 DEF Registers
    <2>2. LowTried
      BY <1>1, <2>1 DEF Ends
    <2>3. r <= lo
      BY <1>1, <1>4 DEF Registers
    <2>4. Off(lo) <= Off(r)
      BY <1>1, <2>2, <2>3, FartherOut DEF LowTried
    <2>5. bestDiff <= Off(lo)
      BY <2>2 DEF LowTried
    <2>6. QED
      BY <1>2, <1>3, <2>4, <2>5, Between
  <1>5. CASE r > hi
    <2>1. hi # 63
      BY <1>1, <1>5 DEF Registers
    <2>2. HighTried
      BY <1>1, <2>1 DEF Ends
    <2>3. hi <= r
      BY <1>1, <1>5 DEF Registers
    <2>4. Off(hi) <= Off(r)
      BY <1>1, <2>2, <2>3, FartherOut DEF HighTried
    <2>5. bestDiff <= Off(hi)
      BY <2>2 DEF HighTried
    <2>6. QED
      BY <1>2, <1>3, <2>4, <2>5, Between
  <1>6. QED
    BY <1>1, <1>4, <1>5 DEF Registers

\* No better value is thrown away as the bracket narrows.
THEOREM BracketKeepsBest == Spec => []NothingBetterDiscarded
  <1>1. SearchInv => NothingBetterDiscarded
    BY OutsideIsWorse DEF NothingBetterDiscarded
  <1>2. QED
    BY <1>1, SearchInvariant, PTL

\* After six values the calibrated one is the best of all below 0x3f, for
\* every unit whose curve rises.
THEOREM CalibrationIsOptimal == Spec => []SearchIsOptimal
  <1>1. SearchInv => SearchIsOptimal
    <2> SUFFICES ASSUME SearchInv, pc = "done", ~deaf,
                        NEW r \in Registers \ {63}
                 PROVE  Off(calibrated) <= Off(r)
      BY DEF SearchIsOptimal
    <2>1. /\ TypeOK /\ Ends /\ it = Iterations /\ calibrated = best
          /\ bestDiff = Off(best) /\ unit \in Units /\ bestDiff \in Int
      BY DEF SearchInv, Stage, BestIsBest, TypeOK, Iterations, NoDiff
    <2>2. (lo = 0 /\ hi = 0) \/ hi = lo + 1
      BY <2>1 DEF SearchInv, Halving, Width, Iterations, TypeOK, Registers
    <2>3. /\ LowTried \/ (lo = 0 /\ hi = 0)
          /\ HighTried \/ hi = 63
      BY <2>1 DEF Ends, Width, Iterations
    <2>4. CASE r \notin lo .. hi
      BY <2>1, <2>4, OutsideIsWorse
    <2>5. CASE r = hi
      <3>1. HighTried
        BY <2>3, <2>5
      <3>2. QED
        BY <2>1, <2>5, <3>1 DEF HighTried
    <2>6. CASE r = lo /\ r # hi
      <3>1. LowTried
        BY <2>3, <2>6
      <3>2. QED
        BY <2>1, <2>6, <3>1 DEF LowTried
    <2>7. r \notin lo .. hi \/ r = hi \/ (r = lo /\ r # hi)
      BY <2>1, <2>2 DEF TypeOK, Registers
    <2>8. QED
      BY <2>4, <2>5, <2>6, <2>7
  <1>2. QED
    BY <1>1, SearchInvariant, PTL

\* The calibration is known only after a whole search, and a failed one
\* leaves the register at the last value tried (egis_dev_calibrate_ssm).
THEOREM KnownIsWhole == Spec => []KnownOnlyWhenDone
  <1>1. SearchInv => KnownOnlyWhenDone
    <2> SUFFICES ASSUME SearchInv PROVE KnownOnlyWhenDone
      OBVIOUS
    <2>1. calibrated # -1 => pc = "done" /\ it = Iterations /\ calibrated = best
      BY DEF SearchInv, Stage
    <2>2. pc = "failed" => calibrated = -1
      BY DEF SearchInv, Stage
    <2>3. QED
      BY <2>1, <2>2 DEF SearchInv, Stage, TypeOK, KnownOnlyWhenDone
  <1>2. QED
    BY <1>1, SearchInvariant, PTL

-----------------------------------------------------------------------------
(* The search in Sessions: the open between its bring-up and its end.       *)

\* A search that fails opens the device all the same, unless by a cancel.
SessionPhase ==
  IF pc \in {"write", "frame", "apply"} THEN "calibrate"
  ELSE IF pc = "failed" /\ cancelled THEN "closed" ELSE "open"

Device == INSTANCE Sessions
            WITH Exposures <- Registers, Baked <- 32, BaselineFrames <- 1,
                 phase <- SessionPhase, claimed <- SessionPhase # "closed",
                 dev <- IF SessionPhase = "closed" THEN -2 ELSE calibrated,
                 needsReinit <- SessionPhase = "open" /\ pc = "failed",
                 suspending <- FALSE, retried <- FALSE, usable <- TRUE,
                 baseline <- [have |-> FALSE, at |-> {}, cal |-> -1,
                              acc |-> {}, count |-> 0]

\* As long as the writes are acted on, every step of the search, of its end
\* and of open_calibrate_done is one Sessions has, or changes nothing there.
SearchInSessions == [][deaf' \/ Device!Next]_(Device!vars)

\* One step of the search.
LEMMA SearchSeen ==
  SearchInv /\ [Next]_vars /\ ~deaf' => [Device!Next]_(Device!vars)
  <1> SUFFICES ASSUME SearchInv, [Next]_vars, ~deaf'
               PROVE  [Device!Next]_(Device!vars)
    OBVIOUS
  <1> USE DEF Device!vars, Device!host, Device!flags, Device!sensor, search
  <1>0. /\ TypeOK
        /\ calibrated # -1 => pc = "done"
    BY DEF SearchInv, Stage
  <1>1. CASE WriteDone
    <2>1. /\ pc = "write" /\ reg' = mid /\ mid \in Registers
          /\ UNCHANGED <<calibrated, cancelled>>
          /\ pc' = IF cancelled THEN "failed" ELSE "frame"
      BY <1>0, <1>1 DEF WriteDone, Written, TypeOK
    <2>2. SessionPhase = "calibrate"
      BY <2>1 DEF SessionPhase
    <2>3. CASE cancelled
      <3>1. SessionPhase' = "closed"
        BY <2>1, <2>3 DEF SessionPhase
      <3>2. Device!CalibrateCancelled
        BY <2>1, <2>2, <2>3, <3>1
           DEF Device!CalibrateCancelled, Device!OpenFail, Device!NoDev
      <3>3. QED
        BY <3>2 DEF Device!Next, Device!Opening
    <2>4. CASE ~cancelled
      <3>1. SessionPhase' = "calibrate"
        BY <2>1, <2>4 DEF SessionPhase
      <3>2. Device!CalibrateTries
        BY <2>1, <2>2, <3>1 DEF Device!CalibrateTries
      <3>3. QED
        BY <3>2 DEF Device!Next, Device!Opening
    <2>5. QED
      BY <2>3, <2>4
  <1>2. CASE WriteRefused \/ FrameFails
    <2>1. /\ pc \in {"write", "frame", "apply"} /\ pc' = "failed"
          /\ UNCHANGED <<calibrated, cancelled, reg>> /\ reg \in Registers
      BY <1>0, <1>2 DEF WriteRefused, FrameFails, TypeOK
    <2>2. SessionPhase = "calibrate"
      BY <2>1 DEF SessionPhase
    <2>3. CASE cancelled
      <3>1. SessionPhase' = "closed"
        BY <2>1, <2>3 DEF SessionPhase
      <3>2. Device!CalibrateCancelled
        BY <2>1, <2>2, <2>3, <3>1
           DEF Device!CalibrateCancelled, Device!OpenFail, Device!NoDev
      <3>3. QED
        BY <3>2 DEF Device!Next, Device!Opening
    <2>4. CASE ~cancelled
      <3>1. SessionPhase' = "open"
        BY <2>1, <2>4 DEF SessionPhase
      <3>2. Device!CalibrateFails
        BY <2>1, <2>2, <3>1 DEF Device!CalibrateFails
      <3>3. QED
        BY <3>2 DEF Device!Next, Device!Opening
    <2>5. QED
      BY <2>3, <2>4
  <1>3. CASE FrameDone
    <2>1. /\ pc = "frame" /\ pc' \in {"write", "apply"}
          /\ UNCHANGED <<calibrated, cancelled, reg>>
      BY <1>3 DEF FrameDone, Eval
    <2>2. SessionPhase = "calibrate" /\ SessionPhase' = "calibrate"
      BY <2>1 DEF SessionPhase
    <2>3. QED
      BY <2>1, <2>2
  <1>4. CASE ApplyDone
    <2>1. /\ pc = "apply" /\ pc' = "done" /\ best \in Registers
          /\ reg' = best /\ calibrated' = best /\ UNCHANGED cancelled
      BY <1>0, <1>4 DEF ApplyDone, Written, TypeOK
    <2>2. SessionPhase = "calibrate" /\ SessionPhase' = "open"
      BY <2>1 DEF SessionPhase
    <2>3. Device!CalibrateDone
      BY <2>1, <2>2 DEF Device!CalibrateDone
    <2>4. QED
      BY <2>3 DEF Device!Next, Device!Opening
  <1>5. CASE CancelRequest
    <2>1. /\ pc \in {"write", "frame", "apply"} /\ cancelled' = TRUE
          /\ UNCHANGED <<pc, calibrated, reg>>
      BY <1>5 DEF CancelRequest
    <2>2. SessionPhase = "calibrate" /\ SessionPhase' = "calibrate"
      BY <2>1 DEF SessionPhase
    <2>3. Device!CancelOpen
      BY <2>1, <2>2 DEF Device!CancelOpen
    <2>4. QED
      BY <2>3 DEF Device!Next, Device!Opening
  <1>6. CASE UNCHANGED vars
    BY <1>6 DEF vars, SessionPhase
  <1>7. QED
    BY <1>1, <1>2, <1>3, <1>4, <1>5, <1>6 DEF Next, Machine

\* For every unit, the open's search does to the device instance and to the
\* register what Sessions says an open may do (cal_run_state,
\* open_calibrate_done).
THEOREM SearchIsInSessions == Spec => SearchInSessions
  <1>1. SearchInv /\ [Next]_vars => [deaf' \/ Device!Next]_(Device!vars)
    BY SearchSeen
  <1>2. QED
    BY <1>1, SearchInvariant, PTL DEF Spec, SearchInSessions
=============================================================================
