------------------------------- MODULE Calibrate -------------------------------
(***************************************************************************)
(* The exposure calibration of an open, egis_dev_calibrate_ssm in          *)
(* egis0576_proto.c: a binary search over register 0x0f for the value at   *)
(* which the mean of a frame without a finger is nearest to the target.    *)
(* One step per write and per frame; the frame is evaluated in the step    *)
(* that completes it, as CAL_EVAL waits for nothing.                       *)
(*                                                                         *)
(* What the sensor shows at each value is its unit, which rises with the   *)
(* value (the comment above cal_run_state). A write may be refused, or     *)
(* accepted and not acted on: its reply is not looked at.                  *)
(***************************************************************************)
EXTENDS Integers

CONSTANTS
  Units,            \* the units there may be
  Curve,            \* the curve of each: the mean by register value
  BakedValues       \* what the bring-up may leave in the register

Registers == 0 .. 63          \* cal_hi starts at 0x3f
Levels == 0 .. 255
Target == 88                  \* EGIS_EXPOSURE_TARGET
Iterations == 6               \* EGIS_CAL_ITERATIONS
NoDiff == 256                 \* cal_best_diff before the first frame

ASSUME CurvesAssumption ==
  /\ \A u \in Units : \A r \in Registers : Curve[u][r] \in Levels
  /\ \A u \in Units : \A r, s \in Registers :
       r <= s => Curve[u][r] <= Curve[u][s]

ASSUME BakedAssumption == BakedValues \subseteq Registers

VARIABLES
  pc,                         \* what it waits for, or done, failed
  lo, hi, mid, best, bestDiff, it,              \* cal_lo .. cal_it
  dcC,                        \* the cached register
  calibrated,                 \* dc_c_calibrated
  cancelled,                  \* the open was cancelled
  unit,                       \* the unit at hand
  reg,                        \* the sensor's register
  deaf                        \* history: a write was not acted on

search == <<lo, hi, best, bestDiff, it>>
vars == <<pc, search, mid, dcC, calibrated, cancelled, unit, reg, deaf>>

Midpoint == (lo + hi) \div 2

Diff(level) == IF level > Target THEN level - Target ELSE Target - level

Init ==
  /\ pc = "write"
  /\ lo = 0 /\ hi = 63 /\ mid = Midpoint
  /\ best = 31 /\ bestDiff = NoDiff /\ it = 0
  /\ reg \in BakedValues /\ dcC = reg
  /\ calibrated = -1
  /\ cancelled = FALSE
  /\ unit \in Units
  /\ deaf = FALSE

\* A write reaches the sensor, which acts on it or does not.
Written(v) ==
  \/ reg' = v /\ UNCHANGED deaf
  \/ UNCHANGED reg /\ deaf' = TRUE

\* cal_write_cb, and entering CAL_FRAME
WriteDone ==
  /\ pc = "write"
  /\ dcC' = mid
  /\ Written(mid)
  /\ pc' = IF cancelled THEN "failed" ELSE "frame"
  /\ UNCHANGED <<search, mid, calibrated, cancelled, unit>>

Better(diff) == diff < bestDiff

TooBright(level) == level > Target

\* (slip) One value too few.
MoreToTryShort == it + 2 < Iterations

MoreToTry == it + 1 < Iterations

\* CAL_EVAL, and entering CAL_WRITE or CAL_APPLY
Eval(level) ==
  /\ IF Better(Diff(level)) THEN best' = mid /\ bestDiff' = Diff(level)
                            ELSE UNCHANGED <<best, bestDiff>>
  /\ IF TooBright(level) THEN hi' = mid /\ UNCHANGED lo
                         ELSE lo' = mid /\ UNCHANGED hi
  /\ it' = it + 1
  /\ IF MoreToTry THEN pc' = "write" /\ mid' = Midpoint'
                  ELSE pc' = "apply" /\ UNCHANGED mid

\* cal_frame_cb
FrameDone ==
  /\ pc = "frame"
  /\ Eval(Curve[unit][reg])
  /\ UNCHANGED <<dcC, calibrated, cancelled, unit, reg, deaf>>

\* cal_frame_cb with an error
FrameFails ==
  /\ pc = "frame"
  /\ pc' = "failed"
  /\ UNCHANGED <<search, mid, dcC, calibrated, cancelled, unit, reg, deaf>>

\* cal_apply_cb
ApplyDone ==
  /\ pc = "apply"
  /\ dcC' = best /\ calibrated' = best
  /\ Written(best)
  /\ pc' = "done"
  /\ UNCHANGED <<search, mid, cancelled, unit>>

\* (slip) The cache has the value before the write is known to be accepted.
WriteRefusedCached ==
  /\ pc \in {"write", "apply"}
  /\ pc' = "failed"
  /\ dcC' = mid
  /\ UNCHANGED <<search, mid, calibrated, cancelled, unit, reg, deaf>>

\* cal_write_cb and cal_apply_cb with an error
WriteRefused ==
  /\ pc \in {"write", "apply"}
  /\ pc' = "failed"
  /\ UNCHANGED <<search, mid, dcC, calibrated, cancelled, unit, reg, deaf>>

\* The open's cancellable.
CancelRequest ==
  /\ pc \in {"write", "frame", "apply"} /\ ~cancelled
  /\ cancelled' = TRUE
  /\ UNCHANGED <<pc, search, mid, dcC, calibrated, unit, reg, deaf>>

Machine == WriteDone \/ WriteRefused \/ FrameDone \/ FrameFails \/ ApplyDone

Next == Machine \/ CancelRequest

Spec == Init /\ [][Next]_vars

-----------------------------------------------------------------------------
(* Properties                                                               *)

\* The search's fields, the cache, and the sensor.
TypeOK ==
  /\ pc \in {"write", "frame", "apply", "done", "failed"}
  /\ lo \in Registers /\ hi \in Registers /\ mid \in Registers
  /\ best \in Registers /\ bestDiff \in 0 .. NoDiff /\ it \in 0 .. Iterations
  /\ dcC \in Registers /\ calibrated \in Registers \cup {-1}
  /\ cancelled \in BOOLEAN /\ unit \in Units /\ reg \in Registers
  /\ deaf \in BOOLEAN

Off(r) == Diff(Curve[unit][r])      \* how far the unit is from the target at r

\* A better value than the best one seen is never thrown away: it is still
\* inside the bracket.
NothingBetterDiscarded ==
  ~deaf => \A r \in Registers \ {63} : r \in lo .. hi \/ bestDiff <= Off(r)

\* The search ends at the best of the values below 0x3f, for every unit whose
\* curve rises.
SearchIsOptimal ==
  pc = "done" /\ ~deaf => \A r \in Registers \ {63} : Off(calibrated) <= Off(r)

\* "Full range [0,0x3f], no unit-specific cap: the search finds each unit's
\* own operating point" (the comment above cal_run_state).
\* It does not hold: README, 6.
FullRange ==
  pc = "done" /\ ~deaf => \A r \in Registers : Off(calibrated) <= Off(r)

\* The calibration is known only after a search that went to its end, with
\* the register there and no iteration skipped; until then it is unset and
\* the register at the last value tried ("Fails on a capture error, leaving
\* the register at the last value tried and the calibration unset").
KnownOnlyWhenDone ==
  /\ calibrated # -1 => pc = "done" /\ it = Iterations /\ calibrated = best
  /\ ~deaf => reg = dcC
  /\ pc = "failed" /\ it > 0 => calibrated = -1 /\ dcC \in lo .. hi
=============================================================================
