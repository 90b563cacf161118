--------------------------- MODULE CaptureInSessions ---------------------------
(***************************************************************************)
(* The capture of Capture as Sessions sees it: one action after another of *)
(* a device that is open. Sessions' open may have found a calibration or   *)
(* not; a capture does not touch it, and takes its frames at the register  *)
(* value its bring-up leaves.                                              *)
(***************************************************************************)
EXTENDS CaptureProps

\* A capture's part of Sessions' phases.
SessionPhase ==
  IF action = "none" THEN "open"
  ELSE IF pc = "none" THEN "done"
  ELSE IF pc = "held" THEN "parked"
  ELSE IF pc \in {"poll", "replay", "post"} THEN "reinit"
  ELSE IF pc = "frame" THEN "frame" ELSE "loop"

Exposure == 32

\* The exposure of what was fed or published, unless nothing was.
Of(some) == IF some THEN {Exposure} ELSE {}

Recorded ==
  [have |-> baseline.have, at |-> Of(baseline.have),
   cal |-> IF baseline.have THEN Exposure ELSE -1,
   acc |-> Of(baseline.count > 0), count |-> baseline.count]

Device == INSTANCE Sessions
            WITH Exposures <- {Exposure}, Baked <- Exposure,
                 phase <- SessionPhase, claimed <- TRUE, dev <- Exposure,
                 cancelled <- FALSE, calibrated <- Exposure,
                 retried <- frameRetried, baseline <- Recorded,
                 reg <- Exposure, usable <- ~wedged

\* Whatever a capture does, and whatever is done to it, is a step Sessions has:
\* what open and close find of it (needs_reinit, the baseline, the state of the
\* sensor) is what Sessions proves its properties of.
CapturesInSessions == [][Device!Next]_(Device!vars)
=============================================================================
