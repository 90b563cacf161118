------------------------------- MODULE Sessions -------------------------------
(***************************************************************************)
(* One device over many opens (driver/egis0576.c): what egis0576_open,     *)
(* open_init_done, open_calibrate_done and egis0576_close leave behind for *)
(* the next open and the next action. An EgisDev lives for one open; the   *)
(* exposure calibration, needs_reinit and the flat-field baseline live as  *)
(* long as the FpDevice. Of the bring-up, the calibration and the capture  *)
(* there is only what bears on these: SensorInit, Calibrate and Capture    *)
(* have the detail, and every step of a capture and of a search is one of  *)
(* here.                                                                   *)
(*                                                                         *)
(* A bring-up that succeeds leaves register 0x0f at the calibrated         *)
(* exposure of its EgisDev, or at the baked one if it has none; one that   *)
(* fails, at what it was or at one of these. (The bring-up misses this     *)
(* when a reply is lost or the calibrated value is 0, the search when a    *)
(* write is not acted on: SensorInit and Calibrate, and not repeated       *)
(* here.)                                                                  *)
(***************************************************************************)
EXTENDS Integers

CONSTANTS
  Exposures,        \* values of register 0x0f the calibration may try
  Baked,            \* the one record 25 of the replay writes
  BaselineFrames    \* EGIS0576_BASELINE_FRAMES

ASSUME ExposuresAssumption == Exposures \subseteq Nat /\ Baked \in Exposures
ASSUME FramesAssumption == BaselineFrames \in Nat \ {0}

Unset == -1         \* dc_c_calibrated before a calibration
NoDev == -2         \* self->sensor == NULL

VARIABLES
  phase,            \* closed; an open's init, calibrate; open, without an
                    \* action; a capture's loop (the load, the matcher, the
                    \* timer), reinit, frame, parked; done, with an action
                    \* that has ended in the driver's view
  claimed,          \* the USB interface
  dev,              \* the EgisDev's dc_c_calibrated, NoDev if there is none
  cancelled,        \* the open's cancellable
  calibrated,       \* self->dc_c_calibrated
  needsReinit,
  suspending,       \* a running capture is to park
  retried,          \* frame_retried
  baseline,         \* have_baseline, BaselineAcc; the exposures they are of
  reg, usable       \* the sensor: register 0x0f; brought up, not slept since

host == <<claimed, dev, cancelled, calibrated>>
sensor == <<reg, usable>>
flags == <<needsReinit, suspending, retried>>
vars == <<phase, host, flags, baseline, sensor>>

NoBaseline == [have |-> FALSE, at |-> {}, cal |-> Unset,
               acc |-> {}, count |-> 0]

\* The sensor as found: whatever ran before this process.
Init ==
  /\ phase = "closed" /\ claimed = FALSE /\ dev = NoDev /\ cancelled = FALSE
  /\ calibrated = Unset
  /\ needsReinit = FALSE /\ suspending = FALSE /\ retried = FALSE
  /\ baseline = NoBaseline
  /\ reg \in Exposures /\ usable \in BOOLEAN

Known(cal) == IF cal = Unset THEN Baked ELSE cal

\* A bring-up went to its end.
BringUp == reg' = Known(dev) /\ usable' = TRUE

\* A part of one went out: record 25, the last record, the re-applied exposure.
BringUpPart == reg' \in {reg, Baked, Known(dev)} /\ usable' \in BOOLEAN

BringUpRuns ==
  /\ phase \in {"init", "reinit"}
  /\ BringUpPart
  /\ UNCHANGED <<phase, host, flags, baseline>>

-----------------------------------------------------------------------------
(* Open and close.                                                          *)

\* egis0576_open; the interface may be taken by another program.
Open ==
  /\ phase = "closed"
  /\ \/ /\ phase' = "init" /\ claimed' = TRUE
        /\ dev' = calibrated /\ cancelled' = FALSE
        /\ UNCHANGED calibrated
     \/ UNCHANGED <<phase, host>>
  /\ UNCHANGED <<flags, baseline, sensor>>

CancelOpen ==
  /\ phase \in {"init", "calibrate"}
  /\ cancelled' = TRUE
  /\ UNCHANGED <<phase, claimed, dev, calibrated, flags, baseline, sensor>>

OpenFail ==
  /\ phase' = "closed" /\ claimed' = FALSE /\ dev' = NoDev
  /\ UNCHANGED <<cancelled, calibrated, flags, baseline>>

\* open_init_done with an error, a cancel's among them.
OpenInitFails == phase = "init" /\ BringUpPart /\ OpenFail

\* open_init_done: calibrated before, or the search is started.
OpenInitDone ==
  /\ phase = "init"
  /\ BringUp
  /\ IF dev # Unset
     THEN phase' = "open" /\ needsReinit' = FALSE /\ calibrated' = dev
     ELSE phase' = "calibrate" /\ UNCHANGED <<needsReinit, calibrated>>
  /\ UNCHANGED <<claimed, dev, cancelled, suspending, retried, baseline>>

\* The search writes the next value to try.
CalibrateTries ==
  /\ phase = "calibrate"
  /\ reg' \in Exposures
  /\ UNCHANGED <<phase, host, flags, baseline, usable>>

\* CAL_APPLY went out, and open_calibrate_done.
CalibrateDone ==
  /\ phase = "calibrate"
  /\ \E v \in Exposures : reg' = v /\ dev' = v /\ calibrated' = v
  /\ phase' = "open" /\ needsReinit' = FALSE
  /\ UNCHANGED <<claimed, cancelled, suspending, retried, baseline, usable>>

\* (slip) The midpoint the search stopped at is left in the register.
CalibrateFailsUnflagged ==
  /\ phase = "calibrate"
  /\ phase' = "open" /\ needsReinit' = FALSE
  /\ UNCHANGED <<host, suspending, retried, baseline, sensor>>

\* open_calibrate_done with an error: opened all the same.
CalibrateFails ==
  /\ phase = "calibrate"
  /\ phase' = "open" /\ needsReinit' = TRUE /\ calibrated' = dev
  /\ UNCHANGED <<claimed, dev, cancelled, suspending, retried, baseline,
                 sensor>>

\* (slip) The cancelled open is completed without giving anything back.
CalibrateCancelledKept ==
  /\ phase = "calibrate" /\ cancelled
  /\ phase' = "closed"
  /\ UNCHANGED <<host, flags, baseline, sensor>>

\* CAL_FRAME sees the cancel, when the write before it is done.
CalibrateCancelled ==
  /\ phase = "calibrate" /\ cancelled
  /\ OpenFail
  /\ reg' \in Exposures /\ UNCHANGED usable

\* egis0576_close: no action is current.
Close ==
  /\ phase = "open"
  /\ phase' = "closed" /\ claimed' = FALSE /\ dev' = NoDev
  /\ UNCHANGED <<cancelled, calibrated, flags, baseline, sensor>>

-----------------------------------------------------------------------------
(* An action and its capture.                                               *)

\* capture_park_if_suspending
Park ==
  /\ suspending
  /\ phase' = "parked" /\ suspending' = FALSE

\* capture_done; a suspend nobody parked for is answered there.
End == phase' = "done" /\ suspending' = FALSE

Turn == IF needsReinit THEN "reinit" ELSE "frame"

\* (slip) The accumulator of the last capture is gone on with.
StartKeepsAcc ==
  /\ phase = "open"
  /\ phase' \in {"loop", Turn}
  /\ retried' = FALSE
  /\ UNCHANGED <<host, needsReinit, suspending, baseline, sensor>>

\* start_capture: CAP_LOAD has its thread, or nothing to load.
StartCapture ==
  /\ phase = "open"
  /\ phase' \in {"loop", Turn}
  /\ retried' = FALSE
  /\ baseline' = [baseline EXCEPT !.acc = {}, !.count = 0]
  /\ UNCHANGED <<host, needsReinit, suspending, sensor>>

\* An action refused before its capture; an action's result returned.
Refused == phase = "open" /\ phase' = "done"
           /\ UNCHANGED <<host, flags, baseline, sensor>>
Returned == phase = "done" /\ phase' = "open"
            /\ UNCHANGED <<host, flags, baseline, sensor>>

\* CAP_REINIT
LoopHead ==
  /\ phase = "loop"
  /\ \/ Park
     \/ ~suspending /\ phase' = Turn /\ UNCHANGED suspending
  /\ UNCHANGED <<host, needsReinit, retried, baseline, sensor>>

\* reinit_done, and CAP_FRAME: a suspend that came while it ran keeps the flag.
ReinitDone ==
  /\ phase = "reinit"
  /\ BringUp
  /\ needsReinit' = suspending
  /\ \/ Park \/ End
     \/ ~suspending /\ phase' = "frame" /\ UNCHANGED suspending
  /\ UNCHANGED <<host, retried, baseline>>

\* reinit_done with the error of a suspend's stop
ReinitStopped ==
  /\ phase = "reinit"
  /\ BringUpPart
  /\ Park
  /\ UNCHANGED <<host, needsReinit, retried, baseline>>

\* baseline_feed
Fed ==
  LET acc == baseline.acc \cup {reg} IN
  IF baseline.have THEN baseline
  ELSE IF baseline.count + 1 >= BaselineFrames
       THEN [have |-> TRUE, at |-> acc, cal |-> calibrated,
             acc |-> acc, count |-> baseline.count + 1]
       ELSE [baseline EXCEPT !.acc = acc, !.count = @ + 1]

\* A frame, with nobody's finger on it or with one. One that was cancelled or
\* suspended meanwhile is not looked at.
FrameArrives ==
  /\ phase = "frame" /\ usable
  /\ retried' = FALSE
  /\ \/ /\ ~suspending /\ UNCHANGED suspending
        /\ baseline' \in {Fed, baseline} /\ phase' \in {"loop", "done"}
     \/ (Park \/ End) /\ UNCHANGED baseline
  /\ UNCHANGED <<host, needsReinit, sensor>>

\* frame_done with an error: CAP_RECOVER, once.
FrameFails ==
  /\ phase = "frame" /\ ~retried
  /\ retried' = TRUE
  /\ \/ Park /\ UNCHANGED needsReinit
     \/ /\ ~suspending /\ UNCHANGED suspending
        /\ phase' = "reinit" /\ needsReinit' = TRUE
  /\ UNCHANGED <<host, baseline, sensor>>

\* A verdict, a second failed frame, a bring-up that failed, a cancel, or the
\* removal of a parked device.
CaptureEnds ==
  /\ phase \in {"loop", "reinit", "frame", "parked"}
  /\ End
  /\ IF phase = "reinit" THEN BringUpPart ELSE UNCHANGED sensor
  /\ UNCHANGED <<host, needsReinit, retried, baseline>>

-----------------------------------------------------------------------------
(* The world: sleep and unplugging.                                         *)

Slept == usable' = FALSE /\ reg' \in Exposures

\* egis0576_suspend: a capture parks at its next boundary. One that libfprint
\* deferred may find the action over.
Suspend ==
  /\ phase \in {"open", "done", "loop", "reinit", "frame"} /\ ~suspending
  /\ needsReinit' = TRUE /\ suspending' = (phase \notin {"open", "done"})
  /\ UNCHANGED <<phase, host, retried, baseline, sensor>>

\* The system sleeps and wakes. Without an action the driver is not told; with
\* one that has ended in the driver's view it was.
SleepIdle ==
  /\ phase \in {"closed", "open"} \/ (phase = "done" /\ needsReinit)
  /\ Slept
  /\ UNCHANGED <<phase, host, flags, baseline>>

\* egis0576_resume of a parked capture, after the sleep it parked for; one
\* that was cancelled meanwhile ends at the loop head.
Resume ==
  /\ phase = "parked"
  /\ Slept
  /\ phase' \in {"reinit", "done"} /\ needsReinit' = TRUE
  /\ UNCHANGED <<host, suspending, retried, baseline>>

\* Unplugged, reset off the bus by the bring-up, or re-authorised by the
\* resume hook: the device that comes back is a new instance.
Replug ==
  /\ phase' = "closed" /\ claimed' = FALSE /\ dev' = NoDev
  /\ cancelled' = FALSE /\ calibrated' = Unset
  /\ needsReinit' = FALSE /\ suspending' = FALSE /\ retried' = FALSE
  /\ baseline' = NoBaseline
  /\ reg' \in Exposures /\ usable' \in BOOLEAN

Opening == Open \/ CancelOpen \/ OpenInitFails \/ OpenInitDone
           \/ CalibrateTries \/ CalibrateDone \/ CalibrateFails
           \/ CalibrateCancelled \/ Close

Capturing == StartCapture \/ Refused \/ Returned \/ LoopHead
             \/ ReinitDone \/ ReinitStopped \/ FrameArrives \/ FrameFails
             \/ CaptureEnds \/ Suspend \/ Resume

Next == Opening \/ BringUpRuns \/ Capturing \/ SleepIdle \/ Replug

Spec == Init /\ [][Next]_vars

-----------------------------------------------------------------------------
(* Properties                                                               *)

Baselines == [have : BOOLEAN, at : SUBSET Exposures,
              cal : Exposures \cup {Unset},
              acc : SUBSET Exposures, count : 0 .. BaselineFrames]

\* The device instance and the sensor; no more frames than the baseline takes.
TypeOK ==
  /\ phase \in {"closed", "init", "calibrate", "open", "loop", "reinit", "frame",
               "parked", "done"}
  /\ claimed \in BOOLEAN /\ cancelled \in BOOLEAN
  /\ dev \in Exposures \cup {Unset, NoDev}
  /\ calibrated \in Exposures \cup {Unset}
  /\ needsReinit \in BOOLEAN /\ suspending \in BOOLEAN /\ retried \in BOOLEAN
  /\ baseline \in Baselines
  /\ reg \in Exposures /\ usable \in BOOLEAN

\* No frame of an action is taken at an exposure a search happened to stop at,
\* or at one an earlier EgisDev left: it is the calibrated one, or the baked
\* one while there is none (open_calibrate_done: "have the next action replay
\* the bring-up first, whose record 25 restores the baked exposure").
FramesAtKnownExposure ==
  phase = "frame" /\ usable => reg = Known(calibrated)

\* The baseline is of one exposure, and one recorded calibrated is of the
\* exposure of every frame it is ever subtracted from, in later opens too.
CalibratedBaselineFits ==
  /\ baseline.have => \E r \in Exposures : baseline.at = {r}
  /\ phase = "frame" /\ usable /\ baseline.have /\ baseline.cal # Unset
       => baseline.at = {reg}

\* "the flat-field baseline (exposure-tied, per-boot, and still valid
\* precisely because the exposure is re-applied)" (the comment above
\* reinit_done). It does not hold: README, 6.
BaselineFits ==
  phase = "frame" /\ usable /\ baseline.have => baseline.at = {reg}

\* A device that is not open holds neither the interface nor an EgisDev, by
\* whichever of the five ways out it was closed.
ClosedHoldsNothing ==
  /\ phase = "closed" => ~claimed /\ dev = NoDev
  /\ phase # "closed" => claimed /\ dev # NoDev

\* "once per fprintd lifetime" (open_init_done): a calibration, once found, is
\* the device's for good.
CalibratedOnce ==
  [][Replug \/ (calibrated # Unset => calibrated' = calibrated)]_vars
=============================================================================
