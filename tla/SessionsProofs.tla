---------------------------- MODULE SessionsProofs ----------------------------
(***************************************************************************)
(* Proofs, for every set of exposures and every number of baseline frames, *)
(* of the safety properties of Sessions. The inductive invariant says      *)
(* which EgisDev knows which calibration, when the register can be trusted *)
(* without a bring-up, and of which exposure the accumulator is. Then, for *)
(* every TIMEOUT, those of ResumeGate, whose system has nothing in common  *)
(* with that of Sessions and names of its own.                             *)
(***************************************************************************)
EXTENDS Sessions, ResumeGate, TLAPS

\* An EgisDev has the device's calibration; none is searched if there is one.
DevIsTold ==
  /\ phase # "closed" => dev = calibrated
  /\ phase = "calibrate" => calibrated = Unset

\* A usable sensor nobody flagged is at the known exposure, and so is one a
\* frame is asked of, which a suspend may have flagged but no sleep changed.
RegisterIsKnown ==
  /\ phase \in {"open", "done", "loop"} /\ usable /\ ~needsReinit
       => reg = Known(calibrated)
  /\ phase = "frame" /\ usable => reg = Known(calibrated)

\* The machine is only at its bring-up, or parked, with the flag set; a frame is
\* only asked for with the flag set when a suspend has come since.
FlagFits ==
  /\ phase \in {"reinit", "parked"} => needsReinit
  /\ phase = "frame" /\ needsReinit => suspending
  /\ suspending => needsReinit /\ phase \in {"loop", "reinit", "frame"}

Captures == {"loop", "reinit", "frame", "parked"}

\* The accumulator of the running capture is of one exposure, and so is the
\* published baseline; the one recorded calibrated is of the calibrated one.
BaselineIsOfOne ==
  /\ phase \in Captures => baseline.acc \subseteq {Known(calibrated)}
  /\ ~baseline.have => baseline.count < BaselineFrames
  /\ baseline.have => \E r \in Exposures : baseline.at = {r}
  /\ baseline.have /\ baseline.cal # Unset =>
       baseline.cal = calibrated /\ baseline.at = {calibrated}

SessionsInv ==
  /\ TypeOK /\ ClosedHoldsNothing /\ DevIsTold
  /\ RegisterIsKnown /\ FlagFits /\ BaselineIsOfOne

\* Unset and NoDev are no register values.
LEMMA NoExposures == Unset \notin Exposures /\ NoDev \notin Exposures
  BY ExposuresAssumption DEF Unset, NoDev

LEMMA KnownType == \A c \in Exposures \cup {Unset} : Known(c) \in Exposures
  BY ExposuresAssumption DEF Known

LEMMA NoBaselineType == NoBaseline \in Baselines
  BY FramesAssumption DEF NoBaseline, Baselines

\* Init satisfies the invariant.
LEMMA SessionsInit == Init => SessionsInv
<1> SUFFICES ASSUME Init PROVE SessionsInv
  OBVIOUS
<1>1. TypeOK
  BY NoBaselineType DEF Init, TypeOK
<1>2. ClosedHoldsNothing /\ DevIsTold /\ RegisterIsKnown /\ FlagFits
  BY DEF Init, ClosedHoldsNothing, DevIsTold, RegisterIsKnown, FlagFits
<1>3. BaselineIsOfOne
  BY FramesAssumption DEF Init, BaselineIsOfOne, NoBaseline, Captures
<1> QED BY <1>1, <1>2, <1>3 DEF SessionsInv

\* The steps of an open preserve it: none of them touches the baseline, and no
\* capture runs before or after.
LEMMA OpeningStep == SessionsInv /\ Opening => SessionsInv'
<1> SUFFICES ASSUME SessionsInv, Opening PROVE SessionsInv'
  OBVIOUS
<1> USE NoExposures, KnownType, ExposuresAssumption
<1> USE DEF SessionsInv, Opening, Open, CancelOpen, Close, OpenInitFails,
            OpenFail, OpenInitDone, CalibrateTries, CalibrateDone,
            CalibrateFails, CalibrateCancelled, host, flags, sensor
<1>1. UNCHANGED <<baseline, suspending, retried>>
  OBVIOUS
<1>2. /\ phase \in {"closed", "init", "calibrate", "open"}
      /\ phase' \in {"closed", "init", "calibrate", "open"}
  OBVIOUS
<1>3. TypeOK'
  <2>1. claimed' \in BOOLEAN /\ cancelled' \in BOOLEAN
    BY DEF TypeOK
  <2>2. /\ dev' \in Exposures \cup {Unset, NoDev}
        /\ calibrated' \in Exposures \cup {Unset}
    BY DEF TypeOK, DevIsTold, ClosedHoldsNothing
  <2>3. needsReinit' \in BOOLEAN
    BY DEF TypeOK
  <2>4. reg' \in Exposures
    BY DEF TypeOK, DevIsTold, BringUp, BringUpPart
  <2>5. usable' \in BOOLEAN
    BY DEF TypeOK, BringUp, BringUpPart
  <2> QED BY <1>1, <1>2, <2>1, <2>2, <2>3, <2>4, <2>5 DEF TypeOK
<1>4. ClosedHoldsNothing' /\ DevIsTold'
  BY DEF TypeOK, ClosedHoldsNothing, DevIsTold, Unset, NoDev
<1>5. RegisterIsKnown'
  BY <1>2 DEF DevIsTold, RegisterIsKnown, BringUp, Known, TypeOK
<1>6. FlagFits'
  BY <1>1, <1>2 DEF FlagFits
<1>7. calibrated' = calibrated \/ calibrated = Unset
  BY DEF DevIsTold
<1>8. BaselineIsOfOne'
  BY <1>1, <1>2, <1>7 DEF BaselineIsOfOne, Captures
<1> QED BY <1>3, <1>4, <1>5, <1>6, <1>8

\* A frame feeds a baseline of the exposure the accumulator is already of.
LEMMA FedIsOfOne ==
  ASSUME SessionsInv, phase = "frame", usable
  PROVE  /\ Fed \in Baselines /\ Fed.acc \subseteq {Known(calibrated)}
         /\ ~Fed.have => Fed.count < BaselineFrames
         /\ Fed.have => \E r \in Exposures : Fed.at = {r}
         /\ Fed.have /\ Fed.cal # Unset =>
              Fed.cal = calibrated /\ Fed.at = {calibrated}
<1> USE KnownType, FramesAssumption DEF SessionsInv
<1>1. /\ reg = Known(calibrated) /\ reg \in Exposures
      /\ baseline \in Baselines /\ calibrated \in Exposures \cup {Unset}
      /\ baseline.acc \subseteq {reg}
      /\ ~baseline.have => baseline.count < BaselineFrames
  BY DEF RegisterIsKnown, BaselineIsOfOne, TypeOK, Captures
<1>2. CASE baseline.have
  BY <1>1, <1>2 DEF Fed, BaselineIsOfOne
<1>3. CASE ~baseline.have
  <2>1. /\ baseline.acc \cup {reg} = {reg} /\ {reg} \in SUBSET Exposures
        /\ baseline.count + 1 \in 0 .. BaselineFrames
    BY <1>1, <1>3 DEF Baselines
  <2>2. calibrated # Unset => calibrated = reg
    BY <1>1 DEF Known
  <2>3. CASE baseline.count + 1 >= BaselineFrames
    <3>1. Fed = [have |-> TRUE, at |-> {reg}, cal |-> calibrated,
                 acc |-> {reg}, count |-> baseline.count + 1]
      BY <1>3, <2>1, <2>3 DEF Fed
    <3> QED BY <3>1, <1>1, <2>1, <2>2 DEF Baselines
  <2>4. CASE ~(baseline.count + 1 >= BaselineFrames)
    <3>1. Fed = [baseline EXCEPT !.acc = {reg}, !.count = @ + 1]
      BY <1>3, <2>1, <2>4 DEF Fed
    <3>2. /\ Fed \in Baselines /\ Fed.have = FALSE /\ Fed.acc = {reg}
          /\ Fed.count = baseline.count + 1
      BY <3>1, <1>1, <1>3, <2>1 DEF Baselines
    <3> QED BY <3>2, <1>1, <2>1, <2>4 DEF Baselines
  <2> QED BY <2>3, <2>4
<1> QED BY <1>2, <1>3

\* The steps of a capture that have nothing to do with its frames preserve it.
LEMMA CaptureStep ==
  SessionsInv
    /\ (Refused \/ Returned \/ LoopHead \/ ReinitDone \/ ReinitStopped
          \/ FrameFails \/ CaptureEnds \/ Suspend \/ Resume \/ BringUpRuns
          \/ SleepIdle)
  => SessionsInv'
<1> SUFFICES ASSUME SessionsInv,
                    Refused \/ Returned \/ LoopHead \/ ReinitDone
                      \/ ReinitStopped \/ FrameFails \/ CaptureEnds
                      \/ Suspend \/ Resume \/ BringUpRuns \/ SleepIdle
             PROVE  SessionsInv'
  OBVIOUS
<1> USE KnownType, NoExposures, ExposuresAssumption
<1> USE DEF SessionsInv, Refused, Returned, LoopHead, ReinitDone, ReinitStopped,
            FrameFails, CaptureEnds, Suspend, Resume, BringUpRuns, SleepIdle,
            Park, End, Turn, host, flags, sensor
<1>1. UNCHANGED <<host, baseline>>
  OBVIOUS
<1>2. \/ phase' = phase
      \/ phase' \in Captures \cup {"done"} /\ phase \in Captures
      \/ phase' \in {"open", "done"} /\ phase \in {"open", "done"}
  BY DEF Captures
<1>3. TypeOK'
  <2>1. phase' \in {"closed", "init", "calibrate", "open", "loop", "reinit",
                    "frame", "parked", "done"}
    BY <1>2 DEF TypeOK, Captures
  <2>2. /\ needsReinit' \in BOOLEAN /\ suspending' \in BOOLEAN
        /\ retried' \in BOOLEAN
    BY DEF TypeOK
  <2>3. reg' \in Exposures
    BY DEF TypeOK, BringUp, BringUpPart, DevIsTold, ClosedHoldsNothing, Slept
  <2>4. usable' \in BOOLEAN
    BY DEF TypeOK, BringUp, BringUpPart, Slept
  <2> QED BY <1>1, <2>1, <2>2, <2>3, <2>4 DEF TypeOK
<1>4. ClosedHoldsNothing' /\ DevIsTold'
  BY <1>1, <1>2 DEF ClosedHoldsNothing, DevIsTold, Captures
<1>5. FlagFits'
  <2>1. CASE Suspend
    BY <2>1 DEF FlagFits, TypeOK
  <2>2. CASE ReinitDone
    BY <2>2 DEF FlagFits, TypeOK
  <2>3. CASE ~Suspend /\ ~ReinitDone
    <3>1. \/ UNCHANGED <<phase, needsReinit, suspending>>
          \/ UNCHANGED needsReinit /\ suspending /\ phase' = "parked"
             /\ suspending' = FALSE
          \/ ~suspending' /\ phase' \notin {"reinit", "parked", "frame"}
          \/ UNCHANGED needsReinit /\ ~suspending' /\ phase' = Turn
          \/ needsReinit' = TRUE /\ ~suspending' /\ phase' # "frame"
      BY <2>3 DEF FlagFits
    <3> QED BY <3>1 DEF FlagFits
  <2> QED BY <2>1, <2>2, <2>3
<1>6. RegisterIsKnown'
  BY <1>1 DEF RegisterIsKnown, FlagFits, DevIsTold, TypeOK, BringUp, Slept
<1>7. BaselineIsOfOne'
  BY <1>1, <1>2 DEF BaselineIsOfOne, Captures
<1> QED BY <1>3, <1>4, <1>5, <1>6, <1>7

LEMMA StartStep == SessionsInv /\ StartCapture => SessionsInv'
<1> SUFFICES ASSUME SessionsInv, StartCapture PROVE SessionsInv'
  OBVIOUS
<1> USE FramesAssumption DEF SessionsInv, StartCapture, Turn, host, sensor
<1>1. /\ phase = "open" /\ phase' \in {"loop", "reinit", "frame"}
      /\ UNCHANGED <<host, needsReinit, suspending, sensor>>
      /\ retried' = FALSE
      /\ baseline' = [baseline EXCEPT !.acc = {}, !.count = 0]
  OBVIOUS
<1>2. baseline' \in Baselines
  <2>1. baseline \in Baselines /\ {} \in SUBSET Exposures
        /\ 0 \in 0 .. BaselineFrames
    BY DEF TypeOK
  <2>2. [baseline EXCEPT !.acc = {}, !.count = 0] \in Baselines
    BY <2>1, Zenon DEF Baselines
  <2> QED BY <1>1, <2>2
<1>3. TypeOK'
  BY <1>1, <1>2 DEF TypeOK
<1>4. ClosedHoldsNothing' /\ DevIsTold'
  BY <1>1 DEF ClosedHoldsNothing, DevIsTold
<1>5. RegisterIsKnown' /\ FlagFits'
  BY DEF RegisterIsKnown, FlagFits
<1>6. BaselineIsOfOne'
  BY <1>1 DEF BaselineIsOfOne, TypeOK, Baselines
<1> QED BY <1>3, <1>4, <1>5, <1>6

LEMMA FrameStep == SessionsInv /\ FrameArrives => SessionsInv'
<1> SUFFICES ASSUME SessionsInv, FrameArrives PROVE SessionsInv'
  OBVIOUS
<1> USE DEF SessionsInv
<1>1. /\ phase = "frame" /\ usable /\ retried' = FALSE
      /\ phase' \in {"loop", "done", "parked"} /\ suspending' = FALSE
      /\ phase' = "parked" => suspending
      /\ phase' = "loop" => ~suspending
      /\ UNCHANGED <<host, needsReinit, sensor>>
      /\ baseline' \in {Fed, baseline}
  BY DEF FrameArrives, Park, End, TypeOK
<1>2. /\ baseline' \in Baselines
      /\ baseline'.acc \subseteq {Known(calibrated)}
      /\ ~baseline'.have => baseline'.count < BaselineFrames
      /\ baseline'.have => \E r \in Exposures : baseline'.at = {r}
      /\ baseline'.have /\ baseline'.cal # Unset =>
           baseline'.cal = calibrated /\ baseline'.at = {calibrated}
  BY <1>1, FedIsOfOne DEF BaselineIsOfOne, TypeOK, Captures
<1>3. TypeOK'
  BY <1>1, <1>2 DEF TypeOK, host, sensor
<1>4. ClosedHoldsNothing' /\ DevIsTold' /\ RegisterIsKnown' /\ FlagFits'
  BY <1>1 DEF ClosedHoldsNothing, DevIsTold, RegisterIsKnown, FlagFits, host,
              sensor
<1>5. BaselineIsOfOne'
  BY <1>1, <1>2 DEF BaselineIsOfOne, host
<1> QED BY <1>3, <1>4, <1>5

\* A new instance has nothing of the old one.
LEMMA ReplugStep == Replug => SessionsInv'
<1> SUFFICES ASSUME Replug PROVE SessionsInv'
  OBVIOUS
<1>1. TypeOK'
  BY NoBaselineType DEF Replug, TypeOK
<1>2. ClosedHoldsNothing' /\ DevIsTold' /\ RegisterIsKnown' /\ FlagFits'
  BY DEF Replug, ClosedHoldsNothing, DevIsTold, RegisterIsKnown, FlagFits
<1>3. BaselineIsOfOne'
  BY FramesAssumption DEF Replug, BaselineIsOfOne, NoBaseline, Captures
<1> QED BY <1>1, <1>2, <1>3 DEF SessionsInv

LEMMA SessionsNext == SessionsInv /\ [Next]_vars => SessionsInv'
<1>1. CASE UNCHANGED vars
  BY <1>1 DEF vars, host, flags, sensor, SessionsInv, TypeOK,
              ClosedHoldsNothing, DevIsTold, RegisterIsKnown, FlagFits,
              BaselineIsOfOne
<1>2. CASE Next
  BY <1>2, OpeningStep, StartStep, CaptureStep, FrameStep, ReplugStep
     DEF Next, Capturing
<1> QED BY <1>1, <1>2

\* The invariant across opens: egis0576.c's per-instance state, the EgisDev of
\* the current open and the sensor's register belong together.
THEOREM SessionsInvariant == Spec => []SessionsInv
  BY SessionsInit, SessionsNext, PTL DEF Spec

\* The fields of the device instance stay in range; a published baseline takes
\* no more frames.
THEOREM SessionsTypeCorrect == Spec => []TypeOK
  BY SessionsInvariant, PTL DEF SessionsInv

\* Frames are taken at the calibrated exposure, or at the baked one while
\* there is none, never at a midpoint open_calibrate_done left.
THEOREM ExposureIsKnown == Spec => []FramesAtKnownExposure
<1>1. SessionsInv => FramesAtKnownExposure
  BY DEF SessionsInv, RegisterIsKnown, FramesAtKnownExposure
<1> QED BY <1>1, SessionsInvariant, PTL

\* A baseline that baseline_feed published after a calibration fits every
\* frame flat_field subtracts it from.
THEOREM BaselineKeptFits == Spec => []CalibratedBaselineFits
<1>1. SessionsInv => CalibratedBaselineFits
  BY DEF SessionsInv, RegisterIsKnown, BaselineIsOfOne, CalibratedBaselineFits,
         Known
<1> QED BY <1>1, SessionsInvariant, PTL

\* open_fail, egis0576_close and finalize leave neither claim nor EgisDev.
THEOREM ClosedIsClean == Spec => []ClosedHoldsNothing
  BY SessionsInvariant, PTL DEF SessionsInv

\* No later open changes the calibration an earlier one found.
THEOREM CalibrationIsForGood == Spec => CalibratedOnce
<1>1. SessionsInv /\ [Next]_vars =>
        [Replug \/ (calibrated # Unset => calibrated' = calibrated)]_vars
  BY DEF SessionsInv, DevIsTold, Next, vars, host, Open, CancelOpen, Opening,
     Close, OpenInitFails, OpenFail, OpenInitDone, CalibrateTries,
     CalibrateDone, CalibrateFails, CalibrateCancelled, BringUpRuns, Capturing,
     StartCapture, Refused, Returned, LoopHead, ReinitDone, ReinitStopped,
     FrameArrives, FrameFails, CaptureEnds, Suspend, Resume, SleepIdle
<1> QED BY <1>1, SessionsInvariant, PTL DEF Spec, CalibratedOnce

-----------------------------------------------------------------------------
(* The sleeps as fprintd sees them: the resume hook and the start gate of    *)
(* integration/, which run beside the driver. They have a state of their own. *)

\* From the moment fprintd is stopped to the removal of the mark, unless
\* something slipped: the mark is there, and fprintd is not past its gate.
Marked ==
  hook \in {"falling", "asleep", "find", "deauthorize", "authorize", "unmark"}
    /\ slips = {}
  => marker /\ unit \in {"inactive", "gate"} /\ claim = "none"

\* Only the two commands in the middle of the hook know the sensor off the bus.
PutBack ==
  bus = "off" /\ hook \in {"out", "mark", "stop", "unmark"} => "cut" \in slips

GateInv ==
  /\ GateTypeOK /\ NoStaleClaim /\ Marked
  /\ PutBack /\ HookLeavesNothing

LEMMA GateInvInit == GateInit => GateInv
<1> SUFFICES ASSUME GateInit PROVE GateInv
  OBVIOUS
<1>1. waited \in 0 .. Ticks
  BY TicksAssumption DEF GateInit
<1> QED
  BY <1>1 DEF GateInit, GateInv, GateTypeOK, NoStaleClaim, Marked,
              PutBack, HookLeavesNothing, Slips

\* The gate counts its rounds from 0, TIMEOUT of them at most.
LEMMA GateCounts ==
  ASSUME waited \in 0 .. Ticks, Activate \/ GateRound
  PROVE  waited' \in 0 .. Ticks
<1> USE TicksAssumption
<1>1. CASE Activate
  BY <1>1 DEF Activate
<1>2. CASE GateRound
  BY <1>2 DEF GateRound
<1> QED BY <1>1, <1>2

\* fprintd's own steps, each between any two commands of the hook.
LEMMA GateServiceKeeps ==
  ASSUME GateInv, Activate \/ Gate \/ Started \/ Claim \/ Release
  PROVE  GateInv'
<1> USE DEF GateInv, GateTypeOK, NoStaleClaim, Marked, PutBack,
            HookLeavesNothing, Slips, Awake
<1>1. CASE Activate
  BY <1>1, GateCounts DEF Activate
<1>2. CASE GateRound
  BY <1>2, GateCounts DEF GateRound
<1>3. CASE GateOpens
  BY <1>3 DEF GateOpens
<1>4. CASE Started
  BY <1>4 DEF Started
<1>5. CASE Claim
  BY <1>5 DEF Claim
<1>6. CASE Release
  BY <1>6 DEF Release
<1> QED BY <1>1, <1>2, <1>3, <1>4, <1>5, <1>6 DEF Gate

\* The hook's `pre`, up to the sleep: its stop of fprintd starts the count of
\* the slips again, and leaves nothing of fprintd.
LEMMA GatePreKeeps ==
  ASSUME GateInv, Sleep \/ Mark \/ Stop \/ Freeze
  PROVE  GateInv'
<1> USE DEF GateInv, GateTypeOK, NoStaleClaim, Marked, PutBack,
            HookLeavesNothing, Slips, service
<1>1. CASE Sleep
  BY <1>1 DEF Sleep
<1>2. CASE Mark
  BY <1>2 DEF Mark
<1>3. CASE Stop
  BY <1>3 DEF Stop
<1>4. CASE Freeze
  BY <1>4 DEF Freeze
<1> QED BY <1>1, <1>2, <1>3, <1>4

\* The hook's `post`, its being cut short anywhere, and the sensor's return: a
\* claim can only go stale when there is one, so when something has slipped.
LEMMA GatePostKeeps ==
  ASSUME GateInv,
         Wake \/ Find \/ Deauthorize \/ Authorize \/ Unmark \/ Cut \/ Appears
  PROVE  GateInv'
<1> USE DEF GateInv, GateTypeOK, NoStaleClaim, Marked, PutBack,
            HookLeavesNothing, Slips, service
<1>1. CASE Wake
  BY <1>1 DEF Wake, Outdated
<1>2. CASE Find
  BY <1>2 DEF Find
<1>3. CASE Deauthorize
  BY <1>3 DEF Deauthorize, Outdated
<1>4. CASE Authorize
  BY <1>4 DEF Authorize
<1>5. CASE Unmark
  BY <1>5 DEF Unmark
<1>6. CASE Cut
  BY <1>6 DEF Cut
<1>7. CASE Appears
  BY <1>7 DEF Appears, Awake
<1> QED BY <1>1, <1>2, <1>3, <1>4, <1>5, <1>6, <1>7

LEMMA GateInvNext == GateInv /\ [GateNext]_gateVars => GateInv'
<1> SUFFICES ASSUME GateInv, [GateNext]_gateVars PROVE GateInv'
  OBVIOUS
<1>1. CASE GateNext
  BY <1>1, GateServiceKeeps, GatePreKeeps, GatePostKeeps DEF GateNext
<1>2. CASE UNCHANGED gateVars
  BY <1>2 DEF gateVars, GateInv, GateTypeOK, NoStaleClaim, Marked,
              PutBack, HookLeavesNothing
<1> QED BY <1>1, <1>2

\* The inductive invariant of the hook and the gate.
THEOREM GateInvariant == GateSpec => []GateInv
<1>1. GateInit => GateInv
  BY GateInvInit
<1>2. GateInv /\ [GateNext]_gateVars => GateInv'
  BY GateInvNext
<1> QED BY <1>1, <1>2, PTL DEF GateSpec

\* The scripts' state stays what it is, and the gate waits TIMEOUT at most.
THEOREM GateTypeCorrect == GateSpec => []GateTypeOK
<1>1. GateInv => GateTypeOK
  BY DEF GateInv
<1> QED BY <1>1, GateInvariant, PTL

\* However activations, the hook's commands and its failures are interleaved,
\* a claim is only left stale when the hook was cut short, had no marker, or
\* outlasted the gate; and a complete `pre` clears what earlier sleeps left.
THEOREM NoClaimGoesStale == GateSpec => []NoStaleClaim
<1>1. GateInv => NoStaleClaim
  BY DEF GateInv
<1> QED BY <1>1, GateInvariant, PTL

\* A hook that is over leaves neither its marker nor a sensor off the bus,
\* unless it was killed.
THEOREM HookIsClean == GateSpec => []HookLeavesNothing
<1>1. GateInv => HookLeavesNothing
  BY DEF GateInv
<1> QED BY <1>1, GateInvariant, PTL
=============================================================================
