------------------------------- MODULE Capture -------------------------------
(***************************************************************************)
(* One enrol / verify / identify action of the EH576 driver                *)
(* (driver/egis0576.c): the capture machine CAP_LOAD .. CAP_PROCESS with    *)
(* the bring-up machine inside it, the matcher task, the press logic, and   *)
(* what libfprint does to a running action: cancel, suspend, resume,        *)
(* removal.                                                                 *)
(*                                                                         *)
(* A main-loop callback runs to its next asynchronous call in one step, so  *)
(* a step of this module is one callback with every handler it enters       *)
(* synchronously. What the machine then waits for is pc:                    *)
(*   none      no machine (self->ssm == NULL)                               *)
(*   loading   load_thread runs            loaded   load_done is queued     *)
(*   poll      init machine, DRAIN / READY: before the replay               *)
(*   replay    init machine, REPLAY: inside the critical section            *)
(*   post      init machine, READ_DC_C / REAPPLY                            *)
(*   frame     the frame chain                                              *)
(*   matching  match_thread runs           matched  match_done is queued    *)
(*   timer     the delayed jump to the loop head                            *)
(*   held      a machine with nothing in flight and nothing scheduled       *)
(*                                                                         *)
(* Definitions whose comment begins with "(slip)" are not part of the       *)
(* specification: each is its successor with one plausible mistake, used    *)
(* to see that the property it is meant to break does break.                *)
(***************************************************************************)
EXTENDS Integers

CONSTANTS
  Actions,          \* the actions clients start, a subset of ActionNames
  Frames,           \* frames the sensor may deliver: records with a field var
  Slots,            \* gallery indices of the prints that decoded
  Scores,           \* scores the matcher may return
  Threshold,        \* EGIS_THRESHOLD
  Stages,           \* EGIS0576_ENROLL_STAGES
  SettleFrames,     \* EGIS0576_ENROLL_SETTLE_FRAMES
  BaselineFrames,   \* EGIS0576_BASELINE_FRAMES
  Removable         \* whether the device may leave the bus

ActionNames == {"enroll", "verify", "identify"}

ASSUME ActionsAssumption == Actions \subseteq ActionNames
ASSUME FramesAssumption == \A f \in Frames : f.var \in Nat
ASSUME SlotsAssumption == Slots \subseteq Nat /\ 0 \in Slots
ASSUME ScoresAssumption == Scores \subseteq Int /\ Threshold \in Int
ASSUME BoundsAssumption ==
  Stages \in Nat \ {0} /\ SettleFrames \in Nat /\ BaselineFrames \in Nat \ {0}
ASSUME RemovableAssumption == Removable \in BOOLEAN

FingerOnVar == 250
FingerOffVar == 215
BaselineMaxVar == 210

FingerOn(f) == f.var >= FingerOnVar
FingerOff(f) == f.var < FingerOffVar

VARIABLES
  \* libfprint's view of the device
  action,        \* the current action, or "none"
  cancelled,     \* its cancellable
  cancelDue,     \* the cancel vfunc has been asked for and not run yet
  sleep,         \* awake | queued | pending | asleep | idle: SuspendRequest
  removed,       \* the device left the bus
  outcome,       \* what the last action reported and completed with
  \* the driver's device instance
  pc,
  parked, suspending, needsReinit,
  stop,          \* EgisDev.stop
  frameRetried,
  press,         \* the press in progress
  frame,         \* the raw frame just captured
  enrollCount,
  baseline,      \* have_baseline and the accumulator's count
  \* the matcher task and the engine's enrol session
  job, stored,
  \* observed for the properties only
  wedged,        \* slept, with the driver told, and not replayed since
  seen

lib == <<action, cancelled, cancelDue, sleep, removed, outcome>>
machine == <<pc, parked, suspending, needsReinit, stop, frameRetried>>
data == <<press, frame, enrollCount, baseline, job, stored>>
vars == <<lib, machine, data, wedged, seen>>

Pcs == {"none", "loading", "loaded", "poll", "replay", "post", "frame",
        "matching", "matched", "timer", "held"}

Outcomes == {"none", "match", "nomatch", "retry", "enrolled", "cancelled",
             "error", "invalid", "removed"}

\* Nothing in flight, nothing scheduled, no thread running.
Quiet == pc \in {"none", "held"}

NoJob == [ret |-> 0, score |-> -1, idx |-> -1, rawOk |-> FALSE]

FreshPress == [phase |-> "await_on", finger |-> FALSE, settle |-> 0,
               saw |-> FALSE, best |-> -1, cand |-> {}]

Init ==
  /\ action = "none" /\ cancelled = FALSE /\ cancelDue = FALSE
  /\ sleep = "awake" /\ removed = FALSE /\ outcome = "none"
  /\ pc = "none" /\ parked = FALSE /\ suspending = FALSE
  /\ needsReinit \in BOOLEAN          \* TRUE: the open's calibration failed
  /\ stop = FALSE /\ frameRetried = FALSE
  /\ press = FreshPress
  /\ frame \in Frames
  /\ enrollCount = 0
  /\ baseline = [have |-> FALSE, count |-> 0]
  /\ job = NoJob /\ stored = 0
  /\ wedged = FALSE
  /\ seen = [prev |-> {}, fresh |-> FALSE, stores |-> 0]

-----------------------------------------------------------------------------
(* How a machine stops: ended, parked, or waiting for its next callback.    *)

\* (slip) The suspend of an action that ended first is never answered.
EndedUnanswered(result, sl) ==
  /\ pc' = "none" /\ parked' = FALSE
  /\ outcome' = result
  /\ suspending' = FALSE
  /\ sleep' = sl

\* capture_done: the machine is gone, the action's completion is queued, and
\* a suspend nobody parked for is answered here. @sl is the sleep state the
\* handler sees.
Ended(result, sl) ==
  /\ pc' = "none" /\ parked' = FALSE
  /\ outcome' = result
  /\ suspending' = FALSE
  /\ sleep' = IF suspending THEN "asleep" ELSE sl

\* (slip) The park forgets nothing but the reported finger status.
PressKept == press' = [press EXCEPT !.finger = FALSE]

\* capture_press_reset: the press is forgotten, the enrol phase is kept.
PressReset ==
  press' = [press EXCEPT !.saw = FALSE, !.cand = {}, !.best = -1,
                         !.settle = 0, !.finger = FALSE]

Park ==
  /\ suspending
  /\ suspending' = FALSE /\ parked' = TRUE /\ pc' = "held"
  /\ PressReset
  /\ sleep' = "asleep"
  /\ UNCHANGED outcome

\* The machine's next wait is @next.
Continue(next, sl) ==
  /\ pc' = next /\ parked' = FALSE
  /\ sleep' = sl
  /\ UNCHANGED <<suspending, outcome>>

ReinitStart(sl) ==
  /\ Continue("poll", sl)
  /\ needsReinit' = TRUE
  /\ stop' = FALSE

\* CAP_FRAME entered with needs_reinit = @flag.
FrameState(flag, sl) ==
  /\ needsReinit' = flag
  /\ UNCHANGED stop
  /\ \/ cancelled /\ Ended("cancelled", sl) /\ UNCHANGED press
     \/ ~cancelled /\ Park
     \/ ~cancelled /\ ~suspending /\ Continue("frame", sl) /\ UNCHANGED press

\* CAP_REINIT, the loop head, entered with needs_reinit = @flag.
LoopHead(flag, sl) ==
  \/ ~flag /\ FrameState(flag, sl)
  \/ /\ flag
     /\ \/ /\ cancelled /\ Ended("cancelled", sl)
           /\ needsReinit' = flag
           /\ UNCHANGED <<stop, press>>
        \/ /\ ~cancelled /\ Park
           /\ needsReinit' = flag
           /\ UNCHANGED stop
        \/ ~cancelled /\ ~suspending /\ ReinitStart(sl) /\ UNCHANGED press

-----------------------------------------------------------------------------
(* Actions started by a client, and their return.                           *)

CanStart(a) ==
  /\ a \in Actions
  /\ action = "none" /\ ~removed /\ sleep = "awake"
  /\ action' = a
  /\ UNCHANGED <<cancelled, cancelDue, removed, wedged>>

StartCapture ==
  /\ press' = FreshPress
  /\ frameRetried' = FALSE
  /\ baseline' = [baseline EXCEPT !.count = 0]
  /\ seen' = [prev |-> {}, fresh |-> FALSE, stores |-> 0]
  /\ UNCHANGED <<frame, job>>

\* egis0576_enroll; CAP_LOAD has nothing to load. egis_enroll_begin does not
\* fail in either flavour: the one refuses only a missing engine, without which
\* the open has failed, the other allocates from an arena it has just rewound.
StartEnroll ==
  /\ CanStart("enroll")
  /\ enrollCount' = 0 /\ stored' = 0
  /\ StartCapture
  /\ outcome' = "none"
  /\ parked' = FALSE
  /\ IF needsReinit THEN pc' = "poll" /\ stop' = FALSE
                    ELSE pc' = "frame" /\ UNCHANGED stop
  /\ UNCHANGED <<sleep, suspending, needsReinit>>

\* egis0576_verify / egis0576_identify with prints that decode: CAP_LOAD
\* hands them to load_thread.
StartMatch(a) ==
  /\ a # "enroll"
  /\ CanStart(a)
  /\ StartCapture
  /\ outcome' = "none"
  /\ pc' = "loading" /\ parked' = FALSE
  /\ UNCHANGED <<sleep, suspending, needsReinit, stop, enrollCount, stored>>

\* No machine: a print without a template (verify), more prints than the
\* gallery holds (identify) or, for identify, nothing to compare with.
StartWithoutCapture(a) ==
  /\ CanStart(a)
  /\ \/ a # "enroll" /\ outcome' = "invalid"
     \/ a = "identify" /\ outcome' = "nomatch"
  /\ UNCHANGED <<sleep, machine, data, seen>>

\* libfprint returns the result from an idle, and the device is free again.
ActionReturns ==
  /\ action # "none" /\ pc = "none"
  /\ action' = "none" /\ cancelled' = FALSE /\ cancelDue' = FALSE
  /\ UNCHANGED <<sleep, removed, outcome, machine, data, wedged, seen>>

-----------------------------------------------------------------------------
(* The gallery load.                                                        *)

LoadRun ==
  /\ pc = "loading"
  /\ pc' = "loaded"
  /\ \E r \in {0, -1} : job' = [NoJob EXCEPT !.ret = r]
  /\ UNCHANGED <<lib, parked, suspending, needsReinit, stop, frameRetried,
                 press, frame, enrollCount, baseline, stored, wedged, seen>>

\* load_done. The task returns G_IO_ERROR_CANCELLED whenever the cancellable
\* is set by now, whatever the thread did.
LoadDone ==
  /\ pc = "loaded"
  /\ job' = NoJob
  /\ \/ /\ cancelled \/ job.ret # 0
        /\ Ended(IF cancelled THEN "cancelled" ELSE "invalid", sleep)
        /\ UNCHANGED <<needsReinit, stop, press>>
     \/ ~cancelled /\ job.ret = 0 /\ LoopHead(needsReinit, sleep)
  /\ UNCHANGED <<action, cancelled, cancelDue, removed, frameRetried, frame,
                 enrollCount, baseline, stored, wedged, seen>>

-----------------------------------------------------------------------------
(* The bring-up machine of egis0576_proto.c, as the capture sees it.        *)

notInit == <<action, cancelled, cancelDue, removed, frameRetried, frame,
             enrollCount, baseline, job, stored, seen>>

StopAsked == stop \/ cancelled      \* egis_check_cancelled

\* (slip) A transport error is reported as it is, cancel or not.
InitFailedUnconverted(stopped) ==
  /\ UNCHANGED <<needsReinit, stop>>
  /\ \/ stopped /\ ~cancelled /\ Park
     \/ /\ ~(stopped /\ ~cancelled /\ suspending)
        /\ Ended(IF stopped THEN "cancelled" ELSE "error", sleep)
        /\ UNCHANGED press

\* reinit_done with an error: G_IO_ERROR_CANCELLED iff @stopped.
InitFailed(stopped) ==
  /\ UNCHANGED <<needsReinit, stop>>
  /\ \/ stopped /\ ~cancelled /\ Park
     \/ /\ ~(stopped /\ ~cancelled /\ suspending)
        /\ Ended(IF stopped \/ cancelled THEN "cancelled" ELSE "error", sleep)
        /\ UNCHANGED press

\* The sensor reports ready; INIT_REPLAY enters the critical section.
PollReady ==
  /\ pc = "poll" /\ ~removed /\ ~StopAsked
  /\ Continue("replay", sleep)
  /\ UNCHANGED <<needsReinit, stop, press, wedged, notInit>>

\* INIT_READY, INIT_NOT_READY or INIT_REPLAY honours a cancel or a stop.
PollStopped ==
  /\ pc = "poll" /\ StopAsked
  /\ InitFailed(TRUE)
  /\ UNCHANGED <<wedged, notInit>>

\* A register read the sensor does not accept, or the poll's budget is spent.
PollFailed ==
  /\ pc = "poll"
  /\ InitFailed(FALSE)
  /\ UNCHANGED <<wedged, notInit>>

\* The last record went out: the critical section is left, and INIT_READ_DC_C
\* honours a cancel or a stop before the read.
ReplayDone ==
  /\ pc = "replay" /\ ~removed
  /\ wedged' = FALSE
  /\ \/ StopAsked /\ InitFailed(TRUE)
     \/ /\ ~StopAsked
        /\ Continue("post", sleep)
        /\ UNCHANGED <<needsReinit, stop, press>>
  /\ UNCHANGED notInit

\* A reply that never came, with a cancel or a stop pending.
ReplaySilent ==
  /\ pc = "replay" /\ StopAsked
  /\ InitFailed(TRUE)
  /\ UNCHANGED <<wedged, notInit>>

\* A record the sensor does not accept.
ReplayFailed ==
  /\ pc = "replay"
  /\ InitFailed(FALSE)
  /\ UNCHANGED <<wedged, notInit>>

\* (slip) A finished bring-up clears the flag of a suspend that came later.
InitDoneClears ==
  /\ pc = "post" /\ ~removed
  /\ FrameState(FALSE, sleep)
  /\ UNCHANGED <<wedged, notInit>>

\* reinit_done without an error.
InitDone ==
  /\ pc = "post" /\ ~removed
  /\ FrameState(suspending /\ needsReinit, sleep)
  /\ UNCHANGED <<wedged, notInit>>

PostFailed ==
  /\ pc = "post"
  /\ InitFailed(FALSE)
  /\ UNCHANGED <<wedged, notInit>>

-----------------------------------------------------------------------------
(* A frame: frame_done, CAP_RECOVER, CAP_PROCESS and capture_process.       *)

\* capture_process ends the machine, or leaves it waiting for @next.
Goes(next) == Continue(next, sleep)

BaselineFeed(f) ==
  IF f.var < BaselineMaxVar /\ ~baseline.have
  THEN baseline' = [have |-> baseline.count + 1 >= BaselineFrames,
                    count |-> baseline.count + 1]
  ELSE UNCHANGED baseline

ProcessEnroll(f) ==
  \/ /\ press.phase = "await_on" /\ FingerOn(f)
     /\ press' = [press EXCEPT !.finger = TRUE]
     /\ Goes("matching")
  \/ /\ press.phase = "await_on" /\ FingerOff(f) /\ press.settle > 0
     /\ press' = [press EXCEPT !.settle = 0, !.finger = FALSE]
     /\ Goes("timer")
  \/ /\ press.phase = "await_on" /\ ~FingerOn(f)
     /\ ~(FingerOff(f) /\ press.settle > 0)
     /\ UNCHANGED press
     /\ Goes("timer")
  \/ /\ press.phase = "await_off" /\ FingerOff(f)
     /\ press' = [press EXCEPT !.phase = "await_on", !.finger = FALSE]
     /\ Goes("timer")
  \/ /\ press.phase = "await_off" /\ ~FingerOff(f)
     /\ UNCHANGED press
     /\ Goes("timer")

\* The finger lifted without a confirmed match: one verdict for the press.
Lifted(f) == FingerOff(f) /\ press.saw

ProcessMatch(f) ==
  \/ /\ FingerOn(f)
     /\ press' = [press EXCEPT !.saw = TRUE, !.finger = TRUE]
     /\ Goes("matching")
  \/ /\ Lifted(f)
     /\ press' = [press EXCEPT !.finger = FALSE]
     /\ Ended(IF press.best < 0 THEN "retry" ELSE "nomatch", sleep)
  \/ /\ ~FingerOn(f) /\ ~Lifted(f)
     /\ UNCHANGED press
     /\ Goes("timer")

Process(f) ==
  /\ BaselineFeed(f)
  /\ seen' = [seen EXCEPT !.fresh = @ \/ FingerOn(f),
                          !.stores = IF FingerOff(f) THEN 0 ELSE @]
  /\ IF action = "enroll" THEN ProcessEnroll(f) ELSE ProcessMatch(f)

\* The frame is complete: frame_done, then CAP_PROCESS at once.
FrameArrives(f) ==
  /\ pc = "frame" /\ ~removed
  /\ frame' = f
  /\ frameRetried' = FALSE
  /\ \/ /\ cancelled /\ Ended("cancelled", sleep)
        /\ UNCHANGED <<press, baseline, seen>>
     \/ ~cancelled /\ Park /\ UNCHANGED <<baseline, seen>>
     \/ ~cancelled /\ ~suspending /\ Process(f)
  /\ UNCHANGED <<action, cancelled, cancelDue, removed, needsReinit, stop,
                 enrollCount, job, stored, wedged>>

\* (slip) The retry of a failed frame is not remembered.
FrameFailsForgotten ==
  /\ pc = "frame"
  /\ \/ /\ cancelled
        /\ Ended("cancelled", sleep)
        /\ UNCHANGED <<needsReinit, stop, press>>
     \/ /\ ~cancelled
        /\ \/ Park /\ UNCHANGED <<needsReinit, stop>>
           \/ ~suspending /\ ReinitStart(sleep) /\ UNCHANGED press
  /\ UNCHANGED <<frameRetried, action, cancelled, cancelDue, removed, frame,
                 enrollCount, baseline, job, stored, wedged, seen>>

\* (slip) A failed frame is tried again at the loop head, without end.
FrameFailsPolls ==
  /\ pc = "frame"
  /\ IF cancelled THEN Ended("cancelled", sleep) ELSE Continue("timer", sleep)
  /\ UNCHANGED <<frameRetried, needsReinit, stop, press, action, cancelled,
                 cancelDue, removed, frame, enrollCount, baseline, job,
                 stored, wedged, seen>>

\* The frame chain failed: give up, or CAP_RECOVER once.
FrameFails ==
  /\ pc = "frame"
  /\ \/ /\ cancelled \/ frameRetried
        /\ Ended(IF cancelled THEN "cancelled" ELSE "error", sleep)
        /\ UNCHANGED <<frameRetried, needsReinit, stop, press>>
     \/ /\ ~cancelled /\ ~frameRetried
        /\ frameRetried' = TRUE
        /\ \/ Park /\ UNCHANGED <<needsReinit, stop>>
           \/ ~suspending /\ ReinitStart(sleep) /\ UNCHANGED press
  /\ UNCHANGED <<action, cancelled, cancelDue, removed, frame, enrollCount,
                 baseline, job, stored, wedged, seen>>

-----------------------------------------------------------------------------
(* The matcher task.                                                        *)

\* (slip) A byte-identical re-serve of the candidate confirms it.
ConfirmsAny(score, idx) ==
  /\ score >= Threshold
  /\ \E c \in press.cand : c.idx = idx

\* check_raw and the index test of match_thread and match_result. Nothing
\* writes the candidate or the frame while the task runs, so its snapshot of
\* them is their value.
Confirms(score, idx) ==
  /\ score >= Threshold
  /\ \E c \in press.cand : c.raw # frame /\ c.idx = idx

\* match_thread: a cancel seen before the engine is called skips it.
MatchSkipped ==
  /\ cancelled
  /\ UNCHANGED <<job, stored, seen>>

\* egis_enroll_add: refused with -2, 4 or 5, or stored.
MatchEnroll ==
  /\ action = "enroll"
  /\ \/ /\ \E r \in {-2, 4, 5} : job' = [NoJob EXCEPT !.ret = r]
        /\ UNCHANGED <<stored, seen>>
     \/ /\ stored < Stages
        /\ stored' = stored + 1
        /\ job' = [NoJob EXCEPT !.ret = IF stored + 1 >= Stages THEN 2 ELSE 1]
        /\ seen' = [seen EXCEPT !.stores = @ + 1]

\* egis_verify / egis_identify, then egis_verify_raw_ok if a candidate stands.
MatchScore ==
  /\ action # "enroll"
  /\ \E score \in Scores :
       \E idx \in IF action = "verify" THEN {0}
                  ELSE IF score >= Threshold THEN Slots ELSE {-1} :
         \E ok \in IF Confirms(score, idx) THEN BOOLEAN ELSE {FALSE} :
           job' = [NoJob EXCEPT !.score = score, !.idx = idx, !.rawOk = ok]
  /\ UNCHANGED <<stored, seen>>

MatchRun ==
  /\ pc = "matching"
  /\ pc' = "matched"
  /\ MatchSkipped \/ MatchEnroll \/ MatchScore
  /\ UNCHANGED <<lib, parked, suspending, needsReinit, stop, frameRetried,
                 press, frame, enrollCount, baseline, wedged>>

\* Partial contact: the same press gets another frame.
Settling == job.ret = -2 /\ press.settle < SettleFrames

Accepted == job.ret \in {1, 2}

\* (slip) The next frame of the same touch is taken for a new press.
AnsweredSameTouch == [press EXCEPT !.settle = 0]

\* The press has been answered; the finger has to lift before the next.
Answered == [press EXCEPT !.settle = 0, !.phase = "await_off"]

\* (slip) The enrolment ends a stage early.
LastStageEarly == enrollCount + 2 >= Stages

LastStage == enrollCount + 1 >= Stages

\* enroll_result; the last stage completes the action with the template
\* egis_enroll_finish builds from the stored frames.
EnrollResult ==
  \/ /\ Settling
     /\ press' = [press EXCEPT !.settle = @ + 1]
     /\ Goes("timer")
     /\ UNCHANGED <<enrollCount, stored>>
  \/ /\ ~Settling
     /\ press' = Answered
     /\ enrollCount' = IF Accepted THEN enrollCount + 1 ELSE enrollCount
     /\ \/ /\ Accepted /\ LastStage
           /\ Ended(IF stored > 0 THEN "enrolled" ELSE "error", sleep)
           /\ stored' = 0
        \/ ~(Accepted /\ LastStage) /\ Goes("timer") /\ UNCHANGED stored

\* match_result: a frame over the threshold becomes the candidate unless it
\* confirms one; a confirmation the raw frame does not bear out, and a frame
\* under the threshold, leave none.
MatchResult ==
  LET hit == job.score >= Threshold /\ job.idx >= 0
      confirms == Confirms(job.score, job.idx)
      best == IF job.score > press.best THEN job.score ELSE press.best
  IN
  /\ UNCHANGED <<enrollCount, stored>>
  /\ \/ /\ confirms /\ job.rawOk
        /\ press' = [press EXCEPT !.best = best]
        /\ Ended("match", sleep)
     \/ /\ ~(confirms /\ job.rawOk)
        /\ press' = [press EXCEPT !.best = best,
                       !.cand = IF hit /\ ~confirms
                                THEN {[raw |-> frame, idx |-> job.idx]} ELSE {}]
        /\ Goes("timer")

\* The scored frame, if it was over the threshold: what the next one is
\* compared with by the properties.
Scored == IF job.score >= Threshold /\ job.idx >= 0
          THEN {[raw |-> frame, idx |-> job.idx]} ELSE {}

MatchDone ==
  /\ pc = "matched"
  /\ job' = NoJob
  /\ seen' = [seen EXCEPT !.prev = Scored]
  /\ \/ /\ cancelled /\ Ended("cancelled", sleep)
        /\ UNCHANGED <<press, enrollCount, stored>>
     \/ ~cancelled /\ action = "enroll" /\ EnrollResult
     \/ ~cancelled /\ action # "enroll" /\ MatchResult
  /\ UNCHANGED <<action, cancelled, cancelDue, removed, needsReinit, stop,
                 frameRetried, frame, baseline, wedged>>

TimerFires ==
  /\ pc = "timer"
  /\ LoopHead(needsReinit, sleep)
  /\ UNCHANGED <<action, cancelled, cancelDue, removed, frameRetried, frame,
                 enrollCount, baseline, job, stored, wedged, seen>>

-----------------------------------------------------------------------------
(* Cancel, suspend, resume, removal.                                        *)

\* The client cancels: the cancellable is set at once, the vfunc is called
\* from an idle, after the critical section if there is one.
CancelRequest ==
  /\ action # "none" /\ ~cancelled
  /\ cancelled' = TRUE /\ cancelDue' = TRUE
  /\ UNCHANGED <<action, sleep, removed, outcome, machine, data, wedged, seen>>

\* (slip) A parked machine is left to its next boundary, which never comes.
DeliverCancelToRunning ==
  /\ cancelDue /\ pc # "replay"
  /\ cancelDue' = FALSE
  /\ UNCHANGED <<action, cancelled, sleep, removed, outcome, machine, data,
                 wedged, seen>>

\* egis0576_cancel
DeliverCancel ==
  /\ cancelDue /\ pc # "replay"
  /\ cancelDue' = FALSE
  /\ IF parked THEN LoopHead(needsReinit, sleep)
               ELSE UNCHANGED <<sleep, outcome, pc, parked, suspending,
                                needsReinit, stop, press>>
  /\ UNCHANGED <<action, cancelled, removed, frameRetried, frame,
                 enrollCount, baseline, job, stored, wedged, seen>>

\* (slip) The suspend is answered while the capture still runs.
SuspendVfuncAtOnce ==
  /\ needsReinit' = TRUE
  /\ sleep' = "asleep"
  /\ IF pc = "none" THEN UNCHANGED <<suspending, stop>>
                    ELSE suspending' = TRUE /\ stop' = TRUE
  /\ UNCHANGED <<action, cancelled, cancelDue, removed, outcome, pc, parked,
                 frameRetried, data, wedged, seen>>

\* egis0576_suspend
SuspendVfunc ==
  /\ needsReinit' = TRUE
  /\ IF pc = "none"
     THEN sleep' = "asleep" /\ UNCHANGED <<suspending, stop>>
     ELSE sleep' = "pending" /\ suspending' = TRUE /\ stop' = TRUE
  /\ UNCHANGED <<action, cancelled, cancelDue, removed, outcome, pc, parked,
                 frameRetried, data, wedged, seen>>

\* fp_device_suspend: no vfunc without an action (idle), a deferred one
\* inside the critical section (queued), else the vfunc now.
SuspendRequest ==
  /\ sleep = "awake" /\ ~removed
  /\ \/ /\ action = "none"
        /\ sleep' = "idle"
        /\ UNCHANGED <<action, cancelled, cancelDue, removed, outcome,
                       machine, data, wedged, seen>>
     \/ /\ action # "none" /\ pc = "replay"
        /\ sleep' = "queued"
        /\ UNCHANGED <<action, cancelled, cancelDue, removed, outcome,
                       machine, data, wedged, seen>>
     \/ action # "none" /\ pc # "replay" /\ SuspendVfunc

\* The flush after fpi_device_critical_leave().
DeliverSuspend ==
  /\ sleep = "queued" /\ pc # "replay"
  /\ SuspendVfunc

\* fp_device_resume, and egis0576_resume if an action is current.
Resume ==
  /\ sleep \in {"asleep", "idle"} /\ ~removed
  /\ wedged' = (wedged \/ sleep = "asleep")
  /\ seen' = [seen EXCEPT !.prev = {}, !.fresh = FALSE]
  /\ \/ /\ action # "none" /\ parked
        /\ LoopHead(TRUE, "awake")
     \/ /\ ~(action # "none" /\ parked)
        /\ sleep' = "awake"
        /\ needsReinit' = (needsReinit \/ action # "none")
        /\ UNCHANGED <<outcome, pc, parked, suspending, stop, press>>
  /\ UNCHANGED <<action, cancelled, cancelDue, removed, frameRetried, frame,
                 enrollCount, baseline, job, stored>>

\* The device leaves the bus: egis0576_removed on notify::removed.
Remove ==
  /\ Removable /\ ~removed
  /\ removed' = TRUE
  /\ IF parked THEN Ended("removed", sleep)
               ELSE UNCHANGED <<sleep, outcome, pc, parked, suspending>>
  /\ UNCHANGED <<action, cancelled, cancelDue, needsReinit, stop,
                 frameRetried, data, wedged, seen>>

-----------------------------------------------------------------------------
Client == \/ StartEnroll
          \/ \E a \in Actions : StartMatch(a) \/ StartWithoutCapture(a)
          \/ CancelRequest

System == SuspendRequest \/ Resume \/ Remove

\* The callbacks and threads of a running machine: every transfer has a
\* timeout, every thread returns, every timer fires.
Machine == \/ LoadRun \/ LoadDone
           \/ PollReady \/ PollStopped \/ PollFailed
           \/ ReplayDone \/ ReplaySilent \/ ReplayFailed
           \/ InitDone \/ PostFailed
           \/ \E f \in Frames : FrameArrives(f)
           \/ FrameFails
           \/ MatchRun \/ MatchDone
           \/ TimerFires

Idles == ActionReturns \/ DeliverCancel \/ DeliverSuspend

Next == Client \/ System \/ Machine \/ Idles

Spec == Init /\ [][Next]_vars

Fairness == /\ WF_vars(Machine)
            /\ WF_vars(ActionReturns)
            /\ SF_vars(DeliverCancel)
            /\ SF_vars(DeliverSuspend)

FairSpec == Spec /\ Fairness
=============================================================================
