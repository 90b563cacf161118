----------------------------- MODULE CaptureProps -----------------------------
(***************************************************************************)
(* What makes the capture of egis0576.c correct: the properties the runs   *)
(* check, and the ones CaptureProofs proves for every value of the         *)
(* constants.                                                              *)
(***************************************************************************)
EXTENDS Capture

\* The set the flags, the machine's wait and libfprint's state range over.
LifecycleTypeOK ==
  /\ action \in Actions \cup {"none"}
  /\ cancelled \in BOOLEAN /\ cancelDue \in BOOLEAN
  /\ sleep \in {"awake", "queued", "pending", "asleep", "idle"}
  /\ removed \in BOOLEAN
  /\ outcome \in Outcomes
  /\ pc \in Pcs
  /\ parked \in BOOLEAN /\ suspending \in BOOLEAN /\ needsReinit \in BOOLEAN
  /\ stop \in BOOLEAN /\ frameRetried \in BOOLEAN
  /\ wedged \in BOOLEAN

Hit == [raw : Frames, idx : Slots]

\* Every variable has its type: the flags, the press, the matcher task and
\* the enrol session stay in the ranges egis0576.c's fields are meant for.
TypeOK ==
  /\ LifecycleTypeOK
  /\ press.phase \in {"await_on", "await_off"}
  /\ press.finger \in BOOLEAN /\ press.saw \in BOOLEAN
  /\ press.settle \in 0 .. SettleFrames
  /\ press.best \in Scores \cup {-1}
  /\ press.cand \subseteq Hit
  /\ frame \in Frames
  /\ enrollCount \in 0 .. Stages /\ stored \in 0 .. Stages
  /\ baseline.have \in BOOLEAN /\ baseline.count \in 0 .. BaselineFrames
  /\ job.ret \in {0, -1, -2, 1, 2, 4, 5}
  /\ job.score \in Scores \cup {-1}
  /\ job.idx \in Slots \cup {-1}
  /\ job.rawOk \in BOOLEAN
  /\ seen.prev \subseteq Hit
  /\ seen.fresh \in BOOLEAN /\ seen.stores \in 0 .. Stages

-----------------------------------------------------------------------------
(* Suspend and resume                                                       *)

\* The suspend is answered only with the bus quiet: once the system may
\* sleep, no transfer is in flight, no jump is scheduled and no matcher
\* thread runs, and none starts before the resume
\* (capture_park_if_suspending, capture_done, egis0576_suspend).
QuietWhileAsleep == sleep \in {"asleep", "idle"} => Quiet

\* A machine that waits for nothing is parked for a suspend that was
\* answered, so that resume, cancel or removal can still reach it; and a
\* parked machine that was cancelled has its cancel vfunc still to come.
HeldIsReachable ==
  pc = "held" => /\ parked
                 /\ sleep = "asleep"
                 /\ cancelled => cancelDue

\* The suspend vfunc's completion is owed exactly while suspending is set:
\* it is neither answered twice nor dropped, whichever of the park and the
\* end of the action comes first.
SuspendOwedIffSuspending == suspending <=> sleep = "pending"

\* After a sleep the driver was told of, no frame is asked for, and none
\* reaches the matcher, before a whole bring-up replay has run since: in this
\* action or, if it ended asleep, in the next one (needs_reinit).
FrameOnlyAfterBringUp ==
  pc \in {"frame", "matching", "matched", "timer"} => ~wedged

\* The replay runs only with no stop pending: libfprint defers the suspend
\* vfunc for it, and a stop left over from an earlier suspend is cleared when
\* a bring-up starts (egis_dev_init_ssm).
ReplayUndisturbed == pc = "replay" => ~stop /\ ~suspending

\* A stop only ever serves the suspend it was set for: a bring-up that finds
\* it set is one a pending suspend wants stopped.
StopMeansSuspending ==
  pc \in {"poll", "replay", "post"} /\ stop => suspending

-----------------------------------------------------------------------------
(* Cancel                                                                   *)

\* A machine ends as cancelled exactly when the action was cancelled,
\* whatever the transport reported (capture_fail); only the removal of a
\* parked device takes precedence.
CancelledIffCancelled ==
  [][pc # "none" /\ pc' = "none" =>
       outcome' = "removed" \/ (outcome' = "cancelled" <=> cancelled)]_vars

-----------------------------------------------------------------------------
(* Verify and identify                                                      *)

\* A match is reported only on the second of two consecutive scored frames
\* over the threshold, for the same print, not byte-identical, both of this
\* action and since the last resume, and borne out by the raw frame.
MatchNeedsTwoFrames ==
  [][outcome' = "match" /\ outcome # "match" =>
       /\ job.rawOk
       /\ \E p \in seen.prev : p.idx = job.idx /\ p.raw # frame]_vars

\* A frame gets a verdict (no match, retry, or the enrol retry of a press
\* that lifted too early) only for a finger seen since the last resume: a
\* press made before the sleep is forgotten by the park
\* (capture_press_reset).
NoVerdictAcrossSleep ==
  [][pc = "frame" /\ \/ outcome' # outcome /\ outcome' \in {"nomatch", "retry"}
                     \/ press.settle > 0 /\ press'.settle = 0 /\ pc' = "timer"
       => seen.fresh]_vars

-----------------------------------------------------------------------------
(* Enrolment                                                                *)

\* The driver's stage count is the number of frames in the engine's session,
\* but for the one frame of a task whose result is still queued.
EnrollCountMatchesEngine ==
  action = "enroll" /\ pc \notin {"none", "matched"} => enrollCount = stored

\* A touch contributes at most one frame to the template: after a stored
\* frame nothing is stored before a frame without a finger was processed,
\* whatever recoveries and sleeps come in between (PH_AWAIT_OFF).
OneFramePerTouch == seen.stores <= 1

\* An enrolment that succeeds has all its stages in the template.
TemplateComplete ==
  [][outcome' = "enrolled" /\ outcome # "enrolled" =>
       stored = Stages /\ enrollCount' = Stages]_vars

-----------------------------------------------------------------------------
(* Liveness, under FairSpec                                                 *)

\* A cancelled action ends, wherever its machine is, parked included.
CancelEnds == (cancelled /\ pc # "none") ~> pc = "none"

\* A bring-up or a frame always leads on: to a processed frame, to a park, or
\* to the end of the action. A sensor that never delivers a frame cannot
\* keep the machine in bring-ups for ever (frame_retried).
BringUpLeadsOn ==
  pc \in {"poll", "frame"} ~> pc \in {"matching", "timer", "held", "none"}

\* An action whose device is unplugged while awake ends by itself.
AwakeRemovalEnds == (removed /\ sleep = "awake") ~> pc = "none"

TransferInFlight == pc \in {"poll", "replay", "post", "frame"}

\* An action whose device is unplugged with a transfer in flight ends by
\* itself: "A capture with a transfer in flight fails on its own; one parked
\* for suspend ... is ended here" (the comment of egis0576_removed). It does
\* not if a suspend is pending at that moment.
RemovalEnds == (removed /\ TransferInFlight) ~> pc = "none"

-----------------------------------------------------------------------------
(* The contract Capture implements.                                         *)

Phase == IF action = "none" THEN "free"
         ELSE IF pc = "none" THEN "done" ELSE "running"

Bus == IF Quiet THEN "quiet" ELSE "busy"

Power == IF sleep = "awake" THEN "awake"
         ELSE IF sleep \in {"queued", "pending"} THEN "asked" ELSE "asleep"

Contract == INSTANCE SuspendContract
              WITH act <- Phase, bus <- Bus, power <- Power

\* The capture is a driver as libfprint's suspend contract asks for: every
\* step of it is a step of SuspendContract or invisible there.
KeepsContract == Contract!Spec

\* With the main loop's fairness it also grants every sleep asked for.
KeepsContractFairly == Contract!FairSpec
=============================================================================
