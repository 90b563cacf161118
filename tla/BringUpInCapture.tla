--------------------------- MODULE BringUpInCapture ---------------------------
(***************************************************************************)
(* The bring-up of egis0576_proto.c inside the capture of egis0576.c:      *)
(* Capture holds it as three waits, poll, replay and post, SensorInit has  *)
(* every completion of it. Here each step of SensorInit is shown to be one *)
(* of Capture's, or none of its business, up to and with the step that     *)
(* ends the bring-up and lets reinit_done go on, park or end the action.   *)
(***************************************************************************)
EXTENDS SensorInit

Wait == CASE pc \in {"drain", "ready_out", "ready_in", "gap", "reset"} -> "poll"
          [] Replaying -> "replay"
          [] OTHER -> "post"

Told == suspend = "told"

\* reinit_done: what the capture does with the bring-up's result.
Parks == ~cancelled /\ Told /\ (pc = "completed" \/ error = "cancelled")
GoesOn == ~cancelled /\ ~Told /\ pc = "completed"

CapturePc == IF Running THEN Wait
             ELSE IF Parks THEN "held" ELSE IF GoesOn THEN "frame" ELSE "none"

CaptureOutcome == IF Running \/ Parks \/ GoesOn THEN "none"
                  ELSE IF cancelled \/ error = "cancelled" THEN "cancelled"
                  ELSE "error"

CaptureSleep == CASE suspend = "none" -> "awake"
                  [] suspend = "queued" -> "queued"
                  [] Told -> IF Running THEN "pending" ELSE "asleep"

Parked == ~Running /\ Parks
Suspending == Running /\ Told
NeedsReinit == pc = "completed" => Told
Wedged == record < RecordCount

\* Nothing the capture keeps for itself is touched; the press was forgotten
\* when it was left.
Press == [phase |-> "await_on", finger |-> FALSE, settle |-> 0,
          saw |-> FALSE, best |-> -1, cand |-> {}]

C == INSTANCE Capture WITH
  Actions <- {"verify"}, Frames <- {[var |-> 0]}, Slots <- {0},
  Scores <- {-1}, Threshold <- 0, Stages <- 1, SettleFrames <- 0,
  BaselineFrames <- 1, Removable <- FALSE,
  action <- "verify", cancelled <- cancelled, cancelDue <- cancelled,
  sleep <- CaptureSleep, removed <- FALSE, outcome <- CaptureOutcome,
  pc <- CapturePc, parked <- Parked, suspending <- Suspending,
  needsReinit <- NeedsReinit, stop <- stop, frameRetried <- FALSE,
  press <- Press, frame <- [var |-> 0], enrollCount <- 0,
  baseline <- [have |-> FALSE, count |-> 0],
  job <- [ret |-> 0, score |-> -1, idx |-> -1, rawOk |-> FALSE],
  stored <- 0, wedged <- Wedged,
  seen <- [prev |-> {}, fresh |-> FALSE, stores |-> 0]

\* What Capture assumes of the bring-up is what the bring-up does: however its
\* completions, a cancel and a suspend fall, a capture's bring-up takes only
\* steps Capture has, and reinit_done finds in needs_reinit, stop and the
\* suspend what Capture finds there.
BringUpIsCaptures ==
  [][~resetIfStuck /\ Running => C!Next \/ UNCHANGED C!vars]_vars
=============================================================================
