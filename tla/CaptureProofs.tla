----------------------------- MODULE CaptureProofs -----------------------------
(***************************************************************************)
(* Proofs, for every value of the constants of Capture, of the safety      *)
(* properties of CaptureProps. Three inductive invariants carry them:      *)
(* LifecycleInv relates the flags of egis0576.c to libfprint's suspend     *)
(* state and to what the machine waits for; PressInv says what the press   *)
(* remembers of the frames since the last resume; EnrolInv ties the stage  *)
(* count to the engine's session. Each is preserved with the help of the   *)
(* ones before it. With them the capture implements SuspendContract, and   *)
(* each of its steps is one of Sessions.                                   *)
(***************************************************************************)
EXTENDS CaptureInSessions, TLAPS

\* A machine is parked exactly while it waits for nothing, and only once the
\* suspend it parked for was answered.
ParkedIffHeld ==
  /\ parked <=> pc = "held"
  /\ parked => sleep = "asleep"
  /\ parked /\ cancelled => cancelDue

\* A pending suspend has a running machine to park, and has asked it to stop.
SuspendingIsHeard ==
  suspending => pc \notin {"none", "held"} /\ stop /\ needsReinit

\* The bring-up machine sees the stop of a pending suspend and of no other.
StopIsCurrent ==
  /\ ReplayUndisturbed
  /\ pc \in {"poll", "post"} /\ stop => suspending

\* A sensor that slept is flagged for a bring-up until one has replayed.
SleptIsFlagged ==
  /\ sleep = "asleep" => needsReinit
  /\ wedged => /\ needsReinit
               /\ pc \in {"none", "held", "loading", "loaded", "poll", "replay"}

\* libfprint's side: no machine without an action, no vfunc without a cancel.
LibraryState ==
  /\ action = "none" => pc = "none"
  /\ cancelDue => cancelled
  /\ sleep = "idle" => action = "none"

LifecycleInv ==
  /\ LifecycleTypeOK
  /\ ParkedIffHeld
  /\ QuietWhileAsleep
  /\ SuspendOwedIffSuspending
  /\ SuspendingIsHeard
  /\ StopIsCurrent
  /\ SleptIsFlagged
  /\ LibraryState

Press == [phase : {"await_on", "await_off"}, finger : BOOLEAN,
          settle : 0 .. SettleFrames, saw : BOOLEAN,
          best : Scores \cup {-1}, cand : SUBSET Hit]

Jobs == [ret : {0, -1, -2, 1, 2, 4, 5}, score : Scores \cup {-1},
         idx : Slots \cup {-1}, rawOk : BOOLEAN]

\* The press, the matcher task and the accumulators keep their types.
DataTypeOK ==
  /\ press \in Press
  /\ frame \in Frames
  /\ job \in Jobs
  /\ baseline \in [have : BOOLEAN, count : 0 .. BaselineFrames]
  /\ ~baseline.have => baseline.count < BaselineFrames
  /\ seen \in [prev : SUBSET Hit, fresh : BOOLEAN, stores : Nat]

\* What the press remembers of this action it saw since the last resume: the
\* candidate is the frame scored last, and a press in progress was felt.
PressMemory ==
  /\ pc # "none" => /\ press.cand \subseteq seen.prev
                    /\ press.saw \/ press.settle > 0 => seen.fresh
                    /\ action = "enroll" => press.cand = {}
  /\ pc \in {"matching", "matched"} => seen.fresh
  /\ pc = "held" => press.cand = {} /\ ~press.saw /\ press.settle = 0

PressInv == DataTypeOK /\ PressMemory

\* While an enrolment runs the driver has counted the frames of the engine's
\* session, but for the one whose result is still queued, and has not all.
EnrolSession ==
  /\ enrollCount \in 0 .. Stages /\ stored \in 0 .. Stages
  /\ action = "enroll" /\ pc # "none" => enrollCount < Stages
  /\ action = "enroll" /\ pc \notin {"none", "matched"} => stored = enrollCount
  /\ action = "enroll" /\ pc = "matched" =>
       stored = enrollCount + (IF Accepted THEN 1 ELSE 0)

\* No result is left over from an earlier task.
JobIsCurrent == pc \notin {"loaded", "matched"} => job = NoJob

\* The touch that stored a frame is not matched again before it lifts.
Touch ==
  /\ seen.stores <= 1
  /\ action = "enroll" /\ pc # "none" =>
       /\ press.phase = "await_on" /\ pc # "matched" => seen.stores = 0
       /\ pc \in {"matching", "matched"} => press.phase = "await_on"
       /\ pc = "matched" => seen.stores = (IF Accepted THEN 1 ELSE 0)

EnrolInv == EnrolSession /\ JobIsCurrent /\ Touch

-----------------------------------------------------------------------------
(* The lifecycle invariant. The first lemmas say under what conditions each  *)
(* way a handler can leave the machine (Ended, Park, Continue) keeps it.     *)

LEMMA LifecycleInit == Init => LifecycleInv
  BY DEF Init, LifecycleInv, LifecycleTypeOK, ParkedIffHeld, QuietWhileAsleep,
         SuspendOwedIffSuspending, SuspendingIsHeard, StopIsCurrent,
         ReplayUndisturbed, SleptIsFlagged, LibraryState, Quiet, Pcs,
           Outcomes

\* What a handler of a running machine leaves of libfprint's state and keeps
\* flagged: @sl is the sleep state it works in.
Handles(sl) ==
  /\ sl = sleep \/ (sl = "awake" /\ ~suspending)
  /\ UNCHANGED <<action, cancelled, cancelDue>>
  /\ removed' \in BOOLEAN /\ frameRetried' \in BOOLEAN /\ stop' \in BOOLEAN
  /\ needsReinit' \in BOOLEAN /\ wedged' \in BOOLEAN
  /\ suspending \/ sl = "asleep" \/ wedged' => needsReinit'

LEMMA EndedKeeps ==
  ASSUME LifecycleInv, NEW result \in Outcomes, NEW sl,
         Handles(sl), Ended(result, sl)
  PROVE  LifecycleInv'
  <1> USE DEF LifecycleInv, Handles, Ended
  <1>1. LifecycleTypeOK'
    BY DEF LifecycleTypeOK, Pcs
  <1>2. ParkedIffHeld'
    BY DEF ParkedIffHeld
  <1>3. QuietWhileAsleep'
    BY DEF QuietWhileAsleep, Quiet
  <1>4. SuspendOwedIffSuspending'
    BY DEF SuspendOwedIffSuspending
  <1>5. SuspendingIsHeard' /\ StopIsCurrent'
    BY DEF SuspendingIsHeard, StopIsCurrent, ReplayUndisturbed
  <1>6. SleptIsFlagged'
    BY DEF SleptIsFlagged
  <1>7. LibraryState'
    BY DEF LibraryState
  <1>8. QED
    BY <1>1, <1>2, <1>3, <1>4, <1>5, <1>6, <1>7

LEMMA ParkKeeps ==
  ASSUME LifecycleInv, NEW sl, Handles(sl), ~cancelled, Park
  PROVE  LifecycleInv'
  <1> USE DEF LifecycleInv, Handles, Park
  <1>1. LifecycleTypeOK'
    BY DEF LifecycleTypeOK, Pcs
  <1>2. ParkedIffHeld'
    BY DEF ParkedIffHeld
  <1>3. QuietWhileAsleep'
    BY DEF QuietWhileAsleep, Quiet
  <1>4. SuspendOwedIffSuspending'
    BY DEF SuspendOwedIffSuspending
  <1>5. SuspendingIsHeard' /\ StopIsCurrent'
    BY DEF SuspendingIsHeard, StopIsCurrent, ReplayUndisturbed
  <1>6. SleptIsFlagged'
    BY DEF SleptIsFlagged
  <1>7. LibraryState'
    BY DEF LibraryState, SuspendingIsHeard
  <1>8. QED
    BY <1>1, <1>2, <1>3, <1>4, <1>5, <1>6, <1>7

LEMMA ContinueKeeps ==
  ASSUME LifecycleInv, NEW next \in Pcs \ {"none", "held"}, NEW sl,
         Handles(sl), pc # "none", Continue(next, sl),
         sl \notin {"asleep", "idle"},
         suspending => stop',
         next = "replay" => ~stop' /\ ~suspending,
         next \in {"poll", "post"} /\ stop' => suspending,
         wedged' => next \in {"loaded", "poll", "replay"}
  PROVE  LifecycleInv'
  <1> USE DEF LifecycleInv, Handles, Continue
  <1>1. LifecycleTypeOK'
    BY DEF LifecycleTypeOK
  <1>2. ParkedIffHeld'
    BY DEF ParkedIffHeld
  <1>3. QuietWhileAsleep'
    BY DEF QuietWhileAsleep
  <1>4. SuspendOwedIffSuspending'
    BY DEF SuspendOwedIffSuspending
  <1>5. SuspendingIsHeard' /\ StopIsCurrent'
    BY DEF SuspendingIsHeard, StopIsCurrent, ReplayUndisturbed
  <1>6. SleptIsFlagged'
    BY DEF SleptIsFlagged
  <1>7. LibraryState'
    BY DEF LibraryState
  <1>8. QED
    BY <1>1, <1>2, <1>3, <1>4, <1>5, <1>6, <1>7

LEMMA ReinitStartKeeps ==
  ASSUME LifecycleInv, NEW sl, Handles(sl), pc # "none", ~suspending,
         sl \notin {"asleep", "idle"}, ReinitStart(sl)
  PROVE  LifecycleInv'
  <1>1. Continue("poll", sl) /\ ~stop'
    BY DEF ReinitStart
  <1>2. "poll" \in Pcs \ {"none", "held"}
    BY DEF Pcs
  <1>3. QED
    BY <1>1, <1>2, ContinueKeeps

LEMMA FrameStateKeeps ==
  ASSUME LifecycleInv, NEW flag, NEW sl, Handles(sl), pc # "none",
         sl \notin {"asleep", "idle"}, ~wedged', FrameState(flag, sl)
  PROVE  LifecycleInv'
  <1>1. CASE cancelled /\ Ended("cancelled", sl)
    <2>1. "cancelled" \in Outcomes
      BY DEF Outcomes
    <2>2. QED
      BY <1>1, <2>1, EndedKeeps
  <1>2. CASE ~cancelled /\ Park
    BY <1>2, ParkKeeps
  <1>3. CASE ~suspending /\ Continue("frame", sl)
    <2>1. "frame" \in Pcs \ {"none", "held"}
      BY DEF Pcs
    <2>2. QED
      BY <1>3, <2>1, ContinueKeeps
  <1>4. QED
    BY <1>1, <1>2, <1>3 DEF FrameState

LEMMA LoopHeadKeeps ==
  ASSUME LifecycleInv, NEW flag, NEW sl, Handles(sl), pc # "none",
         sl \notin {"asleep", "idle"}, wedged' => needsReinit',
         LoopHead(flag, sl)
  PROVE  LifecycleInv'
  <1>1. CASE ~flag /\ FrameState(flag, sl)
    <2>1. ~wedged'
      BY <1>1 DEF FrameState
    <2>2. QED
      BY <1>1, <2>1, FrameStateKeeps
  <1>2. CASE cancelled /\ Ended("cancelled", sl)
    <2>1. "cancelled" \in Outcomes
      BY DEF Outcomes
    <2>2. QED
      BY <1>2, <2>1, EndedKeeps
  <1>3. CASE ~cancelled /\ Park
    BY <1>3, ParkKeeps
  <1>4. CASE ~suspending /\ ReinitStart(sl)
    BY <1>4, ReinitStartKeeps
  <1>5. QED
    BY <1>1, <1>2, <1>3, <1>4 DEF LoopHead

LEMMA InitFailedKeeps ==
  ASSUME LifecycleInv, NEW stopped \in BOOLEAN, Handles(sleep), pc # "none",
         InitFailed(stopped)
  PROVE  LifecycleInv'
  <1>1. CASE ~cancelled /\ Park
    BY <1>1, ParkKeeps
  <1>2. ASSUME NEW r \in Outcomes, Ended(r, sleep) PROVE LifecycleInv'
    BY <1>2, EndedKeeps
  <1>3. {"cancelled", "error"} \subseteq Outcomes
    BY DEF Outcomes
  <1>4. QED
    BY <1>1, <1>2, <1>3 DEF InitFailed

LEMMA SuspendVfuncKeeps ==
  ASSUME LifecycleInv, sleep \in {"awake", "queued"}, pc # "replay",
         SuspendVfunc
  PROVE  LifecycleInv'
  <1> USE DEF LifecycleInv, SuspendVfunc, data
  <1>1. ~parked /\ pc # "held" /\ ~suspending
    BY DEF ParkedIffHeld, SuspendOwedIffSuspending
  <1>2. LifecycleTypeOK'
    BY DEF LifecycleTypeOK
  <1>3. ParkedIffHeld'
    BY <1>1 DEF ParkedIffHeld
  <1>4. QuietWhileAsleep'
    BY <1>1 DEF QuietWhileAsleep, Quiet
  <1>5. SuspendOwedIffSuspending'
    BY <1>1 DEF SuspendOwedIffSuspending
  <1>6. SuspendingIsHeard'
    BY <1>1 DEF SuspendingIsHeard
  <1>7. StopIsCurrent'
    BY DEF StopIsCurrent, ReplayUndisturbed
  <1>8. SleptIsFlagged'
    BY DEF SleptIsFlagged
  <1>9. LibraryState'
    BY DEF LibraryState
  <1>10. QED
    BY <1>2, <1>3, <1>4, <1>5, <1>6, <1>7, <1>8, <1>9

LEMMA LifecycleStep == LifecycleInv /\ [Next]_vars => LifecycleInv'
  <1> SUFFICES ASSUME LifecycleInv, [Next]_vars PROVE LifecycleInv'
    OBVIOUS
  <1> USE ActionsAssumption DEF lib, machine, data, notInit, ActionNames
  <1>0. /\ LifecycleTypeOK /\ ParkedIffHeld /\ QuietWhileAsleep
        /\ SuspendOwedIffSuspending /\ SuspendingIsHeard /\ StopIsCurrent
        /\ ReplayUndisturbed /\ SleptIsFlagged /\ LibraryState
    BY DEF LifecycleInv, StopIsCurrent
  <1>1. CASE StartEnroll
    BY <1>1 DEF StartEnroll, CanStart, StartCapture,
           LifecycleInv, LifecycleTypeOK, ParkedIffHeld, QuietWhileAsleep,
           SuspendOwedIffSuspending, SuspendingIsHeard, StopIsCurrent,
           ReplayUndisturbed, SleptIsFlagged, LibraryState, Quiet, Pcs,
           Outcomes
  <1>2. ASSUME NEW a \in Actions, StartMatch(a) PROVE LifecycleInv'
    BY <1>2 DEF StartMatch, CanStart, StartCapture,
           LifecycleInv, LifecycleTypeOK, ParkedIffHeld, QuietWhileAsleep,
           SuspendOwedIffSuspending, SuspendingIsHeard, StopIsCurrent,
           ReplayUndisturbed, SleptIsFlagged, LibraryState, Quiet, Pcs,
           Outcomes
  <1>3. ASSUME NEW a \in Actions, StartWithoutCapture(a) PROVE LifecycleInv'
    BY <1>3 DEF StartWithoutCapture, CanStart,
           LifecycleInv, LifecycleTypeOK, ParkedIffHeld, QuietWhileAsleep,
           SuspendOwedIffSuspending, SuspendingIsHeard, StopIsCurrent,
           ReplayUndisturbed, SleptIsFlagged, LibraryState, Quiet, Pcs,
           Outcomes
  <1>4. CASE CancelRequest
    BY <1>4 DEF CancelRequest,
           LifecycleInv, LifecycleTypeOK, ParkedIffHeld, QuietWhileAsleep,
           SuspendOwedIffSuspending, SuspendingIsHeard, StopIsCurrent,
           ReplayUndisturbed, SleptIsFlagged, LibraryState, Quiet, Pcs,
           Outcomes
  <1>5. CASE SuspendRequest
    <2>1. CASE action = "none" /\ sleep' = "idle"
      BY <1>5, <2>1 DEF SuspendRequest, SuspendVfunc,
           LifecycleInv, LifecycleTypeOK, ParkedIffHeld, QuietWhileAsleep,
           SuspendOwedIffSuspending, SuspendingIsHeard, StopIsCurrent,
           ReplayUndisturbed, SleptIsFlagged, LibraryState, Quiet, Pcs,
           Outcomes
    <2>2. CASE sleep' = "queued"
      BY <1>5, <2>2 DEF SuspendRequest, SuspendVfunc,
           LifecycleInv, LifecycleTypeOK, ParkedIffHeld, QuietWhileAsleep,
           SuspendOwedIffSuspending, SuspendingIsHeard, StopIsCurrent,
           ReplayUndisturbed, SleptIsFlagged, LibraryState, Quiet, Pcs,
           Outcomes
    <2>3. CASE pc # "replay" /\ SuspendVfunc
      BY <1>5, <2>3, SuspendVfuncKeeps DEF SuspendRequest
    <2>4. QED
      BY <1>5, <2>1, <2>2, <2>3 DEF SuspendRequest
  <1>6. CASE Resume
    <2>1. CASE action # "none" /\ parked /\ LoopHead(TRUE, "awake")
      <3>1. Handles("awake") /\ pc # "none" /\ (wedged' => needsReinit')
        BY <1>6, <1>0, <2>1 DEF Resume, LoopHead, FrameState, ReinitStart,
             Handles, LifecycleTypeOK, ParkedIffHeld, SuspendingIsHeard
      <3>2. QED
        BY <2>1, <3>1, LoopHeadKeeps
    <2>2. CASE ~(action # "none" /\ parked)
      <3>1. ~parked
        BY <1>0, <2>2 DEF ParkedIffHeld, LibraryState
      <3>2. /\ UNCHANGED <<action, cancelled, cancelDue, removed, outcome, pc,
                          parked, suspending, stop, frameRetried>>
            /\ ~suspending /\ sleep' = "awake"
        BY <1>0, <1>6, <2>2 DEF Resume, SuspendOwedIffSuspending
      <3>3. pc = "none"
        BY <1>0, <1>6, <3>1 DEF Resume, QuietWhileAsleep, Quiet, ParkedIffHeld
      <3>4. (needsReinit' \in BOOLEAN) /\ (wedged' \in BOOLEAN)
        BY <1>0, <1>6, <2>2 DEF Resume, LifecycleTypeOK
      <3>5. LifecycleTypeOK'
        BY <1>0, <3>2, <3>4 DEF LifecycleTypeOK
      <3>6. SleptIsFlagged'
        BY <1>0, <1>6, <2>2, <3>2, <3>3 DEF Resume, SleptIsFlagged
      <3>7. QED
        BY <1>0, <3>1, <3>2, <3>3, <3>5, <3>6
           DEF LifecycleInv, ParkedIffHeld, QuietWhileAsleep,
               SuspendOwedIffSuspending, SuspendingIsHeard, StopIsCurrent,
               ReplayUndisturbed, LibraryState
    <2>3. QED
      BY <1>6, <2>1, <2>2 DEF Resume
  <1>7. CASE Remove
    <2>1. CASE parked /\ Ended("removed", sleep)
      <3>1. Handles(sleep) /\ "removed" \in Outcomes
        BY <1>7, <1>0, <2>1 DEF Remove, Handles, LifecycleTypeOK,
             SuspendingIsHeard, SleptIsFlagged, Outcomes
      <3>2. QED
        BY <2>1, <3>1, EndedKeeps
    <2>2. CASE ~parked
      BY <1>7, <2>2 DEF Remove,
           LifecycleInv, LifecycleTypeOK, ParkedIffHeld, QuietWhileAsleep,
           SuspendOwedIffSuspending, SuspendingIsHeard, StopIsCurrent,
           ReplayUndisturbed, SleptIsFlagged, LibraryState, Quiet, Pcs,
           Outcomes
    <2>3. QED
      BY <1>7, <2>1, <2>2 DEF Remove
  <1>8. CASE LoadRun
    BY <1>8 DEF LoadRun,
           LifecycleInv, LifecycleTypeOK, ParkedIffHeld, QuietWhileAsleep,
           SuspendOwedIffSuspending, SuspendingIsHeard, StopIsCurrent,
           ReplayUndisturbed, SleptIsFlagged, LibraryState, Quiet, Pcs,
           Outcomes
  <1>9. CASE LoadDone
    <2>1. Handles(sleep) /\ pc # "none" /\ (wedged' => needsReinit')
      BY <1>9, <1>0 DEF LoadDone, LoopHead, FrameState, ReinitStart,
           Handles, LifecycleTypeOK, SuspendingIsHeard, SleptIsFlagged
    <2>2. ASSUME NEW r \in Outcomes, Ended(r, sleep) PROVE LifecycleInv'
      BY <2>1, <2>2, EndedKeeps
    <2>3. CASE LoopHead(needsReinit, sleep)
      <3>1. sleep \notin {"asleep", "idle"}
        BY <1>9, <1>0 DEF LoadDone, QuietWhileAsleep, Quiet
      <3>2. QED
        BY <2>1, <2>3, <3>1, LoopHeadKeeps
    <2>4. {"cancelled", "invalid"} \subseteq Outcomes
      BY DEF Outcomes
    <2>5. QED
      BY <1>9, <2>2, <2>3, <2>4 DEF LoadDone
  <1>10. CASE PollReady
    BY <1>10 DEF PollReady, StopAsked, Continue,
           LifecycleInv, LifecycleTypeOK, ParkedIffHeld, QuietWhileAsleep,
           SuspendOwedIffSuspending, SuspendingIsHeard, StopIsCurrent,
           ReplayUndisturbed, SleptIsFlagged, LibraryState, Quiet, Pcs,
           Outcomes
  <1>11. CASE PollStopped
    <2>1. Handles(sleep) /\ pc # "none"
      BY <1>11, <1>0 DEF PollStopped, InitFailed,
           Handles, LifecycleTypeOK, SuspendingIsHeard, SleptIsFlagged
    <2>2. QED
      BY <1>11, <2>1, InitFailedKeeps DEF PollStopped
  <1>12. CASE PollFailed
    <2>1. Handles(sleep) /\ pc # "none"
      BY <1>12, <1>0 DEF PollFailed, InitFailed,
           Handles, LifecycleTypeOK, SuspendingIsHeard, SleptIsFlagged
    <2>2. QED
      BY <1>12, <2>1, InitFailedKeeps DEF PollFailed
  <1>13. CASE ReplayDone
    <2>1. CASE InitFailed(TRUE)
      <3>1. Handles(sleep) /\ pc # "none"
        BY <1>13, <2>1, <1>0 DEF ReplayDone, InitFailed,
             Handles, LifecycleTypeOK, SuspendingIsHeard, SleptIsFlagged
      <3>2. QED
        BY <2>1, <3>1, InitFailedKeeps
    <2>2. CASE Continue("post", sleep)
      <3>1. sleep \notin {"asleep", "idle"} /\ ~stop /\ ~suspending
        BY <1>0, <1>13 DEF ReplayDone, QuietWhileAsleep, Quiet,
             ReplayUndisturbed
      <3>2. UNCHANGED <<needsReinit, stop>>
        BY <1>13 DEF ReplayDone, InitFailed
      <3>3. Handles(sleep) /\ pc # "none" /\ ~wedged'
        BY <1>0, <1>13, <3>1, <3>2 DEF ReplayDone, Handles, LifecycleTypeOK
      <3>4. "post" \in Pcs \ {"none", "held"}
        BY DEF Pcs
      <3>5. QED
        BY <2>2, <3>1, <3>2, <3>3, <3>4, ContinueKeeps
    <2>3. QED
      BY <1>13, <2>1, <2>2 DEF ReplayDone
  <1>14. CASE ReplaySilent
    <2>1. Handles(sleep) /\ pc # "none"
      BY <1>14, <1>0 DEF ReplaySilent, InitFailed,
           Handles, LifecycleTypeOK, SuspendingIsHeard, SleptIsFlagged
    <2>2. QED
      BY <1>14, <2>1, InitFailedKeeps DEF ReplaySilent
  <1>15. CASE ReplayFailed
    <2>1. Handles(sleep) /\ pc # "none"
      BY <1>15, <1>0 DEF ReplayFailed, InitFailed,
           Handles, LifecycleTypeOK, SuspendingIsHeard, SleptIsFlagged
    <2>2. QED
      BY <1>15, <2>1, InitFailedKeeps DEF ReplayFailed
  <1>16. CASE InitDone
    <2>1. pc # "none" /\ ~wedged'
      BY <1>16, <1>0 DEF InitDone, SleptIsFlagged
    <2>2. sleep \notin {"asleep", "idle"}
      BY <1>16, <1>0 DEF InitDone, QuietWhileAsleep, Quiet
    <2>3. /\ needsReinit' = (suspending /\ needsReinit)
          /\ UNCHANGED <<stop, wedged, action, cancelled, cancelDue, removed,
                        frameRetried>>
      BY <1>16 DEF InitDone, FrameState
    <2>4. Handles(sleep)
      BY <1>0, <2>1, <2>2, <2>3
         DEF Handles, LifecycleTypeOK, SuspendingIsHeard
    <2>5. QED
      BY <1>16, <2>1, <2>2, <2>4, FrameStateKeeps DEF InitDone
  <1>17. CASE PostFailed
    <2>1. Handles(sleep) /\ pc # "none"
      BY <1>17, <1>0 DEF PostFailed, InitFailed,
           Handles, LifecycleTypeOK, SuspendingIsHeard, SleptIsFlagged
    <2>2. QED
      BY <1>17, <2>1, InitFailedKeeps DEF PostFailed
  <1>18. ASSUME NEW f \in Frames, FrameArrives(f) PROVE LifecycleInv'
    <2>1. Handles(sleep) /\ pc # "none" /\ ~wedged'
      BY <1>18, <1>0 DEF FrameArrives, Handles, LifecycleTypeOK,
           SuspendingIsHeard, SleptIsFlagged
    <2>2. sleep \notin {"asleep", "idle"}
      BY <1>18, <1>0 DEF FrameArrives, QuietWhileAsleep, Quiet
    <2>3. ASSUME NEW r \in Outcomes, Ended(r, sleep) PROVE LifecycleInv'
      BY <2>1, <2>3, EndedKeeps
    <2>4. CASE ~cancelled /\ Park
      BY <2>1, <2>4, ParkKeeps
    <2>5. ASSUME NEW next \in {"matching", "timer"}, Continue(next, sleep),
                 ~suspending
          PROVE  LifecycleInv'
      <3>1. next \in Pcs \ {"none", "held"}
        BY DEF Pcs
      <3>2. QED
        BY <2>1, <2>2, <2>5, <3>1, ContinueKeeps
    <2>6. CASE ~suspending /\ Process(f)
      BY <2>3, <2>5, <2>6
         DEF Process, ProcessEnroll, ProcessMatch, Goes, Outcomes
    <2>7. QED
      BY <1>18, <2>3, <2>4, <2>6 DEF FrameArrives, Outcomes
  <1>19. CASE FrameFails
    <2>1. Handles(sleep) /\ pc # "none"
      BY <1>19, <1>0 DEF FrameFails, ReinitStart, Handles, LifecycleTypeOK,
           SuspendingIsHeard, SleptIsFlagged
    <2>2. sleep \notin {"asleep", "idle"}
      BY <1>19, <1>0 DEF FrameFails, QuietWhileAsleep, Quiet
    <2>3. ASSUME NEW r \in {"cancelled", "error"}, Ended(r, sleep)
          PROVE  LifecycleInv'
      <3>1. r \in Outcomes
        BY DEF Outcomes
      <3>2. QED
        BY <2>1, <2>3, <3>1, EndedKeeps
    <2>4. CASE ~cancelled /\ Park
      BY <2>1, <2>4, ParkKeeps
    <2>5. CASE ~suspending /\ ReinitStart(sleep)
      BY <2>1, <2>2, <2>5, ReinitStartKeeps
    <2>6. QED
      BY <1>19, <2>3, <2>4, <2>5 DEF FrameFails
  <1>20. CASE MatchRun
    BY <1>20 DEF MatchRun,
           LifecycleInv, LifecycleTypeOK, ParkedIffHeld, QuietWhileAsleep,
           SuspendOwedIffSuspending, SuspendingIsHeard, StopIsCurrent,
           ReplayUndisturbed, SleptIsFlagged, LibraryState, Quiet, Pcs,
           Outcomes
  <1>21. CASE MatchDone
    <2>1. Handles(sleep) /\ pc # "none" /\ ~wedged'
      BY <1>21, <1>0 DEF MatchDone, Handles, LifecycleTypeOK,
           SuspendingIsHeard, SleptIsFlagged
    <2>2. sleep \notin {"asleep", "idle"}
      BY <1>21, <1>0 DEF MatchDone, QuietWhileAsleep, Quiet
    <2>3. ASSUME NEW r \in {"cancelled", "enrolled", "error", "match"},
                 Ended(r, sleep)
          PROVE  LifecycleInv'
      <3>1. r \in Outcomes
        BY DEF Outcomes
      <3>2. QED
        BY <2>1, <2>3, <3>1, EndedKeeps
    <2>4. CASE Continue("timer", sleep)
      <3>1. "timer" \in Pcs \ {"none", "held"} /\ stop' = stop
        BY <1>21 DEF MatchDone, Pcs
      <3>2. suspending => stop'
        BY <1>0, <3>1 DEF SuspendingIsHeard
      <3>3. QED
        BY <2>1, <2>2, <2>4, <3>1, <3>2, ContinueKeeps
    <2>5. QED
      BY <1>21, <2>3, <2>4 DEF MatchDone, EnrollResult, MatchResult, Goes
  <1>22. CASE TimerFires
    <2>1. Handles(sleep) /\ pc # "none" /\ (wedged' => needsReinit')
      BY <1>22, <1>0 DEF TimerFires, LoopHead, FrameState, ReinitStart,
           Handles, LifecycleTypeOK, SuspendingIsHeard, SleptIsFlagged
    <2>2. sleep \notin {"asleep", "idle"}
      BY <1>22, <1>0 DEF TimerFires, QuietWhileAsleep, Quiet
    <2>3. QED
      BY <1>22, <2>1, <2>2, LoopHeadKeeps DEF TimerFires
  <1>23. CASE ActionReturns
    BY <1>23 DEF ActionReturns,
           LifecycleInv, LifecycleTypeOK, ParkedIffHeld, QuietWhileAsleep,
           SuspendOwedIffSuspending, SuspendingIsHeard, StopIsCurrent,
           ReplayUndisturbed, SleptIsFlagged, LibraryState, Quiet, Pcs,
           Outcomes
  <1>24. CASE DeliverCancel
    <2>1. CASE parked
      BY <1>24, <2>1 DEF DeliverCancel, LoopHead, FrameState, Ended,
           LifecycleInv, LifecycleTypeOK, ParkedIffHeld, QuietWhileAsleep,
           SuspendOwedIffSuspending, SuspendingIsHeard, StopIsCurrent,
           ReplayUndisturbed, SleptIsFlagged, LibraryState, Quiet, Pcs,
           Outcomes
    <2>2. CASE ~parked
      <3>1. /\ UNCHANGED <<action, cancelled, removed, sleep, outcome, pc,
                          parked, suspending, needsReinit, stop,
                          frameRetried, wedged>>
            /\ cancelDue' = FALSE
        BY <1>24, <2>2 DEF DeliverCancel
      <3>2. QED
        BY <1>0, <2>2, <3>1
           DEF LifecycleInv, LifecycleTypeOK, ParkedIffHeld, QuietWhileAsleep,
               SuspendOwedIffSuspending, SuspendingIsHeard, StopIsCurrent,
               ReplayUndisturbed, SleptIsFlagged, LibraryState, Quiet
    <2>3. QED
      BY <2>1, <2>2
  <1>25. CASE DeliverSuspend
    <2>1. sleep = "queued" /\ pc # "replay" /\ SuspendVfunc
      BY <1>25 DEF DeliverSuspend
    <2>2. QED
      BY <2>1, SuspendVfuncKeeps
  <1>26. CASE UNCHANGED vars
    BY <1>26 DEF vars,
           LifecycleInv, LifecycleTypeOK, ParkedIffHeld, QuietWhileAsleep,
           SuspendOwedIffSuspending, SuspendingIsHeard, StopIsCurrent,
           ReplayUndisturbed, SleptIsFlagged, LibraryState, Quiet, Pcs,
           Outcomes
  <1>27. QED
    BY <1>1, <1>2, <1>3, <1>4, <1>5, <1>6, <1>7, <1>8, <1>9,
       <1>10, <1>11, <1>12, <1>13, <1>14, <1>15, <1>16, <1>17, <1>18,
       <1>19, <1>20, <1>21, <1>22, <1>23, <1>24, <1>25, <1>26
       DEF Next, Client, System, Machine, Idles

-----------------------------------------------------------------------------
(* What the lifecycle invariant gives.                                      *)

THEOREM LifecycleInvariant == Spec => []LifecycleInv
  BY LifecycleInit, LifecycleStep, PTL DEF Spec

\* The flags and libfprint's view of the device keep their types.
THEOREM LifecycleTypeCorrect == Spec => []LifecycleTypeOK
  <1>1. LifecycleInv => LifecycleTypeOK
    BY DEF LifecycleInv
  <1>2. QED
    BY <1>1, LifecycleInvariant, PTL

\* egis0576_suspend, the park and capture_done: the suspend is answered only
\* with the bus quiet.
THEOREM SuspendIsQuiet == Spec => []QuietWhileAsleep
  <1>1. LifecycleInv => QuietWhileAsleep
    BY DEF LifecycleInv
  <1>2. QED
    BY <1>1, LifecycleInvariant, PTL

\* The suspend is answered exactly once: its completion is owed as long as
\* suspending is set, and never otherwise.
THEOREM SuspendAnsweredOnce == Spec => []SuspendOwedIffSuspending
  <1>1. LifecycleInv => SuspendOwedIffSuspending
    BY DEF LifecycleInv
  <1>2. QED
    BY <1>1, LifecycleInvariant, PTL

\* A machine that waits for nothing is one resume, cancel or removal can
\* reach.
THEOREM ParkedIsReachable == Spec => []HeldIsReachable
  <1>1. LifecycleInv => HeldIsReachable
    BY DEF LifecycleInv, ParkedIffHeld, HeldIsReachable
  <1>2. QED
    BY <1>1, LifecycleInvariant, PTL

\* No frame of a sensor that slept reaches the matcher before a bring-up
\* replay.
THEOREM BringUpBeforeFrame == Spec => []FrameOnlyAfterBringUp
  <1>1. LifecycleInv => FrameOnlyAfterBringUp
    BY DEF LifecycleInv, SleptIsFlagged, FrameOnlyAfterBringUp
  <1>2. QED
    BY <1>1, LifecycleInvariant, PTL

\* A stop is never seen by a bring-up it was not meant for, nor inside the
\* replay.
THEOREM StopIsForTheSuspend ==
  Spec => []ReplayUndisturbed
  <1>1. LifecycleInv => ReplayUndisturbed
    BY DEF LifecycleInv, StopIsCurrent
  <1>2. QED
    BY <1>1, LifecycleInvariant, PTL

\* egis_dev_request_stop does not outlive the suspend it was called for: no
\* later bring-up of reinit_start fails on it.
THEOREM StopServesSuspend == Spec => []StopMeansSuspending
  <1>1. LifecycleInv => StopMeansSuspending
    BY DEF LifecycleInv, StopIsCurrent, ReplayUndisturbed, StopMeansSuspending
  <1>2. QED
    BY <1>1, LifecycleInvariant, PTL

-----------------------------------------------------------------------------
(* How an action ends.                                                      *)

\* The machine ends as CancelledIffCancelled wants it to.
EndsRightly ==
  pc # "none" /\ pc' = "none" =>
    outcome' = "removed" \/ (outcome' = "cancelled" <=> cancelled)

LEMMA LoopHeadEnds ==
  ASSUME NEW flag, NEW sl, LoopHead(flag, sl), pc' = "none"
  PROVE  cancelled /\ outcome' = "cancelled"
  BY DEF LoopHead, FrameState, ReinitStart, Ended, Park, Continue

LEMMA InitFailedEnds ==
  ASSUME LifecycleTypeOK, NEW stopped \in BOOLEAN, InitFailed(stopped),
         stopped /\ ~cancelled => suspending, pc' = "none"
  PROVE  outcome' = "cancelled" <=> cancelled
  <1>1. ~(stopped /\ ~cancelled /\ suspending)
        /\ outcome' = IF stopped \/ cancelled THEN "cancelled" ELSE "error"
    BY DEF InitFailed, Ended, Park
  <1>2. QED
    BY <1>1

LEMMA ActionsEndRightly == LifecycleInv /\ Next => EndsRightly
  <1> SUFFICES ASSUME LifecycleInv, Next, pc # "none", pc' = "none",
                      outcome' # "removed"
               PROVE  outcome' = "cancelled" <=> cancelled
    BY DEF EndsRightly
  <1> USE DEF lib, machine, data
  <1>0. LifecycleTypeOK /\ StopIsCurrent /\ ReplayUndisturbed
    BY DEF LifecycleInv, StopIsCurrent
  <1>1. CASE StartEnroll
    BY <1>1 DEF StartEnroll
  <1>2. ASSUME NEW a \in Actions, StartMatch(a) \/ StartWithoutCapture(a)
        PROVE  FALSE
    BY <1>2 DEF StartMatch, StartWithoutCapture
  <1>3. CASE CancelRequest \/ SuspendRequest \/ DeliverSuspend
    BY <1>3 DEF CancelRequest, SuspendRequest, DeliverSuspend, SuspendVfunc
  <1>4. CASE Resume
    BY <1>4, LoopHeadEnds DEF Resume
  <1>5. CASE Remove
    BY <1>5 DEF Remove, Ended
  <1>6. CASE LoadRun \/ MatchRun
    BY <1>6 DEF LoadRun, MatchRun
  <1>7. CASE LoadDone
    <2>1. CASE LoopHead(needsReinit, sleep)
      BY <2>1, LoopHeadEnds
    <2>2. CASE Ended(IF cancelled THEN "cancelled" ELSE "invalid", sleep)
      BY <2>2 DEF Ended
    <2>3. QED
      BY <1>7, <2>1, <2>2 DEF LoadDone
  <1>8. CASE PollReady
    BY <1>8 DEF PollReady, Continue
  <1>9. CASE PollStopped \/ ReplaySilent
    BY <1>0, <1>9, InitFailedEnds
       DEF PollStopped, ReplaySilent, StopAsked, StopIsCurrent,
           ReplayUndisturbed
  <1>10. CASE PollFailed \/ ReplayFailed \/ PostFailed
    BY <1>0, <1>10, InitFailedEnds DEF PollFailed, ReplayFailed, PostFailed
  <1>11. CASE ReplayDone
    <2>1. CASE StopAsked /\ InitFailed(TRUE)
      BY <1>0, <1>11, <2>1, InitFailedEnds
         DEF ReplayDone, StopAsked, ReplayUndisturbed
    <2>2. CASE Continue("post", sleep)
      BY <2>2 DEF Continue
    <2>3. QED
      BY <1>11, <2>1, <2>2 DEF ReplayDone
  <1>12. CASE InitDone
    BY <1>12 DEF InitDone, FrameState, Ended, Park, Continue
  <1>13. ASSUME NEW f \in Frames, FrameArrives(f)
         PROVE  outcome' = "cancelled" <=> cancelled
    BY <1>13 DEF FrameArrives, Ended, Park, Process, ProcessEnroll,
         ProcessMatch, Goes, Continue
  <1>14. CASE FrameFails
    BY <1>14 DEF FrameFails, Ended, Park, ReinitStart, Continue
  <1>15. CASE MatchDone
    BY <1>15 DEF MatchDone, Ended, EnrollResult, MatchResult, Goes, Continue
  <1>16. CASE TimerFires
    BY <1>16, LoopHeadEnds DEF TimerFires
  <1>17. CASE ActionReturns
    BY <1>17 DEF ActionReturns
  <1>18. CASE DeliverCancel
    BY <1>18, LoopHeadEnds DEF DeliverCancel
  <1>19. QED
    BY <1>1, <1>2, <1>3, <1>4, <1>5, <1>6, <1>7, <1>8, <1>9, <1>10, <1>11,
       <1>12, <1>13, <1>14, <1>15, <1>16, <1>17, <1>18
       DEF Next, Client, System, Machine, Idles

\* capture_fail and the checks at every boundary: a machine ends as cancelled
\* exactly when its action was cancelled, whatever the transport reported.
THEOREM CancelIsReportedAsSuch == Spec => CancelledIffCancelled
  <1>1. LifecycleInv /\ [Next]_vars => [EndsRightly]_vars
    BY ActionsEndRightly
  <1>2. Spec => [][EndsRightly]_vars
    BY <1>1, LifecycleInvariant, PTL DEF Spec
  <1>3. QED
    BY <1>2 DEF CancelledIffCancelled, EndsRightly

-----------------------------------------------------------------------------
(* The press.                                                               *)

\* A handler that does not look at a frame leaves the press alone, or parks.
PressRests ==
  \/ pc' = "held" /\ PressReset
  \/ pc' \notin {"held", "matching", "matched"} /\ UNCHANGED press

LEMMA FrameStateRests ==
  ASSUME NEW flag, NEW sl, FrameState(flag, sl)
  PROVE  PressRests
  BY DEF FrameState, PressRests, Ended, Park, Continue

LEMMA LoopHeadRests ==
  ASSUME NEW flag, NEW sl, LoopHead(flag, sl)
  PROVE  PressRests
  <1>1. CASE FrameState(flag, sl)
    BY <1>1, FrameStateRests
  <1>2. CASE cancelled /\ Ended("cancelled", sl) /\ UNCHANGED press
    BY <1>2 DEF PressRests, Ended
  <1>3. CASE Park
    BY <1>3 DEF PressRests, Park
  <1>4. CASE ReinitStart(sl) /\ UNCHANGED press
    BY <1>4 DEF PressRests, ReinitStart, Continue
  <1>5. QED
    BY <1>1, <1>2, <1>3, <1>4 DEF LoopHead

LEMMA InitFailedRests ==
  ASSUME NEW stopped, InitFailed(stopped)
  PROVE  PressRests
  BY DEF InitFailed, PressRests, Ended, Park

\* What was seen still covers what the press remembers.
SeenKept ==
  /\ seen' \in [prev : SUBSET Hit, fresh : BOOLEAN, stores : Nat]
  /\ press.cand \subseteq seen'.prev
  /\ press.saw \/ press.settle > 0 => seen'.fresh

LEMMA RestsKeeps ==
  ASSUME PressInv, pc # "none", PressRests, frame' \in Frames, job' \in Jobs,
         action' = action, baseline' = baseline, SeenKept
  PROVE  PressInv'
  <1> USE DEF PressInv
  <1>1. CASE pc' = "held" /\ PressReset
    <2>1. /\ press' \in Press /\ press'.cand = {} /\ ~press'.saw
          /\ press'.settle = 0
      <3>1. press \in Press
        BY DEF DataTypeOK
      <3>2. press' = [phase |-> press.phase, finger |-> FALSE, settle |-> 0,
                      saw |-> FALSE, best |-> -1, cand |-> {}]
        BY <1>1, <3>1 DEF PressReset, Press
      <3>3. press.phase \in {"await_on", "await_off"}
        BY <3>1 DEF Press
      <3>4. 0 \in 0 .. SettleFrames /\ {} \in SUBSET Hit
        BY BoundsAssumption
      <3>5. QED
        BY <3>2, <3>3, <3>4 DEF Press
    <2>2. QED
      BY <1>1, <2>1 DEF DataTypeOK, PressMemory, SeenKept
  <1>2. CASE pc' \notin {"held", "matching", "matched"} /\ UNCHANGED press
    BY <1>2 DEF DataTypeOK, PressMemory, SeenKept
  <1>3. QED
    BY <1>1, <1>2 DEF PressRests

LEMMA IdleKeeps ==
  ASSUME PressInv, UNCHANGED <<pc, data, seen>>,
         action' = action \/ action' = "none"
  PROVE  PressInv'
  BY DEF PressInv, DataTypeOK, PressMemory, data

LEMMA ProcessKeeps ==
  ASSUME PressInv, pc = "frame", NEW f \in Frames, Process(f),
         frame' \in Frames, job' \in Jobs, action' = action
  PROVE  PressInv'
  <1> USE DEF PressInv
  <1>0. press \in Press
    BY DEF DataTypeOK
  <1>1. /\ baseline' \in [have : BOOLEAN, count : 0 .. BaselineFrames]
        /\ ~baseline'.have => baseline'.count < BaselineFrames
    <2>1. baseline.have \in BOOLEAN /\ baseline.count \in 0 .. BaselineFrames
      BY DEF DataTypeOK
    <2>2. CASE UNCHANGED baseline
      BY <2>2 DEF DataTypeOK
    <2>3. CASE /\ ~baseline.have
               /\ baseline' = [have |-> baseline.count + 1 >= BaselineFrames,
                               count |-> baseline.count + 1]
      <3>1. baseline.count + 1 \in 0 .. BaselineFrames
        BY <2>1, <2>3, BoundsAssumption DEF DataTypeOK
      <3>2. baseline.count + 1 >= BaselineFrames
            \/ baseline.count + 1 < BaselineFrames
        BY <2>1, BoundsAssumption
      <3>3. baseline'.have = (baseline.count + 1 >= BaselineFrames)
            /\ baseline'.count = baseline.count + 1
        BY <2>3
      <3>4. (baseline.count + 1 >= BaselineFrames) \in BOOLEAN
        OBVIOUS
      <3>5. baseline' \in [have : BOOLEAN, count : 0 .. BaselineFrames]
        BY <2>3, <3>1, <3>4
      <3>6. QED
        BY <3>2, <3>3, <3>5
    <2>4. QED
      BY <2>2, <2>3 DEF Process, BaselineFeed
  <1>2. seen' = [seen EXCEPT !.fresh = @ \/ FingerOn(f),
                             !.stores = IF FingerOff(f) THEN 0 ELSE @]
    BY DEF Process
  <1>3. /\ seen' \in [prev : SUBSET Hit, fresh : BOOLEAN, stores : Nat]
        /\ seen'.prev = seen.prev
        /\ seen'.fresh = (seen.fresh \/ FingerOn(f))
    BY <1>2 DEF DataTypeOK, FingerOn
  <1>4. CASE action = "enroll"
    <2>1. press' \in Press
      <3>1. 0 \in 0 .. SettleFrames
        BY BoundsAssumption
      <3>2. [press EXCEPT !.finger = TRUE] \in Press
        BY <1>0 DEF Press
      <3>3. [press EXCEPT !.settle = 0, !.finger = FALSE] \in Press
        BY <1>0, <3>1 DEF Press
      <3>4. [press EXCEPT !.phase = "await_on", !.finger = FALSE] \in Press
        BY <1>0 DEF Press
      <3>5. QED
        BY <1>0, <1>4, <3>2, <3>3, <3>4 DEF Process, ProcessEnroll
    <2>2. /\ press'.cand = press.cand /\ press'.saw = press.saw
          /\ press'.settle \in {press.settle, 0}
          /\ pc' \in {"matching", "timer"}
          /\ pc' = "matching" => FingerOn(f)
      BY <1>0, <1>4 DEF Process, ProcessEnroll, Press, Goes, Continue
    <2>3. QED
      BY <1>1, <1>3, <2>1, <2>2 DEF DataTypeOK, PressMemory
  <1>5. CASE action # "enroll"
    <2>1. press' \in Press
      BY <1>0, <1>5 DEF Process, ProcessMatch, Press
    <2>2. /\ press'.cand = press.cand /\ press'.settle = press.settle
          /\ pc' \in {"matching", "timer", "none"}
          /\ pc' = "matching" => FingerOn(f)
          /\ pc' = "timer" => press'.saw = press.saw
      BY <1>0, <1>5
         DEF Process, ProcessMatch, Press, Goes, Continue, Ended
    <2>3. QED
      BY <1>1, <1>3, <1>5, <2>1, <2>2 DEF DataTypeOK, PressMemory
  <1>6. QED
    BY <1>4, <1>5

LEMMA MatchDoneKeeps ==
  ASSUME PressInv, pc = "matched", MatchDone, action' = action,
         UNCHANGED <<frame, baseline>>, job' \in Jobs,
         seen' = [seen EXCEPT !.prev = Scored]
  PROVE  PressInv'
  <1> USE DEF PressInv
  <1>0. press \in Press /\ job \in Jobs /\ frame \in Frames
    BY DEF DataTypeOK
  <1>1. Scored \subseteq Hit
    BY <1>0, SlotsAssumption DEF Scored, Hit, Jobs
  <1>2. /\ seen' \in [prev : SUBSET Hit, fresh : BOOLEAN, stores : Nat]
        /\ seen'.prev = Scored /\ seen'.fresh /\ seen.fresh
    BY <1>1 DEF DataTypeOK, PressMemory
  <1>3. CASE cancelled /\ Ended("cancelled", sleep) /\ UNCHANGED press
    BY <1>2, <1>3 DEF DataTypeOK, PressMemory, Ended
  <1>4. CASE action = "enroll" /\ EnrollResult
    <2>1. press' \in Press /\ press'.cand = press.cand
      <3>1. CASE Settling /\ press' = [press EXCEPT !.settle = @ + 1]
        <4>1. press.settle + 1 \in 0 .. SettleFrames
          BY <1>0, <3>1, BoundsAssumption DEF Settling, Press
        <4>2. QED
          BY <1>0, <3>1, <4>1 DEF Press
      <3>2. CASE press' = Answered
        <4>1. 0 \in 0 .. SettleFrames
          BY BoundsAssumption
        <4>2. QED
          BY <1>0, <3>2, <4>1 DEF Answered, Press
      <3>3. QED
        BY <1>4, <3>1, <3>2 DEF EnrollResult
    <2>2. pc' \in {"none", "timer"}
      BY <1>4 DEF EnrollResult, Goes, Continue, Ended
    <2>3. QED
      BY <1>2, <1>4, <2>1, <2>2 DEF DataTypeOK, PressMemory
  <1>5. CASE action # "enroll" /\ MatchResult
    <2>1. press' \in Press /\ (pc' = "none" \/ press'.cand \subseteq Scored)
      <3>1. PICK best \in Scores \cup {-1}, cand \in SUBSET Scored :
               \/ press' = [press EXCEPT !.best = best]
                    /\ cand = {} /\ pc' = "none"
               \/ press' = [press EXCEPT !.best = best, !.cand = cand]
        <4>1. job.score \in Scores \cup {-1} /\ press.best \in Scores \cup {-1}
          BY <1>0 DEF Press, Jobs
        <4>2. (IF job.score > press.best THEN job.score ELSE press.best)
              \in Scores \cup {-1}
          BY <4>1
        <4>3. (IF (job.score >= Threshold /\ job.idx >= 0)
                  /\ ~Confirms(job.score, job.idx)
               THEN {[raw |-> frame, idx |-> job.idx]} ELSE {})
              \in SUBSET Scored
          BY DEF Scored
        <4>4. {} \in SUBSET Scored
          OBVIOUS
        <4>5. CASE /\ Confirms(job.score, job.idx) /\ job.rawOk
                   /\ Ended("match", sleep)
          BY <1>5, <4>2, <4>4, <4>5 DEF MatchResult, Ended
        <4>6. CASE ~(Confirms(job.score, job.idx) /\ job.rawOk)
          BY <1>5, <4>2, <4>3, <4>6 DEF MatchResult
        <4>7. QED
          BY <1>5, <4>5, <4>6 DEF MatchResult
      <3>2. cand \in SUBSET Hit
        BY <1>1
      <3>3. press' \in Press
        BY <1>0, <3>1, <3>2 DEF Press
      <3>4. pc' = "none" \/ press'.cand \subseteq Scored
        BY <1>0, <3>1 DEF Press
      <3>5. QED
        BY <3>3, <3>4
    <2>2. pc' \in {"none", "timer"}
      BY <1>5 DEF MatchResult, Goes, Continue, Ended
    <2>3. QED
      BY <1>2, <1>5, <2>1, <2>2 DEF DataTypeOK, PressMemory
  <1>6. QED
    BY <1>3, <1>4, <1>5 DEF MatchDone

LEMMA PressInit == Init => PressInv
  BY FramesAssumption, BoundsAssumption
     DEF Init, PressInv, DataTypeOK, PressMemory, Press, Jobs, FreshPress, NoJob

LEMMA StartCaptureKeeps ==
  ASSUME PressInv, StartCapture, pc' \notin {"held", "matching", "matched"}
  PROVE  PressInv'
  <1>1. /\ press' \in Press
        /\ seen' \in [prev : SUBSET Hit, fresh : BOOLEAN, stores : Nat]
    BY BoundsAssumption DEF StartCapture, FreshPress, Press
  <1>2. /\ baseline' \in [have : BOOLEAN, count : 0 .. BaselineFrames]
        /\ ~baseline'.have => baseline'.count < BaselineFrames
    BY BoundsAssumption DEF PressInv, DataTypeOK, StartCapture
  <1>3. QED
    BY <1>1, <1>2
       DEF PressInv, DataTypeOK, PressMemory, StartCapture, FreshPress

LEMMA PressStep == LifecycleInv /\ PressInv /\ [Next]_vars => PressInv'
  <1> SUFFICES ASSUME LifecycleInv, PressInv, [Next]_vars PROVE PressInv'
    OBVIOUS
  <1> USE DEF lib, machine, notInit
  <1>0. /\ DataTypeOK /\ PressMemory
        /\ NoJob \in Jobs
        /\ pc # "none" => \A s \in {seen} : seen' = s => SeenKept
    BY DEF PressInv, NoJob, Jobs, DataTypeOK, PressMemory, SeenKept
  <1>1. CASE StartEnroll
    <2>1. StartCapture /\ pc' \notin {"held", "matching", "matched"}
      BY <1>1 DEF StartEnroll
    <2>2. QED
      BY <2>1, StartCaptureKeeps
  <1>2. ASSUME NEW a \in Actions, StartMatch(a) PROVE PressInv'
    <2>1. StartCapture /\ pc' \notin {"held", "matching", "matched"}
      BY <1>2 DEF StartMatch
    <2>2. QED
      BY <2>1, StartCaptureKeeps
  <1>3. ASSUME NEW a \in Actions, StartWithoutCapture(a) PROVE PressInv'
    <2>1. pc = "none"
      BY <1>3 DEF StartWithoutCapture, CanStart, LifecycleInv, LibraryState
    <2>2. QED
      BY <1>3, <1>0, <2>1
         DEF StartWithoutCapture, PressInv, DataTypeOK, PressMemory, data
  <1>4. CASE CancelRequest
    BY <1>4, IdleKeeps DEF CancelRequest
  <1>5. CASE SuspendRequest
    BY <1>5, IdleKeeps DEF SuspendRequest, SuspendVfunc
  <1>6. CASE Resume
    <2>1. CASE parked /\ LoopHead(TRUE, "awake")
      <3>1. pc = "held"
        BY <2>1 DEF LifecycleInv, ParkedIffHeld
      <3>2. seen' = [seen EXCEPT !.prev = {}, !.fresh = FALSE]
        BY <1>6 DEF Resume
      <3>3. SeenKept
        <4>1. seen' \in [prev : SUBSET Hit, fresh : BOOLEAN, stores : Nat]
          BY <1>0, <3>2 DEF DataTypeOK
        <4>2. press.cand = {} /\ ~press.saw /\ press.settle = 0
          BY <1>0, <3>1 DEF PressMemory
        <4>3. QED
          BY <4>1, <4>2 DEF SeenKept
      <3>4. PressRests
        BY <2>1, LoopHeadRests
      <3>5. QED
        BY <1>6, <1>0, <3>1, <3>3, <3>4, RestsKeeps DEF Resume, DataTypeOK
    <2>2. CASE ~(action # "none" /\ parked)
      <3>1. pc = "none" /\ pc' = "none"
        BY <1>6, <2>2 DEF Resume, LifecycleInv, ParkedIffHeld, LibraryState,
             QuietWhileAsleep, Quiet
      <3>2. seen' = [seen EXCEPT !.prev = {}, !.fresh = FALSE]
        BY <1>6 DEF Resume
      <3>3. QED
        BY <1>6, <1>0, <2>2, <3>1, <3>2
           DEF Resume, PressInv, DataTypeOK, PressMemory
    <2>3. QED
      BY <1>6, <2>1, <2>2 DEF Resume
  <1>7. CASE Remove
    <2>1. pc' = pc \/ pc' = "none"
      BY <1>7 DEF Remove, Ended
    <2>2. QED
      BY <1>7, <1>0, <2>1 DEF Remove, PressInv, DataTypeOK, PressMemory, data
  <1>8. CASE LoadRun
    <2>1. job' \in Jobs
      BY <1>8 DEF LoadRun, NoJob, Jobs
    <2>2. QED
      BY <1>8, <1>0, <2>1 DEF LoadRun, PressInv, DataTypeOK, PressMemory
  <1>9. CASE LoadDone
    <2>1. PressRests
      BY <1>9, LoopHeadRests DEF LoadDone, PressRests, Ended
    <2>2. QED
      BY <1>9, <1>0, <2>1, RestsKeeps DEF LoadDone, DataTypeOK
  <1>10. CASE PollReady
    <2>1. PressRests
      BY <1>10 DEF PollReady, PressRests, Continue
    <2>2. QED
      BY <1>10, <1>0, <2>1, RestsKeeps DEF PollReady, DataTypeOK
  <1>11. CASE PollStopped
    <2>1. PressRests
      BY <1>11, InitFailedRests DEF PollStopped
    <2>2. QED
      BY <1>11, <1>0, <2>1, RestsKeeps DEF PollStopped, DataTypeOK
  <1>12. CASE PollFailed
    <2>1. PressRests
      BY <1>12, InitFailedRests DEF PollFailed
    <2>2. QED
      BY <1>12, <1>0, <2>1, RestsKeeps DEF PollFailed, DataTypeOK
  <1>13. CASE ReplayDone
    <2>1. PressRests
      BY <1>13, InitFailedRests DEF ReplayDone, PressRests, Continue
    <2>2. QED
      BY <1>13, <1>0, <2>1, RestsKeeps DEF ReplayDone, DataTypeOK
  <1>14. CASE ReplaySilent
    <2>1. PressRests
      BY <1>14, InitFailedRests DEF ReplaySilent
    <2>2. QED
      BY <1>14, <1>0, <2>1, RestsKeeps DEF ReplaySilent, DataTypeOK
  <1>15. CASE ReplayFailed
    <2>1. PressRests
      BY <1>15, InitFailedRests DEF ReplayFailed
    <2>2. QED
      BY <1>15, <1>0, <2>1, RestsKeeps DEF ReplayFailed, DataTypeOK
  <1>16. CASE InitDone
    <2>1. PressRests
      BY <1>16, FrameStateRests DEF InitDone
    <2>2. QED
      BY <1>16, <1>0, <2>1, RestsKeeps DEF InitDone, DataTypeOK
  <1>17. CASE PostFailed
    <2>1. PressRests
      BY <1>17, InitFailedRests DEF PostFailed
    <2>2. QED
      BY <1>17, <1>0, <2>1, RestsKeeps DEF PostFailed, DataTypeOK
  <1>18. ASSUME NEW f \in Frames, FrameArrives(f) PROVE PressInv'
    <2>1. pc = "frame" /\ action' = action /\ job' = job /\ frame' = f
      BY <1>18 DEF FrameArrives
    <2>2. CASE UNCHANGED <<baseline, seen>>
               /\ \/ Ended("cancelled", sleep) /\ UNCHANGED press
                  \/ Park
      <3>1. PressRests
        BY <2>2 DEF PressRests, Ended, Park
      <3>2. QED
        BY <1>0, <2>1, <2>2, <3>1, RestsKeeps DEF DataTypeOK
    <2>3. CASE Process(f)
      BY <1>0, <2>1, <2>3, ProcessKeeps DEF DataTypeOK
    <2>4. QED
      BY <1>18, <2>2, <2>3 DEF FrameArrives
  <1>19. CASE FrameFails
    <2>1. PressRests
      BY <1>19 DEF FrameFails, PressRests, Ended, Park, ReinitStart, Continue
    <2>2. QED
      BY <1>19, <1>0, <2>1, RestsKeeps DEF FrameFails, DataTypeOK
  <1>20. CASE MatchRun
    <2>1. job' \in Jobs
      <3>1. CASE MatchSkipped
        BY <1>0, <3>1 DEF MatchSkipped, DataTypeOK
      <3>2. CASE MatchEnroll
        <4>1. PICK r \in {-2, 4, 5, 1, 2} : job' = [NoJob EXCEPT !.ret = r]
          BY <3>2 DEF MatchEnroll
        <4>2. QED
          BY <1>0, <4>1 DEF Jobs
      <3>3. CASE MatchScore
        <4>1. PICK score \in Scores, idx \in Slots \cup {-1}, ok \in BOOLEAN :
                job' = [NoJob EXCEPT !.score = score, !.idx = idx, !.rawOk = ok]
          BY <3>3, SlotsAssumption DEF MatchScore
        <4>2. QED
          BY <1>0, <4>1 DEF Jobs
      <3>4. QED
        BY <1>20, <3>1, <3>2, <3>3 DEF MatchRun
    <2>2. /\ seen' \in [prev : SUBSET Hit, fresh : BOOLEAN, stores : Nat]
          /\ seen'.prev = seen.prev /\ seen'.fresh = seen.fresh
      <3>1. seen' = seen \/ seen' = [seen EXCEPT !.stores = @ + 1]
        BY <1>20
           DEF MatchRun, MatchSkipped, MatchEnroll, MatchScore
      <3>2. seen \in [prev : SUBSET Hit, fresh : BOOLEAN, stores : Nat]
        BY <1>0 DEF DataTypeOK
      <3>3. QED
        BY <3>1, <3>2
    <2>3. QED
      BY <1>20, <1>0, <2>1, <2>2 DEF MatchRun, PressInv, DataTypeOK, PressMemory
  <1>21. CASE MatchDone
    <2>1. /\ pc = "matched" /\ action' = action /\ job' \in Jobs
          /\ UNCHANGED <<frame, baseline>>
          /\ seen' = [seen EXCEPT !.prev = Scored]
      BY <1>21, <1>0 DEF MatchDone
    <2>2. QED
      BY <1>21, <1>0, <2>1, MatchDoneKeeps DEF MatchDone
  <1>22. CASE TimerFires
    <2>1. PressRests
      BY <1>22, LoopHeadRests DEF TimerFires
    <2>2. QED
      BY <1>22, <1>0, <2>1, RestsKeeps DEF TimerFires, DataTypeOK
  <1>23. CASE ActionReturns
    BY <1>23, IdleKeeps DEF ActionReturns
  <1>24. CASE DeliverCancel
    <2>1. CASE parked
      <3>1. pc # "none"
        BY <2>1 DEF LifecycleInv, ParkedIffHeld
      <3>2. PressRests
        BY <1>24, <2>1, LoopHeadRests DEF DeliverCancel
      <3>3. QED
        BY <1>24, <1>0, <3>1, <3>2, RestsKeeps DEF DeliverCancel, DataTypeOK
    <2>2. CASE ~parked
      BY <1>24, <2>2, IdleKeeps DEF DeliverCancel, data
    <2>3. QED
      BY <2>1, <2>2
  <1>25. CASE DeliverSuspend
    BY <1>25, IdleKeeps DEF DeliverSuspend, SuspendVfunc
  <1>26. CASE UNCHANGED vars
    BY <1>26, IdleKeeps DEF vars
  <1>27. QED
    BY <1>1, <1>2, <1>3, <1>4, <1>5, <1>6, <1>7, <1>8, <1>9,
       <1>10, <1>11, <1>12, <1>13, <1>14, <1>15, <1>16, <1>17, <1>18,
       <1>19, <1>20, <1>21, <1>22, <1>23, <1>24, <1>25, <1>26
       DEF Next, Client, System, Machine, Idles

THEOREM PressInvariant == Spec => []PressInv
  BY PressInit, PressStep, LifecycleInvariant, PTL DEF Spec

Success == {"match", "enrolled"}

\* Only the handler of the matcher's result reports a success.
LEMMA OnlyMatchDoneSucceeds ==
  ASSUME Next, ~MatchDone, outcome' \in Success
  PROVE  outcome' = outcome
  <1> USE DEF lib, machine, data, notInit, Success
  <1>1. ASSUME NEW flag, NEW sl, LoopHead(flag, sl)
        PROVE  outcome' \notin Success \/ outcome' = outcome
    BY <1>1 DEF LoopHead, FrameState, ReinitStart, Ended, Park, Continue
  <1>2. ASSUME NEW stopped, InitFailed(stopped)
        PROVE  outcome' \notin Success \/ outcome' = outcome
    BY <1>2 DEF InitFailed, Ended, Park
  <1>3. CASE Client
    BY <1>3 DEF Client, StartEnroll, StartMatch, StartWithoutCapture,
         CancelRequest
  <1>4. CASE System
    BY <1>1, <1>4 DEF System, SuspendRequest, SuspendVfunc, Resume, Remove,
         Ended
  <1>5. CASE Idles
    BY <1>1, <1>5 DEF Idles, ActionReturns, DeliverCancel, DeliverSuspend,
         SuspendVfunc
  <1>6. CASE LoadRun \/ LoadDone \/ MatchRun \/ TimerFires
    BY <1>1, <1>6 DEF LoadRun, LoadDone, MatchRun, TimerFires, Ended
  <1>7. CASE PollReady \/ PollStopped \/ PollFailed \/ ReplayDone
             \/ ReplaySilent \/ ReplayFailed \/ PostFailed
    BY <1>2, <1>7 DEF PollReady, PollStopped, PollFailed, ReplayDone,
         ReplaySilent, ReplayFailed, PostFailed, Continue
  <1>8. CASE InitDone
    BY <1>8 DEF InitDone, FrameState, Ended, Park, Continue
  <1>9. CASE \E f \in Frames : FrameArrives(f)
    BY <1>9 DEF FrameArrives, Ended, Park, Process, ProcessEnroll,
         ProcessMatch, Goes, Continue
  <1>10. CASE FrameFails
    BY <1>10 DEF FrameFails, Ended, Park, ReinitStart, Continue
  <1>11. QED
    BY <1>3, <1>4, <1>5, <1>6, <1>7, <1>8, <1>9, <1>10 DEF Next, Machine

\* match_result: a match is the second of two consecutive frames over the
\* threshold for one print, not byte-identical, since the last resume, and
\* borne out by the raw frame.
THEOREM MatchIsConfirmed == Spec => MatchNeedsTwoFrames
  <1> DEFINE Confirmed ==
        outcome' = "match" /\ outcome # "match" =>
          /\ job.rawOk
          /\ \E p \in seen.prev : p.idx = job.idx /\ p.raw # frame
  <1>1. PressInv /\ [Next]_vars => [Confirmed]_vars
    <2> SUFFICES ASSUME PressInv, Next, outcome' = "match", outcome # "match"
                 PROVE  /\ job.rawOk
                        /\ \E p \in seen.prev : p.idx = job.idx /\ p.raw # frame
      BY DEF vars, lib
    <2>1. MatchDone
      BY OnlyMatchDoneSucceeds DEF Success
    <2>2. Confirms(job.score, job.idx) /\ job.rawOk
      BY <2>1 DEF MatchDone, MatchResult, EnrollResult, Ended, Goes, Continue
    <2>3. press.cand \subseteq seen.prev
      BY <2>1 DEF MatchDone, PressInv, PressMemory
    <2>4. QED
      BY <2>2, <2>3 DEF Confirms
  <1>2. Spec => [][Confirmed]_vars
    BY <1>1, PressInvariant, PTL DEF Spec
  <1>3. QED
    BY <1>2 DEF MatchNeedsTwoFrames

\* capture_press_reset: no frame gets a verdict for a press of before a sleep.
THEOREM VerdictIsFresh == Spec => NoVerdictAcrossSleep
  <1> DEFINE Fresh ==
        pc = "frame"
        /\ ( \/ outcome' # outcome /\ outcome' \in {"nomatch", "retry"}
             \/ press.settle > 0 /\ press'.settle = 0 /\ pc' = "timer")
          => seen.fresh
  <1>1. LifecycleInv /\ PressInv /\ [Next]_vars => [Fresh]_vars
    <2> SUFFICES ASSUME LifecycleInv, PressInv, Next, pc = "frame",
                        \/ /\ outcome' # outcome
                           /\ outcome' \in {"nomatch", "retry"}
                        \/ /\ press.settle > 0 /\ press'.settle = 0
                           /\ pc' = "timer",
                        ~seen.fresh
                 PROVE  FALSE
      BY DEF vars, lib, machine
    <2> USE DEF lib, machine, data, notInit
    <2>1. ~press.saw /\ ~(press.settle > 0)
      BY DEF PressInv, PressMemory
    <2>2. ~parked /\ action # "none" /\ sleep \notin {"asleep", "idle"}
      BY DEF LifecycleInv, ParkedIffHeld, LibraryState, QuietWhileAsleep, Quiet
    <2>3. outcome' # outcome /\ outcome' \in {"nomatch", "retry"}
      BY <2>1
    <2>4. ASSUME NEW f \in Frames, FrameArrives(f) PROVE FALSE
      BY <2>1, <2>3, <2>4
         DEF FrameArrives, Ended, Park, Process, ProcessEnroll, ProcessMatch,
             Lifted, Goes, Continue
    <2>5. CASE FrameFails
      BY <2>3, <2>5 DEF FrameFails, Ended, Park, ReinitStart, Continue
    <2>6. CASE Client
      BY <2>2, <2>3, <2>6
         DEF Client, StartEnroll, StartMatch, StartWithoutCapture, CanStart,
             CancelRequest
    <2>7. CASE System
      BY <2>2, <2>3, <2>7
         DEF System, SuspendRequest, SuspendVfunc, Resume, Remove
    <2>8. CASE Idles
      BY <2>2, <2>3, <2>8
         DEF Idles, ActionReturns, DeliverCancel, DeliverSuspend, SuspendVfunc
    <2>9. CASE Machine
      BY <2>4, <2>5, <2>9
         DEF Machine, LoadRun, LoadDone, PollReady, PollStopped, PollFailed,
             ReplayDone, ReplaySilent, ReplayFailed, InitDone, PostFailed,
             MatchRun, MatchDone, TimerFires
    <2>10. QED
      BY <2>6, <2>7, <2>8, <2>9 DEF Next
  <1>2. Spec => [][Fresh]_vars
    BY <1>1, LifecycleInvariant, PressInvariant, PTL DEF Spec
  <1>3. QED
    BY <1>2 DEF NoVerdictAcrossSleep

-----------------------------------------------------------------------------
(* Enrolment.                                                               *)

LEMMA EnrolInit == Init => EnrolInv
  BY BoundsAssumption
     DEF Init, EnrolInv, EnrolSession, JobIsCurrent, Touch

\* A handler with no matcher result in hand leaves the session alone.
LEMMA RestsKeepsEnrol ==
  ASSUME PressInv, EnrolInv, pc \notin {"none", "matched"}, PressRests,
         UNCHANGED <<action, enrollCount, stored>>, job' = NoJob,
         seen'.stores = seen.stores
  PROVE  EnrolInv'
  <1>1. press'.phase = press.phase
    BY DEF PressRests, PressReset, PressInv, DataTypeOK, Press
  <1>2. pc' \notin {"matching", "matched"}
    BY DEF PressRests
  <1>3. QED
    BY <1>1, <1>2 DEF EnrolInv, EnrolSession, JobIsCurrent, Touch

LEMMA IdleKeepsEnrol ==
  ASSUME EnrolInv, UNCHANGED <<pc, press, enrollCount, stored, job>>,
         seen'.stores = seen.stores,
         action' = action \/ (action' # "enroll" \/ pc = "none")
  PROVE  EnrolInv'
  BY DEF EnrolInv, EnrolSession, JobIsCurrent, Touch, Accepted

LEMMA EnrolFrameKeeps ==
  ASSUME PressInv, EnrolInv, pc = "frame", NEW f \in Frames, Process(f),
         UNCHANGED <<action, enrollCount, stored, job>>
  PROVE  EnrolInv'
  <1>1. press \in Press /\ seen.stores \in Nat
    BY DEF PressInv, DataTypeOK
  <1>2. seen'.stores = IF FingerOff(f) THEN 0 ELSE seen.stores
    BY DEF Process, PressInv, DataTypeOK
  <1>3. ~(FingerOn(f) /\ FingerOff(f))
    BY FramesAssumption DEF FingerOn, FingerOff, FingerOnVar, FingerOffVar
  <1>4. CASE action = "enroll"
    <2>1. /\ pc' \in {"matching", "timer"}
          /\ press'.phase = "await_on" =>
               press.phase = "await_on" \/ FingerOff(f)
          /\ pc' = "matching" => press'.phase = "await_on"
                                 /\ press.phase = "await_on"
      BY <1>1, <1>4 DEF Process, ProcessEnroll, Goes, Continue, Press
    <2>2. QED
      BY <1>1, <1>2, <1>3, <1>4, <2>1
         DEF EnrolInv, EnrolSession, JobIsCurrent, Touch
  <1>5. CASE action # "enroll"
    <2>1. pc' \in {"matching", "timer", "none"}
      BY <1>5 DEF Process, ProcessMatch, Goes, Continue, Ended
    <2>2. QED
      BY <1>2, <1>5, <2>1 DEF EnrolInv, EnrolSession, JobIsCurrent, Touch
  <1>6. QED
    BY <1>4, <1>5

LEMMA EnrolRunKeeps ==
  ASSUME PressInv, EnrolInv, pc = "matching", MatchRun
  PROVE  EnrolInv'
  <1> USE DEF lib
  <1>1. /\ pc' = "matched" /\ job = NoJob
        /\ UNCHANGED <<action, enrollCount, press>>
        /\ enrollCount \in 0 .. Stages /\ stored \in 0 .. Stages
        /\ seen.stores <= 1 /\ seen.stores \in Nat
    BY DEF MatchRun, EnrolInv, EnrolSession, JobIsCurrent, Touch, PressInv,
           DataTypeOK
  <1>2. NoJob.ret = 0 /\ NoJob \in Jobs
    BY DEF NoJob, Jobs
  <1>3. CASE MatchSkipped
    BY <1>1, <1>2, <1>3
       DEF MatchSkipped, EnrolInv, EnrolSession, JobIsCurrent, Touch, Accepted
  <1>4. CASE MatchEnroll
    <2>1. action = "enroll" /\ stored = enrollCount /\ enrollCount < Stages
          /\ seen.stores = 0 /\ press.phase = "await_on"
      BY <1>4 DEF MatchEnroll, EnrolInv, EnrolSession, Touch
    <2>2. CASE UNCHANGED <<stored, seen>>
               /\ \E r \in {-2, 4, 5} : job' = [NoJob EXCEPT !.ret = r]
      <3>1. job'.ret \in {-2, 4, 5}
        BY <1>2, <2>2 DEF Jobs
      <3>2. QED
        BY <1>1, <2>1, <2>2, <3>1
           DEF EnrolInv, EnrolSession, JobIsCurrent, Touch, Accepted
    <2>3. CASE /\ stored' = stored + 1
               /\ job' = [NoJob EXCEPT !.ret =
                            IF stored + 1 >= Stages THEN 2 ELSE 1]
               /\ seen' = [seen EXCEPT !.stores = @ + 1]
      <3>1. job'.ret \in {1, 2} /\ seen'.stores = 1
        BY <1>2, <2>1, <2>3 DEF Jobs, PressInv, DataTypeOK
      <3>2. stored' \in 0 .. Stages
        BY <1>1, <2>1, <2>3, BoundsAssumption
      <3>3. QED
        BY <1>1, <2>1, <2>3, <3>1, <3>2
           DEF EnrolInv, EnrolSession, JobIsCurrent, Touch, Accepted
    <2>4. QED
      BY <1>4, <2>2, <2>3 DEF MatchEnroll
  <1>5. CASE MatchScore
    BY <1>1, <1>5
       DEF MatchScore, EnrolInv, EnrolSession, JobIsCurrent, Touch
  <1>6. QED
    BY <1>3, <1>4, <1>5 DEF MatchRun

LEMMA EnrolDoneKeeps ==
  ASSUME PressInv, EnrolInv, MatchDone
  PROVE  EnrolInv'
  <1>1. /\ pc = "matched" /\ job' = NoJob /\ action' = action
        /\ seen'.stores = seen.stores /\ seen.stores <= 1
        /\ enrollCount \in 0 .. Stages /\ stored \in 0 .. Stages
    BY DEF MatchDone, EnrolInv, EnrolSession, Touch, PressInv, DataTypeOK
  <1>2. CASE cancelled /\ Ended("cancelled", sleep)
             /\ UNCHANGED <<press, enrollCount, stored>>
    BY <1>1, <1>2 DEF EnrolInv, EnrolSession, JobIsCurrent, Touch, Ended
  <1>3. CASE action = "enroll" /\ EnrollResult
    <2>1. /\ stored = enrollCount + (IF Accepted THEN 1 ELSE 0)
          /\ enrollCount < Stages /\ press.phase = "await_on"
          /\ seen.stores = (IF Accepted THEN 1 ELSE 0)
      BY <1>1, <1>3 DEF EnrolInv, EnrolSession, Touch
    <2>2. press \in Press
      BY DEF PressInv, DataTypeOK
    <2>3. CASE Settling
      <3>1. ~Accepted /\ press'.phase = "await_on" /\ pc' = "timer"
            /\ UNCHANGED <<enrollCount, stored>>
        BY <1>3, <2>1, <2>2, <2>3
           DEF Settling, Accepted, EnrollResult, Press, Goes, Continue
      <3>2. QED
        BY <1>1, <2>1, <3>1 DEF EnrolInv, EnrolSession, JobIsCurrent, Touch
    <2>4. CASE ~Settling
      <3>1. press'.phase = "await_off"
            /\ enrollCount' = IF Accepted THEN enrollCount + 1 ELSE enrollCount
        BY <1>3, <2>2, <2>4 DEF EnrollResult, Answered, Press
      <3>2. CASE Accepted /\ LastStage /\ pc' = "none" /\ stored' = 0
        BY <1>1, <2>1, <3>1, <3>2, BoundsAssumption
           DEF EnrolInv, EnrolSession, JobIsCurrent, Touch
      <3>3. CASE ~(Accepted /\ LastStage) /\ pc' = "timer" /\ stored' = stored
        <4>1. enrollCount' < Stages /\ enrollCount' \in 0 .. Stages
          BY <1>1, <2>1, <3>1, <3>3, BoundsAssumption DEF LastStage
        <4>2. QED
          BY <1>1, <2>1, <3>1, <3>3, <4>1
             DEF EnrolInv, EnrolSession, JobIsCurrent, Touch
      <3>4. QED
        BY <1>3, <2>4, <3>2, <3>3 DEF EnrollResult, Goes, Continue, Ended
    <2>5. QED
      BY <2>3, <2>4
  <1>4. CASE action # "enroll" /\ MatchResult
    <2>1. pc' \in {"none", "timer"} /\ UNCHANGED <<enrollCount, stored>>
      BY <1>4 DEF MatchResult, Goes, Continue, Ended
    <2>2. QED
      BY <1>1, <1>4, <2>1 DEF EnrolInv, EnrolSession, JobIsCurrent, Touch
  <1>5. QED
    BY <1>2, <1>3, <1>4 DEF MatchDone

LEMMA EnrolStep ==
  LifecycleInv /\ PressInv /\ EnrolInv /\ [Next]_vars => EnrolInv'
  <1> SUFFICES ASSUME LifecycleInv, PressInv, EnrolInv, [Next]_vars
               PROVE  EnrolInv'
    OBVIOUS
  <1> USE DEF lib, machine, data, notInit
  <1>0. /\ seen \in [prev : SUBSET Hit, fresh : BOOLEAN, stores : Nat]
        /\ pc \notin {"loaded", "matched"} => job = NoJob
    BY DEF PressInv, DataTypeOK, EnrolInv, JobIsCurrent
  <1>1. CASE StartEnroll
    <2>1. /\ pc = "none" /\ pc' \in {"poll", "frame"} /\ job' = job
          /\ seen'.stores = 0 /\ enrollCount' = 0 /\ stored' = 0
      BY <1>1 DEF StartEnroll, StartCapture, CanStart, LifecycleInv,
           LibraryState
    <2>2. QED
      BY <1>0, <2>1, BoundsAssumption
         DEF EnrolInv, EnrolSession, JobIsCurrent, Touch
  <1>2. ASSUME NEW a \in Actions, StartMatch(a) PROVE EnrolInv'
    <2>1. /\ pc = "none" /\ pc' = "loading" /\ job' = job
          /\ seen'.stores = 0 /\ action' # "enroll"
          /\ UNCHANGED <<enrollCount, stored>>
      BY <1>2 DEF StartMatch, StartCapture, CanStart, LifecycleInv, LibraryState
    <2>2. QED
      BY <1>0, <2>1 DEF EnrolInv, EnrolSession, JobIsCurrent, Touch
  <1>3. ASSUME NEW a \in Actions, StartWithoutCapture(a) PROVE EnrolInv'
    <2>1. pc = "none"
      BY <1>3 DEF StartWithoutCapture, CanStart, LifecycleInv, LibraryState
    <2>2. QED
      BY <1>3, <2>1, IdleKeepsEnrol DEF StartWithoutCapture
  <1>4. CASE CancelRequest \/ SuspendRequest \/ DeliverSuspend
    BY <1>4, IdleKeepsEnrol
       DEF CancelRequest, SuspendRequest, DeliverSuspend, SuspendVfunc
  <1>5. CASE Resume
    <2>1. seen'.stores = seen.stores
      BY <1>0, <1>5 DEF Resume
    <2>2. CASE parked /\ LoopHead(TRUE, "awake")
      <3>1. pc = "held"
        BY <2>2 DEF LifecycleInv, ParkedIffHeld
      <3>2. PressRests
        BY <2>2, LoopHeadRests
      <3>3. QED
        BY <1>5, <1>0, <2>1, <3>1, <3>2, RestsKeepsEnrol DEF Resume
    <2>3. CASE ~(action # "none" /\ parked)
      BY <1>5, <2>1, <2>3, IdleKeepsEnrol DEF Resume
    <2>4. QED
      BY <1>5, <2>2, <2>3 DEF Resume
  <1>6. CASE Remove
    <2>1. CASE pc' = "none"
      BY <1>6, <1>0, <2>1
         DEF Remove, LifecycleInv, ParkedIffHeld, EnrolInv, EnrolSession,
             JobIsCurrent, Touch, Ended
    <2>2. CASE UNCHANGED pc
      BY <1>6, <2>2, IdleKeepsEnrol DEF Remove
    <2>3. QED
      BY <1>6, <2>1, <2>2 DEF Remove, Ended
  <1>7. CASE LoadRun
    BY <1>7 DEF LoadRun, EnrolInv, EnrolSession, JobIsCurrent, Touch
  <1>8. CASE LoadDone
    <2>1. PressRests
      BY <1>8, LoopHeadRests DEF LoadDone, PressRests, Ended
    <2>2. QED
      BY <1>8, <1>0, <2>1, RestsKeepsEnrol DEF LoadDone
  <1>9. CASE PollReady
    <2>1. PressRests
      BY <1>9 DEF PollReady, PressRests, Continue
    <2>2. QED
      BY <1>9, <1>0, <2>1, RestsKeepsEnrol DEF PollReady
  <1>10. CASE PollStopped \/ PollFailed \/ ReplaySilent \/ ReplayFailed
             \/ PostFailed
    <2>1. PressRests
      BY <1>10, InitFailedRests
         DEF PollStopped, PollFailed, ReplaySilent, ReplayFailed, PostFailed
    <2>2. QED
      BY <1>10, <1>0, <2>1, RestsKeepsEnrol
         DEF PollStopped, PollFailed, ReplaySilent, ReplayFailed, PostFailed
  <1>11. CASE ReplayDone
    <2>1. PressRests
      BY <1>11, InitFailedRests DEF ReplayDone, PressRests, Continue
    <2>2. QED
      BY <1>11, <1>0, <2>1, RestsKeepsEnrol DEF ReplayDone
  <1>12. CASE InitDone
    <2>1. PressRests
      BY <1>12, FrameStateRests DEF InitDone
    <2>2. QED
      BY <1>12, <1>0, <2>1, RestsKeepsEnrol DEF InitDone
  <1>13. ASSUME NEW f \in Frames, FrameArrives(f) PROVE EnrolInv'
    <2>1. CASE Process(f)
      BY <1>13, <2>1, EnrolFrameKeeps DEF FrameArrives
    <2>2. CASE UNCHANGED <<baseline, seen>>
               /\ \/ Ended("cancelled", sleep) /\ UNCHANGED press
                  \/ Park
      <3>1. PressRests
        BY <2>2 DEF PressRests, Ended, Park
      <3>2. QED
        BY <1>13, <1>0, <2>2, <3>1, RestsKeepsEnrol DEF FrameArrives
    <2>3. QED
      BY <1>13, <2>1, <2>2 DEF FrameArrives
  <1>14. CASE FrameFails
    <2>1. PressRests
      BY <1>14 DEF FrameFails, PressRests, Ended, Park, ReinitStart,
         Continue
    <2>2. QED
      BY <1>14, <1>0, <2>1, RestsKeepsEnrol DEF FrameFails
  <1>15. CASE MatchRun
    BY <1>15, EnrolRunKeeps DEF MatchRun
  <1>16. CASE MatchDone
    BY <1>16, EnrolDoneKeeps
  <1>17. CASE TimerFires
    <2>1. PressRests
      BY <1>17, LoopHeadRests DEF TimerFires
    <2>2. QED
      BY <1>17, <1>0, <2>1, RestsKeepsEnrol DEF TimerFires
  <1>18. CASE ActionReturns
    BY <1>18, IdleKeepsEnrol DEF ActionReturns
  <1>19. CASE DeliverCancel
    <2>1. CASE parked
      <3>1. pc = "held"
        BY <2>1 DEF LifecycleInv, ParkedIffHeld
      <3>2. PressRests
        BY <1>19, <2>1, LoopHeadRests DEF DeliverCancel
      <3>3. QED
        BY <1>19, <1>0, <3>1, <3>2, RestsKeepsEnrol DEF DeliverCancel
    <2>2. CASE ~parked
      BY <1>19, <2>2, IdleKeepsEnrol DEF DeliverCancel
    <2>3. QED
      BY <2>1, <2>2
  <1>20. CASE UNCHANGED vars
    BY <1>20, IdleKeepsEnrol DEF vars
  <1>21. QED
    BY <1>1, <1>2, <1>3, <1>4, <1>5, <1>6, <1>7, <1>8, <1>9,
       <1>10, <1>11, <1>12, <1>13, <1>14, <1>15, <1>16, <1>17, <1>18,
       <1>19, <1>20
       DEF Next, Client, System, Machine, Idles

THEOREM EnrolInvariant == Spec => []EnrolInv
  BY EnrolInit, EnrolStep, LifecycleInvariant, PressInvariant, PTL DEF Spec

\* The driver's stage count is the engine's frame count (enroll_result).
THEOREM EnrolCountsAgree == Spec => []EnrollCountMatchesEngine
  <1>1. EnrolInv => EnrollCountMatchesEngine
    BY DEF EnrolInv, EnrolSession, EnrollCountMatchesEngine
  <1>2. QED
    BY <1>1, EnrolInvariant, PTL

\* One touch contributes at most one frame to the template (PH_AWAIT_OFF).
THEOREM EnrolOneFramePerTouch == Spec => []OneFramePerTouch
  <1>1. EnrolInv => OneFramePerTouch
    BY DEF EnrolInv, Touch, OneFramePerTouch
  <1>2. QED
    BY <1>1, EnrolInvariant, PTL

\* Every variable keeps its type, the bounded counters their bounds.
THEOREM TypeCorrect == Spec => []TypeOK
  <1>1. LifecycleInv /\ PressInv /\ EnrolInv => TypeOK
    <2> SUFFICES ASSUME LifecycleInv, PressInv, EnrolInv PROVE TypeOK
      OBVIOUS
    <2>1. LifecycleTypeOK
      BY DEF LifecycleInv
    <2>2. press \in Press /\ job \in Jobs /\ frame \in Frames
      BY DEF PressInv, DataTypeOK
    <2>3. baseline.have \in BOOLEAN /\ baseline.count \in 0 .. BaselineFrames
      BY DEF PressInv, DataTypeOK
    <2>4. seen \in [prev : SUBSET Hit, fresh : BOOLEAN, stores : Nat]
      BY DEF PressInv, DataTypeOK
    <2>5. seen.stores \in 0 .. Stages
      BY <2>4, BoundsAssumption DEF EnrolInv, Touch
    <2>6. enrollCount \in 0 .. Stages /\ stored \in 0 .. Stages
      BY DEF EnrolInv, EnrolSession
    <2>7. QED
      BY <2>1, <2>2, <2>3, <2>4, <2>5, <2>6 DEF TypeOK, Press, Jobs
  <1>2. QED
    BY <1>1, LifecycleInvariant, PressInvariant, EnrolInvariant, PTL

\* enroll_result and capture_complete: an enrolment succeeds with all its
\* stages in the template, never fewer.
THEOREM EnrolmentIsComplete == Spec => TemplateComplete
  <1> DEFINE Complete ==
        outcome' = "enrolled" /\ outcome # "enrolled" =>
          stored = Stages /\ enrollCount' = Stages
  <1>1. EnrolInv /\ [Next]_vars => [Complete]_vars
    <2> SUFFICES ASSUME EnrolInv, Next, outcome' = "enrolled",
                        outcome # "enrolled"
                 PROVE  stored = Stages /\ enrollCount' = Stages
      BY DEF vars, lib
    <2>1. MatchDone
      BY OnlyMatchDoneSucceeds DEF Success
    <2>2. /\ action = "enroll" /\ pc = "matched" /\ Accepted /\ LastStage
          /\ enrollCount' = enrollCount + 1
      BY <2>1 DEF MatchDone, MatchResult, EnrollResult, Ended, Goes, Continue
    <2>3. stored = enrollCount + 1 /\ enrollCount < Stages
          /\ enrollCount \in 0 .. Stages
      BY <2>2 DEF EnrolInv, EnrolSession
    <2>4. QED
      BY <2>2, <2>3, BoundsAssumption DEF LastStage
  <1>2. Spec => [][Complete]_vars
    BY <1>1, EnrolInvariant, PTL DEF Spec
  <1>3. QED
    BY <1>2 DEF TemplateComplete

-----------------------------------------------------------------------------
(* The suspend contract.                                                    *)

\* The step is a step of SuspendContract or invisible there.
KeepsStep == [Contract!Next]_(Contract!vars)

\* Without a change of the action, of the wait's kind or of the sleep state
\* nothing is visible.
LEMMA Invisible ==
  ASSUME UNCHANGED <<action, pc, sleep>>
  PROVE  KeepsStep
  BY DEF KeepsStep, Contract!vars, Phase, Bus, Power, Quiet

\* A handler of a running machine ends it, parks it, or has it wait on.
LEMMA HandlerKeepsContract ==
  ASSUME LifecycleInv, pc \notin {"none", "held"}, UNCHANGED action,
         \/ \E r \in Outcomes : Ended(r, sleep)
         \/ Park
         \/ pc' \notin {"none", "held"} /\ UNCHANGED sleep
  PROVE  KeepsStep
  <1>1. /\ action # "none" /\ sleep \notin {"asleep", "idle"}
        /\ suspending <=> sleep = "pending"
        /\ sleep \in {"awake", "queued", "pending", "asleep", "idle"}
    BY DEF LifecycleInv, LibraryState, QuietWhileAsleep, Quiet,
           SuspendOwedIffSuspending, LifecycleTypeOK
  <1>2. Phase = "running" /\ Bus = "busy"
    BY <1>1 DEF Phase, Bus, Quiet
  <1>3. CASE \E r \in Outcomes : Ended(r, sleep)
    <2> PICK r \in Outcomes : Ended(r, sleep)
      BY <1>3
    <2>1. /\ pc' = "none"
          /\ sleep' = sleep \/ (sleep = "pending" /\ sleep' = "asleep")
      <3>1. CASE suspending
        BY <1>1, <3>1 DEF Ended
      <3>2. CASE ~suspending
        BY <3>2 DEF Ended
      <3>3. QED
        BY <3>1, <3>2
    <2>2. Phase' = "done" /\ Bus' = "quiet"
      BY <1>1, <2>1 DEF Phase, Bus, Quiet
    <2>3. Power' = Power \/ (Power = "asked" /\ Power' = "asleep")
      BY <2>1 DEF Power
    <2>4. QED
      BY <1>2, <2>2, <2>3 DEF KeepsStep, Contract!Next, Contract!End
  <1>4. CASE Park
    <2>1. pc' = "held" /\ sleep = "pending" /\ sleep' = "asleep"
      BY <1>1, <1>4 DEF Park
    <2>2. /\ Phase' = Phase /\ Bus' = "quiet"
          /\ Power = "asked" /\ Power' = "asleep"
      BY <1>1, <1>2, <2>1 DEF Phase, Bus, Quiet, Power
    <2>3. QED
      BY <2>2 DEF KeepsStep, Contract!Next, Contract!Grant
  <1>5. CASE pc' \notin {"none", "held"} /\ UNCHANGED sleep
    BY <1>1, <1>5 DEF KeepsStep, Contract!vars, Phase, Bus, Power, Quiet
  <1>6. QED
    BY <1>3, <1>4, <1>5

LEMMA LoopHeadWays ==
  ASSUME NEW flag, NEW sl, LoopHead(flag, sl)
  PROVE  \/ cancelled /\ Ended("cancelled", sl)
         \/ Park
         \/ ~cancelled /\ pc' \in {"frame", "poll"} /\ sleep' = sl
  BY DEF LoopHead, FrameState, ReinitStart, Continue

LEMMA InitFailedWays ==
  ASSUME NEW stopped \in BOOLEAN, InitFailed(stopped)
  PROVE  Park \/ \E r \in Outcomes : Ended(r, sleep)
  <1>1. {"cancelled", "error"} \subseteq Outcomes
    BY DEF Outcomes
  <1>2. QED
    BY <1>1 DEF InitFailed

LEMMA SuspendVfuncKeepsContract ==
  ASSUME LifecycleInv, sleep \in {"awake", "queued"}, action # "none",
         SuspendVfunc
  PROVE  KeepsStep
  <1>1. pc' = pc /\ action' = action
    BY DEF SuspendVfunc
  <1>2. CASE pc = "none" /\ sleep' = "asleep"
    BY <1>1, <1>2
       DEF KeepsStep, Contract!Next, Contract!Grant, Phase, Bus, Quiet, Power
  <1>3. CASE sleep' = "pending"
    BY <1>1, <1>3
       DEF KeepsStep, Contract!Next, Contract!Ask, Contract!vars, Phase, Bus,
           Quiet, Power
  <1>4. QED
    BY <1>2, <1>3 DEF SuspendVfunc

LEMMA ContractInit == Init => Contract!Init
  BY DEF Init, Contract!Init, Phase, Bus, Quiet, Power

LEMMA ContractStep == LifecycleInv /\ [Next]_vars => KeepsStep
  <1> SUFFICES ASSUME LifecycleInv, [Next]_vars PROVE KeepsStep
    OBVIOUS
  <1> USE DEF lib, machine, data, notInit
  <1>0. LifecycleTypeOK /\ ParkedIffHeld /\ LibraryState /\ QuietWhileAsleep
    BY DEF LifecycleInv
  <1>1. ASSUME StartEnroll \/ \E a \in Actions : StartMatch(a)
        PROVE  KeepsStep
    <2>1. /\ action = "none" /\ action' # "none" /\ sleep = "awake"
          /\ pc' \notin {"none", "held"} /\ sleep' = sleep
      BY ActionsAssumption, <1>1
         DEF StartEnroll, StartMatch, CanStart, ActionNames
    <2>2. QED
      BY <2>1 DEF KeepsStep, Contract!Next, Contract!Start, Phase, Bus, Quiet,
           Power
  <1>2. ASSUME NEW a \in Actions, StartWithoutCapture(a) PROVE KeepsStep
    <2>1. /\ action = "none" /\ action' # "none" /\ sleep = "awake"
          /\ UNCHANGED <<pc, sleep>>
      BY ActionsAssumption, <1>2 DEF StartWithoutCapture, CanStart, ActionNames
    <2>2. pc = "none"
      BY <1>0, <2>1 DEF LibraryState
    <2>3. QED
      BY <2>1, <2>2 DEF KeepsStep, Contract!Next, Contract!Start, Phase, Bus,
           Quiet, Power
  <1>3. CASE CancelRequest
    BY <1>3, Invisible DEF CancelRequest
  <1>4. CASE SuspendRequest
    <2>1. CASE action = "none" /\ sleep' = "idle" /\ UNCHANGED <<action, pc>>
      BY <1>4, <1>0, <2>1
         DEF SuspendRequest, LibraryState, KeepsStep, Contract!Next,
             Contract!Grant, Phase, Bus, Quiet, Power
    <2>2. CASE sleep' = "queued" /\ UNCHANGED <<action, pc>>
      BY <1>4, <2>2
         DEF SuspendRequest, SuspendVfunc, KeepsStep, Contract!Next,
             Contract!Ask, Phase, Bus, Quiet, Power
    <2>3. CASE action # "none" /\ SuspendVfunc
      BY <1>4, <2>3, SuspendVfuncKeepsContract DEF SuspendRequest
    <2>4. QED
      BY <1>4, <2>1, <2>2, <2>3 DEF SuspendRequest
  <1>5. CASE Resume
    <2>1. Power = "asleep"
      BY <1>5 DEF Resume, Power
    <2>2. CASE action # "none" /\ parked /\ LoopHead(TRUE, "awake")
      <3>1. /\ pc = "held" /\ sleep = "asleep" /\ ~suspending
            /\ action' = action
        BY <1>0, <1>5, <2>2
           DEF Resume, ParkedIffHeld, LifecycleInv, SuspendingIsHeard
      <3>2. CASE Ended("cancelled", "awake")
        BY <2>1, <2>2, <3>1, <3>2
           DEF Ended, KeepsStep, Contract!Next, Contract!Wake, Phase, Bus,
               Quiet, Power
      <3>3. CASE pc' \in {"frame", "poll"} /\ sleep' = "awake"
        BY <2>1, <2>2, <3>1, <3>3
           DEF KeepsStep, Contract!Next, Contract!Wake, Phase, Bus, Quiet,
               Power
      <3>4. ~Park
        BY <3>1 DEF Park
      <3>5. QED
        BY <2>2, <3>2, <3>3, <3>4, LoopHeadWays
    <2>3. CASE ~(action # "none" /\ parked)
      <3>1. pc = "none" /\ UNCHANGED <<action, pc>> /\ sleep' = "awake"
        BY <1>0, <1>5, <2>3
           DEF Resume, ParkedIffHeld, LibraryState, QuietWhileAsleep, Quiet
      <3>2. QED
        BY <2>1, <3>1
           DEF KeepsStep, Contract!Next, Contract!Wake, Phase, Bus, Quiet,
               Power
    <2>4. QED
      BY <1>5, <2>2, <2>3 DEF Resume
  <1>6. CASE Remove
    <2>1. CASE parked /\ Ended("removed", sleep)
      <3>1. /\ pc = "held" /\ sleep = "asleep" /\ action # "none"
            /\ pc' = "none" /\ sleep' = "asleep" /\ action' = action
        BY <1>0, <1>6, <2>1 DEF Remove, ParkedIffHeld, LibraryState, Ended
      <3>2. QED
        BY <3>1 DEF KeepsStep, Contract!Next, Contract!End, Phase, Bus, Quiet,
             Power
    <2>2. CASE ~parked
      BY <1>6, <2>2, Invisible DEF Remove
    <2>3. QED
      BY <1>6, <2>1, <2>2 DEF Remove
  <1>7. CASE LoadRun \/ MatchRun \/ PollReady
    BY <1>7, HandlerKeepsContract DEF LoadRun, MatchRun, PollReady, Continue
  <1>8. CASE LoadDone
    <2>1. {"cancelled", "invalid"} \subseteq Outcomes
      BY DEF Outcomes
    <2>2. QED
      BY <1>8, <2>1, LoopHeadWays, HandlerKeepsContract DEF LoadDone
  <1>9. CASE PollStopped \/ PollFailed \/ ReplaySilent \/ ReplayFailed
            \/ PostFailed
    <2>1. Park \/ \E r \in Outcomes : Ended(r, sleep)
      BY <1>9, InitFailedWays
         DEF PollStopped, PollFailed, ReplaySilent, ReplayFailed, PostFailed
    <2>2. QED
      BY <1>9, <2>1, HandlerKeepsContract
         DEF PollStopped, PollFailed, ReplaySilent, ReplayFailed, PostFailed
  <1>10. CASE ReplayDone
    BY <1>10, InitFailedWays, HandlerKeepsContract DEF ReplayDone, Continue
  <1>11. CASE InitDone
    <2>1. "cancelled" \in Outcomes
      BY DEF Outcomes
    <2>2. QED
      BY <1>11, <2>1, HandlerKeepsContract DEF InitDone, FrameState, Continue
  <1>12. ASSUME NEW f \in Frames, FrameArrives(f) PROVE KeepsStep
    <2>1. {"cancelled", "retry", "nomatch"} \subseteq Outcomes
      BY DEF Outcomes
    <2>2. QED
      BY <1>12, <2>1, HandlerKeepsContract
         DEF FrameArrives, Process, ProcessEnroll, ProcessMatch, Goes, Continue
  <1>13. CASE FrameFails
    <2>1. {"cancelled", "error"} \subseteq Outcomes
      BY DEF Outcomes
    <2>2. QED
      BY <1>13, <2>1, HandlerKeepsContract DEF FrameFails, ReinitStart, Continue
  <1>14. CASE MatchDone
    <2>1. {"cancelled", "enrolled", "error", "match"} \subseteq Outcomes
      BY DEF Outcomes
    <2>2. QED
      BY <1>14, <2>1, HandlerKeepsContract
         DEF MatchDone, EnrollResult, MatchResult, Goes, Continue
  <1>15. CASE TimerFires
    <2>1. "cancelled" \in Outcomes
      BY DEF Outcomes
    <2>2. QED
      BY <1>15, <2>1, LoopHeadWays, HandlerKeepsContract DEF TimerFires
  <1>16. CASE ActionReturns
    BY <1>16
       DEF ActionReturns, KeepsStep, Contract!Next, Contract!Return, Phase, Bus,
           Quiet, Power
  <1>17. CASE DeliverCancel
    <2>1. CASE parked /\ LoopHead(needsReinit, sleep)
      <3>1. /\ pc = "held" /\ sleep = "asleep" /\ cancelled /\ action # "none"
            /\ action' = action /\ ~suspending
        BY <1>0, <1>17, <2>1
           DEF DeliverCancel, ParkedIffHeld, LibraryState, LifecycleInv,
               SuspendingIsHeard
      <3>2. Ended("cancelled", sleep)
        BY <2>1, <3>1, LoopHeadWays DEF Park
      <3>3. QED
        BY <3>1, <3>2 DEF Ended, KeepsStep, Contract!Next, Contract!End, Phase,
             Bus, Quiet, Power
    <2>2. CASE ~parked
      BY <1>17, <2>2, Invisible DEF DeliverCancel
    <2>3. QED
      BY <1>17, <2>1, <2>2 DEF DeliverCancel
  <1>18. CASE DeliverSuspend
    <2>1. CASE action # "none"
      BY <1>18, <2>1, SuspendVfuncKeepsContract DEF DeliverSuspend
    <2>2. CASE action = "none"
      <3>1. /\ pc = "none" /\ pc' = "none" /\ action' = "none"
            /\ sleep = "queued" /\ sleep' = "asleep"
        BY <1>0, <1>18, <2>2 DEF DeliverSuspend, SuspendVfunc, LibraryState
      <3>2. Phase = "free" /\ Phase' = "free"
        BY <2>2, <3>1 DEF Phase
      <3>3. Bus = "quiet" /\ Bus' = "quiet"
        BY <3>1 DEF Bus, Quiet
      <3>4. Power = "asked" /\ Power' = "asleep"
        BY <3>1 DEF Power
      <3>5. QED
        BY <3>2, <3>3, <3>4 DEF KeepsStep, Contract!Next, Contract!Grant
    <2>3. QED
      BY <2>1, <2>2
  <1>19. CASE UNCHANGED vars
    BY <1>19, Invisible DEF vars
  <1>20. QED
    BY <1>1, <1>2, <1>3, <1>4, <1>5, <1>6, <1>7, <1>8, <1>9,
       <1>10, <1>11, <1>12, <1>13, <1>14, <1>15, <1>16, <1>17, <1>18,
       <1>19
       DEF Next, Client, System, Machine, Idles

\* Every behaviour of the capture is one SuspendContract allows: the device
\* sleeps only with the bus quiet, nothing starts while it sleeps, a parked
\* action goes on or ends at the wake-up.
THEOREM ImplementsContract == Spec => KeepsContract
  <1>1. Spec => [][KeepsStep]_(Contract!vars)
    BY ContractStep, LifecycleInvariant, PTL DEF Spec, KeepsStep
  <1>2. QED
    BY <1>1, ContractInit, PTL DEF Spec, KeepsContract, Contract!Spec, KeepsStep

-----------------------------------------------------------------------------
(* How long it can take                                                     *)

\* The callbacks a machine that is to stop can still wait for.
ToStop ==
  CASE pc = "matching" -> 3
    [] pc \in {"matched", "loading"} -> 2
    [] pc \in {"none", "held"} -> 0
    [] OTHER -> 1

InTransfer == pc \in {"poll", "replay", "post", "frame"}

\* The same for one that waits for a frame: a bring-up and the frame, and
\* once more if the frame may still fail.
FrameWait == IF frameRetried THEN 1 ELSE 5

ToFrame ==
  CASE pc = "frame" -> FrameWait
    [] pc = "post" -> FrameWait + 1
    [] pc = "replay" -> FrameWait + 2
    [] pc = "poll" -> FrameWait + 3
    [] OTHER -> 0

\* An action that is cancelled, or that a suspend asks to park, has ended or
\* parked after three callbacks at most: none of the handlers starts another
\* transfer first (capture_park_if_suspending, egis_check_cancelled).
StopsSoon ==
  [][(cancelled \/ suspending) /\ pc # "none" =>
       IF Machine THEN ToStop' < ToStop ELSE ToStop' <= ToStop]_vars

\* From a bring-up or a frame it is at most eight callbacks to a frame that
\* is processed, a park or the end: CAP_RECOVER is taken once (frame_retried).
FrameIsSoon ==
  [][InTransfer =>
       IF Machine THEN ToFrame' < ToFrame ELSE ToFrame' = ToFrame]_vars

LEMMA StoppedIsStopped ==
  ASSUME pc' \in {"none", "held"}
  PROVE  ToStop' = 0 /\ ToFrame' = 0
  BY DEF ToStop, ToFrame

LEMMA ToStopType ==
  ToStop \in 0 .. 3 /\ (pc \in Pcs \ {"none", "held"} => ToStop > 0)
  BY DEF ToStop, Pcs

\* Where the loop head and CAP_FRAME leave a machine that is to stop.
LEMMA StopsAtHead ==
  ASSUME NEW flag \in BOOLEAN, NEW sl, cancelled \/ suspending,
         LoopHead(flag, sl) \/ FrameState(flag, sl)
  PROVE  pc' \in {"none", "held"}
  BY DEF LoopHead, FrameState, Ended, Park

\* A bring-up that fails leaves none.
LEMMA InitFailedStops ==
  ASSUME NEW stopped, InitFailed(stopped)
  PROVE  pc' \in {"none", "held"}
  BY DEF InitFailed, Ended, Park

\* A callback of a machine that is to stop.
LEMMA StopIsNearer ==
  ASSUME LifecycleInv, cancelled \/ suspending, Machine
  PROVE  ToStop' < ToStop
  <1> USE DEF LifecycleInv, LifecycleTypeOK
  <1>1. pc \notin {"none", "held"} /\ pc \in Pcs
    BY DEF Machine, LoadRun, LoadDone, PollReady, PollStopped, PollFailed,
           ReplayDone, ReplaySilent, ReplayFailed, InitDone, PostFailed,
           FrameArrives, FrameFails, MatchRun, MatchDone, TimerFires
  <1>2. CASE pc' \in {"none", "held"}
    BY <1>1, <1>2, StoppedIsStopped, ToStopType
  <1>3. CASE LoadRun \/ MatchRun
    BY <1>3 DEF LoadRun, MatchRun, ToStop
  <1>4. CASE MatchDone
    <2>1. CASE pc' = "timer"
      BY <1>4, <2>1 DEF MatchDone, ToStop
    <2>2. QED
      BY <1>2, <1>4, <2>1
         DEF MatchDone, EnrollResult, MatchResult, Goes, Continue, Ended
  <1>5. CASE LoadDone \/ TimerFires
    <2>1. pc' \in {"none", "held"}
      BY <1>5, StopsAtHead DEF LoadDone, TimerFires, Ended
    <2>2. QED
      BY <1>2, <2>1
  <1>6. CASE PollReady \/ PollStopped \/ PollFailed
    <2>1. suspending => stop
      BY DEF SuspendingIsHeard
    <2>2. pc' \in {"none", "held"}
      BY <1>6, <2>1, InitFailedStops
         DEF PollReady, PollStopped, PollFailed, StopAsked
    <2>3. QED
      BY <1>2, <2>2
  <1>7. CASE ReplayDone \/ ReplaySilent \/ ReplayFailed
    <2>1. suspending => stop
      BY DEF SuspendingIsHeard
    <2>2. pc' \in {"none", "held"}
      BY <1>7, <2>1, InitFailedStops
         DEF ReplayDone, ReplaySilent, ReplayFailed, StopAsked
    <2>3. QED
      BY <1>2, <2>2
  <1>8. CASE InitDone \/ PostFailed
    <2>1. pc' \in {"none", "held"}
      BY <1>8, InitFailedStops, StopsAtHead DEF InitDone, PostFailed
    <2>2. QED
      BY <1>2, <2>1
  <1>9. CASE FrameFails \/ \E f \in Frames : FrameArrives(f)
    <2>1. pc' \in {"none", "held"}
      BY <1>9 DEF FrameFails, FrameArrives, Ended, Park
    <2>2. QED
      BY <1>2, <2>1
  <1>10. QED
    BY <1>3, <1>4, <1>5, <1>6, <1>7, <1>8, <1>9 DEF Machine

\* What is not a callback leaves a running machine to its wait, and does not
\* start one that is to stop.
LEMMA OthersWait ==
  ASSUME LifecycleInv, [Next]_vars, ~Machine, pc # "none"
  PROVE  /\ UNCHANGED frameRetried
         /\ pc # "held" => pc' = pc
         /\ pc = "held" /\ cancelled => pc' \in {"none", "held"}
  <1> USE DEF LifecycleInv, LifecycleTypeOK
  <1>1. action # "none" /\ (parked <=> pc = "held")
    BY DEF LibraryState, ParkedIffHeld
  <1>2. CASE UNCHANGED vars
    BY <1>2 DEF vars, machine
  <1>3. CASE Client \/ ActionReturns
    BY <1>1, <1>3
       DEF Client, StartEnroll, StartMatch, StartWithoutCapture, CanStart,
           CancelRequest, ActionReturns, machine
  <1>4. CASE SuspendRequest \/ DeliverSuspend
    BY <1>4 DEF SuspendRequest, DeliverSuspend, SuspendVfunc, machine
  <1>5. CASE DeliverCancel
    BY <1>1, <1>5, StopsAtHead DEF DeliverCancel
  <1>6. CASE Resume
    BY <1>1, <1>6, StopsAtHead DEF Resume
  <1>7. CASE Remove
    BY <1>1, <1>7 DEF Remove, Ended
  <1>8. QED
    BY <1>2, <1>3, <1>4, <1>5, <1>6, <1>7 DEF Next, System, Idles

\* Three callbacks after a cancel or a suspend the machine has ended or
\* parked.
THEOREM StopIsSoon == Spec => StopsSoon
  <1>1. LifecycleInv /\ [Next]_vars =>
          [(cancelled \/ suspending) /\ pc # "none" =>
             IF Machine THEN ToStop' < ToStop ELSE ToStop' <= ToStop]_vars
    <2> SUFFICES ASSUME LifecycleInv, [Next]_vars, cancelled \/ suspending,
                        pc # "none", ~Machine
                 PROVE  ToStop' <= ToStop
      BY StopIsNearer
    <2>1. suspending => pc # "held"
      BY DEF LifecycleInv, SuspendingIsHeard
    <2>2. CASE pc # "held"
      <3>1. ToStop' = ToStop
        BY <2>2, OthersWait DEF ToStop
      <3>2. QED
        BY <3>1, ToStopType
    <2>3. CASE pc = "held"
      BY <2>1, <2>3, OthersWait, StoppedIsStopped, ToStopType
    <2>4. QED
      BY <2>2, <2>3
  <1>2. QED
    BY <1>1, LifecycleInvariant, PTL DEF Spec, StopsSoon

\* Eight callbacks after the loop head a frame has been processed, or the
\* machine has parked or ended.
THEOREM FrameComesSoon == Spec => FrameIsSoon
  <1>1. LifecycleInv /\ Machine /\ InTransfer => ToFrame' < ToFrame
    <2> SUFFICES ASSUME LifecycleInv, Machine, InTransfer
                 PROVE  ToFrame' < ToFrame
      OBVIOUS
    <2>1. ToFrame > 0 /\ ToFrame \in Nat
      BY DEF ToFrame, FrameWait, InTransfer
    <2>2. CASE pc' \notin {"poll", "replay", "post", "frame"}
      <3>1. ToFrame' = 0
        BY <2>2 DEF ToFrame
      <3>2. QED
        BY <2>1, <3>1
    <2>3. CASE pc = "frame" /\ ~frameRetried /\ frameRetried' /\ pc' = "poll"
      BY <2>3 DEF ToFrame, FrameWait
    <2>4. CASE /\ UNCHANGED frameRetried
               /\ \/ pc = "poll" /\ pc' = "replay"
                  \/ pc = "replay" /\ pc' = "post"
                  \/ pc = "post" /\ pc' = "frame"
      BY <2>4 DEF ToFrame, FrameWait
    <2>5. CASE PollReady \/ PollStopped \/ PollFailed
      BY <2>2, <2>4, <2>5, InitFailedStops
         DEF PollReady, PollStopped, PollFailed, Continue, notInit
    <2>6. CASE ReplayDone \/ ReplaySilent \/ ReplayFailed
      BY <2>2, <2>4, <2>6, InitFailedStops
         DEF ReplayDone, ReplaySilent, ReplayFailed, Continue, notInit
    <2>7. CASE InitDone \/ PostFailed
      BY <2>2, <2>4, <2>7, InitFailedStops
         DEF InitDone, PostFailed, FrameState, Continue, Ended, Park, notInit
    <2>8. CASE \E f \in Frames : FrameArrives(f)
      BY <2>2, <2>8
         DEF FrameArrives, Process, ProcessEnroll, ProcessMatch, Goes,
             Continue, Ended, Park
    <2>9. CASE FrameFails
      BY <2>2, <2>3, <2>9
         DEF FrameFails, ReinitStart, Continue, Ended, Park
    <2>10. QED
      BY <2>5, <2>6, <2>7, <2>8, <2>9
         DEF Machine, InTransfer, LoadRun, LoadDone, MatchRun, MatchDone,
             TimerFires
  <1>2. LifecycleInv /\ [Next]_vars /\ ~Machine /\ InTransfer
          => ToFrame' = ToFrame
    BY OthersWait DEF InTransfer, ToFrame, FrameWait
  <1>3. LifecycleInv /\ [Next]_vars =>
          [InTransfer => IF Machine THEN ToFrame' < ToFrame
                         ELSE ToFrame' = ToFrame]_vars
    BY <1>1, <1>2
  <1>4. QED
    BY <1>3, LifecycleInvariant, PTL DEF Spec, FrameIsSoon

-----------------------------------------------------------------------------
(* The captures in Sessions.                                                *)

\* A step Sessions has or does not see.
SeenStep == [Device!Next]_(Device!vars)

\* What Sessions does not see.
LEMMA Unseen ==
  ASSUME UNCHANGED <<SessionPhase, needsReinit, suspending, frameRetried,
                     baseline, wedged>>
  PROVE  UNCHANGED Device!vars
  BY DEF Device!vars, Device!host, Device!flags, Device!sensor, Recorded

LEMMA UnseenStep ==
  ASSUME UNCHANGED <<action, pc, needsReinit, suspending, frameRetried,
                     baseline, wedged>>
  PROVE  SeenStep
  BY Unseen DEF SeenStep, SessionPhase

\* The ways a handler leaves its machine.
LEMMA EndedSeen ==
  ASSUME NEW r, NEW sl, Ended(r, sl), action' # "none"
  PROVE  Device!End
  BY DEF Ended, Device!End, SessionPhase

LEMMA ParkSeen ==
  ASSUME Park, action' # "none"
  PROVE  Device!Park
  BY DEF Park, Device!Park, SessionPhase

\* What is left alone when the register, the EgisDev and the calibration are.
LEMMA HostKept ==
  /\ UNCHANGED Device!host
  /\ UNCHANGED wedged => UNCHANGED Device!sensor
  /\ UNCHANGED baseline => UNCHANGED Recorded
  BY DEF Device!host, Device!sensor, Recorded, Of

\* The machine ends: a step of Sessions wherever it was.
LEMMA EndSeen ==
  ASSUME LifecycleInv, action # "none", pc # "none", UNCHANGED action,
         NEW r, NEW sl, Ended(r, sl),
         UNCHANGED <<needsReinit, frameRetried, baseline>>,
         UNCHANGED wedged \/ (pc = "replay" /\ wedged' \in BOOLEAN)
  PROVE  SeenStep
  <1>1. SessionPhase \in {"loop", "reinit", "frame", "parked"}
    BY DEF SessionPhase
  <1>2. Device!End
    BY EndedSeen
  <1>3. IF SessionPhase = "reinit" THEN Device!BringUpPart
        ELSE UNCHANGED Device!sensor
    BY HostKept DEF SessionPhase, Device!BringUpPart, Device!sensor,
       LifecycleInv, LifecycleTypeOK
  <1>4. QED
    BY <1>1, <1>2, <1>3, HostKept
       DEF SeenStep, Device!Next, Device!Capturing, Device!CaptureEnds

\* A bring-up that fails parks or ends.
LEMMA InitFailedSeen ==
  ASSUME LifecycleInv, pc \in {"poll", "replay", "post"}, UNCHANGED action,
         NEW stopped \in BOOLEAN, InitFailed(stopped),
         UNCHANGED <<frameRetried, baseline>>,
         UNCHANGED wedged \/ (pc = "replay" /\ wedged' \in BOOLEAN)
  PROVE  SeenStep
  <1>1. action # "none" /\ SessionPhase = "reinit" /\ UNCHANGED needsReinit
    BY DEF LifecycleInv, LibraryState, SessionPhase, InitFailed
  <1>2. CASE \E r \in Outcomes : Ended(r, sleep)
    BY <1>1, <1>2, EndSeen
  <1>3. CASE Park
    <2>1. Device!Park
      BY <1>1, <1>3, ParkSeen
    <2>2. Device!BringUpPart
      BY HostKept DEF Device!BringUpPart, Device!sensor, LifecycleInv,
         LifecycleTypeOK
    <2>3. QED
      BY <1>1, <2>1, <2>2, HostKept
         DEF SeenStep, Device!Next, Device!Capturing, Device!ReinitStopped
  <1>4. QED
    BY <1>2, <1>3, InitFailedWays

\* The loop head, from where Sessions has it.
LEMMA LoopHeadSeen ==
  ASSUME LifecycleInv, pc \in {"loading", "loaded", "matching", "matched",
                               "timer"},
         UNCHANGED <<action, frameRetried, baseline, wedged>>,
         LoopHead(needsReinit, sleep)
  PROVE  SeenStep
  <1>1. /\ action # "none" /\ SessionPhase = "loop"
        /\ UNCHANGED needsReinit
    BY DEF LifecycleInv, LibraryState, SessionPhase, LoopHead, FrameState,
       ReinitStart, LifecycleTypeOK
  <1>2. CASE Ended("cancelled", sleep)
    BY <1>1, <1>2, EndSeen
  <1>3. CASE Park
    <2>1. Device!Park
      BY <1>1, <1>3, ParkSeen
    <2>2. QED
      BY <1>1, <2>1, HostKept
         DEF SeenStep, Device!Next, Device!Capturing, Device!LoopHead
  <1>4. CASE ~Ended("cancelled", sleep) /\ ~Park
    <2>1. /\ ~suspending /\ UNCHANGED suspending
          /\ pc' = IF needsReinit THEN "poll" ELSE "frame"
      BY <1>4 DEF LoopHead, FrameState, ReinitStart, Continue
    <2>2. SessionPhase' = Device!Turn
      BY <1>1, <2>1 DEF SessionPhase, Device!Turn
    <2>3. QED
      BY <1>1, <2>1, <2>2, HostKept
         DEF SeenStep, Device!Next, Device!Capturing, Device!LoopHead
  <1>5. QED
    BY <1>2, <1>3, <1>4

\* egis0576_suspend.
LEMMA SuspendSeen ==
  ASSUME LifecycleInv, sleep \in {"awake", "queued"}, SuspendVfunc
  PROVE  SeenStep
  <1>1. /\ ~suspending /\ pc # "held"
        /\ action = "none" => pc = "none"
    BY DEF LifecycleInv, SuspendOwedIffSuspending, ParkedIffHeld, LibraryState
  <1>2. SessionPhase \in {"open", "done", "loop", "reinit", "frame"}
    BY <1>1 DEF SessionPhase
  <1>3. /\ UNCHANGED <<SessionPhase, frameRetried, baseline, wedged>>
        /\ needsReinit' = TRUE
    BY DEF SuspendVfunc, SessionPhase, data
  <1>4. suspending' = (pc # "none")
    BY <1>1 DEF SuspendVfunc, LifecycleInv, LifecycleTypeOK
  <1>5. suspending' = (SessionPhase \notin {"open", "done"})
    BY <1>1, <1>4 DEF SessionPhase
  <1>6. QED
    BY <1>1, <1>2, <1>3, <1>5, HostKept
       DEF SeenStep, Device!Next, Device!Capturing, Device!Suspend

\* start_capture empties the accumulator.
LEMMA StartSeen ==
  ASSUME LifecycleInv, DataTypeOK, action = "none", action' # "none",
         pc' = "loading" \/ pc' = (IF needsReinit THEN "poll" ELSE "frame"),
         UNCHANGED <<needsReinit, suspending, wedged>>, StartCapture
  PROVE  SeenStep
  <1>1. SessionPhase = "open" /\ SessionPhase' \in {"loop", Device!Turn}
    BY DEF SessionPhase, Device!Turn
  <1>2. Recorded' = [Recorded EXCEPT !.acc = {}, !.count = 0]
    <2>1. baseline'.have = baseline.have /\ baseline'.count = 0
      BY DEF DataTypeOK, StartCapture
    <2>2. Of(baseline.count > 0)' = {} /\ Of(baseline.have)' = Of(baseline.have)
      BY <2>1 DEF Of
    <2>3. Recorded' = [have |-> baseline.have, at |-> Of(baseline.have),
                       cal |-> IF baseline.have THEN Exposure ELSE -1,
                       acc |-> {}, count |-> 0]
      BY <2>1, <2>2 DEF Recorded
    <2> DEFINE emptied == [Recorded EXCEPT !.acc = {}, !.count = 0]
    <2>4. emptied = [i \in {"have", "at", "cal", "acc", "count"} |-> emptied[i]]
      BY DEF Recorded
    <2>5. Recorded'
          = [i \in {"have", "at", "cal", "acc", "count"} |-> Recorded'[i]]
      BY <2>3
    <2>6. /\ emptied.have = baseline.have /\ emptied.at = Of(baseline.have)
          /\ emptied.cal = IF baseline.have THEN Exposure ELSE -1
          /\ emptied.acc = {} /\ emptied.count = 0
      BY DEF Recorded
    <2>7. /\ Recorded'.have = baseline.have
          /\ Recorded'.at = Of(baseline.have)
          /\ Recorded'.cal = IF baseline.have THEN Exposure ELSE -1
          /\ Recorded'.acc = {} /\ Recorded'.count = 0
      BY <2>3
    <2> HIDE DEF emptied
    <2>8. Recorded' = emptied
      BY <2>4, <2>5, <2>6, <2>7
    <2>9. QED
      BY <2>8 DEF emptied
  <1>3. frameRetried' = FALSE
    BY DEF StartCapture
  <1>4. QED
    BY <1>1, <1>2, <1>3, HostKept
       DEF SeenStep, Device!Next, Device!Capturing, Device!StartCapture

\* baseline_feed feeds one frame of the exposure, or none.
LEMMA FeedSeen ==
  ASSUME DataTypeOK, DataTypeOK', NEW f, BaselineFeed(f)
  PROVE  Recorded' \in {Device!Fed, Recorded}
  <1>1. /\ baseline \in [have : BOOLEAN, count : 0 .. BaselineFrames]
        /\ BaselineFrames \in Nat
    BY BoundsAssumption DEF DataTypeOK
  <1>2. CASE UNCHANGED baseline
    BY <1>2, HostKept
  <1>3. CASE baseline' # baseline
    <2>1. /\ baseline.have = FALSE /\ baseline.count \in Nat
          /\ baseline' = [have |-> baseline.count + 1 >= BaselineFrames,
                          count |-> baseline.count + 1]
      BY <1>1, <1>3 DEF BaselineFeed
    <2>2. /\ Recorded.have = FALSE /\ Recorded.count = baseline.count
          /\ Recorded.acc \cup {Exposure} = {Exposure}
      BY <2>1 DEF Recorded, Of
    <2>3. /\ baseline'.have = (baseline.count + 1 >= BaselineFrames)
          /\ baseline'.count = baseline.count + 1
          /\ Of(baseline.count > 0)' = {Exposure}
      BY <2>1 DEF Of
    <2>4. CASE baseline.count + 1 >= BaselineFrames
      <3>1. Recorded' = [have |-> TRUE, at |-> {Exposure}, cal |-> Exposure,
                         acc |-> {Exposure}, count |-> baseline.count + 1]
        <4>1. baseline'.have = TRUE
          BY <2>3, <2>4
        <4>2. QED
          BY <2>3, <4>1 DEF Recorded, Of
      <3>2. QED
        BY <2>2, <2>4, <3>1 DEF Device!Fed
    <2>5. CASE ~(baseline.count + 1 >= BaselineFrames)
      <3>1. Recorded' = [have |-> FALSE, at |-> {}, cal |-> -1,
                         acc |-> {Exposure}, count |-> baseline.count + 1]
        <4>1. baseline'.have = FALSE
          <5>1. ~baseline'.have
            BY <2>3, <2>5, Zenon
          <5>2. baseline'.have \in BOOLEAN
            BY DEF DataTypeOK
          <5>3. QED
            BY <5>1, <5>2
        <4>2. QED
          BY <2>3, <4>1 DEF Recorded, Of
      <3>2. Device!Fed = [Recorded EXCEPT !.acc = {Exposure},
                                          !.count = baseline.count + 1]
        BY <2>2, <2>5 DEF Device!Fed
      <3>3. Recorded = [have |-> FALSE, at |-> {}, cal |-> -1,
                        acc |-> Of(baseline.count > 0),
                        count |-> baseline.count]
        BY <2>1 DEF Recorded, Of
      <3>4. QED
        BY <3>1, <3>2, <3>3
    <2>6. QED
      BY <2>4, <2>5
  <1>4. QED
    BY <1>2, <1>3

\* A frame is looked at, or finds its action cancelled or suspended.
LEMMA FrameSeen ==
  ASSUME LifecycleInv, DataTypeOK, DataTypeOK', NEW f \in Frames,
         FrameArrives(f)
  PROVE  SeenStep
  <1>1. /\ action # "none" /\ SessionPhase = "frame" /\ ~wedged
        /\ UNCHANGED <<action, needsReinit, wedged>> /\ frameRetried' = FALSE
    BY DEF FrameArrives, LifecycleInv, LibraryState, SleptIsFlagged,
           SessionPhase
  <1>2. CASE Ended("cancelled", sleep) /\ UNCHANGED baseline
    BY <1>1, <1>2, EndedSeen, HostKept
       DEF SeenStep, Device!Next, Device!Capturing, Device!FrameArrives
  <1>3. CASE Park /\ UNCHANGED baseline
    BY <1>1, <1>3, ParkSeen, HostKept
       DEF SeenStep, Device!Next, Device!Capturing, Device!FrameArrives
  <1>4. CASE ~suspending /\ Process(f)
    <2>1. Recorded' \in {Device!Fed, Recorded}
      BY <1>4, FeedSeen DEF Process
    <2>2. pc' \in {"matching", "timer", "none"} /\ suspending' = FALSE
      BY <1>4 DEF Process, ProcessEnroll, ProcessMatch, Goes, Continue, Ended,
              LifecycleInv, LifecycleTypeOK
    <2>3. SessionPhase' \in {"loop", "done"}
      BY <1>1, <2>2 DEF SessionPhase
    <2>4. UNCHANGED suspending
      BY <1>4, <2>2 DEF LifecycleInv, LifecycleTypeOK
    <2>5. QED
      BY <1>1, <1>4, <2>1, <2>3, <2>4, HostKept
         DEF SeenStep, Device!Next, Device!Capturing, Device!FrameArrives
  <1>5. QED
    BY <1>2, <1>3, <1>4 DEF FrameArrives

\* A frame that fails is answered with a bring-up, once.
LEMMA FrameFailsSeen ==
  ASSUME LifecycleInv, FrameFails
  PROVE  SeenStep
  <1>1. /\ action # "none" /\ SessionPhase = "frame"
        /\ UNCHANGED <<action, baseline, wedged>>
    BY DEF FrameFails, LifecycleInv, LibraryState, SessionPhase
  <1>2. CASE /\ UNCHANGED <<frameRetried, needsReinit>>
             /\ Ended(IF cancelled THEN "cancelled" ELSE "error", sleep)
    BY <1>1, <1>2, EndSeen DEF FrameFails
  <1>3. CASE /\ ~frameRetried /\ frameRetried' = TRUE
             /\ Park /\ UNCHANGED needsReinit
    BY <1>1, <1>3, ParkSeen, HostKept
       DEF SeenStep, Device!Next, Device!Capturing, Device!FrameFails
  <1>4. CASE /\ ~frameRetried /\ frameRetried' = TRUE
             /\ ~suspending /\ ReinitStart(sleep)
    <2>1. /\ SessionPhase' = "reinit" /\ needsReinit' = TRUE
          /\ UNCHANGED suspending
      BY <1>1, <1>4 DEF ReinitStart, Continue, SessionPhase
    <2>2. QED
      BY <1>1, <1>4, <2>1, HostKept
         DEF SeenStep, Device!Next, Device!Capturing, Device!FrameFails
  <1>5. QED
    BY <1>2, <1>3, <1>4 DEF FrameFails

\* A wake-up: of a parked machine, of an action that ended, of a free device.
LEMMA ResumeSeen ==
  ASSUME LifecycleInv, Resume
  PROVE  SeenStep
  <1>1. UNCHANGED <<action, frameRetried, baseline>>
    BY DEF Resume
  <1>2. CASE action # "none" /\ parked
    <2>1. /\ pc = "held" /\ sleep = "asleep" /\ ~suspending
          /\ SessionPhase = "parked"
      BY <1>2 DEF LifecycleInv, ParkedIffHeld, SuspendOwedIffSuspending,
                  SessionPhase
    <2>2. LoopHead(TRUE, "awake") /\ wedged' = TRUE
      BY <1>2, <2>1 DEF Resume, LifecycleInv, LifecycleTypeOK
    <2>3. /\ pc' \in {"none", "poll"} /\ needsReinit' = TRUE
          /\ suspending' = FALSE
      BY <2>1, <2>2 DEF LoopHead, Ended, Park, ReinitStart, Continue,
                        LifecycleInv, LifecycleTypeOK
    <2>4. /\ SessionPhase' \in {"done", "reinit"} /\ UNCHANGED suspending
          /\ Device!Slept
      BY <1>1, <1>2, <2>1, <2>2, <2>3
         DEF SessionPhase, Device!Slept, LifecycleInv, LifecycleTypeOK
    <2>5. QED
      BY <1>1, <2>1, <2>3, <2>4, HostKept
         DEF SeenStep, Device!Next, Device!Capturing, Device!Resume
  <1>3. CASE ~(action # "none" /\ parked)
    <2>1. /\ UNCHANGED <<SessionPhase, suspending>>
          /\ needsReinit' = (needsReinit \/ action # "none")
      BY <1>1, <1>3 DEF Resume, SessionPhase
    <2>2. CASE sleep = "idle"
      <3>1. action = "none" /\ wedged' = (wedged \/ FALSE)
        BY <2>2 DEF Resume, LifecycleInv, LibraryState
      <3>2. UNCHANGED <<needsReinit, wedged>>
        BY <2>1, <3>1 DEF LifecycleInv, LifecycleTypeOK
      <3>3. QED
        BY <1>1, <2>1, <3>2, Unseen DEF SeenStep
    <2>3. CASE sleep = "asleep"
      <3>1. pc = "none" /\ needsReinit
        BY <1>3, <2>3
           DEF LifecycleInv, LibraryState, ParkedIffHeld, QuietWhileAsleep,
               Quiet, SleptIsFlagged
      <3>2. SessionPhase = "open" \/ (SessionPhase = "done" /\ needsReinit)
        BY <3>1 DEF SessionPhase
      <3>3. UNCHANGED needsReinit /\ wedged' = TRUE
        BY <2>1, <2>3, <3>1 DEF Resume, LifecycleInv, LifecycleTypeOK
      <3>4. Device!Slept
        BY <3>3 DEF Device!Slept
      <3>5. QED
        BY <1>1, <2>1, <3>2, <3>3, <3>4, HostKept
           DEF SeenStep, Device!Next, Device!SleepIdle, Device!flags
    <2>4. QED
      BY <2>2, <2>3 DEF Resume
  <1>4. QED
    BY <1>2, <1>3

\* reinit_done, by every way on.
LEMMA InitDoneSeen ==
  ASSUME LifecycleInv, InitDone
  PROVE  SeenStep
  <1>1. /\ pc = "post" /\ action # "none" /\ SessionPhase = "reinit"
        /\ ~wedged
        /\ UNCHANGED <<action, frameRetried, baseline, wedged>>
    BY DEF InitDone, notInit, LifecycleInv, LibraryState, SleptIsFlagged,
           SessionPhase
  <1>2. /\ FrameState(suspending /\ needsReinit, sleep)
        /\ (suspending /\ needsReinit) = suspending
    BY DEF InitDone, LifecycleInv, LifecycleTypeOK, SuspendingIsHeard
  <1>3. needsReinit' = suspending /\ Device!BringUp
    BY <1>1, <1>2 DEF FrameState, Device!BringUp, Device!Known, Device!Unset,
                      Exposure
  <1>4. CASE Ended("cancelled", sleep)
    BY <1>1, <1>3, <1>4, EndedSeen, HostKept
       DEF SeenStep, Device!Next, Device!Capturing, Device!ReinitDone
  <1>5. CASE Park
    BY <1>1, <1>3, <1>5, ParkSeen, HostKept
       DEF SeenStep, Device!Next, Device!Capturing, Device!ReinitDone
  <1>6. CASE ~suspending /\ Continue("frame", sleep)
    <2>1. SessionPhase' = "frame" /\ UNCHANGED suspending
      BY <1>1, <1>6 DEF Continue, SessionPhase
    <2>2. QED
      BY <1>1, <1>3, <1>6, <2>1, HostKept
         DEF SeenStep, Device!Next, Device!Capturing, Device!ReinitDone
  <1>7. QED
    BY <1>2, <1>4, <1>5, <1>6 DEF FrameState

\* One step of the capture, by its action.
LEMMA SessionsStep ==
  LifecycleInv /\ DataTypeOK /\ DataTypeOK' /\ [Next]_vars => SeenStep
  <1> SUFFICES ASSUME LifecycleInv, DataTypeOK, DataTypeOK', [Next]_vars
               PROVE  SeenStep
    OBVIOUS
  <1> USE DEF lib, machine, data, notInit
  <1>1. ASSUME StartEnroll \/ \E a \in Actions : StartMatch(a)
        PROVE  SeenStep
    <2>1. /\ action = "none" /\ action' # "none" /\ StartCapture
          /\ UNCHANGED <<needsReinit, suspending, wedged>>
          /\ pc' = "loading" \/ pc' = (IF needsReinit THEN "poll" ELSE "frame")
      BY ActionsAssumption, <1>1
         DEF StartEnroll, StartMatch, CanStart, ActionNames
    <2>2. QED
      BY <2>1, StartSeen
  <1>2. ASSUME NEW a \in Actions, StartWithoutCapture(a) PROVE SeenStep
    <2>1. /\ action = "none" /\ action' # "none" /\ pc = "none"
          /\ UNCHANGED <<pc, suspending, needsReinit, frameRetried, baseline,
                         wedged>>
      BY ActionsAssumption, <1>2
         DEF StartWithoutCapture, CanStart, ActionNames, LifecycleInv,
             LibraryState
    <2>2. SessionPhase = "open" /\ SessionPhase' = "done"
      BY <2>1 DEF SessionPhase
    <2>3. QED
      BY <2>1, <2>2, HostKept
         DEF SeenStep, Device!Next, Device!Capturing, Device!Refused,
             Device!flags
  <1>3. CASE ActionReturns
    <2>1. /\ action # "none" /\ action' = "none" /\ pc = "none"
          /\ UNCHANGED <<pc, suspending, needsReinit, frameRetried, baseline,
                         wedged>>
      BY <1>3 DEF ActionReturns
    <2>2. SessionPhase = "done" /\ SessionPhase' = "open"
      BY <2>1 DEF SessionPhase
    <2>3. QED
      BY <2>1, <2>2, HostKept
         DEF SeenStep, Device!Next, Device!Capturing, Device!Returned,
             Device!flags
  <1>4. CASE LoadRun \/ MatchRun
    <2>1. /\ UNCHANGED <<action, needsReinit, suspending, frameRetried,
                         baseline, wedged>>
          /\ UNCHANGED SessionPhase
      BY <1>4 DEF LoadRun, MatchRun, SessionPhase
    <2>2. QED
      BY <2>1, Unseen DEF SeenStep
  <1>5. CASE LoadDone
    <2>1. /\ pc = "loaded" /\ action # "none"
          /\ UNCHANGED <<action, frameRetried, baseline, wedged>>
      BY <1>5 DEF LoadDone, LifecycleInv, LibraryState
    <2>2. CASE /\ UNCHANGED needsReinit
               /\ Ended(IF cancelled THEN "cancelled" ELSE "invalid", sleep)
      BY <2>1, <2>2, EndSeen
    <2>3. CASE LoopHead(needsReinit, sleep)
      BY <2>1, <2>3, LoopHeadSeen
    <2>4. QED
      BY <1>5, <2>2, <2>3 DEF LoadDone
  <1>6. CASE TimerFires
    BY <1>6, LoopHeadSeen DEF TimerFires
  <1>7. CASE PollReady
    <2>1. /\ pc = "poll" /\ pc' = "replay"
          /\ UNCHANGED <<action, needsReinit, suspending, frameRetried,
                         baseline, wedged>>
      BY <1>7 DEF PollReady, Continue
    <2>2. UNCHANGED SessionPhase
      BY <2>1 DEF SessionPhase
    <2>3. QED
      BY <2>1, <2>2, Unseen DEF SeenStep
  <1>8. CASE PollStopped \/ PollFailed \/ ReplaySilent \/ ReplayFailed
             \/ PostFailed
    <2>1. /\ pc \in {"poll", "replay", "post"}
          /\ InitFailed(TRUE) \/ InitFailed(FALSE)
          /\ UNCHANGED <<action, frameRetried, baseline, wedged>>
      BY <1>8 DEF PollStopped, PollFailed, ReplaySilent, ReplayFailed,
                  PostFailed
    <2>2. QED
      BY <2>1, InitFailedSeen
  <1>9. CASE ReplayDone
    <2>1. /\ pc = "replay" /\ wedged' = FALSE
          /\ UNCHANGED <<action, frameRetried, baseline>>
      BY <1>9 DEF ReplayDone
    <2>2. CASE InitFailed(TRUE)
      BY <2>1, <2>2, InitFailedSeen
    <2>3. CASE Continue("post", sleep) /\ UNCHANGED needsReinit
      <3>1. /\ SessionPhase = "reinit" /\ SessionPhase' = "reinit"
            /\ UNCHANGED suspending
        BY <2>1, <2>3 DEF Continue, SessionPhase, LifecycleInv, LibraryState
      <3>2. Device!BringUpPart
        BY <2>1 DEF Device!BringUpPart
      <3>3. QED
        BY <2>1, <2>3, <3>1, <3>2, HostKept
           DEF SeenStep, Device!Next, Device!BringUpRuns, Device!flags
    <2>4. QED
      BY <1>9, <2>2, <2>3 DEF ReplayDone
  <1>10. CASE InitDone
    BY <1>10, InitDoneSeen
  <1>11. ASSUME NEW f \in Frames, FrameArrives(f) PROVE SeenStep
    BY <1>11, FrameSeen
  <1>12. CASE FrameFails
    BY <1>12, FrameFailsSeen
  <1>13. CASE MatchDone
    <2>1. /\ pc = "matched" /\ action # "none"
          /\ UNCHANGED <<action, needsReinit, frameRetried, baseline, wedged>>
      BY <1>13 DEF MatchDone, LifecycleInv, LibraryState
    <2>2. (\E r \in Outcomes : Ended(r, sleep)) \/ Continue("timer", sleep)
      <3>1. {"cancelled", "enrolled", "error", "match"} \subseteq Outcomes
        BY DEF Outcomes
      <3>2. QED
        BY <1>13, <3>1 DEF MatchDone, EnrollResult, MatchResult, Goes
    <2>3. CASE \E r \in Outcomes : Ended(r, sleep)
      BY <2>1, <2>3, EndSeen
    <2>4. CASE Continue("timer", sleep)
      <3>1. UNCHANGED <<SessionPhase, suspending>>
        BY <2>1, <2>4 DEF Continue, SessionPhase
      <3>2. QED
        BY <2>1, <3>1, Unseen DEF SeenStep
    <2>5. QED
      BY <2>2, <2>3, <2>4
  <1>14. CASE CancelRequest
    BY <1>14, UnseenStep DEF CancelRequest
  <1>15. CASE DeliverCancel
    <2>1. UNCHANGED <<action, frameRetried, baseline, wedged>>
      BY <1>15 DEF DeliverCancel
    <2>2. CASE parked
      <3>1. /\ pc = "held" /\ action # "none" /\ cancelled /\ ~suspending
        BY <1>15, <2>2
           DEF DeliverCancel, LifecycleInv, LibraryState, ParkedIffHeld,
               SuspendOwedIffSuspending
      <3>2. Ended("cancelled", sleep) /\ UNCHANGED needsReinit
        BY <1>15, <2>2, <3>1
           DEF DeliverCancel, LoopHead, FrameState, Park, LifecycleInv,
               LifecycleTypeOK
      <3>3. QED
        BY <2>1, <3>1, <3>2, EndSeen
    <2>3. CASE ~parked
      BY <1>15, <2>1, <2>3, UnseenStep DEF DeliverCancel
    <2>4. QED
      BY <2>2, <2>3
  <1>16. CASE SuspendRequest
    <2>1. CASE SuspendVfunc /\ sleep = "awake"
      BY <2>1, SuspendSeen
    <2>2. CASE UNCHANGED <<action, machine, data, wedged>>
      BY <2>2, UnseenStep
    <2>3. QED
      BY <1>16, <2>1, <2>2 DEF SuspendRequest
  <1>17. CASE DeliverSuspend
    BY <1>17, SuspendSeen DEF DeliverSuspend
  <1>18. CASE Resume
    BY <1>18, ResumeSeen
  <1>19. CASE Remove
    <2>1. UNCHANGED <<action, needsReinit, frameRetried, baseline, wedged>>
      BY <1>19 DEF Remove
    <2>2. CASE parked
      <3>1. pc = "held" /\ action # "none" /\ Ended("removed", sleep)
        BY <1>19, <2>2 DEF Remove, LifecycleInv, LibraryState, ParkedIffHeld
      <3>2. QED
        BY <2>1, <3>1, EndSeen
    <2>3. CASE ~parked
      BY <1>19, <2>1, <2>3, UnseenStep DEF Remove
    <2>4. QED
      BY <2>2, <2>3
  <1>20. CASE UNCHANGED vars
    BY <1>20, UnseenStep DEF vars
  <1>21. QED
    BY <1>1, <1>2, <1>3, <1>4, <1>5, <1>6, <1>7, <1>8, <1>9,
       <1>10, <1>11, <1>12, <1>13, <1>14, <1>15, <1>16, <1>17, <1>18,
       <1>19, <1>20
       DEF Next, Client, System, Machine, Idles

\* Every step of a capture, and everything libfprint and the system do to it,
\* is a step Sessions has between an open and its close, or changes nothing
\* there: what the next action and the next open find is what Sessions says.
THEOREM CaptureIsInSessions == Spec => CapturesInSessions
  <1>1. LifecycleInv /\ PressInv /\ PressInv' /\ [Next]_vars
          => [Device!Next]_(Device!vars)
    BY SessionsStep DEF SeenStep, PressInv
  <1>2. QED
    BY <1>1, LifecycleInvariant, PressInvariant, PTL
       DEF Spec, CapturesInSessions
=============================================================================
