---------------------------- MODULE SuspendContract ----------------------------
(***************************************************************************)
(* What a driver owes libfprint and the system while it runs an action:    *)
(* the device sleeps only with the bus quiet, stays quiet until it is      *)
(* woken or the action ends, a paused action goes on after the wake-up,    *)
(* and a sleep that was asked for is granted. Nothing is said of how the   *)
(* driver gets there; Capture is shown to implement it.                    *)
(***************************************************************************)
VARIABLES
  act,      \* free: no action; running; done: ended, its return is queued
  bus,      \* busy: a transfer, a timer or a thread of the driver is pending
  power     \* awake; asked: the system wants to sleep; asleep

vars == <<act, bus, power>>

Init == act = "free" /\ bus = "quiet" /\ power = "awake"

\* An action starts, on the bus or completed at once.
Start ==
  /\ act = "free" /\ power = "awake"
  /\ \/ act' = "running" /\ bus' = "busy"
     \/ act' = "done" /\ bus' = "quiet"
  /\ UNCHANGED power

\* The action ends, and no work of it is left; a sleep asked for may be
\* granted with that.
End ==
  /\ act = "running"
  /\ act' = "done" /\ bus' = "quiet"
  /\ power' = power \/ (power = "asked" /\ power' = "asleep")

Return == act = "done" /\ act' = "free" /\ UNCHANGED <<bus, power>>

Ask == power = "awake" /\ power' = "asked" /\ UNCHANGED <<act, bus>>

\* The sleep is granted: nothing is running, or what runs pauses.
Grant ==
  /\ power \in {"awake", "asked"}
  /\ power' = "asleep"
  /\ bus' = "quiet"
  /\ bus = "quiet" \/ power = "asked"
  /\ UNCHANGED act

\* Woken: a paused action goes on, or ends if it was cancelled meanwhile.
Wake ==
  /\ power = "asleep"
  /\ power' = "awake"
  /\ \/ act = "running" /\ UNCHANGED act /\ bus' = "busy"
     \/ act = "running" /\ act' = "done" /\ UNCHANGED bus
     \/ act # "running" /\ UNCHANGED <<act, bus>>

Next == Start \/ End \/ Return \/ Ask \/ Grant \/ Wake

Spec == Init /\ [][Next]_vars

\* A sleep asked for is granted, by whichever step gets there first.
Settle == power = "asked" /\ (Grant \/ End) /\ power' = "asleep"

FairSpec == Spec /\ WF_vars(Settle)
=============================================================================
