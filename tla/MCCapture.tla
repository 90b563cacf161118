------------------------------ MODULE MCCapture ------------------------------
(***************************************************************************)
(* Constants of the Capture runs. A frame is its variance and, for the     *)
(* finger-on ones, which capture it is: two of them make a byte-identical  *)
(* re-serve and a fresh frame distinguishable.                             *)
(***************************************************************************)
EXTENDS CaptureInSessions

Frame(n, v) == [id |-> n, var |-> v]

NoFinger == Frame(0, 140)
Hover == Frame(0, 212)          \* off, but not fit for the baseline
Partial == Frame(0, 230)        \* between the two thresholds
Touch1 == Frame(1, 300)
Touch2 == Frame(2, 300)

MCFrames == {NoFinger, Hover, Partial, Touch1, Touch2}
MCFewFrames == {NoFinger, Partial, Touch1}
MCLiveFrames == {NoFinger, Touch1}
MCLiveScores == {-1, 5000}
MCScores == {-1, 4000, 5000}
=============================================================================
