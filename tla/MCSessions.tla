------------------------------ MODULE MCSessions ------------------------------
(***************************************************************************)
(* Three exposures are enough for the Sessions runs: the baked one, one a  *)
(* calibration settles on, and another it stops at or would settle on the  *)
(* next time. Two baseline frames make a baseline of two captures          *)
(* possible.                                                               *)
(***************************************************************************)
EXTENDS Sessions

MCExposures == {15, 32, 40}
=============================================================================
