----------------------------- MODULE MCCalibrate -----------------------------
(***************************************************************************)
(* Curves of the Calibrate runs: saturated dark below a value, bright      *)
(* above it, and one or two steps in between, as measured on the reference *)
(* unit (the comment above cal_run_state).                                 *)
(***************************************************************************)
EXTENDS Calibrate

Shapes == {<<0, 87, 255>>, <<0, 88, 94>>, <<80, 90, 100>>, <<0, 200, 255>>,
           <<86, 86, 91>>, <<0, 0, 255>>}

MCUnits == Registers \X Shapes

MCCurve ==
  [u \in MCUnits |->
     [r \in Registers |-> IF r < u[1] THEN u[2][1]
                          ELSE IF r = u[1] THEN u[2][2] ELSE u[2][3]]]
=============================================================================
