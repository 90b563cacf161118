---------------------------- MODULE MCSensorInit ----------------------------
(***************************************************************************)
(* Constants of the SensorInit runs: the table's shape in small (commands, *)
(* an upload of two chunks, the block write, a last command) and in full.  *)
(***************************************************************************)
EXTENDS BringUpInCapture

MCKind == [i \in 0 .. 6 |-> CASE i = 2 -> "upload"
                              [] i \in {3, 4} -> "chunk"
                              [] OTHER -> "cmd"]

MCFullKind == [i \in 0 .. 32 |-> CASE i = 15 -> "upload"
                                   [] i \in 16 .. 23 -> "chunk"
                                   [] OTHER -> "cmd"]

MCCalibrations == {-1, 0, 34}
=============================================================================
