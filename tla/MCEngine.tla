------------------------------- MODULE MCEngine -------------------------------
(***************************************************************************)
(* Frames for the Engine run.  a1, a2 and a3 are presses of one finger, a1 *)
(* and a2 in the same place; edge is one of it that comes to just under    *)
(* the accept NCC, bad a partial one, flat one whose ridge periods the     *)
(* check refuses; b is another finger, off a frame below zero everywhere,  *)
(* same a byte-identical copy of a1 to the search.                         *)
(***************************************************************************)
EXTENDS Engine

MCFrames == {"a1", "a2", "a3", "edge", "bad", "flat", "b", "off", "same"}

MCCoverage == [f \in MCFrames |-> CASE f = "bad" -> 30
                                    [] f = "edge" -> 50
                                    [] OTHER -> 72]

\* Symmetric but for the order of the pair.
Pair(x, y, S) == <<x, y>> \in S \/ <<y, x>> \in S

MCNcc == [x \in MCFrames |-> [y \in MCFrames |->
  CASE Pair(x, y, {<<"a1", "same">>}) -> 100000
    [] x = y -> 99999
    [] Pair(x, y, {<<"a1", "a2">>, <<"a2", "same">>}) -> 95000
    [] Pair(x, y, {<<"a1", "a3">>, <<"a3", "same">>}) -> 81000
    [] Pair(x, y, {<<"a1", "flat">>}) -> 92000
    [] Pair(x, y, {<<"a2", "a3">>}) -> 60000
    [] Pair(x, y, {<<"a3", "edge">>}) -> 77995
    [] x = "off" \/ y = "off" -> -5000
    [] OTHER -> 30000]]

MCNear == [x \in MCFrames |-> [y \in MCFrames |->
  x = y \/ Pair(x, y, {<<"a1", "a2">>, <<"a1", "same">>, <<"a2", "same">>})]]

MCPeriods == [x \in MCFrames |-> [y \in MCFrames |->
  IF "flat" \in {x, y}
  THEN [nblk |-> 40, mad |-> 20, corr |-> 0, spread |-> 10]
  ELSE [nblk |-> 40, mad |-> 8, corr |-> 90, spread |-> 20]]]

MCPresses == {"a1", "a3", "same", "bad"}
MCProbes == {"a1", "edge", "flat", "b"}

\* Two prints of the finger, one of another, one of an older version and one
\* whose bytes are cut.
MCPrints == {"pa", "pc", "pb", "old", "cut"}
MCDecodes == Prints \ {"old"}
MCWhole == Prints \ {"cut"}
MCTemplate == [p \in Prints |-> CASE p = "pa" -> <<"a2", "a1">>
                                    [] p = "pc" -> <<"a3">>
                                    [] p = "pb" -> <<"b", "off">>
                                    [] OTHER -> <<>>]
MCLists == {<<>>, <<"old", "pb", "pa">>, <<"pa", "cut">>,
            <<"pb", "pc", "pa">>, <<"pb", "pa", "pc", "old">>}
=============================================================================
