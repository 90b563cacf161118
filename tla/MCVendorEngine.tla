---------------------------- MODULE MCVendorEngine ----------------------------
(***************************************************************************)
(* Instances of VendorEngine: a press like two others that differ, and one *)
(* with too few minutiae; two prints and one that does not unpack, loaded  *)
(* alone, together and with one that does.                                 *)
(***************************************************************************)
EXTENDS VendorEngine

MCFrames == {"a", "b", "c", "bad"}
MCUsable == {"a", "b", "c"}
MCRedundant == [f \in MCFrames |->
                  IF f = "a" THEN MCUsable
                  ELSE IF f = "bad" THEN {} ELSE {"a", f}]

\* b is like a, and c is like b: c is learned only where b was.
MCLevel(f, S) ==
  IF f \in S \/ (f = "b" /\ S \cap {"a", "c"} # {}) \/ (f # "bad" /\ "b" \in S)
  THEN 1 ELSE 0

MCPrints == {"left", "right", "cut"}
MCTemplate == [p \in MCPrints |->
                 IF p = "left" THEN <<"a">> ELSE
                 IF p = "right" THEN <<"c", "c">> ELSE <<"b">>]
MCParses == {"left", "right"}
MCLists == {<<"left">>, <<"right", "left">>, <<"left", "cut">>, <<"cut">>}
=============================================================================
