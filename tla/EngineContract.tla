---------------------------- MODULE EngineContract ----------------------------
(***************************************************************************)
(* What egis_engine.h promises of a matcher's memory, whichever            *)
(* implementation is built: a session keeps the frames egis_enroll_add     *)
(* stored and no others, the template is what it kept, and the gallery is  *)
(* all the templates of the last load or none. Codes and scores are the    *)
(* implementation's.                                                       *)
(***************************************************************************)
EXTENDS Naturals, Sequences

CONSTANTS
  Frames,
  Template      \* [Prints -> Seq(Frames)]

VARIABLES
  session,      \* whether one is open, and its frames
  template,     \* what the caller of egis_enroll_finish has, <<>> if nothing
  gallery,      \* the loaded templates
  asked         \* what the caller of egis_gallery_load gives: an input

memory == <<session, template, gallery>>

NoSession == [open |-> FALSE, frames |-> <<>>]

Init == session = NoSession /\ template = <<>> /\ gallery = <<>>

\* egis_enroll_begin. An operation may take over the memory of another: the
\* driver runs one at a time.
Begin ==
  /\ session' = [open |-> TRUE, frames |-> <<>>] /\ template' = <<>>
  /\ gallery' \in {gallery, <<>>}

\* egis_enroll_add, 1 or 2; with any other code nothing need be stored.
Add(f) ==
  /\ session.open
  /\ session' = [open |-> TRUE, frames |-> Append(session.frames, f)]
  /\ UNCHANGED <<template, gallery>>

\* egis_enroll_finish with a buffer: "the session ends with the call that
\* writes".
Finish ==
  /\ session.open /\ session.frames # <<>>
  /\ template' = session.frames /\ session' = NoSession
  /\ UNCHANGED gallery

\* egis_enroll_finish, < 0: nothing is written.
FinishNothing ==
  /\ session.open /\ session' \in {session, NoSession}
  /\ UNCHANGED <<template, gallery>>

\* egis_gallery_load, 0
Load ==
  /\ gallery' = [i \in 1 .. Len(asked) |-> Template[asked[i]]]
  /\ session' \in {session, NoSession}
  /\ UNCHANGED template

\* egis_gallery_load, < 0: "a blob is invalid (nothing is loaded)".
LoadNothing ==
  /\ gallery' = <<>> /\ session' \in {session, NoSession}
  /\ UNCHANGED template

Next ==
  \/ Begin \/ Finish \/ FinishNothing \/ Load \/ LoadNothing
  \/ \E f \in Frames : Add(f)

Spec == Init /\ [][Next]_memory
=============================================================================
