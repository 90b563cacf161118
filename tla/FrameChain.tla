------------------------------ MODULE FrameChain ------------------------------
(***************************************************************************)
(* A frame capture, egis_dev_frame in egis0576_proto.c: the commands of    *)
(* FRAME_PREAMBLE, each with a reply nobody looks at, GetFrame, and reads  *)
(* until the frame is full; frame after frame on one open device. A step   *)
(* is one completion.                                                      *)
(*                                                                         *)
(* Everything the sensor sends comes in order on EP IN, without a tag.     *)
(* What is waiting there is counted in units of a reply's length: first    *)
(* the strays, which are replies and what is left of an earlier image,     *)
(* then the units first .. last of the image asked for. A read that times  *)
(* out leaves what is on its way for the next read.                        *)
(***************************************************************************)
EXTENDS Integers

CONSTANTS
  Preamble,         \* the commands of FRAME_PREAMBLE: 6
  Img,              \* units of a frame, EGIS_IMG
  MaxStrays         \* bound: what the endpoint holds besides the image

ASSUME FrameAssumption == Preamble \in Nat \ {0} /\ Img \in Nat \ {0}
ASSUME StraysAssumption == MaxStrays \in Nat

WriteTimeout == 3             \* EGIS_WRITE_TIMEOUT, in 100 ms
ReadTimeout == 8              \* EGIS_READ_TIMEOUT
OutTimeout == 30              \* EGIS_OUT_TIMEOUT

VARIABLES
  pc,               \* idle, or the completion waited for: cmd_out, cmd_in,
                    \* getframe, chunk
  step, got,
  busy,             \* frame_cb # NULL
  outcome,          \* what frame_cb was last given: none, ok, short, refused
  asked,            \* the caller waits for its callback
  strays, first, last,
  \* for the properties
  good,             \* leading units of @img that are those of the image
  late,             \* what waits on the endpoint is out of step: a read gave
                    \* up on something still on its way, or the bring-up left
                    \* a reply there
  waited            \* time this frame lost in timeouts

chain == <<pc, step, got, busy, outcome, asked>>
ep == <<strays, first, last>>
vars == <<chain, ep, good, late, waited>>

Atmost(a, b) == IF a <= b THEN a ELSE b

\* What the bring-up leaves on EP IN: the sensor's answer to its upload, which
\* init_replay_out_cb does not read, and replies that came after their timeout.
LeftByBringUp == 0 .. MaxStrays

Init ==
  /\ pc = "idle" /\ step = 0 /\ got = 0 /\ busy = FALSE
  /\ outcome = "none" /\ asked = FALSE
  /\ strays \in LeftByBringUp /\ first = 1 /\ last = 0
  /\ good = 0 /\ late = (strays > 0) /\ waited = 0

Waiting == strays > 0 \/ first <= last

\* What an image leaves behind is a stray for the next one.
Leftover == Atmost(strays + (last + 1 - first), MaxStrays)

\* egis_dev_frame; a second frame before the callback is refused.
StartFrame ==
  /\ ~asked
  /\ asked' = TRUE
  /\ IF busy THEN UNCHANGED <<pc, step, got, busy, outcome, ep, waited, good>>
     ELSE /\ pc' = "cmd_out" /\ step' = 0 /\ busy' = TRUE
          /\ outcome' = "none"
          /\ strays' = Leftover /\ first' = 1 /\ last' = 0
          /\ waited' = 0 /\ good' = 0
          /\ UNCHANGED got
  /\ UNCHANGED late

\* (slip) frame_cb stays set.
FinishBusy(result) ==
  /\ pc' = "idle" /\ outcome' = result /\ asked' = FALSE
  /\ UNCHANGED <<step, busy>>

\* frame_finish
Finish(result) ==
  /\ pc' = "idle" /\ busy' = FALSE /\ outcome' = result /\ asked' = FALSE
  /\ UNCHANGED step

\* The command is out; the sensor answers it, or never will.
CmdOut ==
  /\ pc = "cmd_out"
  /\ pc' = "cmd_in"
  /\ strays' \in {strays, Atmost(strays + 1, MaxStrays)}
  /\ UNCHANGED <<step, got, busy, outcome, asked, first, last, good, late,
                 waited>>

\* frame_preamble_cb: the next command, or GetFrame.
NextCmd ==
  /\ step' = step + 1
  /\ pc' = IF step + 1 < Preamble THEN "cmd_out" ELSE "getframe"
  /\ UNCHANGED <<got, busy, outcome, asked, first, last, good>>

\* (slip) A command nobody took counts as one nobody answered.
OutUnanswered ==
  /\ pc \in {"cmd_out", "getframe"}
  /\ waited' = waited + OutTimeout
  /\ IF pc = "cmd_out" THEN NextCmd
     ELSE Finish("refused") /\ UNCHANGED <<got, first, last, good>>
  /\ UNCHANGED <<strays, late>>

\* A command the sensor does not take, with an error at once or NAKed until
\* the timeout: the chain ends.
OutFails ==
  /\ pc \in {"cmd_out", "getframe"}
  /\ waited' \in {waited, waited + OutTimeout}
  /\ Finish("refused")
  /\ UNCHANGED <<got, ep, good, late>>

CmdSilent ==
  /\ pc = "cmd_in"
  /\ waited' = waited + WriteTimeout
  /\ late' = (late \/ Waiting)
  /\ UNCHANGED strays
  /\ NextCmd

\* A reply, whosever it is.
CmdIn ==
  /\ pc = "cmd_in" /\ strays > 0
  /\ strays' \in 0 .. strays - 1
  /\ UNCHANGED <<late, waited>>
  /\ NextCmd

\* (slip) The bytes of the last frame are counted on.
RequestedGotKept ==
  /\ pc = "getframe"
  /\ pc' = "chunk"
  /\ good' = 0
  /\ first' = 1 /\ last' \in 0 .. Img
  /\ UNCHANGED <<step, got, busy, outcome, asked, strays, late, waited>>

\* frame_request_cb: GetFrame is out, and the sensor sends the image, part of
\* it, or nothing.
Requested ==
  /\ pc = "getframe"
  /\ pc' = "chunk"
  /\ got' = 0 /\ good' = 0
  /\ first' = 1 /\ last' \in 0 .. Img
  /\ UNCHANGED <<step, busy, outcome, asked, strays, late, waited>>

\* MIN (n, EGIS_IMG - got)
Taken(n) == Atmost(n, Img - got)

\* A chunk of @n units that are, or are not, those that belong there.
Chunk(n, right) ==
  /\ got' = got + Taken(n)
  /\ good' = IF right /\ good = got THEN got + Taken(n) ELSE good
  /\ IF got + Taken(n) >= Img
     THEN Finish("ok")
     ELSE UNCHANGED <<pc, step, busy, outcome, asked>>
  /\ UNCHANGED <<late, waited>>

\* frame_read_cb: strays are taken for the image.
ReadStrays ==
  /\ pc = "chunk" /\ strays > 0
  /\ \E n \in 1 .. strays :
       /\ strays' = strays - n
       /\ UNCHANGED <<first, last>>
       /\ Chunk(n, FALSE)

ReadImage ==
  /\ pc = "chunk" /\ strays = 0
  /\ \E n \in 1 .. last + 1 - first :
       /\ first' = first + n
       /\ UNCHANGED <<strays, last>>
       /\ Chunk(n, first = got + 1)

\* frame_read_cb with nothing, at once (0 bytes) or after the timeout.
ReadEmpty ==
  /\ pc = "chunk"
  /\ late' = (late \/ Waiting)
  /\ Finish(IF got >= Img THEN "ok" ELSE "short")
  /\ UNCHANGED <<got, ep, good, waited>>

ReadNothing ==
  /\ pc = "chunk"
  /\ waited' = waited + ReadTimeout
  /\ late' = (late \/ Waiting)
  /\ Finish(IF got >= Img THEN "ok" ELSE "short")
  /\ UNCHANGED <<got, ep, good>>

\* CAP_RECOVER after a failed frame: the bring-up drains EP IN.
Recover ==
  /\ ~asked /\ outcome \in {"short", "refused"}
  /\ strays' \in LeftByBringUp /\ first' = 1 /\ last' = 0
  /\ late' = (strays' > 0)
  /\ outcome' = "none"
  /\ UNCHANGED <<pc, step, got, busy, asked, good, waited>>

Machine == \/ OutFails \/ CmdOut \/ CmdSilent \/ CmdIn \/ Requested
           \/ ReadStrays \/ ReadImage \/ ReadEmpty \/ ReadNothing

Next == StartFrame \/ Machine \/ Recover

Spec == Init /\ [][Next]_vars

\* Every transfer completes or times out.
FairSpec == Spec /\ WF_vars(Machine)

-----------------------------------------------------------------------------
(* Properties                                                               *)

\* The chain's fields and the endpoint keep their ranges.
TypeOK ==
  /\ pc \in {"idle", "cmd_out", "cmd_in", "getframe", "chunk"}
  /\ step \in 0 .. Preamble
  /\ got \in 0 .. Img
  /\ busy \in BOOLEAN /\ asked \in BOOLEAN
  /\ outcome \in {"none", "ok", "short", "refused"}
  /\ strays \in 0 .. MaxStrays
  /\ first \in 1 .. Img + 1 /\ last \in 0 .. Img /\ first <= last + 1
  /\ good \in 0 .. Img /\ late \in BOOLEAN /\ waited \in Nat

\* "Capture one EGIS_IMG-byte frame into @img ... @cb gets NULL, or the error
\* ... for a short or missing frame" (egis0576_proto.h): a frame reported
\* whole is the image that was asked for, byte for byte. It does not hold:
\* README, 6.
FrameIsImage == outcome = "ok" => good = Img

\* No chunk goes past the end of the caller's buffer, whatever the endpoint
\* held; and a frame reported whole is its image as long as the bring-up left no
\* reply behind and no read gave up on something that came after all, frame
\* after frame and again from the bring-up that answers a failed one, and then
\* nothing is left over for the next.
PunctualFrameIsImage ==
  /\ got <= Img
  /\ outcome = "ok" /\ ~late => good = Img /\ ~Waiting

\* "failing on the first such transfer bounds a dead-sensor action at seconds"
\* (egis0576_proto.c): whatever mixture of silence, refusals and answers a frame
\* meets, its timeouts cost one reply to a command each and one command that
\* is never taken, 4.8 s. That is within the 5 s logind gives a suspend.
FrameLatency == waited <= Preamble * WriteTimeout + OutTimeout

\* "up to ~2.6 s inside a frame capture on a sensor that has stopped
\* answering (6 x 300 ms preamble reads + one 800 ms frame read)"
\* (egis0576_proto.h). It does not hold: README, 6.
DocumentedLatency == waited <= Preamble * WriteTimeout + ReadTimeout

\* The callback comes: no frame is refused for the one before it, and no
\* sensor keeps the chain from ending.
FrameAnswered == asked ~> ~asked
=============================================================================
