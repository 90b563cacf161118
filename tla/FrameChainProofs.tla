--------------------------- MODULE FrameChainProofs ---------------------------
(***************************************************************************)
(* Proofs, for every length of the preamble and of the frame and whatever  *)
(* the endpoint holds, of the safety properties of FrameChain. The chain   *)
(* is in step with the endpoint until a read gives up on something still   *)
(* on its way: what waits there is the reply to the command sent last, or  *)
(* the rest of the image, and the buffer holds the part before it.         *)
(***************************************************************************)
EXTENDS FrameChain, TLAPS

\* The two halves of TypeOK.
Flags == busy \in BOOLEAN /\ asked \in BOOLEAN /\ late \in BOOLEAN

Ranges ==
  /\ pc \in {"idle", "cmd_out", "cmd_in", "getframe", "chunk"}
  /\ step \in 0 .. Preamble
  /\ got \in 0 .. Img
  /\ outcome \in {"none", "ok", "short", "refused"}
  /\ strays \in 0 .. MaxStrays
  /\ first \in 1 .. Img + 1 /\ last \in 0 .. Img /\ first <= last + 1
  /\ good \in 0 .. Img /\ waited \in Nat

LEMMA TypeHalves == TypeOK <=> Flags /\ Ranges
  BY Zenon DEF TypeOK, Flags, Ranges

\* The caller waits while the chain runs, and a running chain has no outcome.
CallbackOwed ==
  /\ pc = "idle" => busy = FALSE /\ asked = FALSE
  /\ pc # "idle" => busy = TRUE /\ asked = TRUE
  /\ pc # "idle" => outcome = "none"

\* Each command of the preamble has cost one reply at most, and what ends the
\* frame one more timeout: the longest is that of a command nobody takes.
TimeSpent ==
  /\ pc \in {"cmd_out", "cmd_in"} =>
       step < Preamble /\ waited <= 3 * step
  /\ pc \in {"getframe", "chunk"} => waited <= 3 * Preamble
  /\ waited <= 3 * Preamble + 30

\* What is on the endpoint belongs to the transfer under way.
InStep ==
  ~late =>
    /\ pc = "cmd_in" => strays <= 1
    /\ pc # "cmd_in" => strays = 0
    /\ pc # "chunk" => last < first
    /\ pc = "chunk" => good = got /\ first = got + 1 /\ got < Img
    /\ outcome = "ok" => good = Img

Core == Ranges /\ CallbackOwed /\ TimeSpent /\ InStep

FrameInv == Flags /\ Core

LEMMA FrameInit == Init => FrameInv
<1> SUFFICES ASSUME Init PROVE FrameInv
  OBVIOUS
<1> USE FrameAssumption, StraysAssumption
<1>1. Ranges
  BY DEF Init, LeftByBringUp, Ranges
<1>5. Flags
  <2>1. (strays > 0) \in BOOLEAN
    BY DEF Init, LeftByBringUp
  <2> QED BY <2>1, Zenon DEF Init, Flags
<1>2. CallbackOwed
  BY Zenon DEF Init, CallbackOwed
<1>4. TimeSpent
  BY DEF Init, TimeSpent
<1>3. InStep
  <2>1. ~late => ~(strays > 0)
    BY Zenon DEF Init
  <2>2. /\ pc = "idle" /\ outcome = "none" /\ strays \in Nat
        /\ first = 1 /\ last = 0
    BY DEF Init, LeftByBringUp
  <2> QED BY <2>1, <2>2 DEF InStep
<1> QED BY <1>1, <1>2, <1>3, <1>4, <1>5 DEF FrameInv, Core

\* The flags: each action sets them or leaves them.
LEMMA FlagsNext == Flags /\ [Next]_vars => Flags'
<1> SUFFICES ASSUME Flags, [Next]_vars PROVE Flags'
  OBVIOUS
<1>1. CASE UNCHANGED vars
  BY <1>1, Zenon DEF vars, chain, Flags
<1>2. CASE StartFrame
  <2>1. asked' = TRUE /\ late' = late /\ (busy' = busy \/ busy' = TRUE)
    BY <1>2, Zenon DEF StartFrame
  <2> QED BY <2>1, Zenon DEF Flags
<1>3. CASE OutFails
  BY <1>3, Zenon DEF OutFails, Finish, Flags
<1>4. CASE CmdOut
  BY <1>4, Zenon DEF CmdOut, Flags
<1>5. CASE CmdSilent
  BY <1>5, Zenon DEF CmdSilent, NextCmd, Flags
<1>6. CASE CmdIn
  BY <1>6, Zenon DEF CmdIn, NextCmd, Flags
<1>7. CASE Requested
  BY <1>7, Zenon DEF Requested, Flags
<1>8. CASE ReadStrays \/ ReadImage
  <2>1. PICK n, right : Chunk(n, right)
    BY <1>8, Zenon DEF ReadStrays, ReadImage
  <2>2. /\ late' = late
        /\ \/ busy' = busy /\ asked' = asked
           \/ busy' = FALSE /\ asked' = FALSE
    BY <2>1, Zenon DEF Chunk, Finish
  <2> QED BY <2>2, Zenon DEF Flags
<1>9. CASE ReadEmpty \/ ReadNothing
  BY <1>9, Zenon DEF ReadEmpty, ReadNothing, Finish, Flags
<1>10. CASE Recover
  <2>1. (strays' > 0) \in BOOLEAN
    BY <1>10, StraysAssumption DEF Recover, LeftByBringUp
  <2> QED BY <1>10, <2>1, Zenon DEF Recover, Flags
<1> QED
  BY <1>1, <1>2, <1>3, <1>4, <1>5, <1>6, <1>7, <1>8, <1>9, <1>10
     DEF Next, Machine

\* The endpoint never holds more than it can, whatever is left over.
LEMMA LeftoverType == Ranges => Leftover \in 0 .. MaxStrays
  BY StraysAssumption, FrameAssumption DEF Ranges, Leftover, Atmost

\* Asking for a frame: the chain starts in step if the last one ended so.
LEMMA StartStep == FrameInv /\ StartFrame => Core'
<1> SUFFICES ASSUME FrameInv, StartFrame PROVE Core'
  OBVIOUS
<1> USE FrameAssumption, StraysAssumption DEF FrameInv, Core
<1>1. /\ pc = "idle" /\ pc' = "cmd_out" /\ step' = 0 /\ got' = got
      /\ outcome' = "none" /\ strays' = Leftover /\ first' = 1 /\ last' = 0
      /\ waited' = 0 /\ good' = 0 /\ late' = late
  BY DEF StartFrame, CallbackOwed, Ranges
<1>2. busy' = TRUE /\ asked' = TRUE
  BY DEF StartFrame, CallbackOwed, Ranges
<1>3. Ranges'
  BY <1>1, <1>2, LeftoverType DEF Ranges
<1>4. CallbackOwed' /\ TimeSpent'
  BY <1>1, <1>2 DEF CallbackOwed, TimeSpent
<1>5. ~late => Leftover = 0
  BY <1>1 DEF InStep, Leftover, Atmost, Ranges
<1>6. InStep'
  BY <1>1, <1>5 DEF InStep
<1> QED BY <1>3, <1>4, <1>6

\* An image that begins, at its first unit.
LEMMA ImageBegins ==
  ASSUME NEW f, NEW l, f = 1, l \in 0 .. Img
  PROVE  f \in 1 .. Img + 1 /\ f <= l + 1
  BY FrameAssumption

\* The preamble: at most one reply is on the endpoint, and read before the
\* next command if the chain stays in step.
LEMMA PreambleStep ==
  FrameInv /\ (OutFails \/ CmdOut \/ CmdSilent \/ CmdIn \/ Requested)
    => Core'
<1> SUFFICES ASSUME FrameInv, OutFails \/ CmdOut \/ CmdSilent \/ CmdIn
                              \/ Requested
             PROVE  Core'
  OBVIOUS
<1> USE FrameAssumption, StraysAssumption DEF FrameInv, Core
<1>1. CASE OutFails
  <2>1. Ranges'
    BY <1>1 DEF OutFails, Finish, ep, OutTimeout, Ranges
  <2>2. CallbackOwed'
    BY <1>1 DEF OutFails, Finish, ep, CallbackOwed
  <2>3. TimeSpent'
    BY <1>1 DEF OutFails, Finish, ep, OutTimeout, TimeSpent, Ranges
  <2>4. InStep'
    BY <1>1 DEF OutFails, Finish, ep, InStep, Ranges
  <2> QED BY <2>1, <2>2, <2>3, <2>4
<1>2. CASE CmdOut
  <2>1. strays' \in 0 .. MaxStrays /\ (strays = 0 => strays' <= 1)
    BY <1>2 DEF CmdOut, Atmost, Ranges
  <2>2. Ranges'
    BY <1>2, <2>1 DEF CmdOut, Ranges
  <2>3. CallbackOwed' /\ TimeSpent'
    BY <1>2 DEF CmdOut, CallbackOwed, TimeSpent
  <2>4. InStep'
    BY <1>2, <2>1 DEF CmdOut, InStep
  <2> QED BY <2>2, <2>3, <2>4
<1>3. CASE CmdSilent
  <2>1. /\ step' = step + 1 /\ step' <= Preamble
        /\ waited' = waited + 3 /\ waited' <= 3 * step'
        /\ pc' \in {"cmd_out", "getframe"}
        /\ pc' = "cmd_out" => step' < Preamble
        /\ pc' = "getframe" => step' = Preamble
    BY <1>3 DEF CmdSilent, NextCmd, WriteTimeout, Ranges, TimeSpent
  <2>2. Ranges' /\ CallbackOwed'
    BY <1>3, <2>1 DEF CmdSilent, NextCmd, Ranges, CallbackOwed
  <2>3. TimeSpent'
    BY <2>1, <2>2 DEF TimeSpent, Ranges
  <2>4. ~late' => ~late /\ ~(strays > 0) /\ ~(first <= last)
    BY <1>3, Zenon DEF CmdSilent, Waiting
  <2>5. /\ pc = "cmd_in" /\ outcome' = "none" /\ strays' = strays
        /\ first' = first /\ last' = last
    BY <1>3, Zenon DEF CmdSilent, NextCmd, CallbackOwed
  <2>6. InStep'
    BY <2>1, <2>4, <2>5 DEF InStep, Ranges
  <2> QED BY <2>2, <2>3, <2>6
<1>4. CASE CmdIn
  <2>1. /\ step' = step + 1 /\ step' <= Preamble
        /\ waited' = waited /\ waited' <= 3 * step'
        /\ pc' \in {"cmd_out", "getframe"}
        /\ pc' = "cmd_out" => step' < Preamble
        /\ pc' = "getframe" => step' = Preamble
    BY <1>4 DEF CmdIn, NextCmd, Ranges, TimeSpent
  <2>2. Ranges' /\ CallbackOwed'
    BY <1>4, <2>1 DEF CmdIn, NextCmd, Ranges, CallbackOwed
  <2>3. TimeSpent'
    BY <2>1, <2>2 DEF TimeSpent, Ranges
  <2>4. InStep'
    BY <1>4, <2>1 DEF CmdIn, NextCmd, InStep, Ranges, CallbackOwed
  <2> QED BY <2>2, <2>3, <2>4
<1>5. CASE Requested
  <2>0. /\ pc' = "chunk" /\ step' = step /\ got' = 0 /\ good' = 0
        /\ first' = 1 /\ last' \in 0 .. Img /\ strays' = strays
        /\ waited' = waited /\ late' = late /\ pc = "getframe"
        /\ outcome = "none" /\ outcome' = outcome
    BY <1>5, Zenon DEF Requested, CallbackOwed
  <2>1. Ranges'
    <3>1. first' \in 1 .. Img + 1 /\ first' <= last' + 1
      BY <2>0, ImageBegins, Zenon
    <3>2. got' \in 0 .. Img /\ good' \in 0 .. Img
      BY <2>0
    <3>3. pc' \in {"idle", "cmd_out", "cmd_in", "getframe", "chunk"}
      BY <2>0
    <3> QED BY <2>0, <3>1, <3>2, <3>3, Zenon DEF Ranges, Core, FrameInv
  <2>2. CallbackOwed'
    BY <1>5 DEF Requested, CallbackOwed
  <2>3. TimeSpent'
    BY <1>5 DEF Requested, TimeSpent, Ranges
  <2>4. InStep'
    BY <2>0 DEF InStep, Ranges
  <2> QED BY <2>1, <2>2, <2>3, <2>4
<1> QED BY <1>1, <1>2, <1>3, <1>4, <1>5

\* The reads: a chunk of the image goes where it belongs if no stray came
\* before it, and the buffer is never written past its end.
LEMMA ReadStep ==
  FrameInv /\ (ReadStrays \/ ReadImage \/ ReadEmpty \/ ReadNothing)
    => Core'
<1> SUFFICES ASSUME FrameInv, ReadStrays \/ ReadImage \/ ReadEmpty
                              \/ ReadNothing
             PROVE  Core'
  OBVIOUS
<1> USE FrameAssumption, StraysAssumption DEF FrameInv, Core
<1>1. CASE ReadStrays
  <2>1. PICK n \in 1 .. strays : strays' = strays - n /\ Chunk(n, FALSE)
    BY <1>1 DEF ReadStrays
  <2>2. /\ pc = "chunk" /\ late /\ late' = late /\ waited' = waited
        /\ first' = first /\ last' = last /\ n \in Nat /\ n <= strays
    BY <1>1, <2>1 DEF ReadStrays, Chunk, InStep, Ranges
  <2>3. got + Taken(n) \in 0 .. Img
    BY <2>2 DEF Taken, Atmost, Ranges
  <2>4. Ranges'
    BY <2>1, <2>2, <2>3 DEF Chunk, Finish, Ranges
  <2>5. CallbackOwed' /\ TimeSpent'
    BY <2>1, <2>2 DEF Chunk, Finish, CallbackOwed, TimeSpent
  <2> QED BY <2>2, <2>4, <2>5 DEF InStep
<1>2. CASE ReadImage
  <2>1. PICK n \in 1 .. last + 1 - first :
               first' = first + n /\ Chunk(n, first = got + 1)
    BY <1>2 DEF ReadImage
  <2>2. /\ pc = "chunk" /\ late' = late /\ waited' = waited
        /\ strays = 0 /\ strays' = 0 /\ last' = last
        /\ n \in Nat \ {0} /\ first + n <= last + 1
    BY <1>2, <2>1 DEF ReadImage, Chunk, Ranges
  <2>3. got + Taken(n) \in 0 .. Img /\ (first = got + 1 => Taken(n) = n)
    BY <2>2 DEF Taken, Atmost, Ranges
  <2>4. Ranges'
    BY <2>1, <2>2, <2>3 DEF Chunk, Finish, Ranges
  <2>5. CallbackOwed' /\ TimeSpent'
    BY <2>1, <2>2 DEF Chunk, Finish, CallbackOwed, TimeSpent
  <2>6. InStep'
    BY <2>1, <2>2, <2>3 DEF Chunk, Finish, InStep, Ranges
  <2> QED BY <2>4, <2>5, <2>6
<1>3. CASE ReadEmpty
  <2>1. Ranges'
    BY <1>3 DEF ReadEmpty, Finish, Waiting, ep, Ranges
  <2>2. CallbackOwed'
    BY <1>3 DEF ReadEmpty, Finish, Waiting, ep, CallbackOwed
  <2>3. TimeSpent'
    BY <1>3 DEF ReadEmpty, Finish, Waiting, ep, TimeSpent, Ranges
  <2>4. InStep'
    <3>1. ~late' => ~late /\ ~(strays > 0) /\ ~(first <= last)
      BY <1>3, Zenon DEF ReadEmpty, Waiting
    <3>2. /\ pc = "chunk" /\ pc' = "idle" /\ strays' = strays
          /\ first' = first /\ last' = last /\ got' = got /\ good' = good
          /\ outcome' = IF got >= Img THEN "ok" ELSE "short"
      BY <1>3, Zenon DEF ReadEmpty, Finish, ep
    <3> QED BY <3>1, <3>2 DEF InStep, Ranges
  <2> QED BY <2>1, <2>2, <2>3, <2>4
<1>4. CASE ReadNothing
  <2>1. Ranges'
    BY <1>4 DEF ReadNothing, Finish, Waiting, ep, ReadTimeout, Ranges
  <2>2. CallbackOwed'
    BY <1>4 DEF ReadNothing, Finish, Waiting, ep, ReadTimeout, CallbackOwed
  <2>3. TimeSpent'
    BY <1>4 DEF ReadNothing, Finish, Waiting, ep, ReadTimeout, TimeSpent, Ranges
  <2>4. InStep'
    <3>1. ~late' => ~late /\ ~(strays > 0) /\ ~(first <= last)
      BY <1>4, Zenon DEF ReadNothing, Waiting
    <3>2. /\ pc = "chunk" /\ pc' = "idle" /\ strays' = strays
          /\ first' = first /\ last' = last /\ got' = got /\ good' = good
          /\ outcome' = IF got >= Img THEN "ok" ELSE "short"
      BY <1>4, Zenon DEF ReadNothing, Finish, ep
    <3> QED BY <3>1, <3>2 DEF InStep, Ranges
  <2> QED BY <2>1, <2>2, <2>3, <2>4
<1> QED BY <1>1, <1>2, <1>3, <1>4

LEMMA FrameNext == FrameInv /\ [Next]_vars => FrameInv'
<1>1. CASE UNCHANGED vars
  BY <1>1 DEF vars, chain, ep, FrameInv, Flags, Core, Ranges, CallbackOwed,
              TimeSpent, InStep
<1>2. CASE Recover /\ FrameInv
  <2> USE StraysAssumption, FrameAssumption DEF FrameInv, Core
  <2>1. Ranges'
    BY <1>2 DEF Recover, LeftByBringUp, Ranges
  <2>2. CallbackOwed' /\ TimeSpent'
    BY <1>2 DEF Recover, CallbackOwed, TimeSpent
  <2>3. InStep'
    <3>1. ~late' => ~(strays' > 0)
      BY <1>2, Zenon DEF Recover
    <3>2. /\ pc' = "idle" /\ outcome' = "none" /\ strays' \in Nat
          /\ first' = 1 /\ last' = 0
      BY <1>2 DEF Recover, LeftByBringUp, CallbackOwed
    <3> QED BY <3>1, <3>2 DEF InStep
  <2>4. Flags'
    BY <1>2, FlagsNext, Zenon DEF Next
  <2> QED BY <2>1, <2>2, <2>3, <2>4
<1> QED
  BY <1>1, <1>2, FlagsNext, StartStep, PreambleStep, ReadStep
     DEF Next, Machine, FrameInv

\* egis_dev_frame and the endpoint are in step until a read gives up.
THEOREM FrameInvariant == Spec => []FrameInv
  BY FrameInit, FrameNext, PTL DEF Spec

\* frame_read_cb never writes past the caller's EGIS_IMG bytes, for every
\* length of the frame and of the chunks it comes in.
THEOREM FrameTypeCorrect == Spec => []TypeOK
<1>1. FrameInv => TypeOK
  BY TypeHalves DEF FrameInv, Core
<1> QED BY <1>1, FrameInvariant, PTL

\* The index into the caller's buffer never passes its end; from a sensor
\* whose answers come in time, a frame reported whole is the image GetFrame
\* asked for, and leaves nothing behind.
THEOREM PunctualFrames == Spec => []PunctualFrameIsImage
<1>1. FrameInv => PunctualFrameIsImage
  BY DEF FrameInv, Core, PunctualFrameIsImage, InStep, CallbackOwed, Waiting,
         Ranges
<1> QED BY <1>1, FrameInvariant, PTL

\* Timeouts cost a frame one reply per preamble command and one command that is
\* not taken, or one read, at most: the chain ends with either.
THEOREM FrameTimeBound == Spec => []FrameLatency
<1>1. FrameInv => FrameLatency
  BY FrameAssumption
     DEF FrameInv, Core, TimeSpent, FrameLatency, WriteTimeout, OutTimeout
<1> QED BY <1>1, FrameInvariant, PTL

-----------------------------------------------------------------------------
(* How long it can take                                                     *)

\* The completions a frame can still wait for: two to a command, and at worst
\* one to a unit of the image.
Remaining ==
  CASE pc = "cmd_out" -> 2 * (Preamble - step) + Img + 1
    [] pc = "cmd_in" -> 2 * (Preamble - step) + Img
    [] pc = "getframe" -> Img + 1
    [] pc = "chunk" -> Img - got
    [] OTHER -> 0

\* Each completion of a frame brings its callback nearer, from whatever the
\* sensor sends; only another frame starts the count anew.
FrameIsBounded ==
  /\ [](Remaining \in 0 .. 2 * Preamble + Img + 1
        /\ (Remaining = 0 <=> ~asked))
  /\ [][~StartFrame =>
          IF Machine THEN Remaining' < Remaining
          ELSE Remaining' = Remaining]_vars

\* A full buffer is not read into.
BoundInv == FrameInv /\ (pc = "chunk" => got < Img)

\* A read of something: the frame ends, or has more of the image.
LEMMA ChunkIsNearer ==
  ASSUME BoundInv, pc = "chunk", NEW n \in Nat \ {0}, NEW right, Chunk(n, right)
  PROVE  /\ pc' = "chunk" => got' < Img
         /\ Remaining' < Remaining
<1> USE FrameAssumption
<1>1. got \in Nat /\ got < Img /\ Img \in Nat /\ Remaining = Img - got
  BY DEF BoundInv, FrameInv, Core, Ranges, Remaining
<1>2. CASE got + Taken(n) >= Img
  <2>1. pc' = "idle" /\ Remaining' = 0
    BY <1>2 DEF Chunk, Finish, Remaining
  <2> QED BY <1>1, <2>1
<1>3. CASE ~(got + Taken(n) >= Img)
  <2>1. Taken(n) = n \/ Taken(n) = Img - got
    BY DEF Taken, Atmost
  <2>2. pc' = "chunk" /\ got' = got + Taken(n)
    BY <1>3 DEF Chunk
  <2>3. Taken(n) \in Nat \ {0} /\ got' < Img
    BY <1>1, <1>3, <2>1, <2>2
  <2>4. Remaining' = Img - got'
    BY <2>2 DEF Remaining
  <2> QED BY <1>1, <2>2, <2>3, <2>4
<1> QED BY <1>2, <1>3

\* One completion.
LEMMA MachineIsNearer ==
  ASSUME BoundInv, Machine
  PROVE  /\ pc' = "chunk" => got' < Img
         /\ Remaining' < Remaining
<1> USE FrameAssumption
<1>1. /\ got \in 0 .. Img /\ step \in 0 .. Preamble
      /\ pc \in {"cmd_out", "cmd_in"} => step < Preamble
      /\ pc = "chunk" => got < Img
      /\ strays \in Nat /\ first \in Nat /\ last \in Nat
  BY StraysAssumption DEF BoundInv, FrameInv, Core, Ranges, TimeSpent
<1>2. CASE OutFails \/ ReadEmpty \/ ReadNothing
  <2>1. pc' = "idle" /\ pc \in {"cmd_out", "getframe", "chunk"}
    BY <1>2 DEF OutFails, ReadEmpty, ReadNothing, Finish
  <2> QED BY <1>1, <2>1 DEF Remaining
<1>3. CASE CmdOut
  BY <1>1, <1>3 DEF CmdOut, Remaining
<1>4. CASE CmdSilent \/ CmdIn
  <2>1. pc = "cmd_in" /\ NextCmd
    BY <1>4 DEF CmdSilent, CmdIn
  <2>2. CASE step + 1 < Preamble
    BY <1>1, <2>1, <2>2 DEF NextCmd, Remaining
  <2>3. CASE ~(step + 1 < Preamble)
    BY <1>1, <2>1, <2>3 DEF NextCmd, Remaining
  <2> QED BY <2>2, <2>3
<1>5. CASE Requested
  BY <1>1, <1>5 DEF Requested, Remaining
<1>6. CASE ReadStrays
  <2>1. PICK n \in 1 .. strays : Chunk(n, FALSE)
    BY <1>6 DEF ReadStrays
  <2>2. n \in Nat \ {0} /\ pc = "chunk"
    BY <1>1, <1>6, <2>1 DEF ReadStrays
  <2> QED BY <2>1, <2>2, ChunkIsNearer
<1>7. CASE ReadImage
  <2>1. PICK n \in 1 .. last + 1 - first : Chunk(n, first = got + 1)
    BY <1>7 DEF ReadImage
  <2>2. n \in Nat \ {0}
    BY <1>1, <2>1
  <2> QED BY <1>7, <2>1, <2>2, ChunkIsNearer DEF ReadImage
<1> QED BY <1>2, <1>3, <1>4, <1>5, <1>6, <1>7 DEF Machine

\* A frame's callback comes after two completions to a command and one to a
\* unit of the image, and GetFrame's, at most.
THEOREM FrameRunsOut == Spec => FrameIsBounded
<1>1. Init => BoundInv
  BY FrameInit, Zenon DEF Init, BoundInv
<1>2. Recover \/ UNCHANGED vars => UNCHANGED <<pc, step, got, asked>>
  BY DEF Recover, vars, chain
<1>3. BoundInv /\ StartFrame => pc' = "cmd_out"
  BY DEF BoundInv, FrameInv, Core, CallbackOwed, Ranges, StartFrame
<1>4. BoundInv /\ [Next]_vars => BoundInv'
  <2> SUFFICES ASSUME BoundInv, [Next]_vars PROVE pc' = "chunk" => got' < Img
    BY FrameNext DEF BoundInv
  <2> QED BY <1>2, <1>3, MachineIsNearer DEF Next, BoundInv
<1>5. BoundInv /\ [Next]_vars
        => [~StartFrame => IF Machine THEN Remaining' < Remaining
                           ELSE Remaining' = Remaining]_vars
  BY <1>2, MachineIsNearer DEF Next, Remaining
<1>6. BoundInv => /\ Remaining \in 0 .. 2 * Preamble + Img + 1
                  /\ Remaining = 0 <=> ~asked
  <2> SUFFICES ASSUME BoundInv
               PROVE  /\ Remaining \in 0 .. 2 * Preamble + Img + 1
                      /\ Remaining = 0 <=> ~asked
    OBVIOUS
  <2> USE FrameAssumption DEF BoundInv, FrameInv, Core, Ranges
  <2>1. CASE pc = "idle"
    BY <2>1 DEF Remaining, CallbackOwed
  <2>2. CASE pc \in {"cmd_out", "cmd_in"}
    <3>1. Remaining \in {2 * (Preamble - step) + Img,
                         2 * (Preamble - step) + Img + 1}
      BY <2>2 DEF Remaining
    <3>2. step < Preamble /\ asked
      BY <2>2 DEF TimeSpent, CallbackOwed
    <3> QED BY <3>1, <3>2
  <2>3. CASE pc \in {"getframe", "chunk"}
    <3>1. Remaining \in 1 .. Img + 1
      BY <2>3 DEF Remaining
    <3> QED BY <2>3, <3>1 DEF CallbackOwed
  <2> QED BY <2>1, <2>2, <2>3
<1> QED BY <1>1, <1>4, <1>5, <1>6, PTL DEF Spec, FrameIsBounded
=============================================================================
