--------------------------- MODULE SensorInitProofs ---------------------------
(***************************************************************************)
(* Proofs about the bring-up: for every table of records, every number of  *)
(* tries and chunks and every set of values; at the end, that Capture's    *)
(* bring-up is this one.                                                   *)
(***************************************************************************)
EXTENDS BringUpInCapture, TLAPS

Polling == {"drain", "ready_out", "ready_in", "gap"}
Exposure == {"read_out", "read_in", "reapply_out", "reapply_in", "completed"}

\* The drain and the poll have another turn while they run.
Counters ==
  /\ pc = "drain" => drains < DrainMax
  /\ pc \in Polling => tries < ReadyTries

\* The driver's flag and libfprint's count say where the machine is.
Section ==
  /\ inCritical <=> Replaying
  /\ critical = IF Replaying THEN 1 ELSE 0

\* How much of the table the sensor has accepted.
Progress ==
  /\ pc \in Polling \cup {"reset"} => fed = 0
  /\ Replaying => record < RecordCount
  /\ pc = "replay_out" => fed = record
  /\ pc = "replay_in" => fed = record + 1
  /\ pc \in Exposure => fed = RecordCount
  /\ pc = "failed" /\ fed \in 1 .. RecordCount - 1 => missed \/ refused

\* Where record r is with k chunks of an upload still to send.
Position(r, k) ==
  IF k = 0 THEN Kind[r] # "chunk"
  ELSE \E u \in 0 .. RecordCount - 1 : /\ Kind[u] = "upload"
                                       /\ r = u + Chunks - k + 1

\* The driver counts the chunks as the sensor does.
Upload ==
  /\ pc \in Polling \cup {"reset"} \cup Exposure => expects = 0
  /\ pc = "replay_out" => expects = inUpload /\ Position(record, inUpload)
  /\ pc = "replay_in" => expects = 0 /\ inUpload = 0 /\ Kind[record] = "cmd"

\* Where the machine can be after a timeout with a cancel or stop pending.
Latency ==
  \/ since = -1
  \/ since = 0 /\ StopAsked /\ pc \in {"gap", "failed", "completed"}
  \/ since = 1 /\ StopAsked
       /\ pc \in {"reapply_out", "reapply_in", "failed", "completed"}

\* The exposure is only written if there is one to write.
Reapply ==
  pc \in {"reapply_out", "reapply_in"} => calibrated \in RegValues

BringUpInv ==
  /\ TypeOK
  /\ Counters
  /\ Section
  /\ Progress
  /\ Upload
  /\ Latency
  /\ Reapply

-----------------------------------------------------------------------------
(* The table                                                                *)

\* After an upload come its chunks: the first of them has all still to send.
LEMMA UploadOpens ==
  ASSUME NEW r \in 0 .. RecordCount - 1, Kind[r] = "upload"
  PROVE  /\ r + 1 < RecordCount
         /\ Position(r + 1, Chunks)
  <1>1. r + 1 < RecordCount
    BY CountsAssumption, RecordsAssumption
  <1>2. Chunks # 0 /\ r + 1 = r + Chunks - Chunks + 1
    BY CountsAssumption
  <1>3. QED
    BY <1>1, <1>2 DEF Position

\* A record inside an upload is a chunk.
LEMMA InsideIsChunk ==
  ASSUME NEW r \in 0 .. RecordCount - 1, NEW k \in 1 .. Chunks, Position(r, k)
  PROVE  Kind[r] = "chunk"
  <1>1. PICK u \in 0 .. RecordCount - 1 : /\ Kind[u] = "upload"
                                          /\ r = u + Chunks - k + 1
    BY DEF Position
  <1>2. Chunks - k + 1 \in 1 .. Chunks
    BY CountsAssumption
  <1>3. Kind[u + (Chunks - k + 1)] = "chunk"
    BY <1>1, <1>2, RecordsAssumption
  <1>4. u + (Chunks - k + 1) = r
    BY <1>1, <1>2, CountsAssumption
  <1>5. QED
    BY <1>3, <1>4

\* A chunk other than the last is followed by the next one, the last by
\* something else.
LEMMA ChunkGoesOn ==
  ASSUME NEW r \in 0 .. RecordCount - 1, NEW k \in 1 .. Chunks,
         Position(r, k), r + 1 < RecordCount
  PROVE  Position(r + 1, k - 1)
  <1>1. PICK u \in 0 .. RecordCount - 1 : /\ Kind[u] = "upload"
                                          /\ r = u + Chunks - k + 1
    BY DEF Position
  <1>2. CASE k # 1
    <2>1. r + 1 = u + Chunks - (k - 1) + 1 /\ k - 1 # 0
      BY <1>1, <1>2, CountsAssumption
    <2>2. QED
      BY <1>1, <2>1 DEF Position
  <1>3. CASE k = 1
    <2> SUFFICES ASSUME Kind[r + 1] = "chunk" PROVE FALSE
      BY <1>3 DEF Position
    <2>1. PICK w \in 0 .. RecordCount - 1 :
            Kind[w] = "upload" /\ w < r + 1 /\ r + 1 <= w + Chunks
      BY RecordsAssumption, CountsAssumption
    <2>2. r = u + Chunks
      BY <1>1, <1>3, CountsAssumption
    <2>3. CASE w < u
      <3>1. u - w \in 1 .. Chunks /\ w + (u - w) = u
        BY <2>1, <2>2, <2>3, CountsAssumption
      <3>2. Kind[w + (u - w)] = "chunk"
        BY <2>1, <3>1, RecordsAssumption
      <3>3. QED
        BY <1>1, <3>1, <3>2
    <2>4. CASE w > u
      <3>1. w - u \in 1 .. Chunks /\ u + (w - u) = w
        BY <2>1, <2>2, <2>4, CountsAssumption
      <3>2. Kind[u + (w - u)] = "chunk"
        BY <1>1, <3>1, RecordsAssumption
      <3>3. QED
        BY <2>1, <3>1, <3>2
    <2>5. CASE w = u
      BY <2>1, <2>2, <2>5, CountsAssumption
    <2>6. QED
      BY <2>3, <2>4, <2>5
  <1>4. QED
    BY <1>2, <1>3

\* A command is followed by no chunk.
LEMMA CommandIsFollowed ==
  ASSUME NEW r \in 0 .. RecordCount - 1, Kind[r] = "cmd",
         r + 1 < RecordCount
  PROVE  Position(r + 1, 0)
  <1> SUFFICES ASSUME Kind[r + 1] = "chunk" PROVE FALSE
    BY DEF Position
  <1>1. PICK w \in 0 .. RecordCount - 1 :
          Kind[w] = "upload" /\ w < r + 1 /\ r + 1 <= w + Chunks
    BY RecordsAssumption, CountsAssumption
  <1>2. w # r
    BY <1>1
  <1>3. r - w \in 1 .. Chunks /\ w + (r - w) = r
    BY <1>1, <1>2, CountsAssumption
  <1>4. Kind[w + (r - w)] = "chunk"
    BY <1>1, <1>3, RecordsAssumption
  <1>5. QED
    BY <1>3, <1>4

\* The table does not begin with a chunk.
LEMMA TableBegins == Position(0, 0)
  <1>1. 0 \in 0 .. RecordCount - 1
    BY CountsAssumption
  <1>2. QED
    BY <1>1, RecordsAssumption DEF Position

\* An upload does not end the table with chunks missing.
LEMMA ChunkIsNotLast ==
  ASSUME NEW r \in 0 .. RecordCount - 1, NEW k \in 2 .. Chunks, Position(r, k)
  PROVE  r + 1 < RecordCount
  <1>1. PICK u \in 0 .. RecordCount - 1 : /\ Kind[u] = "upload"
                                          /\ r = u + Chunks - k + 1
    BY DEF Position
  <1>2. u + Chunks < RecordCount
    <2>1. Chunks \in 1 .. Chunks
      BY CountsAssumption
    <2>2. QED
      BY <1>1, <2>1, RecordsAssumption
  <1>3. QED
    BY <1>1, <1>2, CountsAssumption
-----------------------------------------------------------------------------
(* The invariant                                                            *)

LEMMA InitHolds == Init => BringUpInv
  <1> SUFFICES ASSUME Init PROVE BringUpInv
    OBVIOUS
  <1>1. TypeOK
    <2>1. stale \in Nat /\ 0 \in 0 .. MaxLate
      BY CountsAssumption DEF Init
    <2>2. /\ 0 \in 0 .. DrainMax /\ 0 \in 0 .. ReadyTries
          /\ 0 \in 0 .. RecordCount /\ 0 \in 0 .. Chunks
          /\ -1 \in -1 .. SinceMax /\ 0 \in 0 .. WaitedMax /\ 0 \in 0 .. 1
      BY CountsAssumption DEF SinceMax, WaitedMax
    <2>3. pc \in Pcs
      BY DEF Init, Pcs
    <2>4. QED
      BY <2>1, <2>2, <2>3 DEF Init, TypeOK
  <1>2. Counters /\ Section /\ Progress /\ Latency /\ Reapply
    BY CountsAssumption
       DEF Init, Counters, Section, Progress, Latency, Reapply, Polling,
           Exposure, Replaying
  <1>3. Upload
    BY DEF Init, Upload, Polling, Exposure
  <1>4. QED
    BY <1>1, <1>2, <1>3 DEF BringUpInv

\* What an IN transfer leaves on the pipe.
LEMMA ReceiveTypes ==
  ASSUME TypeOK, NEW v, NEW timeout \in BOOLEAN, NEW answers,
         Receive(v, timeout, answers)
  PROVE  stale' \in Nat /\ owed' \in 0 .. MaxLate /\ (timeout => v = -1)
  BY CountsAssumption DEF TypeOK, Receive, pipe

\* The counters of a completion keep their bounds.
LEMMA TrackTypes ==
  ASSUME TypeOK, NEW timeout \in BOOLEAN, Track(timeout)
  PROVE  /\ missed' \in BOOLEAN /\ refused' = refused
         /\ missed' = (missed \/ timeout)
         /\ since' \in -1 .. SinceMax /\ waited' \in 0 .. WaitedMax
  BY DEF TypeOK, Track, SinceMax, WaitedMax

\* Latency, and nothing sent: the count stands, or starts.
LEMMA TrackWaits ==
  ASSUME TypeOK, NEW timeout \in BOOLEAN, Track(timeout), pc' \notin Outs
  PROVE  since' = IF since = -1 /\ timeout /\ StopAsked THEN 0 ELSE since
  BY DEF TypeOK, Track, SinceMax

\* Something sent: a count that runs goes up.
LEMMA TrackSends ==
  ASSUME TypeOK, NEW timeout \in BOOLEAN, Track(timeout), since = -1
  PROVE  since' \in -1 .. 1 /\ (~(timeout /\ StopAsked) => since' = -1)
         /\ (since' = 1 => pc' \in Outs)
         /\ (since' = 0 => pc' \notin Outs)
  BY DEF TypeOK, Track, SinceMax

\* Leaving the replay closes the critical section.
LEMMA LeaveLeaves ==
  ASSUME Section, Replaying, Leave
  PROVE  inCritical' = FALSE /\ critical' = 0
  <1>1. inCritical /\ critical = 1
    BY DEF Section
  <1>2. QED
    BY <1>1 DEF Leave

LEMMA DrainStep == BringUpInv /\ Drain => BringUpInv'
  <1> SUFFICES ASSUME BringUpInv, Drain PROVE BringUpInv'
    OBVIOUS
  <1>1. TypeOK /\ pc = "drain" /\ Track(FALSE) /\ since = -1
    BY DEF BringUpInv, Drain, Latency
  <1>2. since' = -1 /\ missed' = missed /\ waited' \in 0 .. WaitedMax
        /\ refused' = refused
    BY <1>1, TrackTypes, TrackSends DEF TypeOK
  <1>3. QED
    BY <1>1, <1>2, CountsAssumption
       DEF marks, BringUpInv, Drain, TypeOK, Counters, Section, Progress,
           Upload, Latency, Reapply, Polling, Exposure, Replaying, Pcs, Outs,
           Ins, Ends,
           SinceMax, EnterReady, Fail, DrainsOn, args, library, sensor,
           StopAsked

LEMMA OutAcceptedStep == BringUpInv /\ OutAccepted => BringUpInv'
  <1> SUFFICES ASSUME BringUpInv, OutAccepted PROVE BringUpInv'
    OBVIOUS
  <1>1. /\ TypeOK /\ Track(FALSE)
        /\ pc \in {"ready_out", "read_out", "reapply_out"}
        /\ pc = "ready_out" => pc' = "ready_in"
        /\ pc = "read_out" => pc' = "read_in"
        /\ pc = "reapply_out" => pc' = "reapply_in"
    BY DEF BringUpInv, OutAccepted, Outs
  <1>2. since' = since /\ missed' = missed /\ refused' = refused
        /\ waited' \in 0 .. WaitedMax
    BY <1>1, TrackTypes, TrackWaits DEF TypeOK, Outs
  <1>3. TypeOK'
    BY <1>1, <1>2
       DEF BringUpInv, OutAccepted, TypeOK, Reapply, Pcs, Ins, args, machine,
           library, pipe
  <1>4. Counters' /\ Section' /\ Progress' /\ Upload'
    BY <1>1, <1>2
       DEF BringUpInv, OutAccepted, Counters, Section, Progress, Upload,
           Polling, Exposure, Replaying, machine, library
  <1>5. Latency' /\ Reapply'
    BY <1>1, <1>2
       DEF BringUpInv, OutAccepted, Latency, Reapply, StopAsked, library, args
  <1>6. QED
    BY <1>3, <1>4, <1>5 DEF BringUpInv

LEMMA OutRefusedStep == BringUpInv /\ OutRefused => BringUpInv'
  <1> SUFFICES ASSUME BringUpInv, OutRefused PROVE BringUpInv'
    OBVIOUS
  <1>1. /\ TypeOK /\ pc \in Outs /\ pc' = "failed" /\ error' = "usb"
        /\ refused' = TRUE
    BY DEF BringUpInv, OutRefused, Fail
  <1>0. inCritical' = FALSE /\ critical' = 0
    <2>1. CASE pc = "replay_out"
      <3>1. Leave
        BY <2>1 DEF OutRefused
      <3>2. QED
        BY <2>1, <3>1, LeaveLeaves DEF BringUpInv, Replaying
    <2>2. CASE pc # "replay_out"
      BY <1>1, <2>2 DEF BringUpInv, OutRefused, Section, Replaying, Outs, TypeOK
    <2>3. QED
      BY <2>1, <2>2
  <1>2. TypeOK'
    <2>1. /\ UNCHANGED <<args, drains, tries, record, inUpload, dcC, library>>
          /\ UNCHANGED <<sensor, pipe, missed, since, waited, marks>>
      BY DEF OutRefused
    <2>2. pc' \in Pcs /\ critical' \in 0 .. 1
      BY <1>0, <1>1 DEF Pcs, Ends
    <2>3. inCritical' \in BOOLEAN
      BY <1>0
    <2>4. QED
      BY <1>1, <2>1, <2>2, <2>3 DEF marks, TypeOK, args, library, sensor, pipe
  <1>3. QED
    BY <1>0, <1>1, <1>2
       DEF BringUpInv, OutRefused, Counters, Section, Progress, Upload, Latency,
           Reapply, Polling, Exposure, Replaying, StopAsked, library, args,
           sensor, Outs

LEMMA GapOverStep == BringUpInv /\ GapOver => BringUpInv'
  <1> SUFFICES ASSUME BringUpInv, GapOver PROVE BringUpInv'
    OBVIOUS
  <1>1. /\ TypeOK /\ pc = "gap" /\ Track(FALSE)
        /\ \/ StopAsked /\ pc' = "failed" /\ error' = "cancelled"
           \/ ~StopAsked /\ pc' = "ready_out" /\ error' = error
    BY DEF BringUpInv, GapOver, EnterReady, Fail
  <1>2. missed' = missed /\ refused' = refused /\ waited' \in 0 .. WaitedMax
    BY <1>1, TrackTypes DEF TypeOK
  <1>3. since' = since /\ (~StopAsked => since = -1)
    <2>1. CASE since = -1
      BY <1>1, <2>1, TrackSends
    <2>2. CASE since # -1
      BY <1>1, <2>2, TrackWaits DEF BringUpInv, Latency, Outs
    <2>3. QED
      BY <2>1, <2>2
  <1>4. TypeOK'
    BY <1>1, <1>2, <1>3
       DEF marks, GapOver, TypeOK, Pcs, Outs, Ends, args, machine, library,
           pipe, sensor
  <1>5. Counters' /\ Section' /\ Progress' /\ Upload' /\ Reapply'
    BY <1>1, <1>2
       DEF BringUpInv, GapOver, Counters, Section, Progress, Upload, Reapply,
           Polling, Exposure, Replaying, machine, library, sensor
  <1>6. Latency'
    BY <1>1, <1>3 DEF BringUpInv, GapOver, Latency, StopAsked, library
  <1>7. QED
    BY <1>4, <1>5, <1>6 DEF BringUpInv

LEMMA ResetDoneStep == BringUpInv /\ ResetDone => BringUpInv'
  <1> SUFFICES ASSUME BringUpInv, ResetDone PROVE BringUpInv'
    OBVIOUS
  <1>1. /\ TypeOK /\ pc = "reset" /\ pc' = "failed" /\ error' = "proto"
        /\ Track(FALSE) /\ since = -1
    BY DEF BringUpInv, ResetDone, Fail, Latency
  <1>2. /\ since' = -1 /\ missed' = missed /\ refused' = refused
        /\ waited' \in 0 .. WaitedMax
    BY <1>1, TrackTypes, TrackSends DEF TypeOK
  <1>3. TypeOK'
    BY <1>1, <1>2
       DEF marks, ResetDone, TypeOK, Pcs, Ends, args, machine, library, pipe,
           sensor
  <1>4. QED
    BY <1>1, <1>2, <1>3
       DEF BringUpInv, ResetDone, Counters, Section, Progress, Upload, Latency,
           Reapply, Polling, Exposure, Replaying, machine, sensor

LEMMA ReadyInStep == BringUpInv /\ ReadyIn => BringUpInv'
  <1> SUFFICES ASSUME BringUpInv, ReadyIn PROVE BringUpInv'
    OBVIOUS
  <1>1. PICK v \in Bytes, timeout \in BOOLEAN :
          /\ Receive(v, timeout, Bytes)
          /\ \/ v = ReadyValue /\ EnterReplay /\ UNCHANGED tries
             \/ /\ v # ReadyValue /\ tries' = tries + 1
                /\ IF TriesLeft THEN pc' = "gap" /\ UNCHANGED error
                                ELSE EnterNotReady
                /\ UNCHANGED <<critical, inCritical, record, inUpload, fed>>
          /\ Track(timeout)
    BY DEF ReadyIn
  <1>2. /\ TypeOK /\ pc = "ready_in" /\ since = -1 /\ ~Replaying
        /\ fed = 0 /\ expects = 0 /\ tries < ReadyTries
        /\ inCritical = FALSE /\ critical = 0
    BY DEF BringUpInv, ReadyIn, Latency, Counters, Section, Progress, Upload,
           Replaying, Polling, TypeOK
  <1>3. /\ stale' \in Nat /\ owed' \in 0 .. MaxLate
        /\ waited' \in 0 .. WaitedMax
        /\ missed' \in BOOLEAN /\ refused' = refused
        /\ ~timeout \/ v = -1
    BY <1>1, <1>2, TrackTypes, ReceiveTypes
  <1>4. /\ since' \in -1 .. 1 /\ (~(timeout /\ StopAsked) => since' = -1)
        /\ (since' = 1 => pc' \in Outs)
        /\ (since' = 0 => pc' \notin Outs)
    BY <1>1, <1>2, TrackSends
  <1>5. /\ UNCHANGED <<args, drains, dcC, library, took, expects, reg, marks>>
        /\ StopAsked' = StopAsked
    BY DEF ReadyIn, StopAsked, library
  <1>6. CASE v = ReadyValue /\ EnterReplay /\ UNCHANGED tries
    <2>1. since' = -1
      BY <1>3, <1>4, <1>6, ValuesAssumption
    <2>2. CASE StopAsked
      <3>1. /\ pc' = "failed" /\ error' = "cancelled"
            /\ UNCHANGED <<critical, inCritical, record, inUpload, fed>>
        BY <1>6, <2>2 DEF EnterReplay, Fail
      <3>2. TypeOK'
        BY <1>2, <1>3, <1>5, <1>6, <2>1, <3>1
           DEF marks, TypeOK, Pcs, Ends, args, library, SinceMax
      <3>3. QED
        BY <1>2, <1>5, <2>1, <3>1, <3>2
           DEF BringUpInv, Counters, Section, Progress, Upload, Latency,
               Reapply, Polling, Exposure, Replaying
    <2>3. CASE ~StopAsked
      <3>1. /\ pc' = "replay_out" /\ error' = error
            /\ critical' = 1 /\ inCritical' = TRUE
            /\ record' = 0 /\ inUpload' = 0 /\ fed' = 0
        BY <1>2, <1>6, <2>3 DEF EnterReplay
      <3>2. TypeOK'
        BY <1>2, <1>3, <1>5, <1>6, <2>1, <3>1, CountsAssumption
           DEF marks, TypeOK, Pcs, Outs, args, library, SinceMax
      <3>3. Upload'
        BY <1>2, <1>5, <3>1, TableBegins DEF Upload, Polling, Exposure
      <3>4. QED
        BY <1>2, <1>5, <2>1, <3>1, <3>2, <3>3, CountsAssumption
           DEF BringUpInv, Counters, Section, Progress, Latency, Reapply,
               Polling, Exposure, Replaying
    <2>4. QED
      BY <2>2, <2>3
  <1>7. CASE /\ tries' = tries + 1
             /\ IF TriesLeft THEN pc' = "gap" /\ UNCHANGED error
                             ELSE EnterNotReady
             /\ UNCHANGED <<critical, inCritical, record, inUpload, fed>>
    <2>1. /\ pc' \in {"gap", "reset", "failed"}
          /\ pc' = "gap" => tries' < ReadyTries
          /\ pc' = "reset" => ~StopAsked
          /\ error' \in {"none", "cancelled", "proto", "usb"}
          /\ tries' \in 0 .. ReadyTries
      BY <1>2, <1>7, CountsAssumption
         DEF TriesLeft, EnterNotReady, Fail, TypeOK
    <2>2. since' \in {-1, 0} /\ (since' = 0 => StopAsked)
      BY <1>4, <2>1 DEF Outs
    <2>3. TypeOK'
      BY <1>2, <1>3, <1>5, <1>7, <2>1, <2>2
         DEF marks, TypeOK, Pcs, Ends, args, library, SinceMax
    <2>4. Latency'
      BY <1>5, <2>1, <2>2 DEF Latency
    <2>5. Counters' /\ Section' /\ Progress' /\ Upload' /\ Reapply'
      BY <1>2, <1>5, <1>7, <2>1
         DEF Counters, Section, Progress, Upload, Reapply, Polling, Exposure,
             Replaying
    <2>6. QED
      BY <2>3, <2>4, <2>5 DEF BringUpInv
  <1>8. QED
    BY <1>1, <1>6, <1>7

\* init_replay_advance: the next record, or the end of the replay.
LEMMA AdvanceWays ==
  ASSUME BringUpInv, Replaying, Advance
  PROVE  /\ record' = record + 1
         /\ \/ /\ record + 1 < RecordCount /\ pc' = "replay_out"
               /\ UNCHANGED <<error, critical, inCritical>>
            \/ /\ record + 1 = RecordCount
               /\ inCritical' = FALSE /\ critical' = 0
               /\ \/ StopAsked /\ pc' = "failed" /\ error' = "cancelled"
                  \/ ~StopAsked /\ pc' = "read_out" /\ error' = error
  <1>1. record + 1 <= RecordCount /\ record \in Nat
    BY CountsAssumption DEF BringUpInv, Progress, TypeOK
  <1>2. CASE record + 1 < RecordCount
    BY <1>2 DEF Advance
  <1>3. CASE record + 1 = RecordCount
    <2>1. Leave /\ EnterReadDcC /\ record' = record + 1
      BY <1>3, CountsAssumption DEF Advance
    <2>2. inCritical' = FALSE /\ critical' = 0
      BY <2>1, LeaveLeaves DEF BringUpInv
    <2>3. QED
      BY <1>3, <2>1, <2>2 DEF EnterReadDcC, Fail
  <1>4. record + 1 < RecordCount \/ record + 1 = RecordCount
    BY <1>1, CountsAssumption
  <1>5. record' = record + 1
    BY DEF Advance
  <1>6. QED
    BY <1>2, <1>3, <1>4, <1>5

LEMMA AdvanceTypes ==
  ASSUME BringUpInv, Replaying, Advance, record \in 0 .. RecordCount - 1
  PROVE  /\ record' \in 0 .. RecordCount
         /\ pc' \in Pcs /\ critical' \in 0 .. 1 /\ inCritical' \in BOOLEAN
         /\ error' \in {"none", "cancelled", "proto", "usb"}
  <1>1. /\ critical \in 0 .. 1 /\ inCritical \in BOOLEAN
        /\ error \in {"none", "cancelled", "proto", "usb"}
    BY DEF BringUpInv, TypeOK
  <1>2. pc' \in Pcs /\ error' \in {"none", "cancelled", "proto", "usb"}
    BY <1>1, AdvanceWays DEF Pcs, Outs, Ends
  <1>3. critical' = critical \/ critical' = 0
    BY AdvanceWays
  <1>4. inCritical' = inCritical \/ inCritical' = FALSE
    BY AdvanceWays
  <1>5. record' \in 0 .. RecordCount
    BY AdvanceWays, CountsAssumption
  <1>6. critical' \in 0 .. 1
    BY <1>1, <1>3
  <1>7. inCritical' \in BOOLEAN
    BY <1>1, <1>4
  <1>8. QED
    BY <1>2, <1>5, <1>6, <1>7

\* A completion of the replay that does not stop it: the next record at the
\* right place in the table, or the end with all of it accepted.
LEMMA ReplayGoesOn ==
  ASSUME BringUpInv, Replaying, Advance, TypeOK', since' = -1,
         fed' = record + 1, expects' = inUpload',
         record + 1 < RecordCount => Position(record + 1, inUpload'),
         record + 1 = RecordCount => inUpload' = 0,
         UNCHANGED <<args, drains, tries, library>>
  PROVE  BringUpInv'
  <1>1. /\ record' = record + 1
        /\ \/ /\ record + 1 < RecordCount /\ pc' = "replay_out"
              /\ UNCHANGED <<error, critical, inCritical>>
           \/ /\ record + 1 = RecordCount
              /\ inCritical' = FALSE /\ critical' = 0
              /\ \/ StopAsked /\ pc' = "failed" /\ error' = "cancelled"
                 \/ ~StopAsked /\ pc' = "read_out" /\ error' = error
    BY AdvanceWays
  <1>2. /\ inCritical /\ critical = 1 /\ RecordCount \in Nat
        /\ record \in Nat
    BY CountsAssumption DEF BringUpInv, Section, TypeOK
  <1>3. Counters' /\ Section' /\ Latency' /\ Reapply'
    BY <1>1, <1>2
       DEF Counters, Section, Latency, Reapply, Polling, Replaying
  <1>4. Progress'
    <2>1. CASE record + 1 < RecordCount
      <3>1. record' = record + 1 /\ pc' = "replay_out"
        <4>1. record + 1 # RecordCount
          BY <1>2, <2>1
        <4>2. QED
          BY <1>1, <4>1
      <3>2. QED
        BY <2>1, <3>1 DEF Progress, Polling, Exposure, Replaying
    <2>2. CASE record + 1 = RecordCount
      <3>1. fed' = RecordCount /\ pc' \in {"failed", "read_out"}
        <4>1. ~(record + 1 < RecordCount)
          BY <1>2, <2>2
        <4>2. QED
          BY <1>1, <2>2, <4>1
      <3>2. fed' \notin 1 .. RecordCount - 1
        BY <1>2, <3>1
      <3>3. QED
        BY <3>1, <3>2 DEF Progress, Polling, Exposure, Replaying
    <2>3. QED
      BY <1>1, <2>1, <2>2
  <1>5. Upload'
    <2>1. CASE record + 1 < RecordCount
      BY <1>1, <1>2, <2>1 DEF Upload, Polling, Exposure
    <2>2. CASE record + 1 = RecordCount
      BY <1>1, <1>2, <2>2 DEF Upload, Polling, Exposure
    <2>3. QED
      BY <1>1, <2>1, <2>2
  <1>6. QED
    BY <1>3, <1>4, <1>5 DEF BringUpInv

\* The driver's count after a record, and where the table is then.
LEMMA NextPosition ==
  ASSUME BringUpInv, pc = "replay_out"
  PROVE  /\ NextInUpload \in 0 .. Chunks
         /\ NextInUpload = IF Kind[record] = "upload" THEN Chunks
                           ELSE IF expects > 0 THEN expects - 1 ELSE 0
         /\ AwaitsReply => NextInUpload = 0
         /\ record + 1 < RecordCount => Position(record + 1, NextInUpload)
         /\ record + 1 = RecordCount => NextInUpload = 0
  <1>1. /\ record \in 0 .. RecordCount - 1 /\ inUpload \in 0 .. Chunks
        /\ expects = inUpload /\ Position(record, inUpload)
        /\ Kind[record] \in {"cmd", "upload", "chunk"}
    BY CountsAssumption, RecordsAssumption
       DEF BringUpInv, TypeOK, Progress, Replaying, Upload
  <1>2. CASE inUpload > 0
    <2>1. inUpload \in 1 .. Chunks /\ Kind[record] = "chunk"
      BY <1>1, <1>2, InsideIsChunk, CountsAssumption
    <2>2. NextInUpload = inUpload - 1 /\ ~AwaitsReply
      BY <1>2, <2>1 DEF NextInUpload, AwaitsReply
    <2>3. record + 1 < RecordCount => Position(record + 1, inUpload - 1)
      BY <1>1, <2>1, ChunkGoesOn
    <2>4. record + 1 = RecordCount => inUpload = 1
      <3>1. CASE inUpload = 1
        BY <3>1
      <3>2. CASE inUpload \in 2 .. Chunks
        BY <1>1, <3>2, ChunkIsNotLast, CountsAssumption
      <3>3. QED
        BY <2>1, <3>1, <3>2, CountsAssumption
    <2>5. QED
      BY <1>1, <1>2, <2>1, <2>2, <2>3, <2>4, CountsAssumption
  <1>3. CASE inUpload = 0 /\ Kind[record] = "upload"
    <2>1. NextInUpload = Chunks /\ ~AwaitsReply
      BY <1>3 DEF NextInUpload, AwaitsReply
    <2>2. record + 1 < RecordCount /\ Position(record + 1, Chunks)
      BY <1>1, <1>3, UploadOpens
    <2>3. QED
      BY <1>1, <1>3, <2>1, <2>2, CountsAssumption
  <1>4. CASE inUpload = 0 /\ Kind[record] = "cmd"
    <2>1. NextInUpload = 0
      BY <1>4 DEF NextInUpload
    <2>2. record + 1 < RecordCount => Position(record + 1, 0)
      BY <1>1, <1>4, CommandIsFollowed
    <2>3. QED
      BY <1>1, <1>4, <2>1, <2>2, CountsAssumption
  <1>5. Kind[record] = "chunk" => inUpload > 0
    BY <1>1, CountsAssumption DEF Position
  <1>6. QED
    BY <1>1, <1>2, <1>3, <1>4, <1>5, CountsAssumption

LEMMA ReplayOutStep == BringUpInv /\ ReplayOut => BringUpInv'
  <1> SUFFICES ASSUME BringUpInv, ReplayOut PROVE BringUpInv'
    OBVIOUS
  <1>1. /\ TypeOK /\ pc = "replay_out" /\ Replaying /\ since = -1
        /\ fed = record /\ record \in 0 .. RecordCount - 1
        /\ inUpload = expects /\ inUpload \in 0 .. Chunks
        /\ Kind[record] \in {"cmd", "upload", "chunk"}
    BY CountsAssumption, RecordsAssumption
       DEF BringUpInv, ReplayOut, Latency, Progress, Upload, Replaying, TypeOK
  <1>2. /\ fed' = record + 1 /\ inUpload' = NextInUpload
        /\ took' \in BOOLEAN /\ reg' \in {reg, Baked}
        /\ stale' \in {stale, stale + 1} /\ Track(FALSE)
        /\ answered' \in {answered, answered + 1}
        /\ UNCHANGED <<args, drains, tries, dcC, library, owed, applied>>
    BY <1>1 DEF ReplayOut
  <1>3. /\ NextInUpload \in 0 .. Chunks /\ expects' = NextInUpload
        /\ AwaitsReply => NextInUpload = 0
        /\ record + 1 < RecordCount => Position(record + 1, NextInUpload)
        /\ record + 1 = RecordCount => NextInUpload = 0
    BY <1>1, NextPosition DEF ReplayOut
  <1>4. /\ since' = -1 /\ missed' = missed /\ refused' = refused
        /\ missed' \in BOOLEAN /\ waited' \in 0 .. WaitedMax
    BY <1>1, <1>2, TrackTypes, TrackSends DEF TypeOK
  <1>5. /\ stale' \in Nat /\ reg' \in RegValues
        /\ fed' \in 0 .. RecordCount /\ answered' \in Nat
    BY <1>1, <1>2, CountsAssumption, ValuesAssumption DEF TypeOK
  <1>6. CASE AwaitsReply /\ pc' = "replay_in"
             /\ UNCHANGED <<error, record, critical, inCritical>>
    <2>1. TypeOK'
      BY <1>1, <1>2, <1>3, <1>4, <1>5, <1>6
         DEF marks, TypeOK, Pcs, Ins, args, library, SinceMax
    <2>2. Upload'
      BY <1>2, <1>3, <1>6 DEF Upload, Polling, Exposure, AwaitsReply
    <2>3. QED
      BY <1>1, <1>2, <1>4, <1>6, <2>1, <2>2, CountsAssumption
         DEF BringUpInv, Counters, Section, Progress, Latency, Reapply, Polling,
             Exposure, Replaying
  <1>7. CASE Advance
    <2>1. /\ record' \in 0 .. RecordCount
          /\ pc' \in Pcs /\ critical' \in 0 .. 1 /\ inCritical' \in BOOLEAN
          /\ error' \in {"none", "cancelled", "proto", "usb"}
      BY <1>1, <1>7, AdvanceTypes
    <2>2. TypeOK'
      BY <1>1, <1>2, <1>3, <1>4, <1>5, <2>1 DEF TypeOK, args, library, SinceMax
    <2>3. QED
      BY <1>1, <1>2, <1>3, <1>4, <1>7, <2>2, ReplayGoesOn
  <1>8. QED
    BY <1>6, <1>7 DEF ReplayOut

LEMMA ReplayInStep == BringUpInv /\ ReplayIn => BringUpInv'
  <1> SUFFICES ASSUME BringUpInv, ReplayIn PROVE BringUpInv'
    OBVIOUS
  <1>1. /\ TypeOK /\ pc = "replay_in" /\ Replaying /\ since = -1
        /\ fed = record + 1 /\ record \in 0 .. RecordCount - 1
        /\ inUpload = 0 /\ expects = 0 /\ Kind[record] = "cmd"
    BY CountsAssumption
       DEF BringUpInv, ReplayIn, Latency, Progress, Upload, Replaying, TypeOK
  <1>2. PICK timeout \in BOOLEAN :
          /\ Receive(-1, timeout, Bytes)
          /\ \/ timeout /\ StopAsked /\ SilentStop
             \/ ~(timeout /\ StopAsked) /\ Advance
          /\ Track(timeout)
    BY DEF ReplayIn
  <1>3. /\ UNCHANGED <<args, drains, tries, inUpload, dcC, library, sensor,
                       marks>>
        /\ StopAsked' = StopAsked
    BY DEF ReplayIn, StopAsked, library
  <1>4. /\ stale' \in Nat /\ owed' \in 0 .. MaxLate
        /\ waited' \in 0 .. WaitedMax
        /\ missed' \in BOOLEAN /\ refused' = refused
        /\ missed' = (missed \/ timeout)
    BY <1>1, <1>2, TrackTypes, ReceiveTypes
  <1>5. CASE timeout /\ StopAsked /\ SilentStop
    <2>1. /\ pc' = "failed" /\ error' = "cancelled" /\ record' = record
          /\ inCritical' = FALSE /\ critical' = 0
      BY <1>1, <1>5, LeaveLeaves DEF SilentStop, Fail, BringUpInv
    <2>2. since' = 0
      BY <1>1, <1>2, <1>5, <2>1, TrackWaits DEF Outs
    <2>3. pc' \in Pcs /\ critical' \in 0 .. 1 /\ 0 \in -1 .. SinceMax
      BY <2>1 DEF Pcs, Ends, SinceMax
    <2>4. TypeOK'
      BY <1>1, <1>3, <1>4, <2>1, <2>2, <2>3
         DEF marks, TypeOK, args, library, sensor
    <2>5. QED
      BY <1>3, <1>4, <1>5, <2>1, <2>2, <2>4
         DEF BringUpInv, Counters, Section, Progress, Upload, Latency, Reapply,
             Polling, Exposure, Replaying
  <1>6. CASE ~(timeout /\ StopAsked) /\ Advance
    <2>1. since' = -1
      BY <1>1, <1>2, <1>6, TrackSends
    <2>2. /\ record' \in 0 .. RecordCount
          /\ pc' \in Pcs /\ critical' \in 0 .. 1 /\ inCritical' \in BOOLEAN
          /\ error' \in {"none", "cancelled", "proto", "usb"}
      BY <1>1, <1>6, AdvanceTypes
    <2>3. TypeOK'
      BY <1>1, <1>3, <1>4, <2>1, <2>2
         DEF marks, TypeOK, args, library, sensor, SinceMax
    <2>4. record + 1 < RecordCount => Position(record + 1, 0)
      BY <1>1, CommandIsFollowed
    <2>5. fed' = record + 1 /\ inUpload' = 0 /\ expects' = 0
      BY <1>1, <1>3 DEF sensor
    <2>6. QED
      BY <1>1, <1>3, <1>6, <2>1, <2>3, <2>4, <2>5, ReplayGoesOn
  <1>7. QED
    BY <1>2, <1>5, <1>6

LEMMA ReadInStep == BringUpInv /\ ReadIn => BringUpInv'
  <1> SUFFICES ASSUME BringUpInv, ReadIn PROVE BringUpInv'
    OBVIOUS
  <1>1. PICK v \in Bytes, timeout \in BOOLEAN :
          /\ Receive(v, timeout, {reg})
          /\ dcC' = Cached(v)
          /\ pc' = IF NeedsReapply(v) THEN "reapply_out" ELSE "completed"
          /\ applied' = IF v = -1 THEN "unread"
                        ELSE IF v = calibrated THEN "read" ELSE applied
          /\ Track(timeout)
    BY DEF ReadIn
  <1>2. /\ TypeOK /\ pc = "read_in" /\ since = -1 /\ fed = RecordCount
        /\ expects = 0 /\ inCritical = FALSE /\ critical = 0
    BY DEF BringUpInv, ReadIn, Latency, Section, Progress, Upload, Exposure,
           Replaying, TypeOK
  <1>3. /\ UNCHANGED <<error, args, machine, library, critical, sensor,
                       answered>>
        /\ StopAsked' = StopAsked
    BY DEF ReadIn, StopAsked, library
  <1>4. /\ stale' \in Nat /\ owed' \in 0 .. MaxLate
        /\ waited' \in 0 .. WaitedMax
        /\ missed' \in BOOLEAN /\ refused' = refused
    BY <1>1, <1>2, TrackTypes, ReceiveTypes
  <1>5. /\ since' \in -1 .. 1 /\ (~(timeout /\ StopAsked) => since' = -1)
        /\ (since' = 1 => pc' \in Outs)
        /\ (since' = 0 => pc' \notin Outs)
    BY <1>1, <1>2, TrackSends
  <1>6. /\ dcC' \in RegValues \cup {0}
        /\ applied' \in {"no", "unread", "read", "written"}
    <2>1. v \in Nat \/ v = -1
      BY ValuesAssumption DEF Bytes
    <2>2. QED
      BY <1>1, <1>2, <2>1 DEF Cached, Bytes, TypeOK
  <1>7. /\ pc' \in {"reapply_out", "completed"}
        /\ pc' = "reapply_out" => calibrated \in RegValues
    <2>1. calibrated \in RegValues \/ calibrated = -1
      BY <1>2, ValuesAssumption DEF TypeOK
    <2>2. QED
      BY <1>1, <2>1 DEF NeedsReapply
  <1>8. pc' \in Pcs /\ since' \in -1 .. SinceMax
    BY <1>5, <1>7 DEF Pcs, Outs, Ends, SinceMax
  <1>9. TypeOK'
    BY <1>2, <1>3, <1>4, <1>6, <1>8
       DEF marks, TypeOK, args, machine, library, sensor
  <1>10. Latency'
    BY <1>3, <1>5, <1>7 DEF Latency, Outs
  <1>11. Counters' /\ Section' /\ Progress' /\ Upload' /\ Reapply'
    BY <1>2, <1>3, <1>7
       DEF Counters, Section, Progress, Upload, Reapply, Polling, Exposure,
           Replaying, args, machine, sensor
  <1>12. QED
    BY <1>9, <1>10, <1>11 DEF BringUpInv

LEMMA ReapplyInStep == BringUpInv /\ ReapplyIn => BringUpInv'
  <1> SUFFICES ASSUME BringUpInv, ReapplyIn PROVE BringUpInv'
    OBVIOUS
  <1>1. PICK timeout \in BOOLEAN : Receive(-1, timeout, Bytes) /\ Track(timeout)
    BY DEF ReapplyIn
  <1>2. /\ TypeOK /\ pc = "reapply_in" /\ fed = RecordCount
        /\ expects = 0 /\ inCritical = FALSE /\ critical = 0
        /\ calibrated \in RegValues
        /\ since = -1 \/ (since = 1 /\ StopAsked)
    BY DEF BringUpInv, ReapplyIn, Latency, Section, Progress, Upload, Exposure,
           Replaying, TypeOK, Reapply
  <1>3. /\ UNCHANGED <<error, args, machine, library, critical, sensor, marks>>
        /\ StopAsked' = StopAsked /\ pc' = "completed" /\ dcC' = calibrated
    BY DEF ReapplyIn, StopAsked, library
  <1>4. /\ stale' \in Nat /\ owed' \in 0 .. MaxLate
        /\ waited' \in 0 .. WaitedMax
        /\ missed' \in BOOLEAN /\ refused' = refused
    BY <1>1, <1>2, TrackTypes, ReceiveTypes
  <1>5. since' = IF since = -1 /\ timeout /\ StopAsked THEN 0 ELSE since
    BY <1>1, <1>2, <1>3, TrackWaits DEF Outs
  <1>6. since' = -1 \/ (since' \in {0, 1} /\ StopAsked)
    BY <1>2, <1>5
  <1>7. pc' \in Pcs /\ since' \in -1 .. SinceMax
    BY <1>3, <1>6 DEF Pcs, Ends, SinceMax
  <1>8. TypeOK'
    BY <1>2, <1>3, <1>4, <1>7 DEF marks, TypeOK, args, machine, library, sensor
  <1>9. Latency'
    BY <1>3, <1>6 DEF Latency
  <1>10. Counters' /\ Section' /\ Progress' /\ Upload' /\ Reapply'
    BY <1>2, <1>3
       DEF Counters, Section, Progress, Upload, Reapply, Polling, Exposure,
           Replaying, machine, sensor
  <1>11. QED
    BY <1>8, <1>9, <1>10 DEF BringUpInv

\* libfprint and a late reply leave the machine where it is.
LEMMA OutsideStep ==
  BringUpInv /\ (LateReply \/ CancelRequest \/ SuspendRequest \/ DeliverSuspend)
    => BringUpInv'
  <1> SUFFICES ASSUME BringUpInv,
                      LateReply \/ CancelRequest \/ SuspendRequest
                        \/ DeliverSuspend
               PROVE  BringUpInv'
    OBVIOUS
  <1>1. UNCHANGED <<pc, error, args, machine, dcC, critical, sensor, history,
                    marks>>
    BY DEF LateReply, CancelRequest, SuspendRequest, DeliverSuspend, undisturbed
  <1>2. StopAsked => StopAsked'
    BY DEF LateReply, CancelRequest, SuspendRequest, DeliverSuspend, StopAsked,
           library
  <1>3. stale' \in Nat /\ owed' \in 0 .. MaxLate
    BY CountsAssumption
       DEF BringUpInv, TypeOK, LateReply, CancelRequest, SuspendRequest,
           DeliverSuspend, undisturbed, pipe
  <1>4. /\ cancelled' \in BOOLEAN /\ stop' \in BOOLEAN
        /\ suspend' \in {"none", "queued", "told"}
    BY DEF BringUpInv, TypeOK, LateReply, CancelRequest, SuspendRequest,
           DeliverSuspend, library
  <1>5. TypeOK'
    BY <1>1, <1>3, <1>4
       DEF BringUpInv, TypeOK, args, machine, sensor, history, marks
  <1>6. QED
    BY <1>1, <1>2, <1>5
       DEF BringUpInv, Counters, Section, Progress, Upload, Latency, Reapply,
           Replaying, args, machine, sensor, history

LEMMA BringUpStep == BringUpInv /\ [Next]_vars => BringUpInv'
  <1> SUFFICES ASSUME BringUpInv, [Next]_vars PROVE BringUpInv'
    OBVIOUS
  <1>1. CASE UNCHANGED vars
    BY <1>1
       DEF vars, BringUpInv, TypeOK, Counters, Section, Progress, Upload,
           Latency, Reapply, Replaying, StopAsked, args, machine, library,
           sensor, pipe, history, marks
  <1>2. CASE Next
    BY <1>2, DrainStep, OutAcceptedStep, OutRefusedStep, ReadyInStep,
       GapOverStep, ResetDoneStep, ReplayOutStep, ReplayInStep, ReadInStep,
       ReapplyInStep, OutsideStep
       DEF Next, Machine
  <1>3. QED
    BY <1>1, <1>2

THEOREM BringUpInvariant == Spec => []BringUpInv
  BY InitHolds, BringUpStep, PTL DEF Spec

-----------------------------------------------------------------------------
(* The properties                                                           *)

\* Every field of EgisDev keeps its type, every counter its bound.
THEOREM InitTypeCorrect == Spec => []TypeOK
  <1>1. BringUpInv => TypeOK
    BY DEF BringUpInv
  <1>2. QED
    BY <1>1, BringUpInvariant, PTL

\* No IN transfer is pending while the sensor waits for an upload's chunks
\* (init_replay_out_cb), for every table that has the shape of the vendor's.
THEOREM UploadUndisturbed == Spec => []NoReadDuringUpload
  <1>1. BringUpInv => NoReadDuringUpload
    BY DEF BringUpInv, Upload, NoReadDuringUpload, Exposure
  <1>2. QED
    BY <1>1, BringUpInvariant, PTL

\* The critical section is entered and left in pairs, around the replay only.
THEOREM CriticalSectionIsReplay == Spec => []CriticalIsReplay
  <1>1. BringUpInv => CriticalIsReplay
    BY DEF BringUpInv, Section, CriticalIsReplay
  <1>2. QED
    BY <1>1, BringUpInvariant, PTL

\* A sensor that answers is never left with a prefix of the sequence.
THEOREM ReplayIsWhole == Spec => []PrefixOnlyIfSilent
  <1>1. BringUpInv => PrefixOnlyIfSilent
    BY DEF BringUpInv, Progress, PrefixOnlyIfSilent, Exposure
  <1>2. QED
    BY <1>1, BringUpInvariant, PTL

\* After a missed reply a cancel or stop that is pending lets at most one
\* more command out (egis_check_cancelled, init_replay_in_cb).
THEOREM StopIsHeard == Spec => []StopLatency
  <1>1. BringUpInv => StopLatency
    BY DEF BringUpInv, Latency, StopLatency
  <1>2. QED
    BY <1>1, BringUpInvariant, PTL

\* The ForceReset is issued only for an open whose poll is exhausted, and not
\* for a cancelled one (INIT_NOT_READY).
THEOREM ResetIsRare == Spec => ResetIsLastResort
  <1> DEFINE Rare == pc # "reset" /\ pc' = "reset" =>
                       resetIfStuck /\ ~StopAsked /\ tries' = ReadyTries
  <1>1. BringUpInv /\ [Next]_vars => [Rare]_vars
    <2> SUFFICES ASSUME BringUpInv, Next, pc # "reset", pc' = "reset"
                 PROVE  resetIfStuck /\ ~StopAsked /\ tries' = ReadyTries
      OBVIOUS
    <2>1. ReadyIn
      <3>1. ~Drain /\ ~GapOver
        BY DEF Drain, GapOver, EnterReady, Fail
      <3>2. ~OutAccepted /\ ~OutRefused /\ ~ResetDone
        BY DEF OutAccepted, OutRefused, ResetDone, Fail, Outs
      <3>3. ~ReplayOut /\ ~ReplayIn
        BY DEF ReplayOut, ReplayIn, Advance, SilentStop, EnterReadDcC, Fail
      <3>4. ~ReadIn /\ ~ReapplyIn
        BY DEF ReadIn, ReapplyIn
      <3>5. ~LateReply /\ ~CancelRequest /\ ~SuspendRequest /\ ~DeliverSuspend
        BY DEF LateReply, CancelRequest, SuspendRequest, DeliverSuspend,
               undisturbed
      <3>6. QED
        BY <3>1, <3>2, <3>3, <3>4, <3>5 DEF Next, Machine
    <2>2. /\ tries' = tries + 1 /\ ~TriesLeft /\ EnterNotReady
      BY <2>1 DEF ReadyIn, EnterReplay, Fail
    <2>3. tries \in Nat /\ tries < ReadyTries
      BY <2>1, CountsAssumption
         DEF BringUpInv, TypeOK, Counters, ReadyIn, Polling
    <2>4. QED
      BY <2>2, <2>3, CountsAssumption DEF TriesLeft, EnterNotReady, Fail
  <1>2. Spec => [][Rare]_vars
    BY <1>1, BringUpInvariant, PTL DEF Spec
  <1>3. QED
    BY <1>2 DEF ResetIsLastResort

-----------------------------------------------------------------------------
(* How long it can take                                                     *)

Tail == 2 * RecordCount + 4

\* The completions a bring-up can still wait for: three to a try of the poll,
\* two to a record, four for the exposure.
Remaining ==
  CASE pc = "drain" -> DrainMax - drains + 3 * (ReadyTries - tries) + Tail
    [] pc = "gap" -> 3 * (ReadyTries - tries) + Tail + 1
    [] pc = "ready_out" -> 3 * (ReadyTries - tries) + Tail
    [] pc = "ready_in" -> 3 * (ReadyTries - tries) + Tail - 1
    [] pc = "replay_out" -> 2 * (RecordCount - record) + 4
    [] pc = "replay_in" -> 2 * (RecordCount - record) + 3
    [] pc = "read_out" -> 4
    [] pc = "read_in" -> 3
    [] pc = "reapply_out" -> 2
    [] pc \in {"reapply_in", "reset"} -> 1
    [] OTHER -> 0

Nearer == Remaining' < Remaining

\* The numbers the measure is made of.
LEMMA Countable ==
  ASSUME BringUpInv
  PROVE  /\ DrainMax \in Nat /\ ReadyTries \in Nat /\ RecordCount \in Nat
         /\ drains \in Nat /\ drains <= DrainMax
         /\ tries \in Nat /\ tries <= ReadyTries
         /\ record \in Nat /\ record <= RecordCount
         /\ pc \in Polling => tries < ReadyTries
         /\ Replaying => record < RecordCount
         /\ pc = "drain" => drains < DrainMax
         /\ pc \in Pcs
BY CountsAssumption DEF BringUpInv, TypeOK, Counters, Progress

\* The measure is a number, and 0 only at the end.
LEMMA RemainingType ==
  ASSUME BringUpInv
  PROVE  /\ Remaining \in Nat /\ (Remaining = 0 <=> ~Running)
         /\ pc \notin Ends => Remaining > 0
         /\ Remaining <= DrainMax + 3 * ReadyTries + Tail
<1> DEFINE Fits == /\ Remaining \in Nat /\ Remaining > 0
                   /\ Remaining <= DrainMax + 3 * ReadyTries + Tail
<1> USE Countable DEF Tail
<1>1. CASE pc = "drain"
  <2>1. Remaining = DrainMax - drains + 3 * (ReadyTries - tries) + Tail
    BY <1>1 DEF Remaining
  <2>2. Fits
    BY <1>1, <2>1
  <2> QED BY <1>1, <2>2 DEF Running, Ends
<1>2. CASE pc \in {"gap", "ready_out", "ready_in"}
  <2>1. \E k \in -1 .. 1 : Remaining = 3 * (ReadyTries - tries) + Tail + k
    BY <1>2 DEF Remaining
  <2>2. ReadyTries - tries \in 1 .. ReadyTries
    BY <1>2 DEF Polling
  <2>3. Fits
    BY <2>1, <2>2, CountsAssumption
  <2> QED BY <1>2, <2>3 DEF Running, Ends
<1>3. CASE Replaying
  <2>1. \E k \in 3 .. 4 : Remaining = 2 * (RecordCount - record) + k
    BY <1>3 DEF Remaining, Replaying
  <2>2. Fits
    BY <1>3, <2>1
  <2> QED BY <1>3, <2>2 DEF Running, Ends, Replaying
<1>4. CASE pc \in {"read_out", "read_in", "reapply_out", "reapply_in", "reset"}
  <2>1. Remaining \in 1 .. 4
    BY <1>4 DEF Remaining
  <2>2. Fits
    BY <2>1
  <2> QED BY <1>4, <2>2 DEF Running, Ends
<1>5. CASE pc \in Ends
  BY <1>5 DEF Remaining, Running, Ends
<1> QED
  BY <1>1, <1>2, <1>3, <1>4, <1>5
     DEF Pcs, Outs, Ins, Ends, Replaying

\* A bring-up that fails is at its end.
LEMMA FailIsNear ==
  ASSUME BringUpInv, pc \notin Ends, pc' \in {"failed", "completed"}
  PROVE  Nearer
<1>1. Remaining' = 0
  BY DEF Remaining
<1> QED BY <1>1, RemainingType DEF Nearer

LEMMA PollIsNearer ==
  ASSUME BringUpInv, Drain \/ GapOver \/ ReadyIn \/ ResetDone
  PROVE  Nearer
<1> USE Countable DEF Nearer, Tail
<1>1. CASE Drain
  <2>1. pc = "drain" /\ tries' = tries
    BY <1>1 DEF Drain
  <2>2. CASE pc' = "drain"
    <3>1. drains' = drains + 1
      BY <1>1, <2>1, <2>2 DEF Drain, EnterReady, Fail
    <3> QED BY <2>1, <2>2, <3>1 DEF Remaining
  <2>3. CASE pc' = "ready_out"
    BY <2>1, <2>3 DEF Remaining
  <2>4. CASE pc' = "failed"
    BY <2>1, <2>4, FailIsNear DEF Ends
  <2> QED BY <1>1, <2>1, <2>2, <2>3, <2>4 DEF Drain, EnterReady, Fail
<1>2. CASE GapOver
  <2>1. pc = "gap" /\ tries' = tries
    BY <1>2 DEF GapOver, machine
  <2>2. CASE pc' = "ready_out"
    BY <2>1, <2>2 DEF Remaining
  <2>3. CASE pc' = "failed"
    BY <2>1, <2>3, FailIsNear DEF Ends
  <2> QED BY <1>2, <2>1, <2>2, <2>3 DEF GapOver, EnterReady, Fail
<1>3. CASE ReadyIn
  <2>1. pc = "ready_in" /\ tries < ReadyTries
    BY <1>3 DEF ReadyIn, Polling
  <2>2. CASE EnterReplay
    <3>1. CASE pc' = "replay_out" /\ record' = 0
      BY <2>1, <3>1 DEF Remaining
    <3>2. CASE pc' = "failed"
      BY <2>1, <3>2, FailIsNear DEF Ends
    <3> QED BY <2>2, <3>1, <3>2 DEF EnterReplay, Fail
  <2>3. CASE tries' = tries + 1 /\ pc' = "gap"
    BY <2>1, <2>3 DEF Remaining
  <2>4. CASE EnterNotReady
    <3>1. CASE pc' = "reset"
      BY <2>1, <3>1 DEF Remaining
    <3>2. CASE pc' = "failed"
      BY <2>1, <3>2, FailIsNear DEF Ends
    <3> QED BY <2>4, <3>1, <3>2 DEF EnterNotReady, Fail
  <2> QED BY <1>3, <2>2, <2>3, <2>4 DEF ReadyIn
<1>4. CASE ResetDone
  BY <1>4, FailIsNear DEF ResetDone, Fail, Ends
<1> QED BY <1>1, <1>2, <1>3, <1>4

LEMMA CommandIsNearer ==
  ASSUME BringUpInv, OutAccepted \/ OutRefused
  PROVE  Nearer
<1> USE Countable DEF Nearer, Tail
<1>1. CASE OutAccepted
  <2>1. tries' = tries
    BY <1>1 DEF OutAccepted, machine
  <2>2. \/ pc = "ready_out" /\ pc' = "ready_in"
        \/ pc = "read_out" /\ pc' = "read_in"
        \/ pc = "reapply_out" /\ pc' = "reapply_in"
    BY <1>1 DEF OutAccepted, Outs
  <2> QED BY <2>1, <2>2 DEF Remaining
<1>2. CASE OutRefused
  BY <1>2, FailIsNear DEF OutRefused, Fail, Outs, Ends
<1> QED BY <1>1, <1>2

LEMMA ReplayIsNearer ==
  ASSUME BringUpInv, ReplayOut \/ ReplayIn
  PROVE  Nearer
<1> USE Countable DEF Nearer, Tail
<1>1. Replaying
  BY DEF ReplayOut, ReplayIn, Replaying
<1>2. CASE Advance
  <2>1. CASE pc' = "replay_out" /\ record' = record + 1
    BY <1>1, <2>1 DEF Remaining, Replaying
  <2>2. CASE pc' = "read_out"
    BY <1>1, <2>2 DEF Remaining, Replaying
  <2>3. CASE pc' = "failed"
    BY <1>1, <2>3, FailIsNear DEF Replaying, Ends
  <2> QED BY <1>1, <1>2, <2>1, <2>2, <2>3, AdvanceWays
<1>3. CASE pc = "replay_out" /\ pc' = "replay_in" /\ record' = record
  BY <1>1, <1>3 DEF Remaining
<1>4. CASE pc' = "failed"
  BY <1>1, <1>4, FailIsNear DEF Replaying, Ends
<1> QED BY <1>2, <1>3, <1>4 DEF ReplayOut, ReplayIn, SilentStop, Fail

LEMMA ExposureIsNearer ==
  ASSUME BringUpInv, ReadIn \/ ReapplyIn
  PROVE  Nearer
<1>1. CASE ReadIn
  BY <1>1, FailIsNear DEF ReadIn, Nearer, Remaining, Ends
<1>2. CASE ReapplyIn
  BY <1>2, FailIsNear DEF ReapplyIn, Ends
<1> QED BY <1>1, <1>2

\* Whatever the sensor answers, and whatever is asked meanwhile, a bring-up
\* is over after at most the completions its constants allow, tries, records
\* and all: no path of init_run_state leads back. With the transfers' timeouts
\* this is what makes it end.
BringUpIsBounded ==
  /\ Remaining <= DrainMax + 3 * ReadyTries + Tail
  /\ [][IF Machine THEN Remaining' < Remaining
        ELSE Remaining' = Remaining]_vars
  /\ [](Remaining \in Nat /\ (Remaining = 0 <=> pc \in Ends))

THEOREM BringUpRunsOut == Spec => BringUpIsBounded
<1>1. BringUpInv /\ Machine => Remaining' < Remaining
  BY PollIsNearer, CommandIsNearer, ReplayIsNearer, ExposureIsNearer
     DEF Machine, Nearer
<1>2. Next /\ ~Machine => Remaining' = Remaining
  BY DEF Next, LateReply, CancelRequest, SuspendRequest, DeliverSuspend,
         undisturbed, machine, Remaining
<1>3. BringUpInv /\ [Next]_vars
        => [IF Machine THEN Remaining' < Remaining
            ELSE Remaining' = Remaining]_vars
  BY <1>1, <1>2
<1>4. BringUpInv => /\ Remaining <= DrainMax + 3 * ReadyTries + Tail
                    /\ Remaining \in Nat /\ (Remaining = 0 <=> pc \in Ends)
  BY RemainingType DEF Running
<1> QED
  BY <1>3, <1>4, InitHolds, BringUpInvariant, PTL DEF Spec, BringUpIsBounded

-----------------------------------------------------------------------------
(* The exposure                                                             *)

\* What the machine knows of the calibrated exposure while it is put back.
ReapplyInv ==
  /\ pc = "reapply_in" => applied = "written"
  /\ CalibrationReapplied

\* Whatever exposure the calibration found, no bring-up succeeds before that was
\* read back or written, except where it is 0 and the register did not answer
\* (init_dc_c_cb).
THEOREM ExposureReapplied == Spec => []CalibrationReapplied
  <1>1. Init => ReapplyInv
    BY DEF Init, ReapplyInv, CalibrationReapplied
  <1>2. BringUpInv /\ ReapplyInv /\ [Next]_vars => ReapplyInv'
    <2> SUFFICES ASSUME BringUpInv, ReapplyInv, [Next]_vars PROVE ReapplyInv'
      OBVIOUS
    <2>1. calibrated' = calibrated
          /\ calibrated \in RegValues \cup {-1}
      <3>1. calibrated' = calibrated
        BY DEF Next, Machine, Drain, OutAccepted, OutRefused, ReadyIn, GapOver,
               ResetDone, ReplayOut, ReplayIn, ReadIn, ReapplyIn, LateReply,
               CancelRequest, SuspendRequest, DeliverSuspend, undisturbed, args,
               vars
      <3>2. QED
        BY <3>1, ValuesAssumption DEF BringUpInv, TypeOK
    <2>2. CASE Drain \/ ReadyIn \/ GapOver \/ ResetDone \/ ReplayOut \/ ReplayIn
                 \/ OutRefused
      <3>1. CASE Drain \/ GapOver \/ ResetDone \/ OutRefused
        BY <3>1
           DEF Drain, GapOver, ResetDone, OutRefused, EnterReady, Fail,
               ReapplyInv, CalibrationReapplied
      <3>2. CASE ReadyIn
        BY <3>2 DEF ReadyIn, EnterReplay, EnterNotReady, Fail, ReapplyInv,
               CalibrationReapplied
      <3>3. CASE ReplayOut \/ ReplayIn
        BY <3>3
           DEF ReplayOut, ReplayIn, Advance, EnterReadDcC, SilentStop, Fail,
               ReapplyInv, CalibrationReapplied
      <3>4. QED
        BY <2>2, <3>1, <3>2, <3>3
    <2>3. CASE OutAccepted
      BY <2>3 DEF OutAccepted, ReapplyInv, CalibrationReapplied, Outs
    <2>4. CASE ReadIn
      <3>1. PICK v \in Bytes :
              /\ dcC' = Cached(v)
              /\ pc' = IF NeedsReapply(v) THEN "reapply_out" ELSE "completed"
              /\ applied' = IF v = -1 THEN "unread"
                            ELSE IF v = calibrated THEN "read" ELSE applied
        BY <2>4 DEF ReadIn
      <3>2. v \in Nat \/ v = -1
        BY ValuesAssumption DEF Bytes
      <3>3. ASSUME ~NeedsReapply(v), calibrated >= 0
            PROVE  /\ Cached(v) = calibrated
                   /\ v = calibrated \/ (v = -1 /\ calibrated = 0)
        BY <2>1, <3>2, <3>3 DEF NeedsReapply, Cached
      <3>4. calibrated >= 0 => calibrated # -1
        BY <2>1, ValuesAssumption
      <3>5. QED
        BY <2>1, <3>1, <3>3, <3>4 DEF ReapplyInv, CalibrationReapplied
    <2>5. CASE ReapplyIn
      BY <2>1, <2>5 DEF ReapplyIn, marks, ReapplyInv, CalibrationReapplied
    <2>6. CASE LateReply \/ CancelRequest \/ SuspendRequest \/ DeliverSuspend
      BY <2>1, <2>6
         DEF LateReply, CancelRequest, SuspendRequest, DeliverSuspend,
             undisturbed, marks, ReapplyInv, CalibrationReapplied
    <2>7. CASE UNCHANGED vars
      BY <2>1, <2>7 DEF vars, marks, ReapplyInv, CalibrationReapplied
    <2>8. QED
      BY <2>2, <2>3, <2>4, <2>5, <2>6, <2>7 DEF Next, Machine
  <1>3. ReapplyInv => CalibrationReapplied
    BY DEF ReapplyInv, CalibrationReapplied
  <1>4. QED
    BY <1>1, <1>2, <1>3, BringUpInvariant, PTL DEF Spec

\* Unless a reply was missed, the drain has taken what was left over, and what
\* is queued before the reply waited for answers an upload.
PipeInv ==
  ~missed =>
    /\ owed = 0
    /\ pc = "drain" => stale + drains <= Leftover /\ answered = 0
    /\ pc \in {"ready_out", "ready_in", "gap", "reset"} => answered = 0
    /\ pc \notin {"drain", "failed"} => stale <= answered
    /\ pc = "reapply_out" => calibrated \in RegValues
    /\ answered = 0 => /\ pc = "reapply_in" /\ took => reg = calibrated
                       /\ pc = "completed" => dcC = reg

\* For every bring-up that finds no more replies of a previous session than the
\* drain takes, whether or not the sensor answers uploads: unless this bring-up
\* missed a reply, what it leaves unread answers an upload, and without such an
\* answer the cached exposure is the register's.
THEOREM CacheIsFresh ==
  ASSUME Leftover <= DrainMax
  PROVE  Spec => []CacheIsRegister
  <1>1. Init => PipeInv
    BY CountsAssumption DEF Init, PipeInv
  <1>2. BringUpInv /\ PipeInv /\ [Next]_vars => PipeInv'
    <2> SUFFICES ASSUME BringUpInv, PipeInv, [Next]_vars, ~missed'
                 PROVE  PipeInv'
      BY DEF PipeInv
    <2>0. TypeOK /\ Counters /\ Reapply
      BY DEF BringUpInv
    <2>1. ~missed
      BY DEF Next, Machine, Drain, OutAccepted, OutRefused, ReadyIn, GapOver,
             ResetDone, ReplayOut, ReplayIn, ReadIn, ReapplyIn, LateReply,
             CancelRequest, SuspendRequest, DeliverSuspend, undisturbed,
             history, vars, Track
    <2>2. CASE Drain
      <3>1. /\ stale \in Nat /\ drains \in Nat /\ drains < DrainMax
            /\ stale + drains <= Leftover /\ owed = 0 /\ pc = "drain"
            /\ answered = 0 /\ answered' = 0
        BY <2>0, <2>1, <2>2, CountsAssumption
           DEF Drain, PipeInv, TypeOK, Counters, marks
      <3>2. CASE stale > 0 /\ DrainsOn
        BY <2>2, <3>1, <3>2 DEF Drain, PipeInv
      <3>3. CASE stale > 0 /\ ~DrainsOn
        <4>1. stale' = 0 /\ owed' = 0 /\ pc' \in {"ready_out", "failed"}
          BY <2>2, <3>1, <3>3, CountsAssumption
             DEF Drain, DrainsOn, EnterReady, Fail
        <4>2. QED
          BY <3>1, <4>1 DEF PipeInv
      <3>4. CASE stale = 0
        <4>1. stale' = 0 /\ owed' = 0 /\ pc' \in {"ready_out", "failed"}
          BY <2>2, <3>1, <3>4 DEF Drain, EnterReady, Fail
        <4>2. QED
          BY <3>1, <4>1 DEF PipeInv
      <3>5. QED
        BY <3>1, <3>2, <3>3, <3>4
    <2>3. CASE OutAccepted
      BY <2>0, <2>1, <2>3
         DEF OutAccepted, PipeInv, Reapply, pipe, args, Outs
    <2>4. CASE OutRefused
      BY <2>1, <2>4 DEF OutRefused, PipeInv, Fail, pipe, marks, Outs
    <2>5. CASE GapOver \/ ResetDone
      BY <2>1, <2>5
         DEF GapOver, ResetDone, EnterReady, Fail, PipeInv, pipe, marks
    <2>6. CASE ReplayOut
      <3>1. /\ stale \in Nat /\ answered \in Nat
            /\ stale <= answered /\ owed = 0 /\ owed' = owed
        BY <2>0, <2>1, <2>6 DEF ReplayOut, PipeInv, TypeOK
      <3>2. stale' <= answered'
        BY <2>6, <3>1 DEF ReplayOut
      <3>3. pc' \in {"replay_in", "replay_out", "read_out", "failed"}
        BY <2>6 DEF ReplayOut, Advance, EnterReadDcC, Fail
      <3>4. QED
        BY <3>1, <3>2, <3>3 DEF PipeInv
    <2>7. CASE ReadyIn \/ ReplayIn
      <3>1. /\ stale \in Nat /\ answered \in Nat /\ answered' = answered
            /\ stale <= answered /\ owed = 0
        BY <2>0, <2>1, <2>7 DEF ReadyIn, ReplayIn, PipeInv, TypeOK, marks
      <3>2. stale' <= answered /\ owed' = 0
        BY <2>1, <2>7, <3>1 DEF ReadyIn, ReplayIn, Receive, Track, pipe
      <3>3. /\ ReadyIn => /\ pc' \in {"gap", "reset", "failed", "replay_out"}
                          /\ answered = 0
            /\ ReplayIn => pc' \in {"failed", "replay_out", "read_out"}
        BY <2>0, <2>1
           DEF ReadyIn, ReplayIn, EnterReplay, EnterNotReady, Advance,
               EnterReadDcC, SilentStop, Fail, PipeInv
      <3>4. QED
        BY <2>7, <3>1, <3>2, <3>3 DEF PipeInv
    <2>8. CASE ReadIn
      <3>1. PICK v \in Bytes, timeout \in BOOLEAN :
              /\ Receive(v, timeout, {reg})
              /\ dcC' = Cached(v)
              /\ pc' = IF NeedsReapply(v) THEN "reapply_out" ELSE "completed"
              /\ Track(timeout)
        BY <2>8 DEF ReadIn
      <3>2. /\ ~timeout /\ stale \in Nat /\ answered \in Nat
            /\ stale <= answered /\ owed = 0
        BY <2>0, <2>1, <2>8, <3>1 DEF Track, PipeInv, ReadIn, TypeOK
      <3>3. stale' <= answered /\ owed' = 0 /\ (stale = 0 => v = reg)
        BY <3>1, <3>2 DEF Receive, pipe
      <3>4. /\ answered' = answered /\ reg' = reg
            /\ calibrated' = calibrated /\ reg \in RegValues
        BY <2>0, <2>8 DEF ReadIn, sensor, args, TypeOK
      <3>5. answered = 0 => dcC' = reg'
        BY <3>1, <3>2, <3>3, <3>4, ValuesAssumption DEF Cached
      <3>6. pc' = "reapply_out" => calibrated \in RegValues
        BY <2>0, <3>1, ValuesAssumption DEF NeedsReapply, TypeOK
      <3>7. pc' \in {"reapply_out", "completed"}
        BY <3>1
      <3>8. QED
        BY <3>2, <3>3, <3>4, <3>5, <3>6, <3>7 DEF PipeInv
    <2>9. CASE ReapplyIn
      <3>1. PICK timeout \in BOOLEAN :
              Receive(-1, timeout, Bytes) /\ Track(timeout)
        BY <2>9 DEF ReapplyIn
      <3>2. /\ ~timeout /\ stale \in Nat /\ answered \in Nat
            /\ stale <= answered /\ owed = 0
            /\ answered = 0 /\ took => reg = calibrated
        BY <2>0, <2>1, <2>9, <3>1 DEF Track, PipeInv, ReapplyIn, TypeOK
      <3>3. stale' <= answered /\ owed' = 0 /\ (stale = 0 => took)
        BY <3>1, <3>2 DEF Receive, pipe
      <3>4. /\ dcC' = calibrated /\ reg' = reg /\ pc' = "completed"
            /\ answered' = answered
        BY <2>9 DEF ReapplyIn, sensor, marks
      <3>5. QED
        BY <3>2, <3>3, <3>4 DEF PipeInv
    <2>10. CASE LateReply
      BY <2>0, <2>1, <2>10 DEF LateReply, PipeInv, TypeOK
    <2>11. CASE CancelRequest \/ SuspendRequest \/ DeliverSuspend
      BY <2>1, <2>11
         DEF CancelRequest, SuspendRequest, DeliverSuspend, undisturbed, marks,
             PipeInv, machine, pipe, sensor, args
    <2>12. CASE UNCHANGED vars
      BY <2>1, <2>12
         DEF vars, marks, PipeInv, machine, pipe, sensor, args
    <2>13. QED
      BY <2>2, <2>3, <2>4, <2>5, <2>6, <2>7, <2>8, <2>9, <2>10, <2>11, <2>12
         DEF Next, Machine
  <1>3. PipeInv => CacheIsRegister
    BY DEF PipeInv, CacheIsRegister
  <1>4. QED
    BY <1>1, <1>2, <1>3, BringUpInvariant, PTL DEF Spec

-----------------------------------------------------------------------------
(* The bring-up inside Capture.                                             *)

\* The record index, which stands still outside the replay.
RecordIndex ==
  /\ pc \in Polling \cup {"reset"} => record = 0
  /\ pc \in Exposure => record = RecordCount

\* What a step of the bring-up can be to the capture that waits for it.
Sees == <<cancelled, suspend, stop>>
Inside == Running' /\ Wait' = Wait /\ Wedged' = Wedged
Starts == /\ Wait = "poll" /\ ~StopAsked
          /\ Running' /\ Wait' = "replay" /\ Wedged' = Wedged
Stops == /\ Wait \in {"poll", "replay"} /\ StopAsked
         /\ pc' = "failed" /\ error' = "cancelled" /\ Wedged' = Wedged
Breaks == pc' = "failed" /\ error' # "cancelled" /\ Wedged' = Wedged
StopsLast == /\ Wait = "replay" /\ StopAsked
             /\ pc' = "failed" /\ error' = "cancelled" /\ ~Wedged'
Feeds == /\ Wait = "replay" /\ ~StopAsked
         /\ Running' /\ Wait' = "post" /\ ~Wedged'
Finishes == Wait = "post" /\ pc' = "completed" /\ Wedged' = Wedged

Seen == \/ Inside \/ Starts \/ Stops \/ Breaks \/ StopsLast \/ Feeds
        \/ Finishes

-----------------------------------------------------------------------------
(* The steps of the bring-up                                                *)

LEMMA RecordIndexInit == Init => RecordIndex
  BY DEF Init, RecordIndex, Polling, Exposure

\* Before the replay: the poll goes on, the replay starts, or that is it.
LEMMA DrainSeen ==
  ASSUME BringUpInv, RecordIndex, Drain
  PROVE  UNCHANGED Sees /\ Seen /\ RecordIndex'
<1>1. pc = "drain" /\ record' = record /\ UNCHANGED Sees
  BY DEF Drain, library, Sees
<1>2. \/ pc' = pc
      \/ pc' = "ready_out"
      \/ pc' = "failed" /\ error' = "cancelled" /\ StopAsked
  BY DEF Drain, EnterReady, Fail
<1>3. Seen
  BY <1>1, <1>2
  DEF Seen, Inside, Stops, Wait, Wedged, Running, Ends, Replaying
<1>4. RecordIndex'
  BY <1>1, <1>2 DEF RecordIndex, Polling, Exposure
<1> QED BY <1>1, <1>3, <1>4

LEMMA OutSeen ==
  ASSUME BringUpInv, RecordIndex, OutAccepted \/ OutRefused
  PROVE  UNCHANGED Sees /\ Seen /\ RecordIndex'
<1>1. record' = record /\ UNCHANGED Sees
  BY DEF OutAccepted, OutRefused, library, machine, Sees
<1>2. \/ pc = "ready_out" /\ pc' = "ready_in"
      \/ pc = "read_out" /\ pc' = "read_in"
      \/ pc = "reapply_out" /\ pc' = "reapply_in"
      \/ pc' = "failed" /\ error' = "usb"
  BY DEF OutAccepted, OutRefused, Outs, Fail
<1>3. Seen
  BY <1>1, <1>2
  DEF Seen, Inside, Breaks, Wait, Wedged, Running, Ends, Replaying
<1>4. RecordIndex'
  BY <1>1, <1>2 DEF RecordIndex, Polling, Exposure
<1> QED BY <1>1, <1>3, <1>4

LEMMA ReadyInSeen ==
  ASSUME BringUpInv, RecordIndex, ReadyIn
  PROVE  UNCHANGED Sees /\ Seen /\ RecordIndex'
<1>1. pc = "ready_in" /\ record = 0 /\ UNCHANGED Sees
  BY DEF ReadyIn, library, Sees, RecordIndex, Polling
<1>2. record' = record
  BY <1>1 DEF ReadyIn, EnterReplay
<1>3. \/ pc' \in {"gap", "reset"}
      \/ pc' = "replay_out" /\ ~StopAsked
      \/ pc' = "failed" /\ error' = "cancelled" /\ StopAsked
      \/ pc' = "failed" /\ error' = "proto"
  BY DEF ReadyIn, EnterReplay, EnterNotReady, Fail
<1>4. Seen
  BY <1>1, <1>2, <1>3
  DEF Seen, Inside, Starts, Stops, Breaks, Wait, Wedged, Running, Ends,
      Replaying
<1>5. RecordIndex'
  BY <1>1, <1>2, <1>3 DEF RecordIndex, Polling, Exposure
<1> QED BY <1>1, <1>4, <1>5

LEMMA GapSeen ==
  ASSUME BringUpInv, RecordIndex, GapOver \/ ResetDone
  PROVE  UNCHANGED Sees /\ Seen /\ RecordIndex'
<1>1. pc \in {"gap", "reset"} /\ record' = record /\ UNCHANGED Sees
  BY DEF GapOver, ResetDone, library, machine, Sees
<1>2. \/ pc' = "ready_out"
      \/ pc' = "failed" /\ error' = "cancelled" /\ StopAsked
      \/ pc' = "failed" /\ error' = "proto"
  BY DEF GapOver, ResetDone, EnterReady, Fail
<1>3. Seen
  BY <1>1, <1>2
  DEF Seen, Inside, Stops, Breaks, Wait, Wedged, Running, Ends, Replaying
<1>4. RecordIndex'
  BY <1>1, <1>2 DEF RecordIndex, Polling, Exposure
<1> QED BY <1>1, <1>3, <1>4

\* In the replay: the next record, the end of the table, or the stop.
LEMMA ReplaySeen ==
  ASSUME BringUpInv, RecordIndex, ReplayOut \/ ReplayIn
  PROVE  UNCHANGED Sees /\ Seen /\ RecordIndex'
<1>1. Replaying /\ UNCHANGED Sees
  BY DEF ReplayOut, ReplayIn, Replaying, library, Sees
<1>2. record < RecordCount /\ record \in Nat
  BY <1>1, CountsAssumption DEF BringUpInv, Progress, TypeOK
<1>3. \/ Advance
      \/ pc' = "replay_in" /\ record' = record
      \/ StopAsked /\ SilentStop
  BY DEF ReplayOut, ReplayIn
<1>4. CASE Advance
  <2>1. record' = record + 1
    BY <1>1, <1>4, AdvanceWays
  <2>2. \/ record' < RecordCount /\ pc' = "replay_out"
        \/ /\ record' = RecordCount
           /\ \/ StopAsked /\ pc' = "failed" /\ error' = "cancelled"
              \/ ~StopAsked /\ pc' = "read_out"
    BY <1>1, <1>4, AdvanceWays
  <2>3. Wedged /\ (Wedged' <=> record' < RecordCount)
    BY <1>2 DEF Wedged
  <2>4. record' = RecordCount => ~(record' < RecordCount)
    BY CountsAssumption
  <2>5. Seen
    BY <1>1, <2>2, <2>3, <2>4
    DEF Seen, Inside, StopsLast, Feeds, Wait, Running, Ends, Replaying
  <2>6. RecordIndex'
    BY <2>2 DEF RecordIndex, Polling, Exposure
  <2> QED BY <1>1, <2>5, <2>6
<1>5. CASE pc' = "replay_in" /\ record' = record
  BY <1>1, <1>5
  DEF Seen, Inside, Wait, Wedged, Running, Ends, Replaying, RecordIndex,
      Polling, Exposure
<1>6. CASE StopAsked /\ SilentStop
  BY <1>1, <1>6
  DEF Seen, Stops, SilentStop, Fail, Wait, Wedged, Replaying, RecordIndex,
      Polling, Exposure
<1> QED BY <1>3, <1>4, <1>5, <1>6

LEMMA ExposureSeen ==
  ASSUME BringUpInv, RecordIndex, ReadIn \/ ReapplyIn
  PROVE  UNCHANGED Sees /\ Seen /\ RecordIndex'
<1>1. /\ pc \in {"read_in", "reapply_in"} /\ record' = record
      /\ UNCHANGED Sees
  BY DEF ReadIn, ReapplyIn, library, machine, Sees
<1>2. pc' \in {"reapply_out", "completed"}
  BY DEF ReadIn, ReapplyIn
<1>3. Seen
  BY <1>1, <1>2
  DEF Seen, Inside, Finishes, Wait, Wedged, Running, Ends, Replaying
<1>4. RecordIndex'
  BY <1>1, <1>2 DEF RecordIndex, Polling, Exposure
<1> QED BY <1>1, <1>3, <1>4

LEMMA LateSeen ==
  ASSUME BringUpInv, RecordIndex, LateReply
  PROVE  UNCHANGED Sees /\ Seen /\ RecordIndex'
<1>1. Running /\ pc' = pc /\ record' = record /\ UNCHANGED Sees
  BY DEF LateReply, library, machine, Sees
<1> QED
  BY <1>1 DEF Seen, Inside, Wait, Wedged, Running, Replaying, RecordIndex

LEMMA MachineSeen ==
  ASSUME BringUpInv, RecordIndex, Machine \/ LateReply
  PROVE  UNCHANGED Sees /\ Seen /\ RecordIndex'
  BY DrainSeen, OutSeen, ReadyInSeen, GapSeen, ReplaySeen, ExposureSeen,
     LateSeen DEF Machine

\* What libfprint does meanwhile does not touch the bring-up.
LEMMA OutsideStands ==
  ASSUME CancelRequest \/ SuspendRequest \/ DeliverSuspend
  PROVE  pc' = pc /\ error' = error /\ record' = record
  BY DEF CancelRequest, SuspendRequest, DeliverSuspend, undisturbed, machine

LEMMA RecordIndexStep ==
  BringUpInv /\ RecordIndex /\ [Next]_vars => RecordIndex'
<1> SUFFICES ASSUME BringUpInv, RecordIndex, [Next]_vars PROVE RecordIndex'
  OBVIOUS
<1>1. CASE Machine \/ LateReply
  BY <1>1, MachineSeen
<1>2. CASE CancelRequest \/ SuspendRequest \/ DeliverSuspend
  BY <1>2, OutsideStands DEF RecordIndex
<1>3. CASE UNCHANGED vars
  BY <1>3 DEF vars, machine, RecordIndex
<1> QED BY <1>1, <1>2, <1>3 DEF Next

THEOREM RecordIndexInvariant == Spec => []RecordIndex
<1>1. Init => RecordIndex
  BY RecordIndexInit
<1>2. BringUpInv /\ RecordIndex /\ [Next]_vars => RecordIndex'
  BY RecordIndexStep
<1> QED BY <1>1, <1>2, BringUpInvariant, PTL DEF Spec

-----------------------------------------------------------------------------
(* The capture's steps                                                      *)

\* A record whose fields are reset to what they are stays as it is.
LEMMA ResetOfReset ==
  ASSUME NEW CONSTANT f, f = [x \in DOMAIN f |-> f[x]],
         f.saw = FALSE, f.finger = FALSE, f.cand = {}, f.settle = 0,
         f.best = -1
  PROVE  [f EXCEPT !.saw = FALSE, !.cand = {}, !.best = -1, !.settle = 0,
                   !.finger = FALSE] = f
  BY Zenon

LEMMA PressIsFresh == C!PressReset
<1>1. Press = [x \in DOMAIN Press |-> Press[x]]
  BY SMT DEF Press
<1>2. /\ Press.saw = FALSE /\ Press.finger = FALSE /\ Press.cand = {}
      /\ Press.settle = 0 /\ Press.best = -1
  BY Zenon DEF Press
<1>3. [Press EXCEPT !.saw = FALSE, !.cand = {}, !.best = -1, !.settle = 0,
                    !.finger = FALSE] = Press
  BY <1>1, <1>2, ResetOfReset
<1>4. Press' = Press
  BY DEF Press
<1> QED BY <1>3, <1>4 DEF C!PressReset

\* What the capture has and the bring-up leaves alone.
LEMMA RestStands ==
  ASSUME UNCHANGED cancelled
  PROVE  UNCHANGED C!notInit
  BY DEF C!notInit

\* The bring-up goes on, and the capture sees no more than a new wait.
LEMMA GoesOnAsCaptured ==
  ASSUME Running, Running', UNCHANGED Sees
  PROVE  /\ C!Continue(Wait', CaptureSleep)
         /\ UNCHANGED <<NeedsReinit, stop, Press>>
         /\ CapturePc = Wait /\ CapturePc' = Wait'
<1>1. /\ cancelled' = cancelled /\ suspend' = suspend /\ stop' = stop
      /\ Told' <=> Told
  BY DEF Sees, Told
<1>2. CapturePc = Wait /\ CapturePc' = Wait'
  BY DEF CapturePc
<1>3. CaptureSleep' = CaptureSleep
  BY <1>1 DEF CaptureSleep
<1>4. /\ Parked' = FALSE /\ Suspending' = Suspending
      /\ NeedsReinit = TRUE /\ NeedsReinit' = TRUE
  BY <1>1 DEF Parked, Suspending, NeedsReinit, Running, Ends
<1>5. CaptureOutcome' = CaptureOutcome
  BY DEF CaptureOutcome
<1>6. Press' = Press
  BY DEF Press
<1> QED BY <1>1, <1>2, <1>3, <1>4, <1>5, <1>6 DEF C!Continue

LEMMA InsideAsCaptured ==
  ASSUME Running, UNCHANGED Sees, Inside
  PROVE  UNCHANGED C!vars
<1>1. /\ C!Continue(Wait', CaptureSleep)
      /\ UNCHANGED <<NeedsReinit, stop, Press>>
      /\ CapturePc = Wait /\ CapturePc' = Wait'
  BY GoesOnAsCaptured DEF Inside
<1>2. UNCHANGED <<cancelled, stop, CapturePc, CaptureSleep, CaptureOutcome,
                  Suspending, NeedsReinit, Wedged, Press>>
  BY <1>1 DEF Inside, Sees, C!Continue
<1>3. Parked' = Parked
  BY DEF Inside, Parked
<1> QED BY <1>2, <1>3 DEF C!vars, C!lib, C!machine, C!data

LEMMA StartsAsCaptured ==
  ASSUME Running, UNCHANGED Sees, Starts
  PROVE  C!PollReady
<1>1. /\ C!Continue("replay", CaptureSleep)
      /\ UNCHANGED <<NeedsReinit, stop, Press>> /\ CapturePc = "poll"
  BY GoesOnAsCaptured DEF Starts
<1>2. ~C!StopAsked /\ Wedged' = Wedged /\ cancelled' = cancelled
  BY DEF Starts, StopAsked, C!StopAsked, Sees
<1> QED BY <1>1, <1>2, RestStands DEF C!PollReady

LEMMA FeedsAsCaptured ==
  ASSUME Running, UNCHANGED Sees, Feeds
  PROVE  C!ReplayDone
<1>1. /\ C!Continue("post", CaptureSleep)
      /\ UNCHANGED <<NeedsReinit, stop, Press>> /\ CapturePc = "replay"
  BY GoesOnAsCaptured DEF Feeds
<1>2. ~C!StopAsked /\ Wedged' = FALSE /\ cancelled' = cancelled
  BY DEF Feeds, StopAsked, C!StopAsked, Sees, Wedged
<1> QED BY <1>1, <1>2, RestStands DEF C!ReplayDone

\* The bring-up fails: reinit_done parks the capture or ends the action.
LEMMA FailsAsCaptured ==
  ASSUME BringUpInv, Running, UNCHANGED Sees, pc' = "failed",
         NEW stopped \in BOOLEAN, stopped <=> error' = "cancelled"
  PROVE  C!InitFailed(stopped) /\ UNCHANGED C!notInit
<1>1. /\ ~Running' /\ ~GoesOn' /\ pc # "completed" /\ pc' # "completed"
      /\ Parks' <=> ~cancelled /\ Told /\ stopped
      /\ Told' <=> Told
      /\ cancelled' = cancelled /\ stop' = stop
  BY DEF Sees, Running, Ends, GoesOn, Parks, Told
<1>2. suspend \in {"none", "queued", "told"} /\ cancelled \in BOOLEAN
  BY DEF BringUpInv, TypeOK
<1>3. CaptureSleep' = IF Told THEN "asleep" ELSE CaptureSleep
  BY <1>1, <1>2 DEF CaptureSleep, Sees, Told
<1>4. /\ Suspending = Told /\ Suspending' = FALSE
      /\ NeedsReinit = TRUE /\ NeedsReinit' = TRUE
      /\ CaptureOutcome = "none"
  BY <1>1 DEF Suspending, NeedsReinit, CaptureOutcome, Told
<1>5. UNCHANGED <<NeedsReinit, stop>>
  BY <1>1, <1>4
<1>6. CASE ~cancelled /\ Told /\ stopped
  <2>1. CapturePc' = "held" /\ CaptureOutcome' = "none" /\ Parked' = TRUE
    BY <1>1, <1>6 DEF CapturePc, CaptureOutcome, Parked
  <2>2. C!Park
    BY <1>3, <1>4, <1>6, <2>1, PressIsFresh DEF C!Park
  <2> QED BY <1>1, <1>5, <1>6, <2>2, RestStands DEF C!InitFailed
<1>7. CASE ~(~cancelled /\ Told /\ stopped)
  <2>1. /\ CapturePc' = "none" /\ Parked' = FALSE
        /\ CaptureOutcome'
             = IF stopped \/ cancelled THEN "cancelled" ELSE "error"
    BY <1>1, <1>7 DEF CapturePc, CaptureOutcome, Parked
  <2>2. C!Ended(IF stopped \/ cancelled THEN "cancelled" ELSE "error",
                CaptureSleep)
    BY <1>3, <1>4, <2>1 DEF C!Ended
  <2>3. UNCHANGED Press
    BY DEF Press
  <2> QED BY <1>1, <1>4, <1>5, <1>7, <2>2, <2>3, RestStands DEF C!InitFailed
<1> QED BY <1>6, <1>7

LEMMA StopsAsCaptured ==
  ASSUME BringUpInv, Running, UNCHANGED Sees, Stops
  PROVE  C!PollStopped \/ C!ReplaySilent
<1>1. C!InitFailed(TRUE) /\ UNCHANGED C!notInit
  BY FailsAsCaptured DEF Stops
<1>2. /\ CapturePc \in {"poll", "replay"} /\ C!StopAsked
      /\ Wedged' = Wedged
  BY DEF Stops, CapturePc, StopAsked, C!StopAsked
<1> QED BY <1>1, <1>2 DEF C!PollStopped, C!ReplaySilent

LEMMA StopsLastAsCaptured ==
  ASSUME BringUpInv, Running, UNCHANGED Sees, StopsLast
  PROVE  C!ReplayDone
<1>1. C!InitFailed(TRUE) /\ UNCHANGED C!notInit
  BY FailsAsCaptured DEF StopsLast
<1>2. CapturePc = "replay" /\ C!StopAsked /\ Wedged' = FALSE
  BY DEF StopsLast, CapturePc, StopAsked, C!StopAsked, Wedged
<1> QED BY <1>1, <1>2 DEF C!ReplayDone

LEMMA BreaksAsCaptured ==
  ASSUME BringUpInv, Running, UNCHANGED Sees, Breaks
  PROVE  C!PollFailed \/ C!ReplayFailed \/ C!PostFailed
<1>1. C!InitFailed(FALSE) /\ UNCHANGED C!notInit
  BY FailsAsCaptured DEF Breaks
<1>2. CapturePc \in {"poll", "replay", "post"} /\ Wedged' = Wedged
  BY DEF Breaks, CapturePc, Wait
<1> QED BY <1>1, <1>2 DEF C!PollFailed, C!ReplayFailed, C!PostFailed

\* The bring-up succeeds: on to the frame, unless somebody has asked for the
\* end or a sleep meanwhile.
LEMMA FinishesAsCaptured ==
  ASSUME BringUpInv, Running, UNCHANGED Sees, Finishes
  PROVE  C!InitDone
<1>1. /\ ~Running' /\ pc # "completed" /\ pc' = "completed"
      /\ Told' <=> Told
      /\ cancelled' = cancelled /\ stop' = stop /\ Wedged' = Wedged
  BY DEF Sees, Running, Ends, Told, Finishes
<1>2. suspend \in {"none", "queued", "told"} /\ cancelled \in BOOLEAN
  BY DEF BringUpInv, TypeOK
<1>3. CaptureSleep' = IF Told THEN "asleep" ELSE CaptureSleep
  BY <1>1, <1>2 DEF CaptureSleep, Sees, Told
<1>4. /\ Suspending = Told /\ Suspending' = FALSE
      /\ NeedsReinit = TRUE /\ NeedsReinit' = Told
      /\ CaptureOutcome = "none" /\ CapturePc = "post"
  BY <1>1 DEF Suspending, NeedsReinit, CaptureOutcome, CapturePc, Told,
              Finishes
<1>5. Press' = Press
  BY DEF Press
<1>6. /\ CapturePc = "post" /\ Wedged' = Wedged /\ UNCHANGED C!notInit
      /\ NeedsReinit' = (Suspending /\ NeedsReinit) /\ UNCHANGED stop
  <2>1. NeedsReinit' = (Suspending /\ NeedsReinit)
    BY <1>4 DEF Told
  <2> QED BY <1>1, <1>4, <2>1, RestStands
<1>7. CASE cancelled
  <2>1. /\ CapturePc' = "none" /\ Parked' = FALSE
        /\ CaptureOutcome' = "cancelled"
    BY <1>1, <1>7 DEF CapturePc, CaptureOutcome, Parked, Parks, GoesOn
  <2>2. C!Ended("cancelled", CaptureSleep)
    BY <1>3, <1>4, <2>1 DEF C!Ended
  <2> QED BY <1>7, <1>6, <2>2, <1>5 DEF C!FrameState, C!InitDone
<1>8. CASE ~cancelled /\ Told
  <2>1. /\ CapturePc' = "held" /\ Parked' = TRUE
        /\ CaptureOutcome' = "none"
    BY <1>1, <1>8 DEF CapturePc, CaptureOutcome, Parked, Parks
  <2>2. C!Park
    BY <1>3, <1>4, <1>8, <2>1, PressIsFresh DEF C!Park
  <2> QED BY <1>8, <1>6, <2>2 DEF C!FrameState, C!InitDone
<1>9. CASE ~cancelled /\ ~Told
  <2>1. /\ CapturePc' = "frame" /\ Parked' = FALSE
        /\ CaptureOutcome' = "none"
    BY <1>1, <1>9 DEF CapturePc, CaptureOutcome, Parked, Parks, GoesOn
  <2>2. C!Continue("frame", CaptureSleep)
    <3>1. Suspending' = Suspending /\ CaptureOutcome' = CaptureOutcome
      BY <1>4, <1>9, <2>1 DEF Told
    <3> QED BY <1>3, <1>9, <2>1, <3>1 DEF C!Continue
  <2>3. ~Suspending
    BY <1>4, <1>9
  <2> QED BY <1>5, <1>9, <1>6, <2>2, <2>3 DEF C!FrameState, C!InitDone
<1> QED BY <1>7, <1>8, <1>9

\* The client's cancel, and the suspend, whose vfunc the replay defers.
LEMMA CancelAsCaptured ==
  ASSUME Running, CancelRequest
  PROVE  C!CancelRequest
<1>1. /\ ~cancelled /\ cancelled' = TRUE
      /\ pc' = pc /\ record' = record /\ suspend' = suspend /\ stop' = stop
  BY DEF CancelRequest, undisturbed, machine
<1>2. Running' /\ Wait' = Wait /\ (Told' <=> Told) /\ Wedged' = Wedged
  BY <1>1 DEF Running, Wait, Replaying, Told, Wedged
<1>3. UNCHANGED <<CapturePc, CaptureOutcome, CaptureSleep>>
  BY <1>1, <1>2 DEF CapturePc, CaptureOutcome, CaptureSleep
<1>4. UNCHANGED <<Parked, Suspending, NeedsReinit>>
  BY <1>1, <1>2 DEF Parked, Suspending, NeedsReinit
<1>5. UNCHANGED Press
  BY DEF Press
<1> QED
  BY <1>1, <1>2, <1>3, <1>4, <1>5
  DEF C!CancelRequest, C!machine, C!data

LEMMA VfuncAsCaptured ==
  ASSUME Running, suspend # "told", suspend' = "told", stop' = TRUE,
         cancelled' = cancelled, pc' = pc, record' = record, error' = error
  PROVE  C!SuspendVfunc
<1>1. Running' /\ Wait' = Wait /\ Told' /\ Wedged' = Wedged
  BY DEF Running, Wait, Replaying, Told, Wedged
<1>2. /\ CaptureSleep' = "pending"
      /\ Suspending' = TRUE /\ Parked' = Parked /\ Parked = FALSE
      /\ NeedsReinit' = TRUE
  BY <1>1 DEF CaptureSleep, Told, Suspending, Parked, NeedsReinit
<1>3. /\ CapturePc # "none" /\ CapturePc' = CapturePc
      /\ CaptureOutcome' = CaptureOutcome
  BY <1>1 DEF CapturePc, CaptureOutcome, Wait
<1>4. UNCHANGED Press
  BY DEF Press
<1> QED
  BY <1>1, <1>2, <1>3, <1>4 DEF C!SuspendVfunc, C!data

LEMMA ReplayIsWait == CapturePc = "replay" <=> Running /\ Replaying
  BY DEF CapturePc, Wait, Running, Replaying, Ends

LEMMA SuspendAsCaptured ==
  ASSUME BringUpInv, Running, SuspendRequest
  PROVE  C!SuspendRequest
<1>1. /\ suspend = "none" /\ CaptureSleep = "awake"
      /\ cancelled' = cancelled /\ pc' = pc /\ record' = record
      /\ error' = error
  <2>1. /\ suspend = "none" /\ UNCHANGED cancelled
        /\ UNCHANGED undisturbed
    BY DEF SuspendRequest
  <2>2. pc' = pc /\ record' = record /\ error' = error
    BY <2>1 DEF undisturbed, machine
  <2>3. CaptureSleep = "awake"
    BY <2>1 DEF CaptureSleep, Told
  <2> QED BY <2>1, <2>2, <2>3
<1>2. critical > 0 <=> Replaying
  BY DEF BringUpInv, Section
<1>3. CASE Replaying
  <2>1. suspend' = "queued" /\ stop' = stop
    BY <1>2, <1>3 DEF SuspendRequest
  <2>2. Running' /\ Wait' = Wait /\ Wedged' = Wedged /\ (Told' <=> Told)
    BY <1>1, <2>1 DEF Running, Wait, Replaying, Told, Wedged
  <2>3. /\ CaptureSleep' = "queued" /\ CapturePc' = CapturePc
        /\ CaptureOutcome' = CaptureOutcome
    BY <1>1, <2>1, <2>2 DEF CaptureSleep, CapturePc, CaptureOutcome
  <2>4. UNCHANGED <<Parked, Suspending, NeedsReinit>>
    BY <1>1, <2>2 DEF Parked, Suspending, NeedsReinit
  <2>5. CapturePc = "replay"
    BY <1>3, ReplayIsWait
  <2>6. UNCHANGED Press
    BY DEF Press
  <2> QED
    BY <1>1, <2>1, <2>2, <2>3, <2>4, <2>5, <2>6
    DEF C!SuspendRequest, C!machine, C!data
<1>4. CASE ~Replaying
  <2>1. suspend' = "told" /\ stop' = TRUE
    BY <1>2, <1>4 DEF SuspendRequest
  <2>2. C!SuspendVfunc
    BY <1>1, <2>1, VfuncAsCaptured
  <2>3. CapturePc # "replay"
    BY <1>4, ReplayIsWait
  <2> QED BY <1>1, <2>2, <2>3 DEF C!SuspendRequest
<1> QED BY <1>3, <1>4

LEMMA DeliveryAsCaptured ==
  ASSUME BringUpInv, Running, DeliverSuspend
  PROVE  C!DeliverSuspend
<1>1. /\ suspend = "queued" /\ suspend' = "told" /\ stop' = TRUE
      /\ critical = 0
      /\ cancelled' = cancelled /\ pc' = pc /\ record' = record
      /\ error' = error
  BY DEF DeliverSuspend, undisturbed, machine
<1>2. C!SuspendVfunc
  BY <1>1, VfuncAsCaptured
<1>3. CaptureSleep = "queued"
  BY <1>1 DEF CaptureSleep, Told
<1>4. CapturePc # "replay"
  BY <1>1, ReplayIsWait DEF BringUpInv, Section
<1> QED BY <1>2, <1>3, <1>4 DEF C!DeliverSuspend

-----------------------------------------------------------------------------

\* Every step of a bring-up that runs is one of the capture's.
LEMMA StepAsCaptured ==
  BringUpInv /\ RecordIndex /\ [Next]_vars
    => [~resetIfStuck /\ Running => C!Next \/ UNCHANGED C!vars]_vars
<1> SUFFICES ASSUME BringUpInv, RecordIndex, Next, Running
             PROVE  C!Next \/ UNCHANGED C!vars
  OBVIOUS
<1>1. CASE Machine \/ LateReply
  <2>1. UNCHANGED Sees /\ Seen
    BY <1>1, MachineSeen
  <2>2. CASE Inside
    BY <2>1, <2>2, InsideAsCaptured
  <2>3. CASE Starts \/ Stops \/ Breaks \/ StopsLast \/ Feeds \/ Finishes
    BY <2>1, <2>3, StartsAsCaptured, StopsAsCaptured, BreaksAsCaptured,
       StopsLastAsCaptured, FeedsAsCaptured, FinishesAsCaptured
    DEF C!Next, C!Machine
  <2> QED BY <2>1, <2>2, <2>3 DEF Seen
<1>2. CASE CancelRequest
  BY <1>2, CancelAsCaptured DEF C!Next, C!Client
<1>3. CASE SuspendRequest
  BY <1>3, SuspendAsCaptured DEF C!Next, C!System
<1>4. CASE DeliverSuspend
  BY <1>4, DeliveryAsCaptured DEF C!Next, C!Idles
<1> QED BY <1>1, <1>2, <1>3, <1>4 DEF Next

\* The bring-up of egis0576_proto.c is the one capture_run_state waits for:
\* whatever the sensor answers and whenever a cancel or a suspend comes, a
\* capture's bring-up takes only steps Capture has, reinit_done included.
THEOREM BringUpIsCaptured == Spec => BringUpIsCaptures
<1>1. BringUpInv /\ RecordIndex /\ [Next]_vars
        => [~resetIfStuck /\ Running => C!Next \/ UNCHANGED C!vars]_vars
  BY StepAsCaptured
<1> QED
  BY <1>1, BringUpInvariant, RecordIndexInvariant, PTL
  DEF Spec, BringUpIsCaptures
=============================================================================
