------------------------------ MODULE SensorInit ------------------------------
(***************************************************************************)
(* The bring-up of the sensor, egis_dev_init_ssm in egis0576_proto.c, one  *)
(* step per USB completion: drain EP IN, poll register 0 until the sensor  *)
(* is ready, replay the vendor's records under libfprint's critical        *)
(* section, read the exposure register back and put the calibrated         *)
(* exposure in it. Around the machine: the client's cancel, the suspend of *)
(* a capture's bring-up, and a sensor that answers, answers late, falls    *)
(* silent or refuses a command at any transfer.                            *)
(*                                                                         *)
(* Replies carry no tag the driver looks at, so an IN transfer collects    *)
(* whatever is first in line: stale counts the replies queued before the   *)
(* one that is waited for. Of a reply only its value byte matters, -1      *)
(* where egis_reg_value finds none.                                        *)
(***************************************************************************)
EXTENDS Integers

CONSTANTS
  DrainMax,         \* EGIS_DRAIN_MAX
  ReadyTries,       \* EGIS_READY_TRIES
  RecordCount,      \* EGIS_INIT_RECORD_COUNT
  Kind,             \* the kind of each record of egis_init_records
  Chunks,           \* EGIS_UPLOAD_CHUNKS
  BlockWrite,       \* the record that writes registers 0x09..0x13
  Baked,            \* the exposure it writes
  Calibrations,     \* what dc_c_calibrated may be; -1 for none
  RegValues,        \* the values a reply can carry
  ReadyValue,       \* the value register 0 has when the sensor is ready
  Leftover,         \* bound: replies a previous session left on EP IN
  MaxLate           \* bound: replies on their way after their timeout

ASSUME CountsAssumption ==
  /\ DrainMax \in Nat \ {0} /\ ReadyTries \in Nat \ {0}
  /\ RecordCount \in Nat \ {0} /\ Chunks \in Nat \ {0}
  /\ Leftover \in Nat /\ MaxLate \in Nat

ASSUME ValuesAssumption ==
  /\ RegValues \subseteq Nat
  /\ Baked \in RegValues /\ ReadyValue \in RegValues
  /\ Calibrations \subseteq RegValues \cup {-1}

\* The shape of egis_init_records: an upload command is followed by its
\* chunks, and a chunk stands nowhere else.
ASSUME RecordsAssumption ==
  /\ Kind \in [0 .. RecordCount - 1 -> {"cmd", "upload", "chunk"}]
  /\ \A u \in 0 .. RecordCount - 1 : Kind[u] = "upload" =>
       \A j \in 1 .. Chunks : u + j < RecordCount /\ Kind[u + j] = "chunk"
  /\ \A c \in 0 .. RecordCount - 1 : Kind[c] = "chunk" =>
       \E u \in 0 .. RecordCount - 1 : /\ Kind[u] = "upload"
                                       /\ u < c /\ c <= u + Chunks

VARIABLES
  pc,             \* the completion the machine waits for, or its end
  error,          \* what it failed with
  resetIfStuck,   \* open's bring-up; a capture's otherwise
  calibrated,     \* dc_c_calibrated, as the driver handed it in
  drains, tries, record, inUpload, inCritical, dcC,    \* of EgisDev
  cancelled,      \* fpi_device_action_is_cancelled
  stop,           \* egis_dev_request_stop
  suspend,        \* none | queued (for the critical section) | told
  critical,       \* libfprint's count of critical sections
  stale,          \* replies on EP IN before the one waited for
  owed,           \* replies still to come after their timeout
  took,           \* the sensor acts on and answers the command last accepted
  expects,        \* chunks the sensor waits for before it says anything
  fed,            \* records it accepted in this replay
  reg,            \* its exposure register, 0x0f
  \* History, read by the properties only:
  missed,         \* an IN transfer timed out in the poll, replay or after
  refused,        \* the sensor refused a command
  since,          \* commands sent since a timeout with a cancel or stop
                  \* pending; -1: there was none
  waited,         \* replies waited for in vain since a suspend was asked for
  answered,       \* uploads the sensor answered, which nobody reads for
  applied         \* what the end of the bring-up did about the calibrated
                  \* exposure: no | unread (the register did not answer) |
                  \* read (it holds it) | written

args == <<resetIfStuck, calibrated>>
machine == <<drains, tries, record, inUpload, inCritical>>
library == <<cancelled, stop, suspend>>
sensor == <<took, expects, fed, reg>>
pipe == <<stale, owed>>
history == <<missed, refused, since, waited>>
marks == <<answered, applied>>
vars == <<pc, error, args, machine, dcC, library, critical, sensor,
          pipe, history, marks>>

Outs == {"ready_out", "replay_out", "read_out", "reapply_out"}
Ins == {"ready_in", "replay_in", "read_in", "reapply_in"}
Ends == {"completed", "failed"}
Pcs == Outs \cup Ins \cup Ends \cup {"drain", "gap", "reset"}
Bytes == RegValues \cup {-1}

Running == pc \notin Ends
Replaying == pc \in {"replay_out", "replay_in"}
StopAsked == stop \/ cancelled

Init ==
  /\ pc = "drain" /\ error = "none"
  /\ resetIfStuck \in BOOLEAN /\ calibrated \in Calibrations
  /\ drains = 0 /\ tries = 0 /\ record = 0 /\ inUpload = 0
  /\ inCritical = FALSE
  /\ dcC = 0
  /\ cancelled = FALSE /\ stop = FALSE /\ suspend = "none" /\ critical = 0
  /\ stale \in 0 .. Leftover /\ owed = 0
  /\ took = FALSE /\ expects = 0 /\ fed = 0
  /\ reg \in RegValues
  /\ missed = FALSE /\ refused = FALSE /\ since = -1 /\ waited = 0
  /\ answered = 0 /\ applied = "no"

-----------------------------------------------------------------------------
(* The wire                                                                 *)

\* Bounds of the two counters: a second command, and more timeouts of 800 ms
\* than fit in 5 s.
SinceMax == 2
WaitedMax == 7

\* The counters with a completion that did or did not time out; it may send
\* the next command.
Track(timeout) ==
  /\ missed' = (missed \/ timeout)
  /\ LET heard == IF since = -1 /\ timeout /\ StopAsked THEN 0 ELSE since IN
     since' = IF heard \in 0 .. SinceMax - 1 /\ pc' \in Outs THEN heard + 1
              ELSE heard
  /\ waited' = IF timeout /\ suspend # "none" /\ waited < WaitedMax
               THEN waited + 1 ELSE waited
  /\ UNCHANGED refused

\* An IN transfer collects a value: of a stale reply, of the one waited for,
\* or none, before the timeout; a reply may still come after it.
Receive(v, timeout, answers) ==
  \/ /\ stale > 0 /\ ~timeout /\ v \in Bytes
     /\ stale' = stale - (IF took THEN 0 ELSE 1)
     /\ UNCHANGED owed
  \/ /\ stale = 0 /\ took /\ ~timeout /\ v \in answers
     /\ UNCHANGED pipe
  \/ /\ stale = 0 /\ timeout /\ v = -1
     /\ \/ UNCHANGED owed
        \/ took /\ owed < MaxLate /\ owed' = owed + 1
     /\ UNCHANGED stale

LateReply ==
  /\ Running /\ owed > 0
  /\ owed' = owed - 1 /\ stale' = stale + 1
  /\ UNCHANGED <<pc, error, args, machine, dcC, library, critical,
                 sensor, history, marks>>

-----------------------------------------------------------------------------
(* Entering a state of the machine: init_run_state                          *)

Fail(e) == pc' = "failed" /\ error' = e

EnterReady ==
  IF StopAsked THEN Fail("cancelled")
               ELSE pc' = "ready_out" /\ UNCHANGED error

\* (slip) The ForceReset is issued for a cancelled action, too.
EnterNotReadyUnchecked ==
  IF resetIfStuck THEN pc' = "reset" /\ UNCHANGED error ELSE Fail("proto")

EnterNotReady ==
  IF StopAsked THEN Fail("cancelled")
  ELSE IF resetIfStuck THEN pc' = "reset" /\ UNCHANGED error
  ELSE Fail("proto")

EnterReplay ==
  IF StopAsked
  THEN /\ Fail("cancelled")
       /\ UNCHANGED <<critical, inCritical, record, inUpload, fed>>
  ELSE /\ pc' = "replay_out" /\ UNCHANGED error
       /\ critical' = critical + 1 /\ inCritical' = TRUE
       /\ record' = 0 /\ inUpload' = 0 /\ fed' = 0

\* (slip) After the replay nothing is looked at.
EnterReadDcCUnchecked == pc' = "read_out" /\ UNCHANGED error

EnterReadDcC ==
  IF StopAsked THEN Fail("cancelled")
               ELSE pc' = "read_out" /\ UNCHANGED error

\* init_replay_leave
Leave ==
  /\ critical' = IF inCritical THEN critical - 1 ELSE critical
  /\ inCritical' = FALSE

\* (slip) A cancel is honoured between two records.
AdvanceStops ==
  /\ record' = record + 1
  /\ IF StopAsked THEN Leave /\ Fail("cancelled")
     ELSE IF record + 1 < RecordCount
     THEN pc' = "replay_out" /\ UNCHANGED <<error, critical, inCritical>>
     ELSE Leave /\ EnterReadDcC

\* init_replay_advance
Advance ==
  /\ record' = record + 1
  /\ IF record + 1 < RecordCount
     THEN pc' = "replay_out" /\ UNCHANGED <<error, critical, inCritical>>
     ELSE Leave /\ EnterReadDcC

-----------------------------------------------------------------------------
(* The completions before the replay                                        *)

\* (slip) One read too few.
DrainsOnLess == drains + 2 < DrainMax

DrainsOn == drains + 1 < DrainMax

\* init_drain_cb
Drain ==
  /\ pc = "drain"
  /\ IF stale > 0
     THEN /\ stale' = stale - 1 /\ drains' = drains + 1
          /\ IF DrainsOn THEN UNCHANGED <<pc, error>> ELSE EnterReady
     ELSE EnterReady /\ UNCHANGED <<stale, drains>>
  /\ Track(FALSE)
  /\ UNCHANGED <<args, tries, record, inUpload, inCritical, dcC,
                 library, critical, owed, sensor, marks>>

\* egis_cmd_out_cb: the commands outside the replay
OutAccepted ==
  /\ pc \in Outs \ {"replay_out"}
  /\ pc' = CASE pc = "ready_out" -> "ready_in"
             [] pc = "read_out" -> "read_in"
             [] pc = "reapply_out" -> "reapply_in"
  /\ took' \in BOOLEAN
  /\ reg' = IF pc = "reapply_out" /\ took' THEN calibrated ELSE reg
  /\ applied' = IF pc = "reapply_out" THEN "written" ELSE applied
  /\ Track(FALSE)
  /\ UNCHANGED <<error, args, machine, dcC, library, critical, pipe,
                 expects, fed, answered>>

\* egis_cmd_out_cb and init_replay_out_cb with an error
OutRefused ==
  /\ pc \in Outs
  /\ Fail("usb")
  /\ IF pc = "replay_out" THEN Leave ELSE UNCHANGED <<critical, inCritical>>
  /\ refused' = TRUE
  /\ UNCHANGED <<args, drains, tries, record, inUpload, dcC, library,
                 sensor, pipe, missed, since, waited, marks>>

TriesLeft == tries + 1 < ReadyTries

\* init_ready_cb
ReadyIn ==
  /\ pc = "ready_in"
  /\ \E v \in Bytes, timeout \in BOOLEAN :
       /\ Receive(v, timeout, Bytes)
       /\ \/ v = ReadyValue /\ EnterReplay /\ UNCHANGED tries
          \/ /\ v # ReadyValue /\ tries' = tries + 1
             /\ IF TriesLeft THEN pc' = "gap" /\ UNCHANGED error
                          ELSE EnterNotReady
             /\ UNCHANGED <<critical, inCritical, record, inUpload, fed>>
       /\ Track(timeout)
  /\ UNCHANGED <<args, drains, dcC, library, took, expects, reg,
                 marks>>

\* (slip) The tries are counted anew for each poll.
GapOverRestarts ==
  /\ pc = "gap"
  /\ EnterReady
  /\ tries' = 0
  /\ Track(FALSE)
  /\ UNCHANGED <<args, drains, record, inUpload, inCritical, dcC,
                 library, critical, pipe, sensor, marks>>

\* fpi_ssm_jump_to_state_delayed
GapOver ==
  /\ pc = "gap"
  /\ EnterReady
  /\ Track(FALSE)
  /\ UNCHANGED <<args, machine, dcC, library, critical, pipe, sensor,
                 marks>>

\* init_reset_cb
ResetDone ==
  /\ pc = "reset"
  /\ Fail("proto")
  /\ Track(FALSE)
  /\ UNCHANGED <<args, machine, dcC, library, critical, pipe, sensor,
                 marks>>

-----------------------------------------------------------------------------
(* The replay                                                               *)

NextInUpload ==
  IF Kind[record] = "upload" THEN Chunks
  ELSE IF inUpload > 0 THEN inUpload - 1 ELSE 0

\* (slip) The upload command gets its reply collected like any other.
AwaitsReplyAnyCommand == Kind[record] # "chunk" /\ inUpload = 0

AwaitsReply == Kind[record] = "cmd" /\ inUpload = 0

\* init_replay_out_cb: an upload and its chunks are not answered one by one,
\* and what the sensor says to the whole of it, if anything, is not read.
ReplayOut ==
  /\ pc = "replay_out"
  /\ fed' = fed + 1
  /\ inUpload' = NextInUpload
  /\ \/ /\ AwaitsReply /\ pc' = "replay_in"
        /\ UNCHANGED <<error, record, critical, inCritical>>
     \/ ~AwaitsReply /\ Advance
  /\ took' \in BOOLEAN
  /\ reg' = IF record = BlockWrite /\ took' THEN Baked ELSE reg
  /\ expects' = IF Kind[record] = "upload" THEN Chunks
                ELSE IF expects > 0 THEN expects - 1 ELSE 0
  /\ \/ UNCHANGED <<stale, answered>>
     \/ /\ expects = 1 /\ took'
        /\ stale' = stale + 1 /\ answered' = answered + 1
  /\ Track(FALSE)
  /\ UNCHANGED <<args, drains, tries, dcC, library, owed, applied>>

\* (slip) The critical section is not left.
SilentStopInside ==
  Fail("cancelled") /\ UNCHANGED <<record, critical, inCritical>>

SilentStop == Fail("cancelled") /\ Leave /\ UNCHANGED record

\* init_replay_in_cb
ReplayIn ==
  /\ pc = "replay_in"
  /\ \E timeout \in BOOLEAN :
       /\ Receive(-1, timeout, Bytes)
       /\ \/ timeout /\ StopAsked /\ SilentStop
          \/ ~(timeout /\ StopAsked) /\ Advance
       /\ Track(timeout)
  /\ UNCHANGED <<args, drains, tries, inUpload, dcC, library, sensor,
                 marks>>

-----------------------------------------------------------------------------
(* The exposure                                                             *)

\* (slip) Nothing is written if the register could not be read.
NeedsReapplyIfRead(v) == calibrated >= 0 /\ v >= 0 /\ v # calibrated

\* The value cached for a register that could not be read is 0.
Cached(v) == IF v < 0 THEN 0 ELSE v

NeedsReapply(v) == calibrated >= 0 /\ Cached(v) # calibrated

\* init_dc_c_cb
ReadIn ==
  /\ pc = "read_in"
  /\ \E v \in Bytes, timeout \in BOOLEAN :
       /\ Receive(v, timeout, {reg})
       /\ dcC' = Cached(v)
       /\ pc' = IF NeedsReapply(v) THEN "reapply_out" ELSE "completed"
       /\ applied' = IF v = -1 THEN "unread"
                     ELSE IF v = calibrated THEN "read" ELSE applied
       /\ Track(timeout)
  /\ UNCHANGED <<error, args, machine, library, critical, sensor, answered>>

\* init_reapply_cb
ReapplyIn ==
  /\ pc = "reapply_in"
  /\ dcC' = calibrated
  /\ pc' = "completed"
  /\ \E timeout \in BOOLEAN : Receive(-1, timeout, Bytes) /\ Track(timeout)
  /\ UNCHANGED <<error, args, machine, library, critical, sensor,
                 marks>>

-----------------------------------------------------------------------------
(* libfprint                                                                *)

undisturbed == <<pc, error, args, machine, dcC, critical, pipe,
                 sensor, history, marks>>

\* The action's cancellable.
CancelRequest ==
  /\ Running /\ ~cancelled
  /\ cancelled' = TRUE
  /\ UNCHANGED <<stop, suspend, undisturbed>>

\* fp_device_suspend, of a capture: the vfunc, which asks for the stop
\* (egis0576_suspend), at once or after the critical section. An open is not
\* told of a suspend.
SuspendRequest ==
  /\ Running /\ ~resetIfStuck /\ suspend = "none"
  /\ IF critical > 0 THEN suspend' = "queued" /\ UNCHANGED stop
                     ELSE suspend' = "told" /\ stop' = TRUE
  /\ UNCHANGED <<cancelled, undisturbed>>

DeliverSuspend ==
  /\ suspend = "queued" /\ critical = 0
  /\ suspend' = "told" /\ stop' = TRUE
  /\ UNCHANGED <<cancelled, undisturbed>>

-----------------------------------------------------------------------------

Machine ==
  \/ Drain \/ OutAccepted \/ OutRefused \/ ReadyIn \/ GapOver \/ ResetDone
  \/ ReplayOut \/ ReplayIn \/ ReadIn \/ ReapplyIn

Next ==
  \/ Machine \/ LateReply
  \/ CancelRequest \/ SuspendRequest \/ DeliverSuspend

Spec == Init /\ [][Next]_vars

\* A transfer completes or times out, and the main loop runs its idles.
FairSpec == Spec /\ WF_vars(Machine) /\ WF_vars(DeliverSuspend)

-----------------------------------------------------------------------------
(* Properties                                                               *)

\* The fields of EgisDev, the machine's state and libfprint's, the wire.
TypeOK ==
  /\ pc \in Pcs /\ error \in {"none", "cancelled", "proto", "usb"}
  /\ resetIfStuck \in BOOLEAN /\ calibrated \in Calibrations
  /\ drains \in 0 .. DrainMax /\ tries \in 0 .. ReadyTries
  /\ record \in 0 .. RecordCount /\ inUpload \in 0 .. Chunks
  /\ inCritical \in BOOLEAN /\ dcC \in RegValues \cup {0}
  /\ cancelled \in BOOLEAN /\ stop \in BOOLEAN
  /\ suspend \in {"none", "queued", "told"} /\ critical \in 0 .. 1
  /\ stale \in Nat /\ owed \in 0 .. MaxLate
  /\ took \in BOOLEAN /\ expects \in 0 .. Chunks
  /\ fed \in 0 .. RecordCount /\ reg \in RegValues
  /\ missed \in BOOLEAN /\ refused \in BOOLEAN
  /\ since \in -1 .. SinceMax /\ waited \in 0 .. WaitedMax
  /\ answered \in Nat /\ applied \in {"no", "unread", "read", "written"}

\* Nothing is read while the sensor waits for the rest of an upload: "doing
\* so stalls the upload and wedges the sensor" (init_replay_out_cb). The
\* driver's count follows the sensor's through the table.
NoReadDuringUpload ==
  pc \in {"replay_in", "read_in", "reapply_in"} => expects = 0

\* libfprint's critical section is held exactly during the replay: on each
\* of its exits it is left, once.
CriticalIsReplay == critical = IF Replaying THEN 1 ELSE 0

\* A sensor that answers is never left with a prefix of the sequence: a
\* cancel or stop ends a replay half-way only after a timeout, and the
\* bring-up succeeds only with the whole of it accepted.
PrefixOnlyIfSilent ==
  /\ pc = "failed" /\ fed \in 1 .. RecordCount - 1 => missed \/ refused
  /\ pc = "completed" => fed = RecordCount

\* The ForceReset, which takes the device off the bus, is only for an open
\* whose poll is exhausted, and never for a cancelled one.
ResetIsLastResort ==
  [][pc # "reset" /\ pc' = "reset" =>
       resetIfStuck /\ ~StopAsked /\ tries' = ReadyTries]_vars

\* The driver cannot tell one reply from another, and the drain suffices all
\* the same. Two things put the replies out of step: one that was missed, which
\* is excepted, and the answer to an upload ("the sensor answers only once that
\* is complete", init_replay_out_cb), which no read is for. Nothing but those
\* answers is left on the pipe for the captures; and without one the exposure
\* cached is the sensor's.
CacheIsRegister ==
  pc = "completed" /\ ~missed =>
    stale <= answered /\ (answered = 0 => dcC = reg)

\* "INIT_READ_DC_C: cache the exposure register the replay left", whether or
\* not the upload was answered. It does not hold: README, 6.
CacheIsRegisterAnyway == pc = "completed" /\ ~missed => dcC = reg

\* After a bring-up the register was found at the calibrated exposure or that
\* was written to it, and the cache says so: with one exception, 0, which is
\* also what a register that could not be read is cached as.
CalibrationReapplied ==
  pc = "completed" /\ calibrated >= 0 =>
    /\ dcC = calibrated
    /\ applied \in {"read", "written"} \/ (applied = "unread" /\ calibrated = 0)

\* "the init machine re-applies the handed-in value after every replay"
\* (egis0576_proto.h). It does not hold: README, 6.
AlwaysReapplied ==
  pc = "completed" /\ calibrated >= 0 => applied \in {"read", "written"}

\* Once a reply is missed, a pending cancel or stop lets at most one more
\* command out, and no ForceReset.
StopLatency == since <= 1 /\ (since # -1 => pc # "reset")

\* A suspend is not kept waiting by a silent sensor for longer than the 5 s
\* logind gives, 800 ms a reply: "a stop is never more than one reply timeout
\* plus one command away" (egis0576_proto.h).
SuspendLatency == waited < WaitedMax

\* The bring-up ends, whatever the sensor does.
BringUpEnds == <>(pc \in Ends)

\* A suspend deferred for the replay reaches the driver.
SuspendReachesDriver == suspend = "queued" ~> suspend = "told"
=============================================================================
