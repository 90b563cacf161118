# Verification of the libfprint driver for the EgisTec EH576

This directory holds TLA+ specifications of the driver in `src/driver/`, the
TLC configurations that check them on small instances, and TLAPS proofs of
their safety properties for every value of their constants. `PROJECT.json`
lists the runs, the source lines each definition stands for, one deliberate
mistake per property that the run finds, the hazards of the code, and the two
disagreements of code and comments that have a run; section 6 lists the others.

    tlc -workers 2 -config Capture_match.cfg MCCapture
    tlapm CaptureProofs.tla

## 1. The system

The driver is asynchronous C under GLib's main loop. Every operation is a
state machine (`FpiSsm`) that submits one USB transfer and goes on in its
completion callback; the matcher alone runs in a worker thread, and its result
comes back to the main loop through a `GTask`. Nothing is preempted: the
interleavings are those of callbacks, idles, timers and thread results.

| Component | State it keeps | Operations | Talks to |
|---|---|---|---|
| Capture machine (`driver/egis0576.c`) | `ssm`, `suspending`, `parked`, `needs_reinit`, `frame_retried`, the press (`phase`, `saw_finger`, `best_score`, `settle_tries`, the candidate), `enroll_count`, baseline | `CAP_LOAD` .. `CAP_PROCESS`, `load_done`, `match_done`, `frame_done`, `reinit_done`; cancel, suspend, resume, removed | starts the bring-up machine and the frame chain, hands frames to the engine in a thread, is called by libfprint |
| Open, close (`driver/egis0576.c`) | `sensor`, `engine`, `dc_c_calibrated`, `needs_reinit` | `egis0576_open`, `open_init_done`, `open_calibrate_done`, `egis0576_close` | bring-up, calibration |
| Bring-up machine (`egis0576_proto.c`) | `drains`, `ready_tries`, `record`, `in_upload`, `in_critical`, `stop`, `dc_c` | `INIT_DRAIN` .. `INIT_REAPPLY` | the sensor; libfprint's critical section |
| Exposure calibration (`egis0576_proto.c`) | `cal_lo` .. `cal_it`, `dc_c`, `dc_c_calibrated` | `CAL_WRITE` .. `CAL_APPLY` | the sensor, the frame chain |
| Frame chain (`egis0576_proto.c`) | `img`, `got`, `step`, `frame_cb` | preamble, GetFrame, chunks | the sensor |
| Engine (`egis_engine.h`, `egis_engine_cleanroom.c`) | enrol session, gallery, scratch frames | enrol begin / add / finish, gallery load, verify, identify, raw corroboration | a matcher |
| Matchers (`gabor/`, `tsteppy/`) | none between calls | `em_frame_compute`, `em_match` | the engine |
| Vendor flavour (`egis_engine.c`, `egis_rt.c`, `egis_funcs.c`, ...) | a process-wide arena at fixed addresses, one session | the engine contract again | |
| Resume hook and gate (`integration/`) | a marker file | pre, post; wait | systemd, fprintd |

libfprint is external: it holds the current action and its cancellable, calls
the vfuncs, defers them over a critical section, and asks for exactly one
completion of every suspend. The sensor is external too: it answers, answers
late, falls silent, refuses a command, or leaves the bus.

### What is hard

* **Suspend meets everything.** The suspend vfunc may run with a transfer, a
  timer or a thread outstanding, with the action's completion already queued,
  or be deferred by the replay's critical section. It must be answered once,
  with the bus quiet, within logind's 5 s.
* **Two signals with one error code.** A cancel and a suspend's stop both end a
  bring-up with `G_IO_ERROR_CANCELLED`; one ends the action, the other parks it.
* **State that outlives its moment**: a press across a sleep, a candidate across
  frames, a stop across machines, a calibration across opens, a baseline across
  exposures, a reply on the endpoint across commands.
* **Partial failure**: a replay that stops half-way, a frame that fails, a write
  that is refused in the middle of a search.
* **Counting on both sides**: stages and stored frames, chunks sent and chunks
  the sensor waits for.

`PROJECT.json` lists these at their lines under `hazards`.

### What makes each component correct

* Capture: quiet while asleep; each suspend answered once; a bring-up between a
  sleep and the next frame; cancelled iff cancelled; a match only on two
  consecutive, different frames of one print; no verdict for a press from before
  a sleep; one frame per touch; stage count = session; everything ends.
* Bring-up: no read during an upload; the critical section exactly around the
  replay; no prefix left in a sensor that answers; the exposure re-applied; the
  cached register is the sensor's; a stop is heard within one timeout.
* Calibration: the best value of the range, known only after a whole search.
* Sessions: no frame at an exposure a search stopped at; a baseline of one
  exposure; a closed device holds nothing.
* Frame chain: the bytes delivered are one frame's; the callback comes once, and
  in time.
* Engine: the session and the gallery change as a whole or not at all; the index
  returned is a print's; verify and identify decide alike; an enrolment ends.
* Matcher search: the candidates kept are the best ones, and no alignment is out
  of their reach.
* Vendor flavour: no global and no pointer leads an operation to what an earlier
  one left.
* Hook and gate: no claim from before a sleep is left, and nothing of the hook.

## 2. The modules

    SuspendContract <-- CaptureProps -- Capture <-- BringUpInCapture -- SensorInit
       (abstract)            |                                |
                     CaptureInSessions                 SensorInitProofs
                       |     |                          MCSensorInit
          Sessions <---+   CaptureProofs
             ^             MCCapture
             +------------ CalibrateProofs -- Calibrate -- MCCalibrate

    EngineContract <----+---- Engine ---- EngineProofs, MCEngine
       (abstract)       +---- VendorEngine ---- VendorProofs, MCVendorEngine

    Sessions ---- SessionsProofs, MCSessions        FrameChain ---- FrameChainProofs
    ResumeGate ------+                              MatchSearch --- MatchSearchProofs, MCMatchSearch

An arrow is `INSTANCE ... WITH` a refinement mapping; every other line is EXTENDS.
MC modules define the constants that a configuration file cannot write.
The pieces meet where one uses the other's result: `Capture` has the bring-up as
three waits, and `BringUpInCapture` shows that the completions of `SensorInit` are
steps of it; `Sessions` has of search and capture what later opens and actions find,
and every step of `Capture` and of `Calibrate` is one of its own, or changes nothing
it sees (`CapturesInSessions`, `SearchInSessions`); `Capture` has the engine as its
return codes, and `Engine` has the driver's part of each call with it.

In all modules a step is one main-loop callback with everything it calls
synchronously, since nothing can come in between (in `Engine` and `VendorEngine`
one call of the engine, in `ResumeGate` one command of a script); the program
counter `pc` names what the machine waits for. Definitions whose comment begins
with "(slip)" are one-mistake variants used by the mutants only.

### Capture (`driver/egis0576.c`)

| In the module | In the code |
|---|---|
| `action`, `cancelled`, `cancelDue`, `removed`, `outcome` | libfprint's current action, its cancellable, the cancel vfunc still to be called, the `removed` property, what was reported |
| `sleep` | the suspend: `queued` behind the critical section, `pending` (vfunc ran, not answered), `asleep` (answered), `idle` (slept without a vfunc, as no action ran) |
| `pc` | `self->ssm` and what it waits for; `held` is a machine with nothing in flight |
| `parked`, `suspending`, `needsReinit`, `frameRetried`, `stop` | the fields of those names, `EgisDev.stop` |
| `press` | `phase`, `finger_present`, `settle_tries`, `saw_finger`, `best_score`, and the candidate as a set of at most one |
| `job`, `stored` | the `MatchJob` and the engine's count of stored frames |
| `wedged`, `seen` | history: the sensor slept and was not replayed since; the frame scored last, whether a finger was seen since the resume, frames stored by this touch |
| `Ended`, `Park`, `LoopHead`, `FrameState`, `ReinitStart` | `capture_done`, `capture_park_if_suspending`, `CAP_REINIT`, `CAP_FRAME`, `reinit_start` |
| `FrameArrives`, `Process*`, `FrameFails` | `frame_done`, `capture_process`, `CAP_RECOVER` |
| `MatchRun`, `MatchDone` (`EnrollResult`, `MatchResult`) | `match_thread`, `match_done` |
| `SuspendVfunc`, `Resume`, `DeliverCancel`, `Remove` | `egis0576_suspend`, `_resume`, `_cancel`, `_removed` |

A frame is its variance (against the three thresholds 210, 215, 250) and an
identity that tells a re-served frame from a fresh one. The engine is its return
codes; any code may come at any time, but a session stores at most `Stages`.

`SuspendContract` is what a driver owes libfprint: an action that runs, a bus
that is busy or quiet, a system that is awake, asks to sleep, or sleeps.
`CaptureProps` defines the mapping (`Phase`, `Bus`, `Power`) and instantiates it.

### SensorInit (`driver/egis0576/egis0576_proto.c`)

| In the module | In the code |
|---|---|
| `pc` | which completion the machine waits for: `*_out` and `*_in` are the two transfers of `egis_cmd` |
| `drains` .. `dcC`, `calibrated`, `resetIfStuck`, `stop` | the fields of `EgisDev` |
| `critical`, `cancelled`, `suspend` | libfprint: the count of critical sections, the cancellable, the suspend vfunc deferred or delivered |
| `stale`, `owed` | replies on EP IN before the one waited for, replies still to come after their timeout |
| `took`, `expects`, `fed`, `reg` | the sensor: whether it acts on the last command, chunks it waits for, records accepted, register 0x0f |
| `missed`, `refused`, `since`, `waited`, `answered`, `applied` | history for the properties |
| `Drain` .. `ReapplyIn` | `init_drain_cb` .. `init_reapply_cb`, each with the state of `init_run_state` it enters |

The record table is a constant `Kind` from record to command, upload or chunk;
`RecordsAssumption` states the one thing the code relies on, that chunks follow
their upload. `MCFullKind` is the table of `egis_init.h`. Whether the sensor answers
an upload once it is complete is open in every replay, since the code's comment and
`docs/sensor-tuning.md` say that it does and the driver does not look.

`BringUpInCapture` maps this to `Capture` as a verify that waits for its
re-init: `Wait` (drain, poll, gap and reset are `poll`; the records are `replay`;
register and re-application are `post`), and at the end what `reinit_done` makes
of it (`Parks`, `GoesOn`, else the action ends with the error). `NeedsReinit`,
`Wedged`, `Suspending` and `Parked` are read off the bring-up's own state. The
open's bring-up (`resetIfStuck`) is not a capture's and is left to `Sessions`.

### Calibrate (`egis_dev_calibrate_ssm`)

The fields `cal_lo` .. `cal_it`, the cached and the real register, a unit with a
rising curve from register to frame mean. A write may be refused, or accepted and
not acted on (`deaf`): its reply is not looked at.

`SearchInSessions` (in `CalibrateProofs`) maps the search to the `calibrate` phase of
`Sessions`; a search that fails leaves the device open and flagged, or closed if the
open was cancelled. It leaves out the steps after a write that was not acted on, since
`Sessions` takes the register to be what was applied.

### Sessions (`driver/egis0576.c`: open, close, and what they leave behind)

| In the module | In the code |
|---|---|
| `phase` | where the device is between open and close, and the capture between its boundaries: `loop` (load, matcher, timer), `reinit`, `frame`, `parked`, `done` (ended, not yet returned to libfprint's caller) |
| `claimed`, `dev` | the claimed interface, `self->sensor` with its `dc_c_calibrated` |
| `calibrated`, `needsReinit`, `suspending`, `retried` | `dc_c_calibrated`, `needs_reinit`, `suspending`, `frame_retried` of the device instance |
| `baseline` | `have_baseline` and `BaselineAcc`: of which exposures the frames were, and whether the device was calibrated then |
| `reg`, `usable` | the sensor: register 0x0f; brought up and not slept since |
| `Open`, `OpenInit*`, `Calibrate*`, `Close` | `egis0576_open`, `open_init_done`, `open_calibrate_done`, `egis0576_close` |
| `StartCapture`, `LoopHead`, `Reinit*`, `Frame*` | `start_capture`, `CAP_REINIT`, `reinit_done`, `frame_done` with `baseline_feed` |
| `Park`, `End` | `capture_park_if_suspending`, `capture_done` |
| `Suspend`, `Resume` | `egis0576_suspend`, `egis0576_resume` with the sleep it parked for |
| `SleepIdle`, `Replug` | a sleep nobody parks for, a new device instance |

`CaptureInSessions` maps `Capture` to the part of this between open and close:
`SessionPhase` reads the phase off `action` and `pc`, `Recorded` gives the baseline
the one exposure a capture takes all its frames at, and a sensor is usable that is
not `wedged`. What `Capture` says of a capture's parks, ends, bring-ups and baseline
frames is thereby what `Sessions` assumes of it.

### FrameChain (`egis_dev_frame`)

`step`, `got`, `busy` (`frame_cb`) are the code's. EP IN is a queue without tags:
`strays` (replies, the rest of an earlier image), then the units `first .. last` of
the image asked for. A read takes any number of what is waiting; one that times out
leaves it (`late`). A bring-up, at the open or after a failed frame (`Recover`), has
drained the endpoint and may leave replies of its own: `LeftByBringUp` (`SensorInit`
says in `CacheIsRegister` which). A command goes out, or fails at once or after the
3 s an OUT transfer is given; what the timeouts cost is counted in `waited`.

### Engine (`egis_engine_cleanroom.c`, the decision in `gabor/`, its callers)

| In the module | In the code |
|---|---|
| `enrol` | `CrEnrol`: active, frames, `steer_refusals` |
| `gallery`, `job`, `galleryPrints` | the engine's gallery, `self->load`, `self->gallery_prints` |
| `cand` | `cand_valid`, `cand_idx`, `cand_raw` |
| `EmMatch`, `Implausible`, `NccToScore`, `ScoreEntry` | `em_match` with its period check, `ncc_to_score`, `score_entry` with the early exit |
| `Verify`, `Identify`, `RawOk` | `egis_verify`, `egis_identify`, `egis_verify_raw_ok` |
| `Press*`, `EnrolFinish` | `egis_enroll_add` and `enroll_result`, `egis_enroll_finish` from `capture_complete` |
| `StartLoad`, `Load`, `LoadFailed` | `load_job_new`, `egis_gallery_load`, `load_done` |
| `Probe*` | `match_thread` and `match_result` |

A frame is what comparing it gives: coverage, correlation with each other frame,
whether the two are in the same place, the period statistics.

### EngineContract, VendorEngine

`EngineContract` is what `egis_engine.h` says of a matcher's memory: a session with
the frames stored in it, a template that is those frames, a gallery that is all the
templates of the last load or nothing. Both flavours are held against it. In
`VendorEngine` the memory is the vendor's: the state word, `cur_session` (which may
point into a rewound arena), `packed_blob`, the slots, the arena. `egis_reset`
rewinds the arena and clears nothing, so `arena` keeps what is in its cells and `top`
(`heap_ptr`) says where the next allocation goes; a session and what an entry has
learned are cells, read where they are used (`In`), so that one written over shows.
It follows `egis_engine.c` and the translated functions of `egis_funcs.c` that keep
state. Two things it shows are not obvious from the adapter: a redundant press (code
-8) is refused and still stored, and a verify may teach a gallery entry the frame it
was shown, for the rest of that action. A third departs from the contract: a load
that fails leaves the slots that unpacked. `KeepsContract` therefore names that step
(`LoadPartly`) beside the contract's own.

### MatchSearch (`eg_match_core` in `gabor/egis_match_gabor.c`)

The coarse pass over rotations and shifts, the insertion into the list of the
`EG_REFINE` best, and the fine pass around each. The correlation is an input: any
score in the coarse pass, a table in the fine one. Scores are ranks, so that the
-2.0 of an unfilled entry and the -1.0 of no overlap are 0 and 1.

### ResumeGate (`integration/`)

`hook` is the next command of the sleep hook, `bus` is the sensor as the USB bus has
it, `unit` is fprintd's service with its gate, `claim` is the claim on the sensor.
Every command of the hook is a step, any
of them may be the last (`Cut`), the marker may not be writable, and an activation
or a client may come between any two.

## 3. The runs

| Run | Question | Instance |
|---|---|---|
| `capture_match` | Is verify / identify safe under every interleaving, does it keep the suspend contract, and is all it does to the device a step of `Sessions`? | five frames (no finger, hover, partial, two touches), two prints, three scores, two baseline frames, removal |
| `capture_enrol` | Do stage count, session and touches stay in step over a whole enrolment; does every cancel, suspend, bring-up and unplug lead somewhere? | enrol and verify under fairness, two stages, two settle frames, three frames, removal |
| `capture_removal` | Does an unplug end the action, as the comment says? | violated, section 6 |
| `sensor_safe` | Is the bring-up safe whatever the sensor does, does it end, does a deferred suspend arrive, and is it the capture's bring-up? | a table of 7 records with an upload of two chunks, answered or not, and the block write; 3 drains, 3 polls, 3 left-over replies, one late reply; no calibration, 0 or another value |
| `sensor_suspend` | Is a suspend heard during the replay, as the comment says? | all 33 records and 8 chunks; violated, section 6 |
| `calibrate_search` | Is the search optimal and honest about failure? | 64 x 6 curves over all 64 values |
| `sessions_safe` | Do exposure, baseline and interface stay in step over opens, failures, sleeps and replugging? | three exposures, baseline of two frames |
| `framechain_safe` | Is a frame what was asked for, within its buffer and in time, and does the callback come? | the 6 commands, an image of 4 units, 7 strays |
| `engine` | Is a match one of the print reported, does an enrolment spread and end, does the clean-room engine keep the contract? | nine frames, five prints, five lists, 6 presses, 5 stored, 3 loaded |
| `matchsearch` | Does the list keep the best, and can the two passes miss an alignment? | 7 rotations, 6 shifts, step 3, three entries, four score ranks, four peaks |
| `vendor_safe` | Does any operation find another's memory, does the vendor engine keep the contract? | four frames, three prints of which one does not unpack, loaded alone and with one that does, two stages, 3 frames an action |
| `resumegate` | Is fprintd left with a claim that no longer holds, or kept from starting? | 3 rounds of the gate |

A run lists what asks its question hardest. Other invariants are stated in the
modules and proved for every value of the constants (section 4): `QuietWhileAsleep`,
`SuspendOwedIffSuspending`, `HeldIsReachable`, `StopMeansSuspending`,
`ReplayUndisturbed`, `EnrollCountMatchesEngine`, `CriticalIsReplay`,
`ResetIsLastResort`, `NothingBetterDiscarded`, `CalibratedOnce`,
`TemplateIsAccepted`, `SpentIsBounded`, `GalleryIsPrints`, `NoHalfGallery`,
`FindsThePeak` and the type invariants. Adding one to its run's cfg checks it too.

### Bounds, and why they are enough

* `Stages`, `SettleFrames`, `BaselineFrames` (12, 8 and 8 in the code) are
  at most 3, 2 and 2 in `Capture`: the code compares each with one counter and does
  nothing else with them, values below the limit and the limit itself occur, and the
  proofs hold for all values. `Sessions` has two baseline frames, so that a baseline
  could be of two captures.
* Two touches suffice to tell "same frame again" from "another frame", since the
  code only compares two frames for equality. Two prints suffice to tell "same
  print" from "another"; scores are below, below but scorable, and at the threshold.
* `DrainMax` and `ReadyTries` are 3 for 8 and 10, by the same argument; `Leftover`
  equals `DrainMax`, the most the drain can take. The 7-record table has every kind
  of record in every neighbourhood the full one has (a command before and after the
  upload, the block write after it, a last command), and the proofs hold for any
  table.
* `MaxLate` bounds the replies under way after their timeout at once, `SinceMax`
  and `WaitedMax` the two history counters: a second command, and seven timeouts
  of 800 ms, which is more than 5 s.
* In `Calibrate` nothing is bounded but the set of curves.
* `SensorInit`: `MCCalibrations` is no calibration, a value the register may hold
  already or not, and 0, which the cache cannot tell from a register not read.
* `FrameChain`: `MaxStrays` is one more than a stray per preamble command, and with
  an image of four units a stray can be at its head, inside it and at its end.
* `Engine`: five frames in a session of six stages reach the full session before
  the last stage; three presses are `SteerFrom`, so that steering happens; three
  prints make identify's tie-break and a list with a print skipped. The table
  of frames has, for each threshold, a pair on either side.
* `MatchSearch`: with a step of three over six shifts the last step falls short of
  the end of the range, which a window must reach, and an odd `RotK` leaves angles
  at both ends that only a window reaches; the code's values (step 1, `RotK` 4) are
  easier. Three entries are the code's.
* `VendorEngine`: three frames in an action are one press more than the two stages,
  and two actions write over cells that a third's pointers could still name;
  `HeapFrames` is far below the 2400 or so frames that fill the arena (some 440 KB
  each), so that running out is not modelled.
* `Ticks` is 3 of 150 rounds: the gate counts them and does nothing else.

No symmetry is used. Deadlock is checked in every run but those of `Capture`,
`SensorInit` and `Calibrate`: an action may have ended with the device removed, a
bring-up and a calibration end.

### Fairness, and why the code justifies it

* `WF(Machine)` in `Capture`, `SensorInit` and `FrameChain`: every transfer has a
  timeout, every delayed jump a timer, every thread function returns, and the main
  loop dispatches what is ready.
* `WF(DeliverSuspend)` in `SensorInit` and `WF(ActionReturns)` in `Capture`: idles
  of libfprint.
* `SF(DeliverCancel)`, `SF(DeliverSuspend)` in `Capture`: the idle is queued once
  and stays queued over a critical section; the machine may go into and out of the
  replay meanwhile, which disables the step without removing the idle.
* `WF(GoodPress)` and `WF(EnrolFinish)` in `Engine`: the one thing asked of a user,
  to go on pressing with enough of the finger; where it lands is up to him. It is
  used for `EnrolmentEnds` only, whose point is that refusals cannot go on for ever.
* `WF(Gate)` in `ResumeGate`: a script that sleeps and looks.

Otherwise nothing is assumed of the sensor, the client or the system: frames need not
come, a finger need not lift, a resume need not happen, a cancel need not be asked
for, a hook need not finish.

## 4. The proofs

The proof modules establish the safety properties above for every value of the
constants; the theorems that stand for a property of a run are listed with it in
`PROJECT.json`, without most of those that say only that a module's `TypeOK` holds.
The assumptions are those named in the modules.

* **CaptureProofs.** Three inductive invariants, each resting on those before.
  `LifecycleInv` adds to the properties what connects them: parked iff waiting for
  nothing, a pending suspend has been heard (`stop`, `needsReinit`) by a machine
  that runs, a sensor that slept is flagged until it is replayed. `PressInv` says
  what the press remembers of the frames since the resume: without it nothing
  forbids a candidate from before the sleep. `EnrolInv` says how far the stage
  count may be behind the session (by the one result that is queued) and which
  phase excludes a second store. The lemmas `HandlerKeeps*` treat the three ways a
  handler leaves the machine (ended, parked, waiting) once, so that each action's
  step is short. `StopServesSuspend` adds that a stop is only ever set for a
  suspend. `ImplementsContract` shows by the same lemmas that every step is one of
  `SuspendContract` or invisible there, and `CaptureIsInSessions` that it is one of
  `Sessions`. The second rests on `SuspendingIsHeard` and `SleptIsFlagged`: what
  `reinit_done` leaves of `needs_reinit` is whether a suspend came meanwhile, and a
  frame is asked of a usable sensor.
* **SensorInitProofs.** `BringUpInv` adds to the types where the machine is in the
  table: the records fed are the record's index, and a record reached with k chunks
  to go lies k before the end of an upload (`Position`), so that driver and sensor
  count alike for every table that satisfies `RecordsAssumption`. `ExposureReapplied`
  holds of every set of calibrations: its one exception, an exposure of 0 and a
  register that did not answer, is in the statement. `CacheIsFresh` needs a drain as
  deep as the left-overs; `PipeInv` says that what is queued before a reply is never
  more than the uploads answered, unless a reply was missed. Section 6 has what the
  comments promise beyond that.
  The second half of the module proves `BringUpIsCaptured`: every step of the
  bring-up is one of seven things to the capture (`Inside`, `Starts`, `Stops`,
  `Breaks`, `StopsLast`, `Feeds`, `Finishes`), and each of those is a step of
  `Capture` or leaves its variables alone. It needs one more invariant,
  `RecordIndex`: outside of the replay no or all records are fed, so that `Capture`
  may forget which.
* **CalibrateProofs.** The width of the bracket halves with each value, both ends
  were tried unless they are the ends of the range, and by monotonicity what lies
  beyond an end tried is no better than the best. Six halvings of 64 leave one
  candidate. `SearchIsInSessions` is the refinement of section 2.
* **SessionsProofs.** The invariant ties the register to the EgisDev's calibration
  wherever a frame may be taken; says when `needsReinit` and `suspending` may be set
  (`FlagFits`: a bring-up and a parked machine have the flag, a frame under way has
  it only with a suspend), which is what makes the register trusted without a
  bring-up the right one; and ties the baseline's frames and those under way to one
  exposure. A device calibrated once keeps it until it is replugged.
  The same module proves `ResumeGate`, for any positive number of rounds: from the
  stop of fprintd to the removal of the marker, fprintd is not past its gate unless
  a command slipped (`Marked`), and outside of the two commands that take the sensor
  off the bus and back it is on it, unless the hook was cut (`PutBack`).
* **FrameChainProofs.** As long as nothing was late, what is on the endpoint in each
  state is known: no stray once the preamble is through, and of the image exactly
  what has not been read, so that a chunk never reaches past the buffer. The time
  lost is bounded by the replies behind and one OUT transfer: a command the sensor
  does not take ends the chain.
* **EngineProofs.** The session is a prefix of the presses accepted, and equal to
  them until it is full. The gallery is the templates of the prints of the load.
  `EngineKeepsContract` is the refinement. That identify's best entry exists for
  every gallery is the least-number principle, from the library's theorem that the
  order of the naturals is well-founded.
* **MatchSearchProofs.** The insertion keeps the list sorted, with the first met
  ahead of its equals, and what leaves it is no better than its last entry.
  `NoAlignmentMissed` holds for every search whose `ShiftStep` is at most one more
  than a window's `Reach` to a side; without that hypothesis it is false, and the
  code has a step of 1 with a reach of 2.
* **VendorProofs.** Every cell a pointer names exists (`CellsExist`); in an enrolment
  or a match it lies below `top`, and the cells below `top` are this action's frames,
  whatever is above. An allocation writes at `top + 1`, which no live pointer names,
  so reading through the cells gives what was put there. `VendorKeepsContract` is the
  refinement with `LoadPartly`, for every set of lists.

How long things can take is proved too, as measures that every completion
decreases. A theorem of this kind is the part of a liveness property that is about
the code; what is left of it is that a callback or a user does come.

| theorem | what decreases | bound |
|---|---|---|
| `BringUpRunsOut` | completions to the end of `egis_init_ssm`, whatever the sensor answers | `DrainMax + 3 * ReadyTries + 2 * RecordCount + 4` |
| `FrameRunsOut` | completions to the callback of a frame, whatever the sensor sends | `2 * Preamble + Img + 1` |
| `StopIsSoon` | callbacks to the end or the park of a cancelled or suspending action | 3 |
| `FrameComesSoon` | callbacks from a bring-up or a frame to a processed frame, a park or the end | 8 |
| `EnrolmentRunsOut` | presses that cover the sensor and are no copy, and any in a full session, to the last stage | `3 * Stages + 2` |

The first two count what the constants of the code make of it: the poll's tries and
the commands are given up one by one and no path of the machine leads back. In
`FrameComesSoon` what ends the loop of CAP_FRAME and CAP_RECOVER is
`frame_retried`. In `EnrolmentRunsOut` it is the reset of the refusals by a stored
press: a stage costs at most two refusals and the press that is stored.

Only model-checked: the liveness properties (`CancelEnds`, `BringUpLeadsOn`,
`AwakeRemovalEnds`, `KeepsContractFairly`, `BringUpEnds`, `SuspendReachesDriver`,
`FrameAnswered`, `EnrolmentEnds`, `GateEnds`), since the proof system has no rules for
fairness and ENABLED. For `CancelEnds`, `BringUpLeadsOn`, `BringUpEnds`,
`FrameAnswered` and `EnrolmentEnds` the measure above is proved, and only the step
from it to "eventually" is left to the runs. Every other property of a passing run
has a theorem.

## 5. The mutants

Each property of a passing run has a mutant, a definition with one plausible
mistake, and the run finds the property violated with it: a suspend answered at
once or never, a needs_reinit cleared by an outdated bring-up, a re-served frame that
confirms itself, a press kept over a sleep, a stage too few, an upload command read
after like any other, a drain one read short, a stop heard inside the critical
section, a search that ends early, a refused value cached, an exposure not flagged
after a failed search, a buffer offset kept for the next frame, a callback slot left
taken, a session left open by the call that writes, refusals counted anew after a poor
press, a list entry overwritten instead of moved down, slots not looked at after a
load, a sensor left off the bus.

## 6. Where the code and its comments disagree

Two have a run that TLC ends with a counterexample:

1. `capture_removal`: `egis0576_removed` ends a machine that is parked; one that
   parks after the removal (suspend pending, transfer in flight) is held for ever
   unless the client cancels.
2. `sensor_suspend`: a suspend asked for during the replay of a silent sensor does
   not shorten it, because the critical section defers the vfunc that would set
   `stop`. The header promises one reply timeout plus one command.

The others were found the same way: what the comment says is stated as a definition,
and TLC refutes it when it is added to the INVARIANTS (the last one: PROPERTIES) of
the run named. What the runs check in their place is what the code does keep.

| Statement | Run | The code | The comment |
|---|---|---|---|
| `SensorInit.AlwaysReapplied` | `sensor_safe` | `egis0576_proto.c:412`: a register that could not be read is cached as 0, and a calibrated 0 is then taken to be in place | `egis0576_proto.h:124`: re-applied after every replay |
| `SensorInit.CacheIsRegisterAnyway` | `sensor_safe` | `egis0576_proto.c:372`: no read follows the last chunk, so an answer stays on the endpoint and every later reply is one behind | `:367`: the sensor answers once the upload is complete; `:249`: cache the exposure register the replay left |
| `FrameChain.DocumentedLatency` | `framechain_safe` | `egis0576_proto.c:204`: an OUT transfer has 3 s, so six silent replies and a GetFrame never taken cost 4.8 s | `egis0576_proto.h:61`: up to about 2.6 s |
| `Calibrate.FullRange` | `calibrate_search` | `egis0576_proto.c:704`: six midpoints of 0 .. 63 are 0x00 .. 0x3e, never 0x3f | `:640`, the full range |
| `Sessions.BaselineFits` | `sessions_safe` | `egis0576.c:1061`, `:234`: a baseline recorded while no calibration is known stays when a later open calibrates | `egis0576.c:534`: still valid because the exposure is re-applied |
| `FrameChain.FrameIsImage` | `framechain_safe` | `egis0576_proto.c:576`: a preamble reply that comes after its timeout is read as the head of the image, which is then whole by its length | `egis0576_proto.h:99`: one frame, or an error |
| `Engine.RefusalsInARow` | `engine` | `egis_engine_cleanroom.c:390`: a press refused for coverage or as a duplicate between two steered ones does not reset the count | `:212`, `:257`: consecutive |
| `Engine.AcceptIffNcc` | `engine` | `egis_engine_cleanroom.c:292`: the score is rounded before the threshold, so 0.77995 is accepted | `egis_match.h:39`, `:172`: accept iff at least this |
| `Engine.ComparedCounts` | `engine` | `egis_engine_cleanroom.c:290`: a negative correlation is -1, like a frame not compared | `egis_engine.h:78`: it scores low, and counts |
| `VendorEngine.NothingOfInvalidLoad` | `vendor_safe` | `egis_engine.c:153`: the slots that unpacked stay loaded when another did not; the driver ends the action, so nothing is matched against them | `egis_engine.h:73`: nothing is loaded |

One more promise holds in part. `egis_rt.c:3` has the engine free of what earlier
operations left, and `VendorEngine.NothingStale` says so of the globals and of all
that a pointer leads to. The arena's bytes do stay, and `e_malloc` hands them out as
they are: section 8.

## 7. Plan

Done, in the order of importance: the capture machine with its contract, the
bring-up, the calibration; open and close over many sessions; the frame chain; the
engine behind its contract, in both flavours; the matcher's search; the resume hook
and the gate; the composition of bring-up and capture, and of capture and search
with the sessions around them; a proof of every safety property.

What would come next, in this order:

1. `Engine`'s codes as those `Capture` takes from any engine, with a refinement like
   `BringUpInCapture`.
2. The open's bring-up (`SensorInit` with `resetIfStuck`) as the `init` phase of
   `Sessions`.
3. The packing and unpacking of a vendor template (`FUN_18002dc40`,
   `FUN_18002e020`) as a pair of functions.

## 8. Not modelled, and why

* The translated vendor code and its data. `egis_funcs.c` (10152 lines) and
  `egis_blobs.h` (8698) are seven tenths of the implementation's lines, the first
  decompiled and machine-translated, the second an image of the vendor's data.
  `VendorEngine` has the functions that keep state from one call to the next; the
  extractor and the matcher are pixel and bit arithmetic without any. So the
  definitions here stand for a small share of all lines, and for most of those that
  decide something.
* The pixels: flat-field arithmetic, Gabor filters, coherence map, correlation
  sums, the vendor's preprocessing, the tsteppy matcher. They keep no state between
  calls and are floating-point or byte arithmetic out of a model checker's reach.
  tsteppy's search visits every offset and keeps the best, so it has no list to lose
  a candidate from.
* Print encoding (`print_wrap_blob`, `print_get_blob`): a print is one that decodes
  or does not.
* Running out of the vendor's arena within one action.
* What the translated code makes of the bytes that `e_malloc` hands out unwritten. It
  does read some of them before it writes them. On the compiled engine, with every
  allocation filled by nothing, 0, 1, 0x55, 0xaa, 0xff or random bytes, three rounds of
  enrolments, verifies and identifies gave the same codes, scores, indices and
  template bytes, so that read is taken to have one outcome.
* The error path of `egis_enroll_begin` (`egis0576.c:1136`). It fails in neither
  flavour: the clean-room one only without an engine, which the open has made sure of,
  the vendor one only if its arena is full, which it has just rewound.
* The vendor's second enrolment mode (`config+0x7c == 2`), which nothing configures, and
  that frames past the eleventh are merged with those kept: what a template is made of
  is the same.
* libfprint beyond the callbacks above, systemd, fprintd.
* The measuring tools, packaging and installation: no behaviour at run time.
