-------------------------------- MODULE Engine --------------------------------
(***************************************************************************)
(* The matcher behind egis_engine.h as egis_engine_cleanroom.c implements  *)
(* it on the Gabor front-end, and the part of driver/egis0576.c that calls *)
(* it: an enrolment session, the gallery of a verify or identify, its      *)
(* scores, and the way from a gallery index back to a print. One engine    *)
(* serves every action of the device; a step is one call of an engine      *)
(* function with what the driver does about its result.                    *)
(*                                                                         *)
(* A frame is what comparing it gives: its coverage in percent, and for a  *)
(* stored and a probe frame the best correlation of the search (in         *)
(* 1/100000, with whether it was found within EGIS_CR_STEER_SHIFT) and the *)
(* period statistics of that alignment (in 1/100). Indices start at 1, and *)
(* 0 is the code's -1.                                                     *)
(***************************************************************************)
EXTENDS Integers, Sequences

CONSTANTS
  Frames,
  Coverage,         \* [Frames -> 0 .. 100]
  Ncc, Near,        \* [Frames -> [Frames -> ..]]: eg_match_core, dx and dy
  Periods,          \* [Frames -> [Frames -> ..]]: eg_fq_eval
  Presses, Probes,  \* the frames of enrolments, of verify and identify
  Prints,           \* what fprintd has stored
  Decodes,          \* those print_get_blob takes, with at least a byte
  Template,         \* [Prints -> Seq(Frames)]: the frames in the blob
  Whole,            \* those whose blob is 1 .. MAX_FRAMES whole frames
  Lists,            \* what fprintd passes to an identify
  Stages,           \* EGIS_ENROLL_STAGES: 12, the presses the driver counts
  MaxFrames,        \* EGIS_CR_MAX_FRAMES: 12, the frames a session holds
  Capacity          \* EGIS_CR_MAX_GALLERY: 16

ASSUME FramesAssumption ==
  /\ Coverage \in [Frames -> 0 .. 100]
  /\ \A t, p \in Frames : Ncc[t][p] \in Int /\ Ncc[t][p] <= 100000
  /\ Near \in [Frames -> [Frames -> BOOLEAN]]
  /\ Presses \subseteq Frames /\ Probes \subseteq Frames
ASSUME PrintsAssumption ==
  /\ Whole \subseteq Prints /\ Decodes \subseteq Prints
  /\ Template \in [Prints -> Seq(Frames)]
  /\ Lists \subseteq Seq(Prints)
ASSUME SizesAssumption ==
  Stages \in Nat \ {0} /\ MaxFrames \in Nat \ {0} /\ Capacity \in Nat \ {0}

Threshold == 5000             \* EGIS_THRESHOLD
AcceptNcc == 78000            \* EGIS_CR_ACCEPT_NCC, 0.78
RedundantNcc == 100000        \* EGIS_CR_REDUNDANT_NCC
SteerNcc == 90000             \* EGIS_CR_STEER_NCC
RawNcc == 50000               \* EGIS_CR_RAW_CORROBORATE_NCC
MinCoverage == 35             \* EGIS_CR_MIN_COVERAGE
MinEnrolCoverage == 60        \* EGIS_CR_MIN_ENROL_COVERAGE
SteerFrom == 3                \* EGIS_CR_STEER_FROM
SteerMaxRetry == 2            \* EGIS_CR_STEER_MAX_RETRY
NoNcc == -100000              \* -1.0: nothing overlaps

VARIABLES
  action,           \* none, enrol, loading, verify, identify
  enrol,            \* CrEnrol: active, frames (count of them), steer_refusals
  gallery,          \* the frames of each entry; <<>> is gallery_n = 0
  job,              \* self->load: whose blobs, in order
  galleryPrints,    \* self->gallery_prints
  mode,             \* what the load is for
  cand,             \* cand_valid, cand_idx, the frame and cand_raw
  \* for the properties
  accepted,         \* the presses counted since the enrolment began
  template,         \* what the last enrolment saved
  spent,            \* codes 5 since the last stored press
  inARow,           \* codes 5 since any other code
  report            \* the last match reported

session == <<enrol, accepted, spent, inARow>>
match == <<gallery, job, galleryPrints, mode, cand, report>>
vars == <<action, session, match, template>>

NoCand == [valid |-> FALSE, idx |-> 0]
NoReport == [matched |-> FALSE]

Init ==
  /\ action = "none" /\ mode = "verify"
  /\ enrol = [active |-> FALSE, frames |-> <<>>, refusals |-> 0]
  /\ gallery = <<>> /\ job = <<>> /\ galleryPrints = <<>> /\ cand = NoCand
  /\ accepted = <<>> /\ template = <<>> /\ spent = 0 /\ inARow = 0
  /\ report = NoReport

-----------------------------------------------------------------------------
(* Comparing two frames                                                     *)

\* The period check of em_match at the winning alignment.
Implausible(q) ==
  \/ q.nblk < 12 \/ q.mad > 50 \/ q.corr < -200
  \/ q.spread < 25 /\ ~(q.spread >= 6 /\ q.corr >= 70 /\ q.mad <= 10)

\* em_match, the stored frame first; EM_FQ_REJECT is 0.
EmMatch(t, p) ==
  IF Ncc[t][p] >= 70000 /\ Implausible(Periods[t][p]) THEN 0 ELSE Ncc[t][p]

\* lround (ncc * THRESHOLD / ACCEPT)
NccToScore(ncc) ==
  IF ncc < 0 THEN -1 ELSE (2 * ncc * Threshold + AcceptNcc) \div (2 * AcceptNcc)

\* (slip) The early exit is taken at the NCC of the raw check.
ComparedSoon(e, p, stop) ==
  {i \in DOMAIN e : stop => \A j \in 1 .. i - 1 : EmMatch(e[j], p) < RawNcc}

\* score_entry's loop: the frames it compares before it stops.
Compared(e, p, stop) ==
  {i \in DOMAIN e : stop => \A j \in 1 .. i - 1 : EmMatch(e[j], p) < AcceptNcc}

\* The best of a set of correlations, or the -1.0 the search starts from.
Best(S) == CHOOSE b \in S \cup {NoNcc} : \A s \in S \cup {NoNcc} : s <= b

\* score_entry
ScoreEntry(p, e, stop) ==
  NccToScore(Best({EmMatch(e[i], p) : i \in Compared(e, p, stop)}))

\* egis_verify
Verify(p, idx) ==
  IF idx \notin DOMAIN gallery \/ Coverage[p] < MinCoverage THEN -1
  ELSE ScoreEntry(p, gallery[idx], TRUE)

Scores(p) == [i \in DOMAIN gallery |-> ScoreEntry(p, gallery[i], FALSE)]

\* The first entry with the best score, 0 if none scores 0 or more.
BestEntry(s) ==
  IF \A i \in DOMAIN s : s[i] < 0 THEN 0
  ELSE CHOOSE i \in DOMAIN s :
         /\ \A j \in DOMAIN s : s[j] <= s[i]
         /\ \A j \in DOMAIN s : j < i => s[j] < s[i]

\* egis_identify
Identify(p) ==
  LET best == BestEntry(Scores(p)) IN
  IF Coverage[p] < MinCoverage \/ best = 0 THEN [score |-> -1, idx |-> 0]
  ELSE [score |-> Scores(p)[best],
        idx |-> IF Scores(p)[best] >= Threshold THEN best ELSE 0]

\* egis_verify_raw_ok
RawOk(raw, idx) ==
  /\ idx \in DOMAIN gallery
  /\ \E i \in DOMAIN gallery[idx] : EmMatch(gallery[idx][i], raw) >= RawNcc

-----------------------------------------------------------------------------
(* Enrolment                                                                *)

\* egis_enroll_begin
EnrolBegin ==
  /\ action = "none" /\ action' = "enrol"
  /\ enrol' = [active |-> TRUE, frames |-> <<>>, refusals |-> 0]
  /\ accepted' = <<>> /\ spent' = 0 /\ inARow' = 0 /\ template' = <<>>
  /\ UNCHANGED match

Full == Len(enrol.frames) >= MaxFrames
Covered(f) == Coverage[f] >= MinEnrolCoverage
Duplicate(f) ==
  \E i \in DOMAIN enrol.frames : EmMatch(enrol.frames[i], f) >= RedundantNcc

\* Within the steering distance of a stored frame, by em_match_ex.
SamePlacement(f) ==
  \E i \in DOMAIN enrol.frames :
    Ncc[enrol.frames[i]][f] >= SteerNcc /\ Near[enrol.frames[i]][f]

Steered(f) ==
  /\ Len(enrol.frames) >= SteerFrom /\ enrol.refusals < SteerMaxRetry
  /\ SamePlacement(f)

\* egis_enroll_add and enroll_result: 2 from a full session is a stage for the
\* driver, though nothing is stored; -2 and 4 are not.
PressFull(f) ==
  /\ Full
  /\ accepted' = Append(accepted, f) /\ inARow' = 0
  /\ UNCHANGED <<enrol, spent>>

\* (slip) A press refused for its quality or as a duplicate starts the count of
\* steered ones anew.
PressRefusedResets(f) ==
  /\ ~Full /\ (Covered(f) => Duplicate(f))
  /\ enrol' = [enrol EXCEPT !.refusals = 0]
  /\ spent' = 0 /\ inARow' = 0
  /\ UNCHANGED accepted

PressRefused(f) ==
  /\ ~Full /\ (Covered(f) => Duplicate(f))
  /\ inARow' = 0
  /\ UNCHANGED <<enrol, accepted, spent>>

PressSteered(f) ==
  /\ ~Full /\ Covered(f) /\ ~Duplicate(f) /\ Steered(f)
  /\ enrol' = [enrol EXCEPT !.refusals = @ + 1]
  /\ spent' = spent + 1 /\ inARow' = inARow + 1
  /\ UNCHANGED accepted

\* (slip) The refusals are counted over the whole session.
PressStoredSpent(f) ==
  /\ ~Full /\ Covered(f) /\ ~Duplicate(f) /\ ~Steered(f)
  /\ enrol' = [enrol EXCEPT !.frames = Append(@, f)]
  /\ accepted' = Append(accepted, f) /\ spent' = 0 /\ inARow' = 0

PressStored(f) ==
  /\ ~Full /\ Covered(f) /\ ~Duplicate(f) /\ ~Steered(f)
  /\ enrol' = [active |-> enrol.active, frames |-> Append(enrol.frames, f),
               refusals |-> 0]
  /\ accepted' = Append(accepted, f) /\ spent' = 0 /\ inARow' = 0

Press(f) ==
  /\ action = "enrol" /\ Len(accepted) < Stages
  /\ PressFull(f) \/ PressRefused(f) \/ PressSteered(f) \/ PressStored(f)
  /\ UNCHANGED <<action, match, template>>

\* (slip) The call that writes leaves the session open.
EnrolFinishOpen ==
  /\ action = "enrol" /\ Len(accepted) >= Stages
  /\ action' = "none" /\ template' = enrol.frames
  /\ spent' = 0 /\ inARow' = 0
  /\ UNCHANGED <<enrol, accepted, match>>

\* capture_complete: egis_enroll_finish for the size, then for the bytes.
EnrolFinish ==
  /\ action = "enrol" /\ Len(accepted) >= Stages
  /\ action' = "none"
  /\ IF enrol.active /\ enrol.frames # <<>>
     THEN /\ template' = enrol.frames
          /\ enrol' = [enrol EXCEPT !.active = FALSE, !.frames = <<>>]
     ELSE UNCHANGED <<template, enrol>>
  /\ spent' = 0 /\ inARow' = 0
  /\ UNCHANGED <<accepted, match>>

\* A cancel, a removal, a failed frame: capture_done with an error. The engine
\* is not told; its session and its gallery stay.
Interrupt ==
  /\ action # "none" /\ action' = "none"
  /\ job' = <<>> /\ galleryPrints' = <<>> /\ cand' = NoCand
  /\ spent' = 0 /\ inARow' = 0
  /\ UNCHANGED <<gallery, mode, report, enrol, accepted, template>>

-----------------------------------------------------------------------------
(* Verify and identify                                                      *)

Decoded(prints) == SelectSeq(prints, LAMBDA p : p \in Decodes)

\* load_job_new: the blobs, and the prints they are of.
LoadJob(prints) == job' = Decoded(prints) /\ galleryPrints' = Decoded(prints)

\* egis0576_verify and egis0576_identify, up to the capture machine.
StartLoad(prints, what) ==
  /\ action = "none" /\ action' = "loading" /\ mode' = what
  /\ Decoded(prints) # <<>> /\ LoadJob(prints)
  /\ cand' = NoCand /\ report' = NoReport
  /\ UNCHANGED <<gallery, session, template>>

VerifyBegin == \E p \in Prints : StartLoad(<<p>>, "verify")
IdentifyBegin ==
  \E l \in Lists : Len(l) <= Capacity /\ StartLoad(l, "identify")

\* More prints than the engine holds, or none it knows: complete at once.
BeginNothing ==
  /\ action = "none"
  /\ \/ \E l \in Lists : Len(l) > Capacity \/ Decoded(l) = <<>>
     \/ \E p \in Prints : p \notin Decodes
  /\ report' = NoReport
  /\ UNCHANGED <<action, gallery, job, galleryPrints, mode, cand, session,
                 template>>

\* egis_gallery_load: a blob that is not whole frames, or an allocation that
\* fails at any entry, leaves the gallery empty; the action ends.
LoadFailed ==
  /\ action = "loading" /\ action' = "none"
  /\ gallery' = <<>>
  /\ job' = <<>> /\ galleryPrints' = <<>>
  /\ UNCHANGED <<mode, cand, report, session, template>>

Load ==
  /\ action = "loading" /\ action' = mode
  /\ \A i \in 1 .. Len(job) : job[i] \in Whole
  /\ gallery' = [i \in 1 .. Len(job) |-> Template[job[i]]]
  /\ job' = <<>>
  /\ UNCHANGED <<galleryPrints, mode, cand, report, session, template>>

\* egis_verify or egis_identify, and match_result: a frame over the threshold
\* is held; the next one, not the same bytes, confirms it if the entry is the
\* same and the raw frame is like it; anything else starts over.
Result(p) ==
  IF mode = "verify" THEN [score |-> Verify(p, 1), idx |-> 1] ELSE Identify(p)

Accepts(r) == r.score >= Threshold /\ r.idx # 0

Held(p, raw, r) == [valid |-> TRUE, idx |-> r.idx, frame |-> p, raw |-> raw]

\* (slip) Any entry over the threshold confirms the candidate.
ConfirmsAny(raw, r) == cand.valid /\ cand.raw # raw /\ Accepts(r)

Confirms(raw, r) ==
  cand.valid /\ cand.raw # raw /\ Accepts(r) /\ cand.idx = r.idx

ProbeConfirmed(p, raw, r) ==
  /\ Confirms(raw, r)
  /\ IF RawOk(raw, r.idx)
     THEN /\ report' = [matched |-> TRUE, print |-> galleryPrints[r.idx],
                        first |-> cand.frame, second |-> p, raw |-> raw]
          /\ action' = "none" /\ galleryPrints' = <<>> /\ cand' = NoCand
     ELSE /\ cand' = NoCand
          /\ UNCHANGED <<action, galleryPrints, report>>

ProbeHeld(p, raw, r) ==
  /\ ~Confirms(raw, r)
  /\ cand' = IF Accepts(r) THEN Held(p, raw, r) ELSE NoCand
  /\ UNCHANGED <<action, galleryPrints, report>>

Probe(p, raw, r) ==
  /\ action \in {"verify", "identify"}
  /\ ProbeConfirmed(p, raw, r) \/ ProbeHeld(p, raw, r)
  /\ UNCHANGED <<gallery, job, mode, session, template>>

EnrolStep == EnrolBegin \/ EnrolFinish \/ \E f \in Presses : Press(f)
MatchStep == \/ VerifyBegin \/ IdentifyBegin \/ BeginNothing
             \/ LoadFailed \/ Load
             \/ \E p, raw \in Probes : Probe(p, raw, Result(p))

Next == EnrolStep \/ MatchStep \/ Interrupt

Spec == Init /\ [][Next]_vars

\* The user keeps pressing: with enough of the finger on the sensor, and not
\* the very press of before.
GoodPress == \E f \in Presses : Covered(f) /\ ~Duplicate(f) /\ Press(f)

FairSpec == Spec /\ WF_vars(GoodPress) /\ WF_vars(EnrolFinish)

-----------------------------------------------------------------------------
(* Properties                                                               *)

Contract == INSTANCE EngineContract WITH
  session <- [open |-> enrol.active, frames |-> enrol.frames], asked <- job

\* The clean-room matcher is an implementation of egis_engine.h: every call
\* changes its memory as the contract says, or not at all.
KeepsContract == Contract!Spec

\* The session's fields within the arrays of CrEnrol, the frames' kinds.
TypeOK ==
  /\ action \in {"none", "enrol", "loading", "verify", "identify"}
  /\ enrol \in [active : BOOLEAN, frames : Seq(Frames),
               refusals : 0 .. SteerMaxRetry]
  /\ Len(enrol.frames) <= MaxFrames
  /\ accepted \in Seq(Frames) /\ Len(accepted) <= Stages
  /\ template \in Seq(Frames)
  /\ \A i \in DOMAIN gallery : gallery[i] \in Seq(Frames)
  /\ mode \in {"verify", "identify"}
  /\ spent \in Nat /\ inARow \in Nat

\* "the stored frames, nothing else": a template is the presses the user was
\* told were accepted, in order, of this enrolment alone, up to what a session
\* holds.
Holds(frames) ==
  /\ Len(frames) <= Len(accepted)
  /\ \A i \in DOMAIN frames : frames[i] = accepted[i]
  /\ Len(frames) < MaxFrames => Len(accepted) = Len(frames)

TemplateIsAccepted ==
  /\ action = "enrol" => enrol.active /\ Holds(enrol.frames)
  /\ template # <<>> => Holds(template) /\ Len(accepted) = Stages

\* A stage is spent on a placement the session has only when the refusals for
\* this stage have run out, and they never exceed EGIS_CR_STEER_MAX_RETRY.
Spread ==
  [][\A f \in Presses :
       Press(f) /\ enrol'.frames # enrol.frames =>
         Len(enrol.frames) < SteerFrom \/ ~SamePlacement(f)
           \/ spent = SteerMaxRetry]_vars

SpentIsBounded == spent <= SteerMaxRetry

\* "so enrolment cannot stall on a user who keeps landing in the same place",
\* with whatever poor presses in between, nor on a session that is full before
\* the driver's count is.
EnrolmentEnds == action = "enrol" ~> action # "enrol"

\* "consecutive code-5 returns" (the field's comment). It does not hold:
\* README, 6.
RefusalsInARow == action = "enrol" => enrol.refusals <= inARow

\* What is matched against is what this action was given: while frames are
\* scored, entry i is the template of the i-th print listed, and all are there.
GalleryIsPrints ==
  action \in {"verify", "identify"} =>
    /\ DOMAIN gallery = 1 .. Len(galleryPrints)
    /\ \A i \in DOMAIN gallery : gallery[i] = Template[galleryPrints[i]]

\* A failed or interrupted load matches nothing, and leaves nothing half done.
NoHalfGallery ==
  \/ gallery = <<>>
  \/ \E l \in Lists \cup {<<p>> : p \in Prints} :
       gallery = [i \in 1 .. Len(Decoded(l)) |-> Template[Decoded(l)[i]]]

\* A print is reported only for two frames that each come within the rounding
\* of the accept NCC of it, and a raw frame like it: whatever the order of the
\* prints, of those skipped, and of the frames.
ReportedPrintMatched ==
  report.matched =>
    /\ \A p \in {report.first, report.second} :
         /\ Coverage[p] >= MinCoverage
         /\ \E i \in DOMAIN Template[report.print] :
              NccToScore(EmMatch(Template[report.print][i], p)) >= Threshold
    /\ \E i \in DOMAIN Template[report.print] :
         EmMatch(Template[report.print][i], report.raw) >= RawNcc

\* verify's early exit and identify's full search decide alike.
VerifyIsIdentify ==
  \A p \in Frames : DOMAIN gallery = {1} =>
    (Verify(p, 1) >= Threshold <=> Identify(p).idx = 1)

\* "accept iff em_match () >= this" (egis_match.h, em_match_threshold).
\* It does not hold: README, 6.
AcceptIffNcc ==
  \A p \in Frames, i \in DOMAIN gallery :
    Verify(p, i) >= Threshold
      => \E k \in DOMAIN gallery[i] : EmMatch(gallery[i][k], p) >= AcceptNcc

\* "a frame that WAS compared and found not to match ... scores low instead,
\* and counts" (egis_engine.h): not -1. It does not hold: README, 6.
ComparedCounts ==
  \A p \in Frames, i \in DOMAIN gallery :
    /\ Coverage[p] >= MinCoverage
    /\ \E k \in DOMAIN gallery[i] : EmMatch(gallery[i][k], p) > NoNcc
    => Verify(p, i) >= 0
=============================================================================
