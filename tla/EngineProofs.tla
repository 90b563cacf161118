----------------------------- MODULE EngineProofs -----------------------------
(***************************************************************************)
(* Proofs, for every set of frames and prints, every correlation between   *)
(* them and every size of session and gallery, of the safety properties of *)
(* Engine. First what score_entry's loop computes, early exit or not: a    *)
(* score at the threshold or above exactly when one stored frame alone has *)
(* it. Then the session and the gallery, whose invariants are independent. *)
(***************************************************************************)
EXTENDS Engine, TLAPS, WellFoundedInduction

-----------------------------------------------------------------------------
(* Extrema of sets of integers                                              *)

LEMMA Least ==
  ASSUME NEW T, T \subseteq Nat, T # {}
  PROVE  \E x \in T : \A y \in T : x <= y
<1>1. IsWellFoundedOn(OpToRel(<, Nat), Nat)
  BY NatLessThanWellFounded
<1>2. PICK x \in T : \A y \in T : <<y, x>> \notin OpToRel(<, Nat)
  BY <1>1, WFMin, Zenon
<1>3. \A y \in T : ~(y < x)
  BY <1>2 DEF OpToRel
<1> QED BY <1>3

LEMMA Greatest ==
  ASSUME NEW S, NEW m \in Int, S \subseteq Int, S # {}, \A s \in S : s <= m
  PROVE  \E b \in S : \A s \in S : s <= b
<1> DEFINE T == {n \in Nat : m - n \in S}
<1>1. \A s \in S : m - s \in Nat /\ m - (m - s) = s
  OBVIOUS
<1>2. T \subseteq Nat /\ T # {}
  BY <1>1
<1>3. PICK x \in T : \A y \in T : x <= y
  BY <1>2, Least, Zenon
<1>4. m - x \in S /\ x \in Nat
  BY <1>3
<1>5. ASSUME NEW t \in S PROVE t <= m - x
  <2>1. m - t \in T
    BY <1>1
  <2>2. x <= m - t
    BY <1>3, <2>1
  <2> QED BY <1>4, <2>2
<1> QED BY <1>4, <1>5

-----------------------------------------------------------------------------
(* Scores                                                                   *)

Correlations == {n \in Int : n <= 100000}

LEMMA EmMatchBounded ==
  ASSUME NEW t \in Frames, NEW p \in Frames
  PROVE  EmMatch(t, p) \in Correlations
<1>1. Ncc[t][p] \in Int /\ Ncc[t][p] <= 100000
  BY FramesAssumption
<1>2. EmMatch(t, p) = 0 \/ EmMatch(t, p) = Ncc[t][p]
  BY DEF EmMatch
<1> QED BY <1>1, <1>2 DEF Correlations

\* The rounding lets an NCC of 0.77993 pass for the 0.78 of the threshold.
LEMMA ScoreAccepts ==
  ASSUME NEW n \in Correlations
  PROVE  NccToScore(n) >= Threshold <=> n >= 77993
<1>1. n \in Int
  BY DEF Correlations
<1>2. (2 * n * 5000 + 78000) \div (2 * 78000) >= 5000 <=> n >= 77993
  BY <1>1
<1> QED BY <1>1, <1>2 DEF NccToScore, Threshold, AcceptNcc

LEMMA NoNccType == NoNcc \in Int /\ NoNcc < 0
  BY DEF NoNcc

LEMMA BestIsGreatest ==
  ASSUME NEW S, S \subseteq Correlations
  PROVE  /\ Best(S) \in S \cup {NoNcc} /\ Best(S) \in Int
         /\ \A s \in S : s <= Best(S)
<1> DEFINE U == S \cup {NoNcc}
<1>1. \A s \in U : s \in Int /\ s <= 100000
  BY NoNccType DEF Correlations
<1>2. \E b \in U : \A s \in U : s <= b
  BY <1>1, Greatest
<1>3. Best(S) \in U /\ \A s \in U : s <= Best(S)
  BY <1>2, Zenon DEF Best
<1> QED BY <1>1, <1>3

\* score_entry reaches the threshold exactly if one of the stored frames does:
\* the early exit only skips frames after one that does already.
LEMMA EntryAccepts ==
  ASSUME NEW e \in Seq(Frames), NEW p \in Frames, NEW stop \in BOOLEAN
  PROVE  ScoreEntry(p, e, stop) >= Threshold
           <=> \E i \in DOMAIN e : NccToScore(EmMatch(e[i], p)) >= Threshold
<1> DEFINE C == Compared(e, p, stop)
           S == {EmMatch(e[i], p) : i \in C}
<1>1. \A i \in DOMAIN e : e[i] \in Frames /\ EmMatch(e[i], p) \in Correlations
  BY EmMatchBounded
<1>2. C \subseteq DOMAIN e /\ S \subseteq Correlations
  BY <1>1 DEF Compared
<1>3. /\ Best(S) \in S \cup {NoNcc} /\ \A s \in S : s <= Best(S)
      /\ Best(S) \in Int
  BY <1>2, BestIsGreatest, Zenon
<1>8. Best(S) \in Correlations
  BY <1>2, <1>3, NoNccType DEF Correlations
<1>4. ScoreEntry(p, e, stop) >= Threshold <=> Best(S) >= 77993
  BY <1>8, ScoreAccepts DEF ScoreEntry
<1>5. ASSUME Best(S) >= 77993
      PROVE  \E i \in DOMAIN e : NccToScore(EmMatch(e[i], p)) >= Threshold
  <2>1. Best(S) # NoNcc
    BY <1>5, NoNccType
  <2>2. PICK i \in C : Best(S) = EmMatch(e[i], p)
    BY <1>3, <2>1
  <2> QED BY <1>1, <1>2, <1>5, <2>2, ScoreAccepts
<1>6. \A i \in C : EmMatch(e[i], p) <= Best(S)
  BY <1>3
<1>7. ASSUME NEW i \in DOMAIN e, NccToScore(EmMatch(e[i], p)) >= Threshold
      PROVE  Best(S) >= 77993
  <2> DEFINE b == Best(S)
             v(j) == EmMatch(e[j], p)
  <2>1. /\ \A j \in DOMAIN e : v(j) \in Int
        /\ b \in Int /\ \A j \in C : v(j) <= b
    BY <1>1, <1>3, <1>6 DEF Correlations, b, v
  <2>2. v(i) >= 77993
    BY <1>1, <1>7, ScoreAccepts
  <2>3. \A j \in DOMAIN e : j \in C
           <=> (stop => \A k \in 1 .. j - 1 : v(k) < AcceptNcc)
    BY DEF Compared
  <2>4. DOMAIN e \subseteq Nat /\ \A j \in DOMAIN e : 1 .. j \subseteq DOMAIN e
    OBVIOUS
  <2> HIDE DEF b, v, C, S
  <2>0. SUFFICES b >= 77993
    BY DEF b
  <2>5. CASE i \in C
    BY <2>1, <2>2, <2>5
  <2>6. CASE i \notin C
    <3> DEFINE T == {j \in DOMAIN e : v(j) >= AcceptNcc}
    <3>1. PICK j \in 1 .. i - 1 : ~(v(j) < AcceptNcc)
      BY <2>3, <2>6
    <3>2. T \subseteq Nat /\ T # {}
      BY <2>1, <2>4, <3>1 DEF AcceptNcc
    <3>3. PICK k \in T : \A l \in T : k <= l
      BY <3>2, Least, Zenon
    <3>4. ASSUME NEW l \in 1 .. k - 1 PROVE v(l) < AcceptNcc
      <4>1. l \in DOMAIN e /\ ~(k <= l)
        BY <2>4, <3>3
      <4>2. l \notin T
        BY <3>3, <4>1
      <4> QED BY <2>1, <4>1, <4>2 DEF AcceptNcc
    <3>5. k \in C /\ v(k) >= AcceptNcc
      BY <2>3, <3>3, <3>4
    <3> QED BY <2>1, <3>3, <3>5 DEF AcceptNcc
  <2> QED BY <2>5, <2>6
<1> QED BY <1>4, <1>5, <1>7

LEMMA ScoreBounded ==
  ASSUME NEW S, S \subseteq Correlations
  PROVE  NccToScore(Best(S)) \in Int /\ NccToScore(Best(S)) <= 6411
<1>3. Best(S) \in S \cup {NoNcc} /\ Best(S) \in Int
  BY BestIsGreatest, Zenon
<1>1. Best(S) \in Int /\ Best(S) <= 100000
  BY <1>3, NoNccType DEF Correlations
<1>2. \A n \in Int : n >= 0 /\ n <= 100000 =>
        /\ (2 * n * 5000 + 78000) \div (2 * 78000) \in 0 .. 6411
  OBVIOUS
<1> QED BY <1>1, <1>2 DEF NccToScore, Threshold, AcceptNcc

\* identify's loop finds the first entry with the best score.
LEMMA BestEntryIsFirst ==
  ASSUME NEW s, NEW m \in Int, DOMAIN s \subseteq Nat,
         \A i \in DOMAIN s : s[i] \in Int /\ s[i] <= m
  PROVE  \/ BestEntry(s) = 0 /\ \A i \in DOMAIN s : s[i] < 0
         \/ /\ BestEntry(s) \in DOMAIN s /\ s[BestEntry(s)] >= 0
            /\ \A j \in DOMAIN s : s[j] <= s[BestEntry(s)]
<1>1. CASE \A i \in DOMAIN s : s[i] < 0
  BY <1>1 DEF BestEntry
<1>2. CASE \E i \in DOMAIN s : ~(s[i] < 0)
  <2> DEFINE V == {s[i] : i \in DOMAIN s}
  <2>1. V \subseteq Int /\ V # {} /\ \A v \in V : v <= m
    BY <1>2
  <2>2. PICK b \in V : \A v \in V : v <= b
    BY <2>1, Greatest
  <2> DEFINE T == {i \in DOMAIN s : s[i] = b}
  <2>3. T \subseteq Nat /\ T # {}
    BY <2>2
  <2>4. PICK x \in T : \A y \in T : x <= y
    BY <2>3, Least, Zenon
  <2>5. x \in DOMAIN s /\ s[x] = b /\ \A j \in DOMAIN s : s[j] <= s[x]
    BY <2>2, <2>4
  <2>6. ASSUME NEW j \in DOMAIN s, j < x PROVE s[j] < s[x]
    <3>1. x \in Nat /\ j \in Nat /\ ~(x <= j)
      BY <2>5, <2>6
    <3>2. j \notin T
      BY <2>4, <3>1
    <3> QED BY <2>5, <3>1, <3>2
  <2> DEFINE First(i) == /\ \A j \in DOMAIN s : s[j] <= s[i]
                         /\ \A j \in DOMAIN s : j < i => s[j] < s[i]
  <2>7. BestEntry(s) = CHOOSE i \in DOMAIN s : First(i)
    BY <1>2 DEF BestEntry
  <2>8. BestEntry(s) \in DOMAIN s /\ First(BestEntry(s))
    BY <2>5, <2>6, <2>7
  <2>9. s[BestEntry(s)] >= 0
    BY <1>2, <2>8
  <2> QED BY <2>8, <2>9
<1> QED BY <1>1, <1>2

-----------------------------------------------------------------------------
(* The gallery                                                              *)

\* What one gallery is, whoever loaded it.
GalleryTyped ==
  /\ DOMAIN gallery \subseteq Nat
  /\ \A i \in DOMAIN gallery : gallery[i] \in Seq(Frames)

\* A frame that reaches the threshold against entry @i.
Reaches(p, e) ==
  /\ p \in Frames /\ Coverage[p] >= MinCoverage
  /\ \E k \in DOMAIN e : NccToScore(EmMatch(e[k], p)) >= Threshold

LEMMA VerifyAccepts ==
  ASSUME GalleryTyped, NEW p \in Frames, NEW i
  PROVE  Verify(p, i) >= Threshold
           <=> i \in DOMAIN gallery /\ Reaches(p, gallery[i])
<1>1. CASE i \in DOMAIN gallery /\ Coverage[p] >= MinCoverage
  <2>0. ~(Coverage[p] < MinCoverage)
    BY <1>1, FramesAssumption DEF MinCoverage
  <2>1. Verify(p, i) = ScoreEntry(p, gallery[i], TRUE)
    BY <1>1, <2>0, Zenon DEF Verify
  <2> QED BY <1>1, <2>1, EntryAccepts DEF GalleryTyped, Reaches
<1>2. CASE ~(i \in DOMAIN gallery /\ Coverage[p] >= MinCoverage)
  <2>1. i \notin DOMAIN gallery \/ Coverage[p] < MinCoverage
    BY <1>2, FramesAssumption DEF MinCoverage
  <2>2. Verify(p, i) = -1
    BY <2>1, Zenon DEF Verify
  <2> QED BY <1>2, <2>2 DEF Reaches, Threshold
<1> QED BY <1>1, <1>2

LEMMA IdentifyAccepts ==
  ASSUME GalleryTyped, NEW p \in Frames
  PROVE  /\ Identify(p).idx # 0 =>
              /\ Identify(p).idx \in DOMAIN gallery
              /\ Reaches(p, gallery[Identify(p).idx])
         /\ (\E i \in DOMAIN gallery : Reaches(p, gallery[i]))
              => Identify(p).idx \in DOMAIN gallery
<1> DEFINE s == Scores(p)
           b == BestEntry(s)
<1>1. /\ DOMAIN s = DOMAIN gallery
      /\ \A i \in DOMAIN s : s[i] = ScoreEntry(p, gallery[i], FALSE)
  BY DEF Scores
<1> HIDE DEF s, b
<1>2. ASSUME NEW i \in DOMAIN s
      PROVE  s[i] \in Int /\ s[i] <= 6411
  <2>1. gallery[i] \in Seq(Frames)
    BY <1>1 DEF GalleryTyped
  <2> DEFINE S == {EmMatch(gallery[i][k], p) : k \in Compared(gallery[i], p, FALSE)}
  <2>2. S \subseteq Correlations
    BY <2>1, EmMatchBounded DEF Compared
  <2>3. s[i] = NccToScore(Best(S))
    BY <1>1, Zenon DEF ScoreEntry
  <2> HIDE DEF S
  <2> QED BY <2>2, <2>3, ScoreBounded
<1>3. \/ b = 0 /\ \A i \in DOMAIN s : s[i] < 0
      \/ b \in DOMAIN s /\ s[b] >= 0 /\ \A j \in DOMAIN s : s[j] <= s[b]
  BY <1>1, <1>2, BestEntryIsFirst DEF GalleryTyped, b
<1>4. Coverage[p] \in Int
  BY FramesAssumption
<1>5. Identify(p) = IF Coverage[p] < MinCoverage \/ b = 0
                    THEN [score |-> -1, idx |-> 0]
                    ELSE [score |-> s[b],
                          idx |-> IF s[b] >= Threshold THEN b ELSE 0]
  BY DEF Identify, s, b
<1>6. \A i \in DOMAIN gallery :
        s[i] >= Threshold /\ Coverage[p] >= MinCoverage <=> Reaches(p, gallery[i])
  BY <1>1, EntryAccepts DEF GalleryTyped, Reaches
<1>7. ASSUME Identify(p).idx # 0
      PROVE  Identify(p).idx \in DOMAIN gallery
               /\ Reaches(p, gallery[Identify(p).idx])
  <2>1. /\ ~(Coverage[p] < MinCoverage) /\ b # 0 /\ Identify(p).idx = b
        /\ s[b] >= Threshold
    BY <1>5, <1>7
  <2>2. b \in DOMAIN gallery /\ Coverage[p] >= MinCoverage
    BY <1>1, <1>3, <1>4, <2>1 DEF MinCoverage
  <2> QED BY <1>6, <2>1, <2>2
<1>8. ASSUME NEW i \in DOMAIN gallery, Reaches(p, gallery[i])
      PROVE  Identify(p).idx \in DOMAIN gallery
  <2>1. s[i] >= Threshold /\ Coverage[p] >= MinCoverage
    BY <1>6, <1>8
  <2>2. b \in DOMAIN s /\ s[i] <= s[b] /\ s[b] \in Int /\ s[i] \in Int
    BY <1>1, <1>2, <1>3, <2>1 DEF Threshold
  <2>3. s[b] >= Threshold
    BY <2>1, <2>2 DEF Threshold
  <2>4. b # 0 => Identify(p).idx = b
    BY <1>4, <1>5, <2>1, <2>3 DEF MinCoverage
  <2> QED BY <1>1, <1>5, <2>2, <2>4
<1> QED BY <1>7, <1>8

-----------------------------------------------------------------------------
(* The session                                                              *)

SessionType ==
  /\ enrol \in [active : BOOLEAN, frames : Seq(Frames),
               refusals : 0 .. SteerMaxRetry]
  /\ Len(enrol.frames) <= MaxFrames
  /\ accepted \in Seq(Frames) /\ Len(accepted) <= Stages
  /\ template \in Seq(Frames)
  /\ spent \in Nat /\ inARow \in Nat

\* The refusals counted are those since the last stored press.
Steering == spent = IF action = "enrol" THEN enrol.refusals ELSE 0

SessionInv ==
  /\ SessionType /\ Steering /\ TemplateIsAccepted
  /\ action = "enrol" => template = <<>>
  /\ mode \in {"verify", "identify"}

\* A session with another count of refusals, field by field.
LEMMA RefusalsReplaced ==
  ASSUME NEW A, NEW S, NEW R, NEW n,
         NEW e \in [active : A, frames : S, refusals : R]
  PROVE  [e EXCEPT !.refusals = n]
           = [active |-> e.active, frames |-> e.frames, refusals |-> n]
OBVIOUS

\* What a press leaves of the session, whatever it was answered.
LEMMA PressStep ==
  ASSUME SessionInv, NEW f \in Presses, Press(f)
  PROVE  SessionInv'
<1> USE FramesAssumption, SizesAssumption DEF SessionInv
<1>1. /\ action = "enrol" /\ action' = "enrol" /\ Len(accepted) < Stages
      /\ template = <<>> /\ template' = <<>> /\ f \in Frames
      /\ enrol.active /\ Holds(enrol.frames) /\ spent = enrol.refusals
  BY DEF Press, TemplateIsAccepted, Steering
<1>2. SUFFICES SessionType' /\ (enrol.active)' /\ Holds(enrol.frames)'
                 /\ (spent = enrol.refusals)'
  BY <1>1 DEF TemplateIsAccepted, Steering, Press, match
<1>3. CASE PressFull(f)
  <2>1. /\ enrol' = enrol /\ spent' = spent /\ inARow' = 0
        /\ accepted' = Append(accepted, f) /\ Len(enrol.frames) >= MaxFrames
    BY <1>3 DEF PressFull, Full
  <2>2. SessionType'
    BY <1>1, <2>1 DEF SessionType
  <2>3. Holds(enrol.frames)'
    BY <1>1, <2>1 DEF Holds, SessionType
  <2> QED BY <1>1, <2>1, <2>2, <2>3
<1>4. CASE PressRefused(f)
  <2>1. /\ enrol' = enrol /\ accepted' = accepted /\ spent' = spent
        /\ inARow' = 0
    BY <1>4 DEF PressRefused
  <2> QED BY <1>1, <2>1 DEF SessionType, Holds
<1>5. CASE PressSteered(f)
  <2>1. /\ enrol' = [enrol EXCEPT !.refusals = @ + 1] /\ accepted' = accepted
        /\ spent' = spent + 1 /\ inARow' = inARow + 1
        /\ enrol.refusals < SteerMaxRetry
    BY <1>5 DEF PressSteered, Steered
  <2>2. /\ enrol'.frames = enrol.frames /\ enrol'.active = enrol.active
        /\ enrol'.refusals = enrol.refusals + 1
    BY <2>1 DEF SessionType
  <2>5. /\ enrol.frames \in Seq(Frames) /\ enrol.active \in BOOLEAN
        /\ enrol.refusals \in 0 .. SteerMaxRetry
        /\ spent \in Nat /\ inARow \in Nat
    BY DEF SessionType
  <2>10. enrol \in [active : BOOLEAN, frames : Seq(Frames),
                    refusals : 0 .. SteerMaxRetry]
    BY DEF SessionType
  <2>6. enrol' = [active |-> enrol.active, frames |-> enrol.frames,
                  refusals |-> enrol.refusals + 1]
    <3>1. enrol' = [enrol EXCEPT !.refusals = enrol.refusals + 1]
      BY <2>1
    <3> QED BY ONLY <2>10, <3>1, RefusalsReplaced
  <2>7. enrol.refusals + 1 \in 0 .. SteerMaxRetry
    BY <2>1, <2>5 DEF SteerMaxRetry
  <2>8. enrol' \in [active : BOOLEAN, frames : Seq(Frames),
                    refusals : 0 .. SteerMaxRetry]
    BY <2>5, <2>6, <2>7 DEF SteerMaxRetry
  <2>9. spent' \in Nat /\ inARow' \in Nat
    BY <2>1, <2>5
  <2>3. SessionType'
    BY <1>1, <2>1, <2>2, <2>8, <2>9 DEF SessionType
  <2>4. Holds(enrol.frames)'
    BY <1>1, <2>1, <2>2 DEF Holds
  <2> QED BY <1>1, <2>1, <2>2, <2>3, <2>4
<1>6. CASE PressStored(f)
  <2>1. /\ enrol' = [active |-> enrol.active,
                       frames |-> Append(enrol.frames, f), refusals |-> 0]
        /\ accepted' = Append(accepted, f) /\ spent' = 0 /\ inARow' = 0
        /\ ~(Len(enrol.frames) >= MaxFrames)
    BY <1>6 DEF PressStored, Full
  <2>2. /\ enrol'.frames = Append(enrol.frames, f)
        /\ enrol'.active = enrol.active /\ enrol'.refusals = 0
    BY <2>1 DEF SessionType
  <2>3. /\ enrol.frames \in Seq(Frames) /\ Len(enrol.frames) \in Nat
        /\ accepted \in Seq(Frames) /\ Len(accepted) \in Nat
        /\ template \in Seq(Frames) /\ enrol.active \in BOOLEAN
    BY DEF SessionType
  <2>4. /\ Append(enrol.frames, f) \in Seq(Frames)
        /\ Len(Append(enrol.frames, f)) <= MaxFrames
    BY <1>1, <2>1, <2>3
  <2>5. accepted' \in Seq(Frames) /\ Len(accepted') <= Stages
    BY <1>1, <2>1, <2>3
  <2>7. enrol' \in [active : BOOLEAN, frames : Seq(Frames),
                    refusals : 0 .. SteerMaxRetry]
    BY <2>1, <2>3, <2>4 DEF SteerMaxRetry
  <2>8. spent' \in Nat /\ inARow' \in Nat /\ template' \in Seq(Frames)
    BY <1>1, <2>1, <2>3
  <2>9. SessionType'
    BY <2>2, <2>4, <2>5, <2>7, <2>8 DEF SessionType
  <2>10. Holds(enrol.frames)'
    BY <1>1, <2>1, <2>2, <2>3 DEF Holds
  <2> QED BY <1>1, <2>1, <2>2, <2>9, <2>10
<1> QED BY <1>3, <1>4, <1>5, <1>6 DEF Press

\* Verify and identify leave the session alone.
LEMMA MatchKeepsSession ==
  ASSUME MatchStep
  PROVE  /\ UNCHANGED <<session, template>>
         /\ action # "enrol" /\ (action' = "enrol" => mode = "enrol")
         /\ mode' = mode \/ mode' \in {"verify", "identify"}
<1>1. CASE VerifyBegin \/ IdentifyBegin
  BY <1>1 DEF VerifyBegin, IdentifyBegin, StartLoad
<1>2. CASE BeginNothing
  BY <1>2, Zenon DEF BeginNothing
<1>3. CASE LoadFailed
  BY <1>3 DEF LoadFailed
<1>4. CASE Load
  BY <1>4, Zenon DEF Load
<1>5. ASSUME NEW p, NEW raw, NEW r, Probe(p, raw, r)
      PROVE  /\ UNCHANGED <<session, template>>
             /\ action # "enrol" /\ action' # "enrol" /\ mode' = mode
  <2>1. UNCHANGED <<session, template, mode>> /\ action \in {"verify", "identify"}
    BY <1>5, Zenon DEF Probe
  <2>2. action' = action \/ action' = "none"
    BY <1>5, Zenon DEF Probe, ProbeConfirmed, ProbeHeld
  <2> QED BY <2>1, <2>2
<1>6. (\E p, raw \in Probes : Probe(p, raw, Result(p)))
        => \E p, raw, r : Probe(p, raw, r)
  BY Zenon
<1> QED BY <1>1, <1>2, <1>3, <1>4, <1>5, <1>6 DEF MatchStep

LEMMA SessionInit == Init => SessionInv
  BY SizesAssumption
     DEF Init, SessionInv, SessionType, Steering, TemplateIsAccepted, Holds,
         SteerMaxRetry

LEMMA SessionNext == SessionInv /\ [Next]_vars => SessionInv'
<1> SUFFICES ASSUME SessionInv, [Next]_vars PROVE SessionInv'
  OBVIOUS
<1> USE SizesAssumption
<1>1. CASE UNCHANGED vars
  BY <1>1 DEF vars, session, match, SessionInv, SessionType, Steering,
              TemplateIsAccepted, Holds
<1>2. CASE EnrolBegin
  BY <1>2 DEF EnrolBegin, match, SessionInv, SessionType, Steering,
              TemplateIsAccepted, Holds, SteerMaxRetry
<1>3. CASE EnrolFinish
  <2>1. /\ action = "enrol" /\ action' = "none" /\ template = <<>>
        /\ mode' = mode
        /\ Len(accepted) >= Stages /\ accepted' = accepted
        /\ spent' = 0 /\ inARow' = 0 /\ Holds(enrol.frames)
    BY <1>3 DEF EnrolFinish, SessionInv, TemplateIsAccepted, match
  <2>2. CASE enrol.active /\ enrol.frames # <<>>
    <3>1. /\ template' = enrol.frames
          /\ enrol' = [enrol EXCEPT !.active = FALSE, !.frames = <<>>]
      BY <1>3, <2>2 DEF EnrolFinish
    <3>4. enrol' = [active |-> FALSE, frames |-> <<>>,
                    refusals |-> enrol.refusals]
      BY <3>1 DEF SessionInv, SessionType
    <3>5. /\ enrol.frames \in Seq(Frames)
          /\ enrol.refusals \in 0 .. SteerMaxRetry
      BY DEF SessionInv, SessionType
    <3>6. /\ enrol' \in [active : BOOLEAN, frames : Seq(Frames),
                          refusals : 0 .. SteerMaxRetry]
          /\ Len(enrol'.frames) <= MaxFrames
      BY <3>4, <3>5 DEF SteerMaxRetry
    <3>2. SessionType'
      BY <2>1, <3>1, <3>5, <3>6 DEF SessionInv, SessionType
    <3>3. Holds(template)' /\ (Len(accepted) = Stages)'
      BY <2>1, <3>1 DEF Holds, SessionInv, SessionType
    <3> QED
      BY <2>1, <3>2, <3>3 DEF SessionInv, Steering, TemplateIsAccepted
  <2>3. CASE ~(enrol.active /\ enrol.frames # <<>>)
    <3>1. template' = template /\ enrol' = enrol
      BY <1>3, <2>3 DEF EnrolFinish
    <3>2. SessionType'
      BY <2>1, <3>1 DEF SessionInv, SessionType
    <3> QED
      BY <2>1, <3>1, <3>2 DEF SessionInv, Steering, TemplateIsAccepted
  <2> QED BY <2>2, <2>3
<1>4. CASE \E f \in Presses : Press(f)
  BY <1>4, PressStep
<1>5. CASE MatchStep
  <2>1. /\ action # "enrol" /\ action' # "enrol"
        /\ mode' \in {"verify", "identify"}
        /\ enrol' = enrol /\ accepted' = accepted /\ spent' = spent
        /\ inARow' = inARow /\ template' = template
    BY <1>5, MatchKeepsSession DEF session, SessionInv
  <2> QED
    BY <2>1 DEF SessionInv, SessionType, Steering, TemplateIsAccepted, Holds
<1>6. CASE Interrupt
  BY <1>6 DEF Interrupt, SessionInv, SessionType, Steering,
              TemplateIsAccepted, Holds
<1> QED BY <1>1, <1>2, <1>3, <1>4, <1>5, <1>6 DEF Next, EnrolStep

\* What an enrolment has stored is what the user was told was accepted, and
\* the steering's counter is the refusals since the last stored press.
THEOREM SessionInvariant == Spec => []SessionInv
  BY SessionInit, SessionNext, PTL DEF Spec

\* A template is the accepted presses of its own enrolment, in order.
THEOREM TemplatesAreAccepted == Spec => []TemplateIsAccepted
<1>1. SessionInv => TemplateIsAccepted
  BY DEF SessionInv
<1> QED BY <1>1, SessionInvariant, PTL

\* A stage costs EGIS_CR_STEER_MAX_RETRY refusals at most.
THEOREM RefusalsRunOut == Spec => []SpentIsBounded
<1>1. SessionInv => SpentIsBounded
  BY DEF SessionInv, SessionType, Steering, SpentIsBounded, SteerMaxRetry
<1> QED BY <1>1, SessionInvariant, PTL

\* A press in a place the session has is stored only when they have run out.
THEOREM StagesAreSpread == Spec => Spread
<1> DEFINE A == \A f \in Presses :
                  Press(f) /\ enrol'.frames # enrol.frames =>
                    Len(enrol.frames) < SteerFrom \/ ~SamePlacement(f)
                      \/ spent = SteerMaxRetry
<1>1. SessionInv => A
  <2> SUFFICES ASSUME SessionInv, NEW f \in Presses, Press(f),
                      enrol'.frames # enrol.frames
               PROVE  Len(enrol.frames) < SteerFrom \/ ~SamePlacement(f)
                        \/ spent = SteerMaxRetry
    BY Zenon
  <2>1. spent = enrol.refusals /\ enrol.refusals \in 0 .. SteerMaxRetry
          /\ Len(enrol.frames) \in Nat
    BY DEF Press, SessionInv, SessionType, Steering
  <2>2. enrol'.frames = enrol.frames \/ ~Steered(f)
    BY DEF Press, PressFull, PressRefused, PressSteered, PressStored,
           SessionInv, SessionType
  <2> QED BY <2>1, <2>2 DEF Steered, SteerMaxRetry, SteerFrom
<1>2. SessionInv /\ [Next]_vars => [A]_vars
  BY <1>1
<1> HIDE DEF A
<1>3. Spec => [][A]_vars
  BY <1>2, SessionInvariant, PTL DEF Spec
<1> QED BY <1>3 DEF Spread, A

-----------------------------------------------------------------------------
(* How long it can take                                                     *)

\* The presses an enrolment can still make the engine count: a stage takes at
\* most SteerMaxRetry codes 5 and the press that is stored or counted.
ToEnrol ==
  (SteerMaxRetry + 1) * (Stages - Len(accepted)) + SteerMaxRetry
    - enrol.refusals

\* The presses that are counted: all that cover the sensor and are no copy of a
\* stored frame, and any at all when the session is full.
Counts(f) == Full \/ (Covered(f) /\ ~Duplicate(f))

\* "so enrolment cannot stall": after a press that counts there are fewer to
\* come, whether it was stored, steered away or found the session full, and
\* after any other as many as before; when none is left all stages are done.
EnrolmentIsBounded ==
  /\ [](action = "enrol" =>
          /\ ToEnrol \in Nat
          /\ ToEnrol <= (SteerMaxRetry + 1) * Stages + SteerMaxRetry
          /\ ToEnrol = 0 => Len(accepted) = Stages)
  /\ [][\A f \in Presses :
          Press(f) => IF Counts(f) THEN ToEnrol' < ToEnrol
                      ELSE ToEnrol' = ToEnrol]_vars

\* The measure in the engine's own integers.
LEMMA ToEnrolType ==
  ASSUME SessionInv
  PROVE  /\ Len(accepted) \in 0 .. Stages
         /\ enrol.refusals \in 0 .. SteerMaxRetry
         /\ ToEnrol = 3 * (Stages - Len(accepted)) + 2 - enrol.refusals
  BY SizesAssumption DEF SessionInv, SessionType, ToEnrol, SteerMaxRetry

\* One press.
LEMMA PressIsNearer ==
  ASSUME SessionInv, NEW f \in Presses, Press(f)
  PROVE  IF Counts(f) THEN ToEnrol' < ToEnrol ELSE ToEnrol' = ToEnrol
<1> USE SizesAssumption
<1>1. /\ Len(accepted) \in 0 .. Stages /\ Stages \in Nat
      /\ enrol.refusals \in 0 .. 2
      /\ ToEnrol = 3 * (Stages - Len(accepted)) + 2 - enrol.refusals
  BY ToEnrolType DEF SteerMaxRetry
<1>2. /\ Len(accepted') \in 0 .. Stages /\ enrol'.refusals \in 0 .. 2
      /\ ToEnrol' = 3 * (Stages - Len(accepted')) + 2 - enrol'.refusals
  <2>1. SessionInv'
    BY PressStep
  <2>2. SessionInv' => /\ Len(accepted') \in 0 .. Stages
                       /\ enrol'.refusals \in 0 .. SteerMaxRetry
    BY DEF SessionInv, SessionType
  <2> QED BY <2>1, <2>2 DEF ToEnrol, SteerMaxRetry
<1>3. f \in Frames /\ accepted \in Seq(Frames)
  BY FramesAssumption DEF SessionInv, SessionType
<1>4. CASE PressFull(f)
  <2>1. Counts(f) /\ accepted' = Append(accepted, f) /\ enrol' = enrol
    BY <1>4 DEF PressFull, Counts
  <2>2. Len(accepted') = Len(accepted) + 1
    BY <1>3, <2>1
  <2> QED BY <1>1, <1>2, <2>1, <2>2
<1>5. CASE PressRefused(f)
  <2>1. ~Counts(f) /\ accepted' = accepted /\ enrol' = enrol
    BY <1>5 DEF PressRefused, Counts
  <2> QED BY <2>1 DEF ToEnrol
<1>6. CASE PressSteered(f)
  <2>1. /\ Counts(f) /\ accepted' = accepted
        /\ enrol' = [enrol EXCEPT !.refusals = @ + 1]
    BY <1>6 DEF PressSteered, Counts
  <2>2. enrol'.refusals = enrol.refusals + 1
    BY <2>1 DEF SessionInv, SessionType
  <2> QED BY <1>1, <1>2, <2>1, <2>2
<1>7. CASE PressStored(f)
  <2>1. /\ Counts(f) /\ accepted' = Append(accepted, f)
        /\ enrol'.refusals = 0
    BY <1>7 DEF PressStored, Counts
  <2>2. Len(accepted') = Len(accepted) + 1
    BY <1>3, <2>1
  <2> QED BY <1>1, <1>2, <2>1, <2>2
<1> QED BY <1>4, <1>5, <1>6, <1>7 DEF Press

\* "so enrolment cannot stall": it is over after 3 * Stages + 2 presses that
\* count, whatever they are and in whatever order, were it not interrupted.
THEOREM EnrolmentRunsOut == Spec => EnrolmentIsBounded
<1> DEFINE Inv == action = "enrol" =>
                    /\ ToEnrol \in Nat
                    /\ ToEnrol <= (SteerMaxRetry + 1) * Stages + SteerMaxRetry
                    /\ ToEnrol = 0 => Len(accepted) = Stages
           Act == \A f \in Presses :
                    Press(f) => IF Counts(f) THEN ToEnrol' < ToEnrol
                                ELSE ToEnrol' = ToEnrol
<1>1. SessionInv => Inv
  <2> SUFFICES ASSUME SessionInv PROVE Inv
    OBVIOUS
  <2>1. Stages \in Nat
    BY SizesAssumption
  <2> QED BY <2>1, ToEnrolType DEF SteerMaxRetry
<1>2. SessionInv /\ [Next]_vars => [Act]_vars
  BY PressIsNearer
<1> HIDE DEF Inv, Act
<1>3. Spec => []Inv /\ [][Act]_vars
  BY <1>1, <1>2, SessionInvariant, PTL DEF Spec
<1> QED BY <1>3 DEF EnrolmentIsBounded, Inv, Act

-----------------------------------------------------------------------------
(* The contract                                                             *)

held == [open |-> enrol.active, frames |-> enrol.frames]

\* A press stores the frame, or leaves the session as the contract sees it.
LEMMA PressMaps ==
  ASSUME SessionInv, NEW f \in Presses, Press(f)
  PROVE  Contract!Add(f) \/ UNCHANGED <<held, template, gallery>>
<1>1. /\ enrol.active = TRUE /\ template' = template /\ gallery' = gallery
      /\ f \in Frames
  BY FramesAssumption DEF Press, SessionInv, TemplateIsAccepted, match
<1>2. CASE PressStored(f)
  <2>1. enrol' = [active |-> enrol.active, frames |-> Append(enrol.frames, f),
                  refusals |-> 0]
    BY <1>2 DEF PressStored
  <2>2. enrol'.active = TRUE /\ enrol'.frames = Append(enrol.frames, f)
    BY <1>1, <2>1
  <2> QED BY <1>1, <2>2 DEF Contract!Add
<1>3. CASE PressFull(f) \/ PressRefused(f)
  BY <1>1, <1>3 DEF PressFull, PressRefused, held
<1>4. CASE PressSteered(f)
  <2>1. enrol' = [enrol EXCEPT !.refusals = @ + 1]
    BY <1>4 DEF PressSteered
  <2>2. enrol'.active = enrol.active /\ enrol'.frames = enrol.frames
    BY <2>1 DEF SessionInv, SessionType
  <2> QED BY <1>1, <2>2 DEF held
<1> QED BY <1>2, <1>3, <1>4 DEF Press

LEMMA ContractStep ==
  ASSUME SessionInv, [Next]_vars
  PROVE  [Contract!Next]_(Contract!memory)
<1> USE DEF held
<1>1. SUFFICES Contract!Next \/ UNCHANGED <<held, template, gallery>>
  BY DEF Contract!memory
<1>2. CASE UNCHANGED vars
  BY <1>2 DEF vars, session, match
<1>3. CASE EnrolBegin
  <2>1. /\ enrol' = [active |-> TRUE, frames |-> <<>>, refusals |-> 0]
        /\ template' = <<>> /\ gallery' = gallery
    BY <1>3 DEF EnrolBegin, match
  <2> QED BY <2>1 DEF Contract!Next, Contract!Begin
<1>4. CASE EnrolFinish
  <2>1. gallery' = gallery
    BY <1>4 DEF EnrolFinish, match
  <2>2. CASE enrol.active /\ enrol.frames # <<>>
    <3>1. /\ template' = enrol.frames
          /\ enrol' = [enrol EXCEPT !.active = FALSE, !.frames = <<>>]
      BY <1>4, <2>2 DEF EnrolFinish
    <3>2. enrol'.active = FALSE /\ enrol'.frames = <<>>
      BY <3>1 DEF SessionInv, SessionType
    <3> QED BY <2>1, <2>2, <3>1, <3>2
            DEF Contract!Next, Contract!Finish, Contract!NoSession
  <2>3. CASE ~(enrol.active /\ enrol.frames # <<>>)
    BY <1>4, <2>1, <2>3 DEF EnrolFinish
  <2> QED BY <2>2, <2>3
<1>5. CASE \E f \in Presses : Press(f)
  BY <1>5, PressMaps, FramesAssumption DEF Contract!Next
<1>6. CASE MatchStep
  <2>1. enrol' = enrol /\ template' = template
    BY <1>6, MatchKeepsSession DEF session, SessionInv
  <2>2. CASE Load
    <3>1. gallery' = [i \in 1 .. Len(job) |-> Template[job[i]]]
      BY <2>2, Zenon DEF Load
    <3> QED BY <2>1, <3>1 DEF Contract!Next, Contract!Load
  <2>3. CASE LoadFailed
    BY <2>1, <2>3 DEF LoadFailed, Contract!Next, Contract!LoadNothing
  <2>4. CASE ~Load /\ ~LoadFailed
    <3>1. gallery' = gallery
      BY <1>6, <2>4, Zenon DEF MatchStep, VerifyBegin, IdentifyBegin,
                               StartLoad, BeginNothing, Probe
    <3> QED BY <2>1, <3>1
  <2> QED BY <2>2, <2>3, <2>4
<1>7. CASE Interrupt
  BY <1>7 DEF Interrupt
<1> QED BY <1>2, <1>3, <1>4, <1>5, <1>6, <1>7 DEF Next, EnrolStep

\* The clean-room engine does what egis_engine.h promises, call for call.
THEOREM EngineKeepsContract == Spec => KeepsContract
<1>1. Init => Contract!Init
  BY DEF Init, Contract!Init, Contract!NoSession
<1>2. SessionInv /\ [Next]_vars => [Contract!Next]_(Contract!memory)
  BY ContractStep
<1> QED BY <1>1, <1>2, SessionInvariant, PTL
        DEF Spec, KeepsContract, Contract!Spec

-----------------------------------------------------------------------------
(* The gallery and the candidate                                            *)

\* The frames of the @i-th of @prints, as egis_gallery_load lists them.
Templates(prints) == [i \in 1 .. Len(prints) |-> Template[prints[i]]]
Asked == {Decoded(l) : l \in Lists \cup {<<p>> : p \in Prints}}

Listed ==
  /\ action = "loading" => job = galleryPrints /\ job \in Asked
  /\ action \in {"verify", "identify"} => gallery = Templates(galleryPrints)
  /\ gallery = <<>> \/ \E q \in Asked : gallery = Templates(q)

CandInv ==
  cand.valid => /\ action \in {"verify", "identify"}
                /\ cand.idx \in DOMAIN gallery
                /\ Reaches(cand.frame, gallery[cand.idx])

GalleryInv ==
  /\ action \in {"none", "enrol", "loading", "verify", "identify"}
  /\ mode \in {"verify", "identify"}
  /\ GalleryTyped /\ Listed /\ CandInv /\ ReportedPrintMatched

LEMMA NothingTyped == DOMAIN <<>> = {} /\ ~NoCand.valid /\ ~NoReport.matched
  BY DEF NoCand, NoReport

LEMMA GalleryInit == Init => GalleryInv
  BY NothingTyped
     DEF Init, GalleryInv, GalleryTyped, Listed, CandInv, ReportedPrintMatched

\* Every gallery is whole templates, entry by entry.
LEMMA LoadedTyped ==
  ASSUME NEW q, \A i \in 1 .. Len(q) : q[i] \in Prints
  PROVE  /\ DOMAIN Templates(q) \subseteq Nat
         /\ \A i \in DOMAIN Templates(q) : Templates(q)[i] \in Seq(Frames)
  BY PrintsAssumption DEF Templates

LEMMA ResultAccepts ==
  ASSUME GalleryTyped, NEW p \in Frames, Accepts(Result(p))
  PROVE  Result(p).idx \in DOMAIN gallery /\ Reaches(p, gallery[Result(p).idx])
<1>1. CASE mode = "verify"
  <2>1. Result(p).score = Verify(p, 1) /\ Result(p).idx = 1
    BY <1>1 DEF Result
  <2> QED BY <2>1, VerifyAccepts DEF Accepts
<1>2. CASE mode # "verify"
  <2>1. Result(p) = Identify(p)
    BY <1>2 DEF Result
  <2> QED BY <2>1, IdentifyAccepts DEF Accepts
<1> QED BY <1>1, <1>2

LEMMA ProbeStep ==
  ASSUME GalleryInv, NEW p \in Probes, NEW raw \in Probes,
         NEW r, Probe(p, raw, r),
         Accepts(r) => r.idx \in DOMAIN gallery /\ Reaches(p, gallery[r.idx])
  PROVE  GalleryInv'
<1>0. /\ GalleryTyped /\ Listed /\ CandInv /\ ReportedPrintMatched
      /\ mode \in {"verify", "identify"}
  BY DEF GalleryInv
<1>1. /\ action \in {"verify", "identify"} /\ gallery' = gallery
      /\ job' = job /\ mode' = mode /\ p \in Frames /\ raw \in Frames
  BY FramesAssumption DEF Probe
<1>2. gallery = Templates(galleryPrints)
  BY <1>0, <1>1 DEF Listed
<1>3. /\ GalleryTyped' /\ mode' \in {"verify", "identify"}
      /\ gallery' = <<>> \/ \E q \in Asked : gallery' = Templates(q)
  <2>1. GalleryTyped'
    BY <1>0, <1>1 DEF GalleryTyped
  <2>2. gallery = <<>> \/ \E q \in Asked : gallery = Templates(q)
    BY <1>0 DEF Listed
  <2> QED BY <1>0, <1>1, <2>1, <2>2
<1>4. CASE ProbeConfirmed(p, raw, r) /\ RawOk(raw, r.idx)
  <2> DEFINE i == r.idx
  <2>1. /\ report' = [matched |-> TRUE, print |-> galleryPrints[i],
                      first |-> cand.frame, second |-> p, raw |-> raw]
        /\ action' = "none" /\ cand' = NoCand
        /\ cand.valid /\ cand.idx = i /\ Accepts(r)
    BY <1>4 DEF ProbeConfirmed, Confirms
  <2>2. i \in DOMAIN gallery /\ Reaches(p, gallery[i])
    BY <1>1, <2>1
  <2>3. Reaches(cand.frame, gallery[i])
    BY <1>0, <2>1 DEF CandInv
  <2>4. gallery[i] = Template[galleryPrints[i]]
    BY <1>2, <2>2 DEF Templates
  <2>5. \E k \in DOMAIN gallery[i] : EmMatch(gallery[i][k], raw) >= RawNcc
    BY <1>4 DEF RawOk
  <2>6. /\ report'.print = galleryPrints[i] /\ report'.raw = raw
        /\ report'.first = cand.frame /\ report'.second = p
    BY <2>1
  <2> HIDE DEF i
  <2>7. ReportedPrintMatched'
    BY <2>2, <2>3, <2>4, <2>5, <2>6
       DEF ReportedPrintMatched, Reaches
  <2>8. Listed' /\ CandInv'
    BY <1>3, <2>1, NothingTyped DEF Listed, CandInv
  <2> QED BY <1>3, <2>1, <2>7, <2>8 DEF GalleryInv
<1>5. CASE ~(ProbeConfirmed(p, raw, r) /\ RawOk(raw, r.idx))
  <2>1. /\ action' = action /\ galleryPrints' = galleryPrints
        /\ report' = report
        /\ \/ cand' = NoCand
           \/ cand' = Held(p, raw, r) /\ Accepts(r)
    BY <1>5, Zenon DEF Probe, ProbeConfirmed, ProbeHeld
  <2>2. CandInv'
    <3>1. CASE cand' = NoCand
      BY <3>1, NothingTyped DEF CandInv
    <3>2. CASE cand' = Held(p, raw, r) /\ Accepts(r)
      <4>1. cand'.idx = r.idx /\ cand'.frame = p
        BY <3>2 DEF Held
      <4>2. cand'.idx \in DOMAIN gallery /\ Reaches(p, gallery[cand'.idx])
        BY <1>1, <3>2, <4>1
      <4> QED BY <1>1, <2>1, <4>1, <4>2, Zenon DEF CandInv, Reaches
    <3> QED BY <2>1, <3>1, <3>2
  <2>3. ReportedPrintMatched'
    BY <1>0, <2>1 DEF ReportedPrintMatched
  <2>4. Listed'
    BY <1>1, <1>2, <1>3, <2>1 DEF Listed
  <2> QED BY <1>1, <1>3, <2>1, <2>2, <2>3, <2>4 DEF GalleryInv
<1> QED BY <1>4, <1>5

LEMMA LoadStep ==
  ASSUME GalleryInv, Load
  PROVE  GalleryInv'
<1>1. /\ action = "loading" /\ action' = mode /\ mode' = mode /\ cand' = cand
      /\ gallery' = Templates(job) /\ \A i \in 1 .. Len(job) : job[i] \in Whole
      /\ galleryPrints' = galleryPrints /\ report' = report
  BY Zenon DEF Load, Templates
<1>2. /\ Listed /\ CandInv /\ ReportedPrintMatched
      /\ mode \in {"verify", "identify"}
  BY DEF GalleryInv
<1>3. job = galleryPrints /\ job \in Asked
  BY <1>1, <1>2 DEF Listed
<1>4. ~cand.valid
  BY <1>1, <1>2 DEF CandInv
<1>5. GalleryTyped'
  BY <1>1, LoadedTyped, PrintsAssumption DEF GalleryTyped
<1>6. Listed'
  BY <1>1, <1>2, <1>3 DEF Listed
<1>7. CandInv' /\ ReportedPrintMatched'
  BY <1>1, <1>2, <1>4 DEF CandInv, ReportedPrintMatched
<1> QED BY <1>1, <1>2, <1>5, <1>6, <1>7 DEF GalleryInv

\* The actions that leave the gallery alone, or empty it, and end or begin.
LEMMA RestStep ==
  ASSUME GalleryInv,
         gallery' = gallery \/ gallery' = <<>>,
         mode' \in {"verify", "identify"}, action' \in {"none", "enrol", "loading"},
         action' = "loading" => job' = galleryPrints' /\ job' \in Asked,
         ~cand'.valid, report' = report \/ report' = NoReport
  PROVE  GalleryInv'
<1>1. /\ GalleryTyped /\ ReportedPrintMatched
      /\ gallery = <<>> \/ \E q \in Asked : gallery = Templates(q)
  BY DEF GalleryInv, Listed
<1>2. GalleryTyped'
  BY <1>1, NothingTyped DEF GalleryTyped
<1>3. ReportedPrintMatched'
  BY <1>1, NothingTyped DEF ReportedPrintMatched
<1>4. Listed' /\ CandInv'
  BY <1>1 DEF Listed, CandInv
<1> QED BY <1>2, <1>3, <1>4 DEF GalleryInv

LEMMA GalleryNext == GalleryInv /\ [Next]_vars => GalleryInv'
<1> SUFFICES ASSUME GalleryInv, [Next]_vars PROVE GalleryInv'
  OBVIOUS
<1>0. /\ action \in {"none", "enrol", "loading", "verify", "identify"}
      /\ mode \in {"verify", "identify"} /\ Listed
      /\ cand.valid => action \in {"verify", "identify"}
  BY DEF GalleryInv, CandInv
<1>1. CASE UNCHANGED vars
  <2>1. UNCHANGED <<action, gallery, job, galleryPrints, mode, cand, report>>
    BY <1>1 DEF vars, match
  <2> QED
    BY <2>1, Zenon DEF GalleryInv, GalleryTyped, Listed, CandInv,
                       ReportedPrintMatched, Reaches
<1>2. CASE EnrolStep
  <2>1. /\ UNCHANGED <<gallery, job, galleryPrints, mode, cand, report>>
        /\ action \in {"none", "enrol"} /\ action' \in {"none", "enrol"}
    BY <1>2, Zenon DEF EnrolStep, EnrolBegin, EnrolFinish, Press, match
  <2> QED BY <1>0, <2>1, RestStep
<1>3. CASE VerifyBegin \/ IdentifyBegin
  <2>1. PICK l \in Lists \cup {<<p>> : p \in Prints}, what \in {"verify", "identify"} :
          StartLoad(l, what)
    BY <1>3 DEF VerifyBegin, IdentifyBegin
  <2>2. /\ action' = "loading" /\ mode' = what /\ gallery' = gallery
        /\ job' = Decoded(l) /\ galleryPrints' = Decoded(l)
        /\ cand' = NoCand /\ report' = NoReport
    BY <2>1, Zenon DEF StartLoad, LoadJob
  <2>3. Decoded(l) \in Asked
    BY DEF Asked
  <2> QED BY <2>2, <2>3, RestStep, NothingTyped
<1>4. CASE BeginNothing
  <2>1. /\ UNCHANGED <<action, gallery, job, galleryPrints, mode, cand>>
        /\ action = "none" /\ report' = NoReport
    BY <1>4, Zenon DEF BeginNothing
  <2> QED BY <1>0, <2>1, RestStep
<1>5. CASE LoadFailed
  <2>1. /\ action = "loading" /\ action' = "none" /\ gallery' = <<>>
        /\ UNCHANGED <<mode, cand, report>>
    BY <1>5, Zenon DEF LoadFailed
  <2> QED BY <1>0, <2>1, RestStep
<1>6. CASE Load
  BY <1>6, LoadStep
<1>7. CASE \E p, raw \in Probes : Probe(p, raw, Result(p))
  <2>1. PICK p \in Probes, raw \in Probes : Probe(p, raw, Result(p))
    BY <1>7
  <2>2. Accepts(Result(p)) => /\ Result(p).idx \in DOMAIN gallery
                              /\ Reaches(p, gallery[Result(p).idx])
    BY ResultAccepts, FramesAssumption DEF GalleryInv
  <2> QED BY <2>1, <2>2, ProbeStep
<1>8. CASE Interrupt
  <2>1. /\ action' = "none" /\ UNCHANGED <<gallery, mode, report>>
        /\ cand' = NoCand
    BY <1>8, Zenon DEF Interrupt
  <2> QED BY <1>0, <2>1, RestStep, NothingTyped
<1> QED BY <1>1, <1>2, <1>3, <1>4, <1>5, <1>6, <1>7, <1>8 DEF Next, MatchStep

\* Whatever was loaded, held and reported belongs together.
THEOREM GalleryInvariant == Spec => []GalleryInv
  BY GalleryInit, GalleryNext, PTL DEF Spec

\* The engine's and the driver's fields stay within their types.
THEOREM EngineTypeCorrect == Spec => []TypeOK
<1>1. SessionInv /\ GalleryInv => TypeOK
  BY DEF SessionInv, SessionType, GalleryInv, GalleryTyped, TypeOK
<1> QED BY <1>1, SessionInvariant, GalleryInvariant, PTL

\* While frames are scored the gallery is the templates of the listed prints.
THEOREM GalleryMatchesPrints == Spec => []GalleryIsPrints
<1>1. GalleryInv => GalleryIsPrints
  BY DEF GalleryInv, Listed, Templates, GalleryIsPrints
<1> QED BY <1>1, GalleryInvariant, PTL

\* A load that fails or is given up leaves no part of itself.
THEOREM LoadsAreWhole == Spec => []NoHalfGallery
<1>1. GalleryInv => NoHalfGallery
  <2>1. GalleryInv => gallery = <<>> \/ \E q \in Asked : gallery = Templates(q)
    BY DEF GalleryInv, Listed
  <2>2. ASSUME NEW q \in Asked, gallery = Templates(q)
        PROVE  NoHalfGallery
    <3>1. PICK l \in Lists \cup {<<p>> : p \in Prints} : q = Decoded(l)
      BY DEF Asked
    <3> QED BY <2>2, <3>1, Zenon DEF Templates, NoHalfGallery
  <2> QED BY <2>1, <2>2 DEF NoHalfGallery
<1> QED BY <1>1, GalleryInvariant, PTL

\* Only a print two frames in a row were found to match is reported.
THEOREM MatchesAreConfirmed == Spec => []ReportedPrintMatched
<1>1. GalleryInv => ReportedPrintMatched
  BY DEF GalleryInv
<1> QED BY <1>1, GalleryInvariant, PTL

\* Early exit or not, a single template is accepted or refused alike.
THEOREM VerifyAgrees == Spec => []VerifyIsIdentify
<1>1. GalleryInv => VerifyIsIdentify
  <2> SUFFICES ASSUME GalleryInv, NEW p \in Frames, DOMAIN gallery = {1}
               PROVE  Verify(p, 1) >= Threshold <=> Identify(p).idx = 1
    BY Zenon DEF VerifyIsIdentify
  <2>1. GalleryTyped
    BY DEF GalleryInv
  <2>2. Verify(p, 1) >= Threshold <=> Reaches(p, gallery[1])
    BY <2>1, VerifyAccepts
  <2>3. Identify(p).idx = 1 <=> Reaches(p, gallery[1])
    BY <2>1, IdentifyAccepts
  <2> QED BY <2>2, <2>3
<1> QED BY <1>1, GalleryInvariant, PTL
=============================================================================
