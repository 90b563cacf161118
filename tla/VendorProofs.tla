----------------------------- MODULE VendorProofs -----------------------------
(***************************************************************************)
(* Proofs about the vendor flavour's memory, for every set of frames and   *)
(* prints, every table of scores and any number of presses.                *)
(***************************************************************************)
EXTENDS VendorEngine, SequenceTheorems, TLAPS

Sessioned == [ptr : {"null", "live", "stale"}, held : Seq(Nat), last : Nat]

Entries == [frames : Seq(Frames), learned : SUBSET Nat]

\* What the state is made of.
MemoryType ==
  /\ action \in {"none", "enrol", "loading", "match"}
  /\ state \in {"ready", "enroll", "pack", "loaded"}
  /\ session \in Sessioned
  /\ {cached, arena, template, served, accepted} \subseteq Seq(Frames)
  /\ slots \in Seq(Entries) /\ job \in Seq(Prints) /\ top \in Nat
  /\ action = "loading" => job \in Lists

\* Every pointer leads to a cell that has been written since the engine was
\* made, by whomever.
CellsExist ==
  /\ top <= Len(arena) /\ Len(arena) <= HeapFrames
  /\ \A i \in DOMAIN session.held : session.held[i] \in 1 .. Len(arena)
  /\ session.last <= Len(arena)
  /\ \A i \in DOMAIN slots : slots[i].learned \subseteq 1 .. Len(arena)

\* A session holds no more frames than were given since it began, the presses
\* counted are among those it holds, and without one nothing is held.
SessionFits ==
  /\ session.ptr = "null" => session = NoSession
  /\ Len(session.held) <= Len(arena)
  /\ action = "enrol" =>
       /\ Len(accepted) <= Len(session.held) /\ Len(session.held) <= top

\* No slot that is matched against is NULL.
SlotsFilled == action = "match" => \A i \in DOMAIN slots : slots[i].frames # <<>>

VendorInv ==
  MemoryType /\ CellsExist /\ SessionFits /\ SlotsFilled /\ NothingStale

LEMMA NullTyped ==
  /\ NoSession \in Sessioned /\ NoSession.held = <<>> /\ NoSession.last = 0
  /\ NoSession.ptr = "null" /\ NoEntry \in Entries
  /\ <<>> \in Seq(Frames) /\ <<>> \in Seq(Entries) /\ <<>> \in Seq(Prints)
  /\ Len(<<>>) = 0 /\ DOMAIN <<>> = {} /\ ToSet(<<>>) = {} /\ HeapFrames \in Nat
<1>1. /\ NoSession \in Sessioned /\ NoSession.held = <<>> /\ NoSession.last = 0
      /\ NoSession.ptr = "null" /\ NoEntry \in Entries
  BY DEF NoSession, NoEntry, NoFrame, Sessioned, Entries
<1>2. /\ <<>> \in Seq(Frames) /\ <<>> \in Seq(Entries) /\ <<>> \in Seq(Prints)
      /\ Len(<<>>) = 0 /\ DOMAIN <<>> = {} /\ HeapFrames \in Nat
  BY VendorAssumption
<1>3. ToSet(<<>>) = {}
  BY <1>2 DEF ToSet
<1> QED BY <1>1, <1>2, <1>3

LEMMA NoneInUse == SubSeq(arena, 1, 0) = <<>> /\ SubSeq(arena', 1, 0) = <<>>
BY SubSeqEmpty

LEMMA VendorInit == Init => VendorInv
BY NullTyped DEF Init, VendorInv, MemoryType, CellsExist, SessionFits,
                 SlotsFilled, NothingStale

LEMMA GivenFrame ==
  ASSUME VendorInv, NEW f \in Frames, Given(f)
  PROVE  /\ arena' \in Seq(Frames) /\ served' \in Seq(Frames)
         /\ top \in Nat /\ top' = top + 1
         /\ Len(arena) \in Nat /\ Len(arena') \in Nat
         /\ top' <= Len(arena') /\ Len(arena) <= Len(arena')
         /\ Len(arena') <= HeapFrames
         /\ arena'[top'] = f /\ \A c \in 1 .. top : arena'[c] = arena[c]
<1>1. /\ arena \in Seq(Frames) /\ served \in Seq(Frames) /\ top \in Nat
      /\ Len(arena) \in Nat /\ top <= Len(arena) /\ Len(arena) <= HeapFrames
      /\ top < HeapFrames /\ HeapFrames \in Nat
      /\ top' = top + 1 /\ served' = Append(served, f)
      /\ arena' = IF top < Len(arena) THEN [arena EXCEPT ![top + 1] = f]
                  ELSE Append(arena, f)
  BY NullTyped DEF VendorInv, MemoryType, CellsExist, Given
<1>2. CASE top < Len(arena)
  <2>1. /\ arena' \in Seq(Frames) /\ Len(arena') = Len(arena)
        /\ arena'[top + 1] = f /\ \A c \in 1 .. top : arena'[c] = arena[c]
    BY <1>1, <1>2
  <2> QED BY <1>1, <1>2, <2>1
<1>3. CASE ~(top < Len(arena))
  <2>1. top = Len(arena) /\ arena' = Append(arena, f)
    BY <1>1, <1>3
  <2> QED BY <1>1, <2>1
<1> QED BY <1>2, <1>3

\* The cells in use are the frames given, of this action.
LEMMA InUseIsServed ==
  ASSUME VendorInv, NEW f \in Frames, Given(f), SubSeq(arena, 1, top) = served
  PROVE  SubSeq(arena', 1, top') = served'
<1> DEFINE now == SubSeq(arena', 1, top')
<1>1. /\ served \in Seq(Frames) /\ served' = Append(served, f)
      /\ arena \in Seq(Frames) /\ top \in Nat /\ top <= Len(arena)
  BY DEF VendorInv, MemoryType, CellsExist, Given
<1>2. Len(served) = top /\ \A i \in 1 .. top : served[i] = arena[i]
  <2>1. \A i \in 1 .. top : arena[i] \in Frames
    BY <1>1
  <2>2. /\ Len(SubSeq(arena, 1, top)) = IF 1 <= top THEN top - 1 + 1 ELSE 0
        /\ \A i \in 1 .. top - 1 + 1 : SubSeq(arena, 1, top)[i] = arena[1 + i - 1]
    BY <1>1, <2>1, SubSeqProperties
  <2> QED BY <1>1, <2>2
<1>3. /\ now \in Seq(Frames) /\ Len(now) = top + 1
      /\ \A i \in 1 .. top + 1 : now[i] = arena'[i]
  <2>1. \A i \in 1 .. top' : arena'[i] \in Frames
    BY GivenFrame
  <2>2. top' \in Int /\ top' = top + 1 /\ top \in Nat
    BY GivenFrame
  <2>3. /\ now \in Seq(Frames)
        /\ Len(now) = IF 1 <= top' THEN top' - 1 + 1 ELSE 0
        /\ \A i \in 1 .. top' - 1 + 1 : now[i] = arena'[1 + i - 1]
    BY <2>1, <2>2, SubSeqProperties
  <2> HIDE DEF now
  <2> QED BY <2>2, <2>3
<1>4. \A i \in 1 .. top + 1 : now[i] = Append(served, f)[i]
  <2>1. \A c \in 1 .. top : arena'[c] = arena[c]
    BY GivenFrame
  <2>2. arena'[top + 1] = f
    BY GivenFrame
  <2> HIDE DEF now
  <2> QED BY <1>1, <1>2, <1>3, <2>1, <2>2
<1>5. /\ Append(served, f) \in Seq(Frames)
      /\ Len(Append(served, f)) = top + 1
  BY <1>1, <1>2
<1> HIDE DEF now
<1>6. now = Append(served, f)
  BY <1>3, <1>4, <1>5, SeqEqual
<1> QED BY <1>1, <1>6 DEF now

LEMMA BeginKeeps == VendorInv /\ EnrolBegin => VendorInv'
<1> SUFFICES ASSUME VendorInv, EnrolBegin PROVE VendorInv'
  OBVIOUS
<1>1. /\ action' = "enrol" /\ state' = "enroll" /\ slots' = <<>>
      /\ cached' = <<>> /\ arena' = arena /\ top' = 0 /\ served' = <<>>
      /\ accepted' = <<>> /\ template' = <<>> /\ job' = job
      /\ session' = [NoSession EXCEPT !.ptr = "live"]
  BY DEF EnrolBegin, Reset, BeginSession
<1>2. session' \in Sessioned /\ session'.ptr = "live" /\ session'.held = <<>>
      /\ session'.last = 0
  BY <1>1, NullTyped DEF Sessioned, NoSession, NoFrame
<1>3. Len(arena) \in Nat
  BY DEF VendorInv, MemoryType
<1>4. MemoryType' /\ CellsExist' /\ SessionFits' /\ SlotsFilled'
  BY <1>1, <1>2, <1>3, NullTyped
     DEF VendorInv, MemoryType, CellsExist, SessionFits, SlotsFilled
<1>5. NothingStale'
  BY <1>1, <1>2, NullTyped, NoneInUse DEF NothingStale
<1> QED BY <1>4, <1>5 DEF VendorInv

LEMMA PressKeeps == ASSUME VendorInv, NEW f \in Frames, Press(f) PROVE VendorInv'
<1>1. /\ action = "enrol" /\ action' = action /\ Given(f)
      /\ state' = state /\ cached' = cached /\ slots' = slots /\ job' = job
      /\ template' = template
      /\ \/ accepted' = accepted
         \/ accepted' = Append(accepted, f) /\ f \in Usable
  BY DEF Press
<1>2. /\ session \in Sessioned /\ accepted \in Seq(Frames)
      /\ session.held \in Seq(Nat)
      /\ Len(accepted) \in Nat /\ Len(session.held) \in Nat
      /\ slots = <<>> /\ state = "enroll" /\ session.ptr = "live"
      /\ cached = <<>> /\ session.last <= top /\ session.last \in Nat
      /\ \A i \in DOMAIN session.held : session.held[i] \in 1 .. top
      /\ Len(accepted) <= Len(session.held) /\ Len(session.held) <= top
  BY <1>1 DEF VendorInv, MemoryType, Sessioned, NothingStale, SessionFits, ToSet
<1>3. /\ session' \in Sessioned /\ session'.ptr = "live"
      /\ session'.last <= top'
      /\ IF f \in Usable THEN session'.held = Append(session.held, top + 1)
                         ELSE session' = session
  <2>1. CASE f \in Usable
    <3> DEFINE last == IF IsRedundant(f) THEN session.last ELSE top + 1
    <3>1. session' = [session EXCEPT !.held = Append(session.held, top + 1),
                                     !.last = last]
      BY <2>1 DEF Press, Stored
    <3>2. last \in Nat /\ last <= top' /\ top \in Nat
      BY <1>1, <1>2, GivenFrame
    <3> HIDE DEF last
    <3>3. session' = [ptr |-> session.ptr, held |-> Append(session.held, top + 1),
                      last |-> last]
      BY <1>2, <3>1 DEF Sessioned
    <3>4. Append(session.held, top + 1) \in Seq(Nat)
      BY <1>2, <3>2
    <3> QED BY <1>2, <2>1, <3>2, <3>3, <3>4 DEF Sessioned
  <2>2. CASE f \notin Usable
    <3>1. session' = session /\ top' = top + 1 /\ top \in Nat
      BY <1>1, <2>2, GivenFrame DEF Press
    <3> QED BY <1>2, <2>2, <3>1
  <2> QED BY <2>1, <2>2
<1>4. /\ accepted' \in Seq(Frames) /\ Len(accepted') <= Len(session'.held)
      /\ Len(session'.held) <= top'
      /\ \A i \in DOMAIN session'.held : session'.held[i] \in 1 .. top'
  <2>1. top' = top + 1 /\ top \in Nat
    BY <1>1, GivenFrame
  <2>2. CASE f \in Usable
    <3>1. /\ session'.held = Append(session.held, top + 1)
          /\ Len(session'.held) = Len(session.held) + 1
          /\ DOMAIN session'.held = 1 .. Len(session.held) + 1
      BY <1>2, <1>3, <2>2
    <3>2. accepted' \in Seq(Frames) /\ Len(accepted') <= Len(accepted) + 1
      BY <1>1, <1>2
    <3>3. \A i \in DOMAIN session'.held : session'.held[i] \in 1 .. top + 1
      BY <1>2, <2>1, <3>1
    <3> QED BY <1>2, <2>1, <3>1, <3>2, <3>3
  <2>3. CASE f \notin Usable
    <3>1. session' = session /\ accepted' = accepted
      BY <1>1, <1>3, <2>3
    <3> QED BY <1>2, <2>1, <3>1
  <2> QED BY <2>2, <2>3
<1>5. MemoryType' /\ SlotsFilled'
  BY <1>1, <1>2, <1>3, <1>4, GivenFrame, NullTyped
     DEF VendorInv, MemoryType, SlotsFilled
<1>6. CellsExist' /\ SessionFits'
  <2>1. /\ top' \in Nat /\ Len(arena') \in Nat /\ top' <= Len(arena')
        /\ Len(arena') <= HeapFrames
    BY <1>1, GivenFrame
  <2>2. session'.last \in Nat /\ Len(session'.held) \in Nat
        /\ session'.held \in Seq(Nat)
    BY <1>3 DEF Sessioned
  <2>3. \A i \in DOMAIN session'.held : session'.held[i] \in 1 .. Len(arena')
    BY <1>4, <2>1
  <2>4. CellsExist'
    BY <1>1, <1>2, <1>3, <2>1, <2>2, <2>3, NullTyped DEF CellsExist
  <2>5. session'.ptr # "null" /\ Len(session'.held) <= Len(arena')
    BY <1>3, <1>4, <2>1, <2>2
  <2> QED BY <1>4, <2>4, <2>5 DEF SessionFits
<1>7. NothingStale'
  <2>1. ToSet(session'.held) \subseteq 1 .. top'
    BY <1>4 DEF ToSet
  <2>2. SubSeq(arena', 1, top') = served'
    BY <1>1, InUseIsServed DEF VendorInv, NothingStale
  <2> QED BY <1>1, <1>2, <1>3, <2>1, <2>2 DEF NothingStale
<1> QED BY <1>5, <1>6, <1>7 DEF VendorInv

\* Reading a session's cells gives frames, as many as it has cells.
LEMMA InTyped ==
  ASSUME VendorInv
  PROVE  /\ In(session.held) \in Seq(Frames)
         /\ Len(In(session.held)) = Len(session.held)
<1>1. /\ session.held \in Seq(Nat) /\ arena \in Seq(Frames)
      /\ \A i \in DOMAIN session.held : session.held[i] \in 1 .. Len(arena)
  BY DEF VendorInv, MemoryType, CellsExist, Sessioned
<1>2. DOMAIN session.held = 1 .. Len(session.held) /\ Len(session.held) \in Nat
  BY <1>1
<1>3. \A c \in 1 .. Len(arena) : arena[c] \in Frames
  BY <1>1
<1>4. \A i \in 1 .. Len(session.held) : arena[session.held[i]] \in Frames
  <2> TAKE i \in 1 .. Len(session.held)
  <2>1. session.held[i] \in 1 .. Len(arena)
    BY <1>1, <1>2
  <2> QED BY <1>3, <2>1
<1> QED BY <1>2, <1>4 DEF In

LEMMA FinishKeeps ==
  VendorInv /\ (EnrolFinish \/ EnrolFinishFails) => VendorInv'
<1> SUFFICES ASSUME VendorInv, EnrolFinish \/ EnrolFinishFails
             PROVE  VendorInv'
  OBVIOUS
<1>1. /\ action' = "none" /\ state' = "pack" /\ session' = NoSession
      /\ served' = <<>> /\ accepted' = <<>> /\ slots' = slots
      /\ arena' = arena /\ top' = top /\ job' = job
      /\ \/ cached' = In(session.held) /\ template' = In(session.held)
         \/ cached' = cached /\ template' = template
  BY DEF EnrolFinish, EnrolFinishFails, FinishSession
<1>2. In(session.held) \in Seq(Frames)
  BY InTyped
<1>3. Len(arena) \in Nat
  BY DEF VendorInv, MemoryType
<1>4. MemoryType'
  BY <1>1, <1>2, NullTyped DEF VendorInv, MemoryType
<1>5. CellsExist' /\ SessionFits' /\ SlotsFilled' /\ NothingStale'
  BY <1>1, <1>3, NullTyped
     DEF VendorInv, CellsExist, SessionFits, SlotsFilled, NothingStale
<1> QED BY <1>4, <1>5 DEF VendorInv

LEMMA EntryTyped ==
  ASSUME NEW p \in Prints
  PROVE  /\ Entry(p) \in Entries /\ Entry(p).learned = {}
         /\ Entry(p) # NoEntry => /\ Entry(p).frames = Template[p]
                                  /\ Entry(p).frames # <<>>
<1>1. CASE p \in Parses
  <2>1. Entry(p) = [frames |-> Template[p], learned |-> {}]
        /\ Template[p] \in Seq(Frames)
    BY <1>1, VendorAssumption DEF Entry
  <2>2. Template[p] = <<>> => Entry(p) = NoEntry
    BY <2>1 DEF NoEntry
  <2>3. Entry(p) \in Entries /\ Entry(p).learned = {}
        /\ Entry(p).frames = Template[p]
    BY <2>1 DEF Entries
  <2> QED BY <2>2, <2>3
<1>2. CASE p \notin Parses
  BY <1>2, NullTyped DEF Entry, NoEntry
<1> QED BY <1>1, <1>2

LEMMA LoadedSlots ==
  ASSUME job \in Seq(Prints)
  PROVE  /\ Loaded \in Seq(Entries) /\ DOMAIN Loaded = DOMAIN job
         /\ \A i \in DOMAIN job : Loaded[i] = Entry(job[i]) /\ job[i] \in Prints
         /\ NoEntry \in ToSet(Loaded) <=>
              \E i \in DOMAIN job : Entry(job[i]) = NoEntry
<1>1. DOMAIN job = 1 .. Len(job) /\ Len(job) \in Nat
  OBVIOUS
<1>2. /\ DOMAIN Loaded = DOMAIN job
      /\ \A i \in DOMAIN job : Loaded[i] = Entry(job[i]) /\ job[i] \in Prints
  BY DEF Loaded
<1>3. Loaded \in Seq(Entries)
  BY <1>1, <1>2, EntryTyped DEF Loaded
<1>4. NoEntry \in ToSet(Loaded) <=>
        \E i \in DOMAIN job : Entry(job[i]) = NoEntry
  BY <1>2 DEF ToSet
<1> QED BY <1>2, <1>3, <1>4

LEMMA LoadKeeps == VendorInv /\ Load => VendorInv'
<1> SUFFICES ASSUME VendorInv, Load PROVE VendorInv'
  OBVIOUS
<1>1. /\ action' = IF NoEntry \in ToSet(Loaded) THEN "none" ELSE "match"
      /\ state' = "loaded" /\ slots' = Loaded /\ cached' = <<>>
      /\ arena' = arena /\ top' = 0 /\ served' = <<>> /\ session' = Dropped
      /\ job' = job /\ template' = template /\ accepted' = accepted
  BY DEF Load, Reset
<1>2. /\ session' \in Sessioned /\ session'.held = session.held
      /\ session'.last = session.last
      /\ (session'.ptr = "null" => session' = NoSession)
  BY <1>1 DEF Dropped, VendorInv, SessionFits, MemoryType, Sessioned
<1>3. /\ job \in Seq(Prints) /\ DOMAIN Loaded = DOMAIN job
      /\ \A i \in DOMAIN job : Loaded[i] = Entry(job[i]) /\ job[i] \in Prints
  BY LoadedSlots DEF VendorInv, MemoryType
<1>4. \A i \in DOMAIN slots' : slots'[i].learned = {}
  BY <1>1, <1>3, EntryTyped
<1>5. MemoryType'
  BY <1>1, <1>2, LoadedSlots, NullTyped DEF VendorInv, MemoryType
<1>6. CellsExist' /\ SessionFits'
  <2>1. Len(arena) \in Nat
    BY DEF VendorInv, MemoryType
  <2> QED BY <1>1, <1>2, <1>4, <2>1 DEF VendorInv, CellsExist, SessionFits
<1>7. CASE action' = "match"
  <2>1. \A i \in DOMAIN job : Entry(job[i]) # NoEntry
    BY <1>1, <1>3, <1>7, LoadedSlots
  <2>2. /\ DOMAIN slots' = DOMAIN job'
        /\ \A i \in DOMAIN job : /\ slots'[i].frames = Template[job[i]]
                                 /\ slots'[i].frames # <<>>
    BY <1>1, <1>3, <2>1, EntryTyped
  <2>3. SlotsFilled'
    BY <1>1, <2>2 DEF SlotsFilled
  <2>4. NothingStale'
    BY <1>1, <1>4, <1>7, <2>2, NoneInUse DEF NothingStale
  <2> QED BY <1>5, <1>6, <2>3, <2>4 DEF VendorInv
<1>8. CASE action' = "none"
  BY <1>5, <1>6, <1>8 DEF VendorInv, SlotsFilled, NothingStale
<1> QED BY <1>1, <1>7, <1>8

LEMMA ProbeSlots ==
  ASSUME VendorInv, NEW p \in Frames, Probe(p)
  PROVE  /\ slots' \in Seq(Entries) /\ DOMAIN slots' = DOMAIN slots
         /\ \A i \in DOMAIN slots : slots'[i].frames = slots[i].frames
         /\ \A i \in DOMAIN slots :
              slots'[i].learned \subseteq slots[i].learned \cup {top'}
<1>1. PICK learning \in SUBSET Teaches(p) :
        slots' = [i \in DOMAIN slots |->
                    IF i \in learning
                    THEN [slots[i] EXCEPT !.learned = @ \cup {top + 1}]
                    ELSE slots[i]]
  BY DEF Probe
<1>2. slots \in Seq(Entries) /\ DOMAIN slots = 1 .. Len(slots)
      /\ Len(slots) \in Nat /\ top' = top + 1 /\ top + 1 \in Nat
  BY DEF VendorInv, MemoryType, Probe, Given
<1>3. \A i \in DOMAIN slots : slots[i] \in Entries
  BY <1>2
<1>4. ASSUME NEW i \in DOMAIN slots
      PROVE  /\ slots'[i] \in Entries /\ slots'[i].frames = slots[i].frames
             /\ slots'[i].learned \subseteq slots[i].learned \cup {top'}
  BY <1>1, <1>2, <1>3 DEF Entries
<1>5. slots' \in Seq(Entries) /\ DOMAIN slots' = DOMAIN slots
  BY <1>1, <1>2, <1>4
<1> QED BY <1>4, <1>5

LEMMA ProbeKeeps == ASSUME VendorInv, NEW p \in Frames, Probe(p) PROVE VendorInv'
<1>1. /\ action = "match" /\ action' = action /\ Given(p)
      /\ state' = state /\ session' = session /\ cached' = cached
      /\ job' = job /\ template' = template /\ accepted' = accepted
  BY DEF Probe
<1>2. session \in Sessioned /\ session.held \in Seq(Nat)
      /\ Len(session.held) \in Nat /\ session.last \in Nat
  BY DEF VendorInv, MemoryType, Sessioned
<1>3. MemoryType'
  BY <1>1, GivenFrame, ProbeSlots DEF VendorInv, MemoryType
<1>4. \A i \in DOMAIN slots' : slots'[i].learned \subseteq 1 .. top'
  <2>1. \A i \in DOMAIN slots : slots[i].learned \subseteq 1 .. top
    BY <1>1 DEF VendorInv, NothingStale
  <2>2. top' = top + 1 /\ top \in Nat
    BY <1>1, GivenFrame
  <2>3. 1 .. top \subseteq 1 .. top' /\ top' \in 1 .. top'
    BY <2>2
  <2> QED BY <2>1, <2>3, ProbeSlots
<1>5. CellsExist'
  <2>1. /\ top' \in Nat /\ Len(arena') \in Nat /\ top' <= Len(arena')
        /\ Len(arena) \in Nat /\ Len(arena) <= Len(arena')
        /\ Len(arena') <= HeapFrames
    BY <1>1, GivenFrame
  <2>2. 1 .. top' \subseteq 1 .. Len(arena')
        /\ 1 .. Len(arena) \subseteq 1 .. Len(arena')
    BY <2>1
  <2>3. /\ \A i \in DOMAIN session.held : session.held[i] \in 1 .. Len(arena)
        /\ session.last <= Len(arena)
    BY DEF VendorInv, CellsExist
  <2>4. session.last <= Len(arena')
    BY <1>2, <2>1, <2>3
  <2> QED BY <1>1, <1>4, <2>1, <2>2, <2>3, <2>4 DEF CellsExist
<1>6. SessionFits'
  BY <1>1, <1>2, GivenFrame DEF VendorInv, SessionFits
<1>7. SlotsFilled'
  BY <1>1, ProbeSlots DEF VendorInv, SlotsFilled
<1>8. NothingStale'
  <2>1. SubSeq(arena', 1, top') = served'
    BY <1>1, InUseIsServed DEF VendorInv, NothingStale
  <2> QED BY <1>1, <1>4, <2>1, ProbeSlots DEF VendorInv, NothingStale
<1> QED BY <1>3, <1>5, <1>6, <1>7, <1>8 DEF VendorInv

LEMMA RestKeeps ==
  VendorInv /\ (StartLoad \/ ActionEnds \/ UNCHANGED vars) => VendorInv'
<1>1. VendorInv /\ UNCHANGED vars => VendorInv'
  BY DEF vars, memory, VendorInv, MemoryType, CellsExist, SessionFits,
         SlotsFilled, NothingStale
<1>2. VendorInv /\ StartLoad => VendorInv'
  BY VendorAssumption
     DEF StartLoad, memory, VendorInv, MemoryType, CellsExist, SessionFits,
         SlotsFilled, NothingStale
<1>3. VendorInv /\ ActionEnds => VendorInv'
  BY NullTyped
     DEF ActionEnds, memory, VendorInv, MemoryType, CellsExist, SessionFits,
         SlotsFilled, NothingStale
<1> QED BY <1>1, <1>2, <1>3

LEMMA VendorNext == VendorInv /\ [Next]_vars => VendorInv'
BY BeginKeeps, PressKeeps, FinishKeeps, LoadKeeps, ProbeKeeps, RestKeeps
   DEF Next

\* Sessions, slots and the cells of the arena belong together at every step,
\* over whatever bytes earlier actions left.
THEOREM VendorInvariant == Spec => []VendorInv
BY VendorInit, VendorNext, PTL DEF Spec

\* What the state is made of, and that a session fits the arena's bound.
THEOREM VendorTypeCorrect == Spec => []TypeOK
<1>1. VendorInv => TypeOK
  <2> SUFFICES ASSUME VendorInv PROVE TypeOK
    OBVIOUS
  <2>1. /\ session \in Sessioned /\ arena \in Seq(Frames) /\ top \in Nat
        /\ session.held \in Seq(Nat) /\ session.last \in Nat
        /\ Len(session.held) <= Len(arena) /\ Len(arena) <= HeapFrames
        /\ top <= Len(arena) /\ session.last <= Len(arena)
        /\ \A i \in DOMAIN session.held : session.held[i] \in 1 .. Len(arena)
        /\ \A i \in DOMAIN slots : slots[i].learned \subseteq 1 .. Len(arena)
    BY DEF VendorInv, MemoryType, CellsExist, SessionFits, Sessioned
  <2>2. Len(session.held) <= HeapFrames /\ Len(arena) \in Nat
    BY <2>1, NullTyped
  <2>3. session.held \in Seq(1 .. Len(arena))
    BY <2>1
  <2>4. session.last \in 0 .. Len(arena) /\ top \in 0 .. Len(arena)
    BY <2>1, <2>2
  <2>5. session \in [ptr : {"null", "live", "stale"},
                    held : Seq(1 .. Len(arena)), last : 0 .. Len(arena)]
    BY <2>1, <2>3, <2>4 DEF Sessioned
  <2> QED BY <2>1, <2>2, <2>4, <2>5 DEF VendorInv, MemoryType, TypeOK
<1> QED BY <1>1, VendorInvariant, PTL

\* No pointer and no global of an enrolment or a match leads to anything of an
\* earlier operation, whichever operations came before, wherever they were cut
\* short, and whatever they left in the arena.
THEOREM NothingIsStale == Spec => []NothingStale
<1>1. VendorInv => NothingStale
  BY DEF VendorInv
<1> QED BY <1>1, VendorInvariant, PTL

-----------------------------------------------------------------------------
(* The contract of egis_engine.h                                            *)

LEMMA LoadMaps ==
  ASSUME VendorInv, Load
  PROVE  Contract!Load \/ LoadPartly
<1>1. /\ slots' = Loaded /\ template' = template /\ action = "loading"
      /\ action' = IF NoEntry \in ToSet(Loaded) THEN "none" ELSE "match"
      /\ job \in Seq(Prints) /\ state' = "loaded"
  BY DEF Load, Reset, VendorInv, MemoryType
<1>2. Held' = Closed
  BY <1>1 DEF Held
<1>3. /\ DOMAIN job = 1 .. Len(job) /\ DOMAIN slots' = DOMAIN job
      /\ \A i \in DOMAIN job : /\ slots'[i] = Entry(job[i])
                               /\ job[i] \in Prints
      /\ NoEntry \in ToSet(Loaded) <=>
           \E i \in DOMAIN job : Entry(job[i]) = NoEntry
  BY <1>1, LoadedSlots
<1> DEFINE whole == {i \in DOMAIN job : Entry(job[i]) # NoEntry}
<1>4. Gallery' = [i \in whole |-> Template[job[i]]]
  <2>1. Filled' = whole
    BY <1>3 DEF Filled
  <2>2. \A i \in whole : slots'[i].frames = Template[job[i]]
    BY <1>3, EntryTyped
  <2> QED BY <2>1, <2>2 DEF Gallery
<1>5. CASE whole = DOMAIN job
  <2>1. Gallery' = [i \in 1 .. Len(job) |-> Template[job[i]]]
    BY <1>3, <1>4, <1>5
  <2> QED BY <1>1, <1>2, <2>1 DEF Contract!Load, Contract!NoSession, Closed
<1>6. CASE whole # DOMAIN job
  <2>1. action' = "none"
    BY <1>1, <1>3, <1>6
  <2>2. whole \in SUBSET DOMAIN job
    OBVIOUS
  <2> HIDE DEF whole
  <2> QED BY <1>1, <1>2, <1>4, <1>6, <2>1, <2>2 DEF LoadPartly
<1> QED BY <1>5, <1>6

\* The session's frames are as they were, and the new one, read through cells
\* of which the next was written over.
LEMMA PressReads ==
  ASSUME VendorInv, NEW f \in Frames, Press(f)
  PROVE  IF f \in Usable THEN In(session.held)' = Append(In(session.held), f)
                         ELSE In(session.held)' = In(session.held)
<1>1. /\ Given(f) /\ session.held \in Seq(Nat)
      /\ \A i \in DOMAIN session.held : session.held[i] \in 1 .. top
  BY DEF Press, VendorInv, MemoryType, Sessioned, NothingStale, ToSet
<1>2. /\ DOMAIN session.held = 1 .. Len(session.held)
      /\ Len(session.held) \in Nat
  BY <1>1
<1>3. \A i \in 1 .. Len(session.held) :
        arena'[session.held[i]] = arena[session.held[i]]
  BY <1>1, <1>2, GivenFrame
<1>4. CASE f \in Usable
  <2>1. session'.held = Append(session.held, top + 1)
    BY <1>4 DEF Press, Stored, VendorInv, MemoryType, Sessioned
  <2>2. /\ DOMAIN session'.held = 1 .. Len(session.held) + 1
        /\ \A i \in 1 .. Len(session.held) : session'.held[i] = session.held[i]
        /\ session'.held[Len(session.held) + 1] = top + 1
    BY <1>1, <1>2, <2>1
  <2>3. arena'[top + 1] = f
    BY <1>1, GivenFrame
  <2>4. In(session.held) \in Seq(Frames)
        /\ Len(In(session.held)) = Len(session.held)
    BY InTyped
  <2>5. /\ DOMAIN Append(In(session.held), f) = 1 .. Len(session.held) + 1
        /\ \A i \in 1 .. Len(session.held) :
             Append(In(session.held), f)[i] = In(session.held)[i]
        /\ Append(In(session.held), f)[Len(session.held) + 1] = f
    BY <1>2, <2>4
  <2>6. /\ In(session.held)' = [i \in 1 .. Len(session.held) + 1 |->
                                 arena'[session'.held[i]]]
        /\ \A i \in 1 .. Len(session.held) :
             In(session.held)[i] = arena[session.held[i]]
    BY <1>2, <2>2 DEF In
  <2>7. \A i \in 1 .. Len(session.held) + 1 :
          In(session.held)'[i] = Append(In(session.held), f)[i]
    BY <1>2, <1>3, <2>2, <2>3, <2>5, <2>6
  <2>8. Append(In(session.held), f) =
          [i \in 1 .. Len(session.held) + 1 |-> Append(In(session.held), f)[i]]
    BY <2>4, <2>5
  <2> QED BY <1>4, <2>6, <2>7, <2>8
<1>5. CASE f \notin Usable
  <2>1. session' = session
    BY <1>5 DEF Press
  <2> QED BY <1>2, <1>3, <1>5, <2>1 DEF In
<1> QED BY <1>4, <1>5

LEMMA PressMaps ==
  ASSUME VendorInv, NEW f \in Frames, Press(f)
  PROVE  Contract!Add(f) \/ UNCHANGED <<Held, template, Gallery>>
<1>1. /\ action = "enrol" /\ state' = state /\ template' = template
      /\ slots' = slots /\ state = "enroll" /\ session.ptr = "live"
  BY DEF Press, VendorInv, NothingStale
<1>2. session'.ptr = session.ptr
  BY DEF Press, Stored, VendorInv, MemoryType, Sessioned
<1>3. /\ Held = [open |-> TRUE, frames |-> In(session.held)]
      /\ Held' = [open |-> TRUE, frames |-> In(session.held)']
  BY <1>1, <1>2 DEF Held
<1>4. Gallery' = Gallery
  BY <1>1 DEF Gallery, Filled
<1>5. CASE f \in Usable
  BY <1>1, <1>3, <1>4, <1>5, PressReads DEF Contract!Add
<1>6. CASE f \notin Usable
  BY <1>1, <1>3, <1>4, <1>6, PressReads
<1> QED BY <1>5, <1>6

LEMMA ProbeMaps ==
  ASSUME VendorInv, NEW p \in Frames, Probe(p)
  PROVE  UNCHANGED <<Held, template, Gallery>>
<1>1. /\ state' = state /\ session' = session /\ template' = template
      /\ action = "match" /\ DOMAIN slots' = DOMAIN slots
      /\ \A i \in DOMAIN slots : slots'[i].frames = slots[i].frames
  BY ProbeSlots DEF Probe
<1>2. \A i \in DOMAIN slots : /\ slots[i].frames # <<>>
                              /\ slots'[i].frames # <<>>
  BY <1>1 DEF VendorInv, SlotsFilled
<1>3. Filled = DOMAIN slots /\ Filled' = DOMAIN slots
  <2>1. NoEntry.frames = <<>>
    BY DEF NoEntry
  <2> QED BY <1>1, <1>2, <2>1 DEF Filled
<1>4. state = "loaded"
  BY <1>1 DEF VendorInv, NothingStale
<1>5. Held' = Held
  BY <1>1, <1>4 DEF Held
<1> QED BY <1>1, <1>3, <1>5 DEF Gallery

LEMMA ContractStep ==
  ASSUME VendorInv, [Next]_vars
  PROVE  [Contract!Next \/ LoadPartly]_(Contract!memory)
<1>1. SUFFICES \/ Contract!Next \/ LoadPartly
               \/ UNCHANGED <<Held, template, Gallery>>
  BY DEF Contract!memory
<1>2. CASE UNCHANGED vars \/ StartLoad \/ ActionEnds
  BY <1>2 DEF vars, memory, StartLoad, ActionEnds, Held, Gallery, Filled, In
<1>3. CASE EnrolBegin
  <2>1. /\ state' = "enroll" /\ session'.ptr = "live" /\ session'.held = <<>>
        /\ template' = <<>> /\ slots' = <<>>
    BY <1>3 DEF EnrolBegin, Reset, BeginSession, NoSession
  <2>2. In(session.held)' = <<>>
    BY <2>1 DEF In
  <2>3. Held' = [open |-> TRUE, frames |-> <<>>]
    BY <2>1, <2>2 DEF Held
  <2>4. Filled' = {}
    BY <2>1 DEF Filled
  <2>5. Gallery' = <<>>
    BY <2>4 DEF Gallery
  <2> QED BY <2>1, <2>3, <2>5 DEF Contract!Next, Contract!Begin
<1>4. CASE EnrolFinish \/ EnrolFinishFails
  <2>1. /\ action = "enrol" /\ slots' = slots /\ state' = "pack"
        /\ Len(accepted) >= Stages
        /\ \/ template' = In(session.held)
           \/ template' = template
    BY <1>4 DEF EnrolFinish, EnrolFinishFails, FinishSession
  <2>2. Held = [open |-> TRUE, frames |-> In(session.held)]
    BY <2>1 DEF VendorInv, NothingStale, Held
  <2>3. Held' = [open |-> FALSE, frames |-> <<>>]
    BY <2>1 DEF Held, Closed
  <2>4. In(session.held) # <<>>
    <3>1. /\ Len(accepted) \in Nat /\ Len(session.held) >= Len(accepted)
          /\ Len(session.held) \in Nat
      BY <2>1 DEF VendorInv, SessionFits, MemoryType, Sessioned
    <3>2. Len(session.held) >= 1
      BY <2>1, <3>1, VendorAssumption
    <3>3. Len(In(session.held)) >= 1
      BY <3>2, InTyped
    <3> QED BY <3>3, NullTyped
  <2>5. Gallery' = Gallery
    BY <2>1 DEF Gallery, Filled
  <2> QED BY <2>1, <2>2, <2>3, <2>4, <2>5
          DEF Contract!Next, Contract!Finish, Contract!FinishNothing,
              Contract!NoSession
<1>5. CASE Load
  BY <1>5, LoadMaps DEF Contract!Next
<1>6. CASE \E f \in Frames : Press(f) \/ Probe(f)
  BY <1>6, PressMaps, ProbeMaps DEF Contract!Next
<1> QED BY <1>2, <1>3, <1>4, <1>5, <1>6 DEF Next

\* The vendor flavour does what egis_engine.h promises, call for call, of
\* whatever lists it is given, but for a load that fails half-way and leaves
\* the slots that unpacked.
THEOREM VendorKeepsContract == Spec => KeepsContract
<1>1. Init => Contract!Init
  BY DEF Init, Contract!Init, Contract!NoSession, Held, Closed, Gallery, Filled
<1>2. VendorInv /\ [Next]_vars => [Contract!Next \/ LoadPartly]_(Contract!memory)
  BY ContractStep
<1> QED BY <1>1, <1>2, VendorInvariant, PTL DEF Spec, KeepsContract
=============================================================================
