----------------------------- MODULE VendorEngine -----------------------------
(***************************************************************************)
(* The memory of the vendor flavour of egis_engine.h: egis_engine.c over   *)
(* the translated functions of egis_funcs.c, whose globals lie in one      *)
(* mapped .data section (its state word, the gallery's slots, a packed     *)
(* template) and whose allocations come from one arena that is never freed *)
(* and never cleared, only rewound by egis_reset when an enrolment begins  *)
(* or a gallery is loaded. A step is one call the driver makes. What a     *)
(* frame scores is a table; what is modelled is which frames an entry or a *)
(* template is made of, and where their bytes are: sessions and what an    *)
(* entry has learned are cells of the arena, read where they are used, so  *)
(* a cell that was written over shows. An entry's own frames, copied by    *)
(* the load and never written over before the next reset, are by value.    *)
(*                                                                         *)
(* e_malloc hands out what an earlier action left, and the translated code *)
(* reads some of those bytes before it writes them. On the compiled engine *)
(* no code, score, index or byte of a template depends on them (README,    *)
(* 8), so that read has one outcome and no step here branches on it.       *)
(***************************************************************************)
EXTENDS Integers, Sequences, SequencesExt

CONSTANTS
  Frames,
  Usable,           \* the frames with at least 11 minutiae
  Redundant,        \* [Frames -> SUBSET Frames]: FUN_180033d80 of the two > 0
  Level(_, _),      \* of a frame and the frames of an entry: 0 up to the
                    \* adaptive threshold's least, 1 above it
  Prints,
  Template,         \* [Prints -> Seq(Frames)]
  Parses,           \* those FUN_18002e020 unpacks
  Lists,            \* what the driver loads: 1 .. 5 of them, none empty
  Stages,           \* EGIS_ENROLL_STAGES
  HeapFrames        \* the frames one action gives the engine: a bound. The
                    \* arena's HEAP_SZ is full at some 2400.

ASSUME VendorAssumption ==
  /\ Usable \subseteq Frames /\ Redundant \in [Frames -> SUBSET Frames]
  /\ Template \in [Prints -> Seq(Frames)] /\ Parses \subseteq Prints
  /\ Lists \subseteq Seq(Prints)
  /\ Stages \in Nat \ {0} /\ HeapFrames \in Nat

VARIABLES
  action,           \* none, enrol, loading, match
  state,            \* DAT_18009707c: ready, enroll, pack, loaded
  session,          \* cur_session: null, live, or stale (the arena was
                    \* rewound under it); the cells of the frames it holds,
                    \* and of the last one not redundant, 0 if none
  cached,           \* DAT_18009d028, the packed template
  slots,            \* DAT_1800a0470: of each entry its frames and the cells
                    \* it has learned from
  arena, top,       \* the frame in each cell, whoever wrote it last; heap_ptr
  job,              \* self->load
  template,         \* what the driver has of egis_enroll_finish
  served, accepted  \* of this action: the frames given, the presses counted

memory == <<state, session, cached, slots, arena, top>>
vars == <<action, memory, job, template, served, accepted>>

NoFrame == 0
NoSession == [ptr |-> "null", held |-> <<>>, last |-> NoFrame]
NoEntry == [frames |-> <<>>, learned |-> {}]       \* a NULL slot

\* egis_engine_new: egis_init, FUN_18002bf50
Init ==
  /\ action = "none" /\ job = <<>> /\ template = <<>>
  /\ served = <<>> /\ accepted = <<>>
  /\ state = "ready" /\ session = NoSession /\ cached = <<>> /\ slots = <<>>
  /\ arena = <<>> /\ top = 0

\* egis_reset and FUN_18002bf50, with what the operation then puts there. The
\* cells keep their bytes.
Reset(st, entries) ==
  /\ state' = st /\ slots' = entries /\ cached' = <<>>
  /\ top' = 0 /\ served' = <<>>
  /\ UNCHANGED arena

-----------------------------------------------------------------------------
(* Enrolment                                                                *)

\* (slip) A session still there is kept.
BeginSessionKept ==
  session' = IF session.ptr = "null" THEN [NoSession EXCEPT !.ptr = "live"]
             ELSE session

\* FUN_18002c0d0
BeginSession == session' = [NoSession EXCEPT !.ptr = "live"]

\* egis_enroll_begin
EnrolBegin ==
  /\ action = "none" /\ action' = "enrol"
  /\ Reset("enroll", <<>>) /\ BeginSession
  /\ accepted' = <<>> /\ template' = <<>>
  /\ UNCHANGED job

\* FUN_180034130: a press like the last one that was not is redundant.
IsRedundant(f) == session.last # NoFrame /\ f \in Redundant[arena[session.last]]

\* e_malloc: the next cell, over what was there.
Given(f) ==
  /\ top < HeapFrames
  /\ arena' = IF top < Len(arena) THEN [arena EXCEPT ![top + 1] = f]
               ELSE Append(arena, f)
  /\ top' = top + 1 /\ served' = Append(served, f)

\* The frames in some cells.
In(cells) == [i \in DOMAIN cells |-> arena[cells[i]]]

\* Every usable press is stored, the redundant ones too: the code they return
\* is -8, and the user is asked for another. Past the eleventh a frame is merged
\* with those kept (FUN_180033210, FUN_180034480, FUN_1800349c0) and not kept
\* beside them: the template is of the same frames either way.
Stored(f) ==
  session' = [session EXCEPT !.held = Append(@, top + 1),
                             !.last = IF IsRedundant(f) THEN @ ELSE top + 1]

\* egis_enroll_add, FUN_18002c880
Press(f) ==
  /\ action = "enrol" /\ Len(accepted) < Stages
  /\ Given(f)
  /\ IF f \in Usable THEN Stored(f) ELSE UNCHANGED session
  /\ accepted' = IF f \in Usable /\ ~IsRedundant(f) THEN Append(accepted, f)
                 ELSE accepted
  /\ UNCHANGED <<action, state, cached, slots, job, template>>

\* egis_enroll_finish, twice in a row: FUN_18002dc40 packs what
\* FUN_180033270 merged of the session, which may be nothing.
FinishSession ==
  /\ action = "enrol" /\ Len(accepted) >= Stages
  /\ action' = "none" /\ state' = "pack" /\ session' = NoSession
  /\ served' = <<>> /\ accepted' = <<>>
  /\ UNCHANGED <<slots, arena, top, job>>

EnrolFinish ==
  /\ FinishSession
  /\ cached = <<>> /\ cached' = In(session.held) /\ template' = cached'

EnrolFinishFails ==
  /\ FinishSession
  /\ UNCHANGED <<cached, template>>

-----------------------------------------------------------------------------
(* Verify and identify                                                      *)

StartLoad ==
  /\ action = "none" /\ action' = "loading"
  /\ job' \in Lists
  /\ UNCHANGED <<memory, template, served, accepted>>

\* FUN_18002d350: a blob that does not unpack leaves its slot NULL.
Entry(p) ==
  IF p \in Parses THEN [frames |-> Template[p], learned |-> {}] ELSE NoEntry

Loaded == [i \in DOMAIN job |-> Entry(job[i])]

\* cur_session is not cleared: it points at cells that will be written over.
Dropped ==
  IF session.ptr = "null" THEN session ELSE [session EXCEPT !.ptr = "stale"]

\* (slip) The slots are not looked at: the count is the list's length anyway.
LoadUnverified ==
  /\ action = "loading" /\ action' = "match"
  /\ Reset("loaded", Loaded) /\ session' = Dropped
  /\ UNCHANGED <<job, template, accepted>>

\* egis_gallery_load: -1 if a slot is NULL, which ends the action; the others
\* stay.
Load ==
  /\ action = "loading"
  /\ Reset("loaded", Loaded) /\ session' = Dropped
  /\ action' = IF NoEntry \in ToSet(Loaded) THEN "none" ELSE "match"
  /\ UNCHANGED <<job, template, accepted>>

\* FUN_18002d530: the entries that may learn the frame, those it scores over
\* the adaptive threshold against, whether or not over the driver's.
Teaches(p) ==
  {i \in DOMAIN slots :
     p \in Usable /\ Level(p, ToSet(slots[i].frames)
                               \cup {arena[c] : c \in slots[i].learned}) > 0}

\* egis_verify and egis_identify
Probe(p) ==
  /\ action = "match"
  /\ Given(p)
  /\ \E learning \in SUBSET Teaches(p) :
       slots' = [i \in DOMAIN slots |->
                   IF i \in learning
                   THEN [slots[i] EXCEPT !.learned = @ \cup {top + 1}]
                   ELSE slots[i]]
  /\ UNCHANGED <<action, state, session, cached, job, template, accepted>>

\* A match, a lifted finger, a cancel or a removal: the engine is not told.
ActionEnds ==
  /\ action # "none" /\ action' = "none"
  /\ job' = <<>> /\ served' = <<>> /\ accepted' = <<>>
  /\ UNCHANGED <<memory, template>>

Next ==
  \/ EnrolBegin \/ EnrolFinish \/ EnrolFinishFails
  \/ StartLoad \/ Load \/ ActionEnds
  \/ \E f \in Frames : Press(f) \/ Probe(f)

Spec == Init /\ [][Next]_vars

-----------------------------------------------------------------------------
(* Properties                                                               *)

\* The state machine's states, and cells and frames where they belong.
TypeOK ==
  /\ action \in {"none", "enrol", "loading", "match"}
  /\ state \in {"ready", "enroll", "pack", "loaded"}
  /\ session \in [ptr : {"null", "live", "stale"}, held : Seq(1 .. Len(arena)),
                  last : 0 .. Len(arena)]
  /\ Len(session.held) <= HeapFrames
  /\ {cached, arena, template, served, accepted} \subseteq Seq(Frames)
  /\ top \in 0 .. Len(arena) /\ Len(arena) <= HeapFrames
  /\ \A i \in DOMAIN slots : slots[i].learned \subseteq 1 .. Len(arena)

\* The bytes of an earlier action are still in the arena; no pointer leads to
\* them. What a call finds in .data and through its pointers is of its own
\* action: no session into the part that was rewound, no template of an earlier
\* enrolment to return instead of packing, no entry but those asked for, not
\* even one of a load that failed half-way, none that has learned from another
\* action's frames ("Reloading the gallery ... removes the effect entirely"),
\* and in the cells handed out since the reset this action's frames alone: so
\* much of "does not leak or carry state between operations" (egis_rt.c).
NothingStale ==
  /\ action = "enrol" =>
       /\ state = "enroll" /\ session.ptr = "live"
       /\ cached = <<>> /\ slots = <<>>
       /\ ToSet(session.held) \subseteq 1 .. top /\ session.last <= top
  /\ action = "match" =>
       /\ state = "loaded" /\ DOMAIN slots = DOMAIN job
       /\ \A i \in DOMAIN job : slots[i].frames = Template[job[i]]
       /\ \A i \in DOMAIN slots : slots[i].learned \subseteq 1 .. top
  /\ action \in {"enrol", "match"} => SubSeq(arena, 1, top) = served

\* The session enrolled into, and what is in the slots that are not NULL.
Closed == [open |-> FALSE, frames |-> <<>>]
Held == IF state = "enroll" /\ session.ptr = "live"
        THEN [open |-> TRUE, frames |-> In(session.held)] ELSE Closed

Filled == {i \in DOMAIN slots : slots[i] # NoEntry}
Gallery == [i \in Filled |-> slots[i].frames]

Contract == INSTANCE EngineContract WITH
  session <- Held, gallery <- Gallery, asked <- job

\* A load that returns -1 and leaves what it unpacked of the list, which ends
\* the action.
LoadPartly ==
  /\ action = "loading" /\ action' = "none"
  /\ \E whole \in SUBSET DOMAIN job :
       /\ whole # DOMAIN job
       /\ Gallery' = [i \in whole |-> Template[job[i]]]
  /\ Held' \in {Held, Closed} /\ UNCHANGED template

\* egis_engine.h's promises about the memory behind it hold of this flavour
\* too, but for a load that fails half-way: the slots that unpacked stay until
\* the next load or enrolment, with no action to match against them. A session
\* is made of its frames though they are read through cells others write.
KeepsContract ==
  Contract!Init /\ [][Contract!Next \/ LoadPartly]_(Contract!memory)

\* "a blob is invalid (nothing is loaded)", egis_engine.h:73. Does not hold:
\* README, 6.
NothingOfInvalidLoad == Contract!Spec
=============================================================================
