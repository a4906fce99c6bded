------------------------------- MODULE Engine -------------------------------
(***************************************************************************)
(* class Engine of src/core.cpp: one call of hit or invalidate is one      *)
(* step.  The callers serialise the calls (core.hpp: "Single-threaded      *)
(* core"), so a call is atomic.                                            *)
(*                                                                         *)
(* lane_notes_[lane] enumerates the chart positions of the lane in order.  *)
(* A cursor into it is represented here by the chart position it stands    *)
(* on, Len(notes) + 1 or a position of another lane when nothing of the    *)
(* lane is in between.                                                     *)
(***************************************************************************)
EXTENDS Timeline

CONSTANTS Charts,       \* the charts handed to the constructor
          Times,        \* the times hit may be called with
          MaxEvents,    \* max_events_
          HostReasons,  \* the texts invalidate may be called with
          WordSize      \* the range of an unsigned counter, 2^64 in the code

ASSUME EngineAssumption ==
    /\ Charts \subseteq Seq(Note)
    /\ Times \subseteq Nat
    /\ MaxEvents \in Nat \ {0}
    /\ WordSize \in Nat \ {0}

VARIABLES notes,            \* chart_.notes
          cursors,          \* cursors_
          records,          \* records_
          feedback,         \* feedback_
          last_input,       \* last_input_ns_
          invalid_reason    \* invalid_reason_, "" while the run is valid

vars == <<notes, cursors, records, feedback, last_input, invalid_reason>>

Judgment == {"Ignored", "Perfect", "Good", "Empty", "Invalid"}
Hits     == {"Perfect", "Good"}

Feedback == [event_ns : Nat, delay_ns : Int, note_id : Nat \cup {NoNote},
             lane : Nat, stage : Stage, kind : Judgment]

NoFeedback == [event_ns |-> 0, delay_ns |-> 0, note_id |-> NoNote,
               lane |-> 0, stage |-> "None", kind |-> "Ignored"]

BeforeAll == -1      \* INT64_MIN: earlier than any input

Reason == HostReasons \cup {"", "run invalidated by host",
             "input timestamps went backwards", "input log capacity exceeded"}

valid == invalid_reason = ""

Init ==
    /\ notes \in Charts
    /\ ValidChart(notes)
    /\ cursors = [l \in Lane |-> 1]
    /\ records = <<>>
    /\ feedback = [l \in Lane |-> NoFeedback]
    /\ last_input = BeforeAll
    /\ invalid_reason = ""

-----------------------------------------------------------------------------
(* hit, one action per path through it. *)

Event(time, lane, kind, id, delay) ==
    [event_ns |-> time, delay_ns |-> delay, note_id |-> id,
     lane |-> lane, stage |-> InputStage(time), kind |-> kind]

HitWhenInvalid(time, lane) ==
    /\ ~valid
    /\ UNCHANGED vars

HitBackwards(time, lane) ==
    /\ valid
    /\ time < last_input
    /\ invalid_reason' = "input timestamps went backwards"
    /\ UNCHANGED <<notes, cursors, records, feedback, last_input>>

(* Faulty: the early return for an invalid run is lost. *)
InOrder_Unchecked(time) == time >= last_input

InOrder(time) == valid /\ time >= last_input

(* Faulty: the capacity test is off by one. *)
HasRoom_OffByOne == Len(records) # MaxEvents + 1

HasRoom == Len(records) # MaxEvents

HitOutsideStages(time, lane) ==
    /\ InOrder(time)
    /\ InputStage(time) = "None"
    /\ last_input' = time
    /\ UNCHANGED <<notes, cursors, records, feedback, invalid_reason>>

HitOverCapacity(time, lane) ==
    /\ InOrder(time)
    /\ InputStage(time) # "None"
    /\ ~HasRoom
    /\ last_input' = time
    /\ invalid_reason' = "input log capacity exceeded"
    /\ feedback' = [feedback EXCEPT ![lane] = Event(time, lane, "Invalid", NoNote, 0)]
    /\ UNCHANGED <<notes, cursors, records>>

(* Faulty: a note exactly one good window old is skipped. *)
Skipped_Exclusive(i, time) == notes[i].consumed \/ notes[i].target <= time - GoodWindow

(* Faulty: the scan skips every note whose target has passed. *)
Skipped_NoLateWindow(i, time) == notes[i].consumed \/ notes[i].target < time

(* The note at position i cannot be hit at this time: the scan steps over it. *)
Skipped(i, time) == notes[i].consumed \/ notes[i].target < time - GoodWindow

(* Position p is where the lane's scan stops: the first note of the lane,   *)
(* from the cursor on, that it does not step over, or the end of the chart. *)
StopsAt(time, lane, p) ==
    /\ \A i \in cursors[lane]..(p - 1) : notes[i].lane = lane => Skipped(i, time)
    /\ p \in DOMAIN notes => notes[p].lane = lane /\ ~Skipped(p, time)

(* Faulty: the bound on early taps is lost. *)
Matches_AnyEarly(p, time) ==
    p \in DOMAIN notes /\ notes[p].stage = InputStage(time)

Matches(p, time) ==
    /\ p \in DOMAIN notes
    /\ notes[p].stage = InputStage(time)
    /\ notes[p].target <= time + GoodWindow

Magnitude(delay) == IF delay < 0 THEN -delay ELSE delay

Verdict(delay) == IF Magnitude(delay) <= PerfectWindow THEN "Perfect" ELSE "Good"

Judged(time, lane, p) ==
    IF Matches(p, time)
    THEN LET delay == time - notes[p].target
         IN  Event(time, lane, Verdict(delay), notes[p].id, delay)
    ELSE Event(time, lane, "Empty", NoNote, 0)

(* Faulty: the hit note is not marked and stays under the cursor. *)
Advance_NoConsume(time, lane, p) ==
    cursors' = [cursors EXCEPT ![lane] = p] /\ UNCHANGED notes

Advance(time, lane, p) ==
    \/ /\ Matches(p, time)
       /\ notes' = [notes EXCEPT ![p].consumed = TRUE]
       /\ cursors' = [cursors EXCEPT ![lane] = p + 1]
    \/ /\ ~Matches(p, time)
       /\ cursors' = [cursors EXCEPT ![lane] = p]
       /\ UNCHANGED notes

HitJudged(time, lane) ==
    /\ InOrder(time)
    /\ InputStage(time) # "None"
    /\ HasRoom
    /\ last_input' = time
    /\ \E p \in cursors[lane]..(Len(notes) + 1) :
          /\ StopsAt(time, lane, p)
          /\ records' = Append(records, Judged(time, lane, p))
          /\ feedback' = [feedback EXCEPT ![lane] = Judged(time, lane, p)]
          /\ Advance(time, lane, p)
    /\ UNCHANGED invalid_reason

hit(time, lane) ==
    \/ HitWhenInvalid(time, lane)
    \/ HitBackwards(time, lane)
    \/ HitOutsideStages(time, lane)
    \/ HitOverCapacity(time, lane)
    \/ HitJudged(time, lane)

(* Only the first reason is kept. *)
invalidate(reason) ==
    /\ valid
    /\ invalid_reason' = IF reason = "" THEN "run invalidated by host" ELSE reason
    /\ UNCHANGED <<notes, cursors, records, feedback, last_input>>

Next ==
    \/ \E time \in Times, lane \in Lane : hit(time, lane)
    \/ \E reason \in HostReasons : invalidate(reason)

Spec == Init /\ [][Next]_vars

-----------------------------------------------------------------------------
(* Engine::results, the part the notes decide.  The counters are unsigned   *)
(* words: missed is a difference, and would wrap below zero.                *)

RecordsOf(stage, kinds) ==
    {k \in DOMAIN records : records[k].stage = stage /\ records[k].kind \in kinds}

NotesOf(stage) == {i \in DOMAIN notes : notes[i].stage = stage}

missed(stage) ==
    (Cardinality(NotesOf(stage)) - Cardinality(RecordsOf(stage, Hits))) % WordSize

-----------------------------------------------------------------------------
(* Properties. *)

(* The state has the shape the class declares, and the log never outgrows   *)
(* the capacity reserved for it (the push_back of hit never allocates).     *)
TypeOK ==
    /\ notes \in Seq(Note)
    /\ cursors \in [Lane -> Nat \ {0}]
    /\ records \in Seq(Feedback)
    /\ Len(records) <= MaxEvents
    /\ feedback \in [Lane -> Feedback]
    /\ last_input \in Nat \cup {BeforeAll}
    /\ invalid_reason \in Reason

(* What makes skipping sound: the notes a lane's cursor has passed are hit  *)
(* or too old for any later input, and none it has still to pass is hit.    *)
CursorsSafe ==
    \A i \in DOMAIN notes :
        IF i < cursors[notes[i].lane]
        THEN notes[i].consumed \/ notes[i].target < last_input - GoodWindow
        ELSE ~notes[i].consumed

(* A note is marked consumed exactly when one record names it, and no two   *)
(* records name the same note: a tap never scores a note a second time.     *)
OneHitPerNote ==
    /\ \A i \in DOMAIN notes :
          notes[i].consumed <=> \E k \in DOMAIN records : records[k].note_id = notes[i].id
    /\ \A j, k \in DOMAIN records :
          records[j].note_id = records[k].note_id => j = k \/ records[j].note_id = NoNote

(* The notes record k could have hit: of its lane, within the good window,  *)
(* and not named by an earlier record.                                      *)
Candidates(k) ==
    {i \in DOMAIN notes :
        /\ notes[i].lane = records[k].lane
        /\ notes[i].target - GoodWindow <= records[k].event_ns
        /\ records[k].event_ns <= notes[i].target + GoodWindow
        /\ \A j \in 1..(k - 1) : records[j].note_id # notes[i].id}

(* The log can be replayed from the chart alone, as tools/verify_run.py     *)
(* does: it is in time order, every record names the earliest note it could *)
(* have hit, and a tap is empty only if there was none.                     *)
LogReplays ==
    \A k \in DOMAIN records :
        /\ \A j \in 1..k : records[j].event_ns <= records[k].event_ns
        /\ IF Candidates(k) = {}
           THEN records[k].kind = "Empty" /\ records[k].note_id = NoNote
           ELSE \E i \in Candidates(k) :
                   /\ records[k].note_id = notes[i].id
                   /\ records[k].stage = notes[i].stage
                   /\ records[k].kind \in Hits
                   /\ \A j \in Candidates(k) : notes[i].target <= notes[j].target

(* Once a run is invalid neither its notes, its log nor the reason change:  *)
(* a late tap or a second reason cannot rewrite what is saved.              *)
FrozenWhenInvalid ==
    [][~valid => UNCHANGED <<notes, records, invalid_reason>>]_vars

(* The cursor engine implements the cursor-free judge.                      *)
Plain(chart) == [i \in DOMAIN chart |->
    [id |-> chart[i].id, lane |-> chart[i].lane,
     target |-> chart[i].target, stage |-> chart[i].stage]]

J == INSTANCE Judge WITH
        Charts  <- {Plain(c) : c \in {d \in Charts : ValidChart(d)}},
        chart   <- Plain(notes),
        taken   <- {i \in DOMAIN notes : notes[i].consumed},
        log     <- [k \in DOMAIN records |->
                       [time |-> records[k].event_ns, lane |-> records[k].lane,
                        note |-> records[k].note_id, stage |-> records[k].stage,
                        kind |-> records[k].kind]],
        spoiled <- ~valid

(* docs/ARCHITECTURE.md: every tap is judged against the earliest eligible  *)
(* note, whatever notes the lane's cursor has skipped before.               *)
ImplementsJudge == J!JudgeSpec
=============================================================================
