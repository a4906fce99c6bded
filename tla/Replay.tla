------------------------------- MODULE Replay -------------------------------
(***************************************************************************)
(* tools/verify_run.py against the engine: a run is played, its chart, log *)
(* and summaries are saved (save_results of src/main.cpp), and the         *)
(* verifier replays the log against the chart with cursors of its own and  *)
(* compares every claim.                                                   *)
(*                                                                         *)
(* Between the two the log may be damaged: a claim altered, a row lost,    *)
(* repeated or moved.  An error the verifier notes is final, so the replay *)
(* stops here at the first.                                                *)
(***************************************************************************)
EXTENDS Engine, FiniteSetsExt

CONSTANT EmptyDelayPenalty      \* kEmptyDelayPenalty, 100 ms in the code

(* What generate_chart ensures of the chart of a run: the notes are numbered *)
(* from zero, and fewer than a counter can count.                           *)
ASSUME ReplayAssumption ==
    /\ EmptyDelayPenalty \in Nat
    /\ \A chart \in Charts :
          /\ Len(chart) < WordSize
          /\ \A i \in DOMAIN chart : chart[i].id = i - 1

VARIABLES row,        \* Playing, then 0 for the chart, then the row to replay
          log,        \* inputs.csv
          claimed,    \* the summaries in result.json
          scan,       \* cursors of _verify
          summaries,  \* what the replay counts
          verdict     \* "open", then "consistent" or "rejected"

replayVars == <<row, log, claimed, scan, summaries, verdict>>

Playing == -1

-----------------------------------------------------------------------------
(* What is saved. *)

Delays(stage) ==
    MapThenSumSet(LAMBDA k : Magnitude(records[k].delay_ns), RecordsOf(stage, Hits))

(* Engine::results *)
results(stage) ==
    LET count(kinds) == Cardinality(RecordsOf(stage, kinds))
    IN  [notes     |-> Cardinality(NotesOf(stage)),
         perfect   |-> count({"Perfect"}), good |-> count({"Good"}), empty |-> count({"Empty"}),
         missed    |-> missed(stage),
         raw_score |-> 2 * count({"Perfect"}) + count({"Good"}) - 5 * count({"Empty"}),
         delay_sum |-> Delays(stage) + EmptyDelayPenalty * count({"Empty"}),
         hit_delay_sum |-> Delays(stage)]

(* Damage to one row k of the log s. *)
Altered(s, k) ==
    {[s EXCEPT ![k].note_id = id] : id \in {notes[i].id : i \in DOMAIN notes} \cup {NoNote}}
    \cup {[s EXCEPT ![k].kind = kind] : kind \in Hits \cup {"Empty"}}
    \cup {[s EXCEPT ![k].delay_ns = @ + d] : d \in {-1, 1}}

Without(s, k)  == SubSeq(s, 1, k - 1) \o SubSeq(s, k + 1, Len(s))
Repeated(s, k) == SubSeq(s, 1, k) \o SubSeq(s, k, Len(s))

(* Rows exchanged, of different times. *)
Exchanged(s) ==
    {[s EXCEPT ![k] = s[k + 1], ![k + 1] = s[k]] :
        k \in {j \in DOMAIN s : j < Len(s) /\ s[j].event_ns # s[j + 1].event_ns}}

Damaged(s) ==
    Exchanged(s) \cup UNION {Altered(s, k) \cup {Without(s, k), Repeated(s, k)} : k \in DOMAIN s}

-----------------------------------------------------------------------------
(* _verify *)

(* _summary *)
Summary(stage) ==
    [notes |-> Cardinality(NotesOf(stage)), perfect |-> 0, good |-> 0, empty |-> 0,
     missed |-> Cardinality(NotesOf(stage)), raw_score |-> 0, delay_sum |-> 0, hit_delay_sum |-> 0]

(* _stage_at *)
StageAt(time) ==
    IF \E s \in PlayedStage : StageStart(s) - GoodWindow <= time /\ time < StageEnd(s) + GoodWindow
    THEN CHOOSE s \in PlayedStage :
             StageStart(s) - GoodWindow <= time /\ time < StageEnd(s) + GoodWindow
    ELSE "None"

(* The checks of notes.csv: ids count from zero, and what the constructor   *)
(* of the engine checks too, one note after the other.                      *)
NotesConsistent ==
    \A i \in DOMAIN notes :
        /\ notes[i].id = i - 1
        /\ notes[i].lane \in Lane
        /\ notes[i].stage \in PlayedStage
        /\ StageStart(notes[i].stage) <= notes[i].target
        /\ notes[i].target < StageEnd(notes[i].stage)
        /\ i > 1 => notes[i - 1].target <= notes[i].target
        /\ \A j \in 1..(i - 1) :
              notes[j].lane = notes[i].lane => notes[i].target - notes[j].target >= LaneLock

(* Faulty: a note exactly one good window old is passed. *)
TooOld_Exclusive(i, time) == notes[i].target <= time - GoodWindow

TooOld(i, time) == notes[i].target < time - GoodWindow

(* The verifier's cursor passes notes by age alone; the notes matched are   *)
(* behind it already.                                                       *)
Reaches(r, p) ==
    /\ \A i \in scan[r.lane]..(p - 1) : notes[i].lane = r.lane => TooOld(i, r.event_ns)
    /\ p \in DOMAIN notes => notes[p].lane = r.lane /\ ~TooOld(p, r.event_ns)

Matched(r, p) ==
    /\ p \in DOMAIN notes
    /\ notes[p].stage = StageAt(r.event_ns)
    /\ notes[p].target <= r.event_ns + GoodWindow

Expected(r, p) ==
    IF Matched(r, p)
    THEN LET delay == r.event_ns - notes[p].target
         IN  [note |-> notes[p].id, delay |-> delay,
              kind |-> IF Magnitude(delay) <= PerfectWindow THEN "Perfect" ELSE "Good"]
    ELSE [note |-> NoNote, delay |-> 0, kind |-> "Empty"]

(* Faulty: the claimed delay is not compared. *)
ClaimsHold_NoDelay(r, p) ==
    LET expected == Expected(r, p)
    IN  r.note_id = expected.note /\ r.kind = expected.kind /\ r.stage = StageAt(r.event_ns)

ClaimsHold(r, p) ==
    LET expected == Expected(r, p)
    IN  /\ r.note_id = expected.note /\ r.delay_ns = expected.delay /\ r.kind = expected.kind
        /\ r.stage = StageAt(r.event_ns)

(* Malformed evidence that stops the replay. *)
RowMalformed ==
    \/ StageAt(log[row].event_ns) = "None"
    \/ row > 1 /\ log[row].event_ns < log[row - 1].event_ns

Counted(score, expected) ==
    IF expected.kind = "Empty"
    THEN [score EXCEPT !.empty = @ + 1, !.raw_score = @ - 5, !.delay_sum = @ + EmptyDelayPenalty]
    ELSE [score EXCEPT !.perfect = @ + (IF expected.kind = "Perfect" THEN 1 ELSE 0),
                       !.good = @ + (IF expected.kind = "Good" THEN 1 ELSE 0),
                       !.missed = @ - 1,
                       !.raw_score = @ + (IF expected.kind = "Perfect" THEN 2 ELSE 1),
                       !.delay_sum = @ + Magnitude(expected.delay),
                       !.hit_delay_sum = @ + Magnitude(expected.delay)]

-----------------------------------------------------------------------------
Empty == [s \in PlayedStage |-> Summary(s)]

ReplayInit ==
    /\ Init
    /\ row = Playing /\ log = <<>> /\ claimed = Empty
    /\ scan = [l \in Lane |-> 1] /\ summaries = Empty /\ verdict = "open"

Play ==
    /\ row = Playing
    /\ Next
    /\ UNCHANGED replayVars

Save ==
    /\ row = Playing
    /\ row' = 0
    /\ log' \in {records} \cup Damaged(records)
    /\ claimed' = [s \in PlayedStage |-> results(s)]
    /\ UNCHANGED <<vars, scan, summaries, verdict>>

VerifyNotes ==
    /\ row = 0
    /\ row' = 1
    /\ verdict' = IF NotesConsistent THEN "open" ELSE "rejected"
    /\ UNCHANGED <<vars, log, claimed, scan, summaries>>

Replaying == verdict = "open" /\ row \in DOMAIN log

VerifyRow ==
    /\ Replaying /\ ~RowMalformed
    /\ LET r == log[row]
           stage == StageAt(r.event_ns)
       IN  \E p \in scan[r.lane]..(Len(notes) + 1) :
              /\ Reaches(r, p)
              /\ scan' = [scan EXCEPT ![r.lane] = IF Matched(r, p) THEN p + 1 ELSE p]
              /\ summaries' = [summaries EXCEPT ![stage] = Counted(@, Expected(r, p))]
              /\ verdict' = IF ClaimsHold(r, p) THEN "open" ELSE "rejected"
    /\ row' = row + 1
    /\ UNCHANGED <<vars, log, claimed>>

RejectRow ==
    /\ Replaying /\ RowMalformed
    /\ verdict' = "rejected"
    /\ UNCHANGED <<vars, row, log, claimed, scan, summaries>>

VerifySummaries ==
    /\ verdict = "open" /\ row = Len(log) + 1
    /\ verdict' = IF claimed = summaries THEN "consistent" ELSE "rejected"
    /\ UNCHANGED <<vars, row, log, claimed, scan, summaries>>

Verified == verdict # "open" /\ UNCHANGED <<vars, replayVars>>

ReplayNext ==
    Play \/ Save \/ VerifyNotes \/ VerifyRow \/ RejectRow \/ VerifySummaries \/ Verified

ReplaySpec == ReplayInit /\ [][ReplayNext]_<<vars, replayVars>>

-----------------------------------------------------------------------------
(* Properties. *)

(* The verifier never rejects what the program saved, whatever ended the    *)
(* run: its cursors, which know nothing of consumed notes, reach the same   *)
(* note as the engine's for every tap, and its sums agree with results.     *)
GenuineAccepted == log = records => verdict # "rejected"

(* A log the verifier finds consistent is the log of the engine: an altered *)
(* claim, a lost, repeated or moved row is always noticed.                  *)
DamageDetected == verdict = "consistent" => log = records

=============================================================================
