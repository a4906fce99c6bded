---------------------------- MODULE EngineProofs ----------------------------
(***************************************************************************)
(* Proofs about the judgement engine and about the verifier that replays   *)
(* its log, for every chart, every number of lanes and every value of the  *)
(* timing constants that TimelineAssumption admits.                        *)
(*                                                                         *)
(* The engine: IInv, its log, and Judge as its abstraction.  The verifier: *)
(* sums over sets of records do not depend on the order of the sum; the    *)
(* verifier's cursor, which passes notes by age alone, reaches the note of *)
(* the engine (RowReplays); results are the sums after the last row        *)
(* (TallyEnd); damage changes a claim, the number of rows or their order   *)
(* (SavedShape); ReplayInv puts the three together.                        *)
(***************************************************************************)
EXTENDS Replay, SequenceTheorems, FiniteSetTheorems, TLAPS

(* What the constructor checked and no call changes. *)
ChartSound ==
    /\ \A i \in DOMAIN notes :
          /\ notes[i].lane \in Lane
          /\ TargetInStage(notes[i].target, notes[i].stage)
    /\ \A i, j \in DOMAIN notes : i < j =>
          /\ notes[i].target <= notes[j].target
          /\ notes[i].id # notes[j].id
          /\ notes[i].lane = notes[j].lane => notes[i].target < notes[j].target

(* No record is later than the last input, and the log is in time order. *)
LogInOrder ==
    /\ \A k \in DOMAIN records : records[k].event_ns <= last_input
    /\ \A j, k \in DOMAIN records : j <= k => records[j].event_ns <= records[k].event_ns

IInv == TypeOK /\ ChartSound /\ CursorsSafe /\ LogInOrder

-----------------------------------------------------------------------------
(* Lemmas about the operators. *)

(* A tap within the good window of a note belongs to the note's stage: the  *)
(* comparison of stages in hit never rejects a note.                        *)
LEMMA StageAgreement ==
    ASSUME NEW time \in Int, NEW target \in Int, NEW stage \in Stage,
           TargetInStage(target, stage),
           target - GoodWindow <= time, time <= target + GoodWindow
    PROVE  InputStage(time) = stage
<1>1. CASE stage = "Calibration"
  BY <1>1, TimelineAssumption DEF TargetInStage, StageStart, StageEnd, InputStage,
       CalibrationTailEnd, PlayedStage
<1>2. CASE stage = "Scored"
  BY <1>2, TimelineAssumption DEF TargetInStage, StageStart, StageEnd, InputStage,
       CalibrationTailEnd, ScoredStart, ScoredEnd, Finish, PlayedStage
<1>3. QED
  BY <1>1, <1>2 DEF TargetInStage, PlayedStage

LEMMA InputStageType == ASSUME NEW time PROVE InputStage(time) \in Stage
BY DEF InputStage, Stage, PlayedStage

LEMMA SeqElements ==
    ASSUME NEW S, NEW s \in Seq(S)
    PROVE  /\ Len(s) \in Nat
           /\ DOMAIN s = 1..Len(s)
           /\ \A i \in DOMAIN s : s[i] \in S
OBVIOUS

(* Marking one note leaves every other note, and its own chart data, alone. *)
LEMMA ConsumeNote ==
    ASSUME notes \in Seq(Note), NEW p \in DOMAIN notes,
           notes' = [notes EXCEPT ![p].consumed = TRUE]
    PROVE  /\ notes' \in Seq(Note)
           /\ Len(notes') = Len(notes)
           /\ DOMAIN notes' = DOMAIN notes
           /\ \A i \in DOMAIN notes :
                 /\ notes'[i].id = notes[i].id
                 /\ notes'[i].lane = notes[i].lane
                 /\ notes'[i].target = notes[i].target
                 /\ notes'[i].stage = notes[i].stage
                 /\ notes'[i].consumed <=> (notes[i].consumed \/ i = p)
<1> DEFINE note == [notes[p] EXCEPT !.consumed = TRUE]
<1>1. notes[p] \in Note /\ p \in 1..Len(notes) /\ DOMAIN notes = 1..Len(notes)
  BY ElementOfSeq, LenProperties
<1>2. note \in Note
  BY <1>1 DEF Note
<1>3. notes' = [notes EXCEPT ![p] = note]
  OBVIOUS
<1> HIDE DEF note
<1>4. /\ notes' \in Seq(Note)
      /\ Len(notes') = Len(notes)
      /\ \A i \in 1..Len(notes) : notes'[i] = IF i = p THEN note ELSE notes[i]
  <2>1. /\ [notes EXCEPT ![p] = note] \in Seq(Note)
        /\ Len([notes EXCEPT ![p] = note]) = Len(notes)
        /\ \A i \in 1..Len(notes) : [notes EXCEPT ![p] = note][i] = IF i = p THEN note ELSE notes[i]
    BY <1>1, <1>2, ExceptSeq
  <2>2. QED
    BY <1>3, <2>1
<1>5. DOMAIN notes' = DOMAIN notes
  BY <1>1, <1>4, LenProperties
<1>6. /\ note.id = notes[p].id
      /\ note.lane = notes[p].lane
      /\ note.target = notes[p].target
      /\ note.stage = notes[p].stage
      /\ note.consumed = TRUE
  BY <1>1 DEF note, Note
<1>7. ASSUME NEW i \in DOMAIN notes
      PROVE  /\ notes'[i].id = notes[i].id
             /\ notes'[i].lane = notes[i].lane
             /\ notes'[i].target = notes[i].target
             /\ notes'[i].stage = notes[i].stage
             /\ notes'[i].consumed <=> (notes[i].consumed \/ i = p)
  <2>1. CASE i = p
    <3>1. notes'[i] = note
      BY <1>1, <1>4, <2>1
    <3>2. QED
      BY <1>6, <2>1, <3>1, Zenon
  <2>2. CASE i # p
    <3>1. notes'[i] = notes[i]
      BY <1>1, <1>4, <2>2
    <3>2. QED
      BY <2>2, <3>1, Zenon
  <2>3. QED
    BY <2>1, <2>2
<1>8. QED
  BY <1>4, <1>5, <1>7

(* A tap changes the chart in one place at most, the note it matches. *)
LEMMA AdvanceNotes ==
    ASSUME notes \in Seq(Note), NEW time, NEW lane, NEW p, Advance(time, lane, p)
    PROVE  /\ notes' \in Seq(Note)
           /\ Len(notes') = Len(notes)
           /\ DOMAIN notes' = DOMAIN notes
           /\ \A i \in DOMAIN notes :
                 /\ notes'[i].id = notes[i].id
                 /\ notes'[i].lane = notes[i].lane
                 /\ notes'[i].target = notes[i].target
                 /\ notes'[i].stage = notes[i].stage
                 /\ notes'[i].consumed <=> (notes[i].consumed \/ (i = p /\ Matches(p, time)))
<1>1. CASE Matches(p, time)
  <2>1. p \in DOMAIN notes /\ notes' = [notes EXCEPT ![p].consumed = TRUE]
    BY <1>1 DEF Advance, Matches
  <2>2. /\ notes' \in Seq(Note)
        /\ Len(notes') = Len(notes)
        /\ DOMAIN notes' = DOMAIN notes
        /\ \A i \in DOMAIN notes :
              /\ notes'[i].id = notes[i].id
              /\ notes'[i].lane = notes[i].lane
              /\ notes'[i].target = notes[i].target
              /\ notes'[i].stage = notes[i].stage
              /\ notes'[i].consumed <=> (notes[i].consumed \/ i = p)
    BY <2>1, ConsumeNote
  <2>3. QED
    BY <1>1, <2>2
<1>2. CASE ~Matches(p, time)
  <2>1. notes' = notes
    BY <1>2 DEF Advance
  <2>2. QED
    BY <1>2, <2>1
<1>3. QED
  BY <1>1, <1>2

LEMMA AppendRecord ==
    ASSUME NEW S, NEW s \in Seq(S), NEW e \in S, NEW t, t = Append(s, e)
    PROVE  /\ t \in Seq(S)
           /\ Len(t) = Len(s) + 1
           /\ DOMAIN s = 1..Len(s)
           /\ DOMAIN t = 1..(Len(s) + 1)
           /\ t[Len(s) + 1] = e
           /\ \A i \in 1..Len(s) : t[i] = s[i]
OBVIOUS

LEMMA EventType ==
    ASSUME NEW time \in Nat, NEW lane \in Nat, NEW kind \in Judgment,
           NEW id \in Nat \cup {NoNote}, NEW delay \in Int
    PROVE  /\ Event(time, lane, kind, id, delay) \in Feedback
           /\ Event(time, lane, kind, id, delay).event_ns = time
           /\ Event(time, lane, kind, id, delay).lane = lane
           /\ Event(time, lane, kind, id, delay).stage = InputStage(time)
           /\ Event(time, lane, kind, id, delay).kind = kind
           /\ Event(time, lane, kind, id, delay).note_id = id
<1>1. InputStage(time) \in Stage
  BY InputStageType
<1>2. QED
  BY <1>1 DEF Event, Feedback

LEMMA JudgedType ==
    ASSUME NEW time \in Nat, NEW lane \in Nat, NEW p, notes \in Seq(Note)
    PROVE  /\ Judged(time, lane, p) \in Feedback
           /\ Judged(time, lane, p).event_ns = time
           /\ Judged(time, lane, p).lane = lane
           /\ Judged(time, lane, p).stage = InputStage(time)
           /\ Matches(p, time) =>
                 /\ Judged(time, lane, p).note_id = notes[p].id
                 /\ Judged(time, lane, p).kind = Verdict(time - notes[p].target)
           /\ ~Matches(p, time) =>
                 /\ Judged(time, lane, p).note_id = NoNote
                 /\ Judged(time, lane, p).kind = "Empty"
<1> DEFINE delay == time - notes[p].target
<1>1. CASE Matches(p, time)
  <2>1. notes[p] \in Note
    BY <1>1, ElementOfSeq, LenProperties DEF Matches
  <2>2. delay \in Int /\ notes[p].id \in Nat \cup {NoNote}
    BY <2>1 DEF Note
  <2>3. Verdict(delay) \in Judgment
    BY DEF Verdict, Judgment
  <2>4. Judged(time, lane, p) = Event(time, lane, Verdict(delay), notes[p].id, delay)
    BY <1>1 DEF Judged
  <2> DEFINE kind == Verdict(delay)
             id   == notes[p].id
             e    == Event(time, lane, kind, id, delay)
  <2>5. /\ kind \in Judgment /\ id \in Nat \cup {NoNote} /\ delay \in Int
        /\ time \in Nat /\ lane \in Nat
    BY <2>2, <2>3
  <2> HIDE DEF delay, kind, id
  <2>6. /\ e \in Feedback /\ e.event_ns = time /\ e.lane = lane
        /\ e.stage = InputStage(time) /\ e.kind = kind /\ e.note_id = id
    BY ONLY <2>5, EventType
  <2> HIDE DEF e
  <2>7. Judged(time, lane, p) = e
    BY <2>4 DEF e, kind, id
  <2>8. QED
    BY <1>1, <2>6, <2>7 DEF kind, id, delay
<1>2. CASE ~Matches(p, time)
  <2>1. Judged(time, lane, p) = Event(time, lane, "Empty", NoNote, 0)
    BY <1>2 DEF Judged
  <2>2. "Empty" \in Judgment /\ NoNote \in Nat \cup {NoNote} /\ 0 \in Int
    BY DEF Judgment
  <2> DEFINE event == Event(time, lane, "Empty", NoNote, 0)
  <2>3. /\ event \in Feedback
        /\ event.event_ns = time
        /\ event.lane = lane
        /\ event.stage = InputStage(time)
        /\ event.kind = "Empty"
        /\ event.note_id = NoNote
    BY <2>2, InputStageType DEF event, Event, Feedback
  <2> HIDE DEF event
  <2>4. Judged(time, lane, p) = event
    BY <2>1 DEF event
  <2>5. QED
    BY <1>2, <2>3, <2>4
<1>3. QED
  BY <1>1, <1>2

-----------------------------------------------------------------------------
(* The inductive invariant. *)

LEMMA NoteElements ==
    ASSUME TypeOK
    PROVE  /\ Len(notes) \in Nat
           /\ DOMAIN notes = 1..Len(notes)
           /\ \A i \in DOMAIN notes : /\ notes[i].id \in Nat
                                      /\ notes[i].target \in Nat
                                      /\ notes[i].stage \in Stage
<1>1. \A i \in DOMAIN notes : notes[i] \in Note
  BY SeqElements DEF TypeOK
<1>2. QED
  BY <1>1, SeqElements DEF TypeOK, Note

LEMMA RecordElements ==
    ASSUME TypeOK
    PROVE  /\ Len(records) \in Nat
           /\ DOMAIN records = 1..Len(records)
           /\ \A k \in DOMAIN records : records[k].event_ns \in Nat
<1>1. \A k \in DOMAIN records : records[k] \in Feedback
  BY SeqElements DEF TypeOK
<1>2. QED
  BY <1>1, SeqElements DEF TypeOK, Feedback

LEMMA InitIInv == Init => IInv
<1> SUFFICES ASSUME Init PROVE IInv
  OBVIOUS
<1>1. notes \in Seq(Note) /\ ValidChart(notes)
  BY EngineAssumption DEF Init
<1>2. records = <<>> /\ DOMAIN records = {}
  <2>1. records = <<>>
    BY DEF Init
  <2>2. QED
    BY <2>1
<1>3. TypeOK
  <2>1. NoFeedback \in Feedback
    BY DEF NoFeedback, Feedback, Stage, PlayedStage, Judgment
  <2>2. records \in Seq(Feedback) /\ Len(records) <= MaxEvents
    BY <1>2, EngineAssumption
  <2>3. cursors \in [Lane -> Nat \ {0}] /\ feedback \in [Lane -> Feedback]
    <3>1. cursors = [l \in Lane |-> 1] /\ feedback = [l \in Lane |-> NoFeedback]
      BY DEF Init
    <3>2. QED
      BY <2>1, <3>1
  <2>4. last_input \in Nat \cup {BeforeAll} /\ invalid_reason \in Reason
    <3>1. last_input = BeforeAll /\ invalid_reason = ""
      BY DEF Init
    <3>2. QED
      BY <3>1 DEF Reason
  <2>5. QED
    BY <1>1, <2>2, <2>3, <2>4 DEF TypeOK
<1>4. ChartSound
  BY <1>1, <1>3, NoteElements, TimelineAssumption DEF ValidChart, ChartSound
<1>5. CursorsSafe
  <2> SUFFICES ASSUME NEW i \in DOMAIN notes
               PROVE  ~(i < cursors[notes[i].lane]) /\ ~notes[i].consumed
    BY DEF CursorsSafe
  <2>1. i \in Nat \ {0} /\ notes[i].lane \in Lane
    BY <1>3, <1>4, NoteElements DEF ChartSound
  <2>2. cursors[notes[i].lane] = 1
    BY <2>1 DEF Init
  <2>3. QED
    BY <1>1, <2>1, <2>2 DEF ValidChart
<1>6. LogInOrder
  BY <1>2 DEF LogInOrder
<1>7. QED
  BY <1>3, <1>4, <1>5, <1>6 DEF IInv

(* A later input only lowers what the cursors must still offer. *)
LEMMA ClockAdvances ==
    ASSUME IInv, NEW time \in Nat, last_input <= time, last_input' = time,
           UNCHANGED <<notes, cursors, records>>
    PROVE  ChartSound' /\ CursorsSafe' /\ LogInOrder'
<1> USE DEF IInv
<1>1. last_input \in Int /\ GoodWindow \in Nat
  BY TimelineAssumption DEF TypeOK, BeforeAll
<1>2. ChartSound'
  BY DEF ChartSound
<1>3. CursorsSafe'
  BY <1>1, NoteElements DEF CursorsSafe
<1>4. LogInOrder'
  BY <1>1, RecordElements DEF LogInOrder
<1>5. QED
  BY <1>2, <1>3, <1>4

(* A scored or empty tap, whatever note the scan stopped at. *)
LEMMA HitJudgedIInv ==
    ASSUME TypeOK, ChartSound, CursorsSafe, LogInOrder,
           NEW time \in Times, NEW lane \in Lane, HitJudged(time, lane),
           NEW p \in cursors[lane]..(Len(notes) + 1),
           StopsAt(time, lane, p),
           records' = Append(records, Judged(time, lane, p)),
           feedback' = [feedback EXCEPT ![lane] = Judged(time, lane, p)],
           Advance(time, lane, p)
    PROVE  IInv'
<1>1. /\ StopsAt(time, lane, p)
      /\ records' = Append(records, Judged(time, lane, p))
      /\ feedback' = [feedback EXCEPT ![lane] = Judged(time, lane, p)]
      /\ Advance(time, lane, p)
  OBVIOUS
<1>2. /\ time \in Nat /\ lane \in Nat /\ last_input <= time
      /\ last_input' = time /\ invalid_reason' = invalid_reason
      /\ Len(records) # MaxEvents
  BY EngineAssumption, TimelineAssumption
     DEF HitJudged, InOrder, HasRoom, Lane, TypeOK, BeforeAll
<1>3. notes \in Seq(Note) /\ records \in Seq(Feedback) /\ Len(records) \in Nat
  BY DEF TypeOK
<1>4. cursors[lane] \in Nat \ {0} /\ p \in Nat \ {0} /\ cursors[lane] <= p
  BY <1>1, <1>3 DEF TypeOK
<1>5. /\ Judged(time, lane, p) \in Feedback
      /\ Judged(time, lane, p).event_ns = time
  <2>1. time \in Nat /\ lane \in Nat /\ notes \in Seq(Note)
    BY <1>2, <1>3
  <2>2. QED
    BY ONLY <2>1, JudgedType
<1>6. \A i \in DOMAIN notes : notes[i].lane \in Lane /\ notes[i].target \in Nat
  BY NoteElements DEF ChartSound
<1>7. /\ notes' \in Seq(Note)
      /\ Len(notes') = Len(notes)
      /\ DOMAIN notes' = DOMAIN notes
      /\ \A i \in DOMAIN notes :
            /\ notes'[i].id = notes[i].id
            /\ notes'[i].lane = notes[i].lane
            /\ notes'[i].target = notes[i].target
            /\ notes'[i].stage = notes[i].stage
            /\ notes'[i].consumed <=> (notes[i].consumed \/ (i = p /\ Matches(p, time)))
  BY ONLY <1>1, <1>3, AdvanceNotes
<1>8. cursors' = [cursors EXCEPT ![lane] = IF Matches(p, time) THEN p + 1 ELSE p]
  BY <1>1 DEF Advance
<1>9. TypeOK'
  <2>1. records' \in Seq(Feedback) /\ Len(records') <= MaxEvents
    BY <1>1, <1>2, <1>3, <1>5, EngineAssumption DEF TypeOK
  <2>2. feedback' \in [Lane -> Feedback]
    BY <1>1, <1>5 DEF TypeOK
  <2>3. cursors' \in [Lane -> Nat \ {0}]
    BY <1>4, <1>8 DEF TypeOK
  <2>4. QED
    BY <1>2, <1>7, <2>1, <2>2, <2>3 DEF TypeOK
<1>10. ChartSound'
  BY <1>7 DEF ChartSound
<1>11. CursorsSafe'
  <2> SUFFICES ASSUME NEW i \in DOMAIN notes
               PROVE  IF i < cursors'[notes[i].lane]
                      THEN notes'[i].consumed \/ notes[i].target < time - GoodWindow
                      ELSE ~notes'[i].consumed
    BY <1>2, <1>7 DEF CursorsSafe
  <2>1. /\ i \in Nat /\ notes[i].lane \in Lane /\ notes[i].target \in Nat
        /\ last_input \in Int /\ GoodWindow \in Nat
    <3>1. i \in Nat /\ notes[i].lane \in Lane /\ notes[i].target \in Nat
      BY <1>3, <1>6
    <3>2. last_input \in Int /\ GoodWindow \in Nat
      BY TimelineAssumption DEF TypeOK, BeforeAll
    <3>3. QED
      BY <3>1, <3>2
  <2>2. /\ i < cursors[notes[i].lane] =>
              notes[i].consumed \/ notes[i].target < last_input - GoodWindow
        /\ ~(i < cursors[notes[i].lane]) => ~notes[i].consumed
    BY DEF CursorsSafe
  <2>3. CASE notes[i].lane # lane
    <3>1. cursors'[notes[i].lane] = cursors[notes[i].lane]
      BY <1>8, <2>1, <2>3 DEF TypeOK
    <3>2. i = p => ~Matches(p, time)
      BY <1>1, <2>3 DEF StopsAt
    <3>3. QED
      BY <1>2, <1>7, <2>1, <2>2, <3>1, <3>2
  <2>4. CASE notes[i].lane = lane
    <3>1. cursors'[lane] = IF Matches(p, time) THEN p + 1 ELSE p
      BY <1>8 DEF TypeOK
    <3>2. CASE i < cursors[lane]
      <4>1. i < cursors'[lane]
        BY <1>4, <2>1, <3>1, <3>2
      <4>2. notes[i].consumed \/ notes[i].target < last_input - GoodWindow
        BY <2>2, <2>4, <3>2
      <4>3. notes[i].target < last_input - GoodWindow => notes[i].target < time - GoodWindow
        BY <1>2, <2>1
      <4>4. notes[i].consumed => notes'[i].consumed
        BY <1>7
      <4>5. QED
        BY <2>4, <4>1, <4>2, <4>3, <4>4
    <3>3. CASE cursors[lane] <= i /\ i < p
      <4>1. Skipped(i, time)
        BY <1>1, <1>4, <2>1, <2>4, <3>3 DEF StopsAt
      <4>2. QED
        BY <1>4, <1>7, <2>1, <2>4, <3>1, <3>3, <4>1 DEF Skipped
    <3>4. CASE i = p
      BY <1>4, <1>7, <2>1, <2>2, <2>4, <3>1, <3>4
    <3>5. CASE p < i
      BY <1>4, <1>7, <2>1, <2>2, <2>4, <3>1, <3>5
    <3>6. QED
      BY <1>4, <2>1, <3>2, <3>3, <3>4, <3>5
  <2>5. QED
    BY <2>3, <2>4
<1>12. LogInOrder'
  <2>1. /\ DOMAIN records = 1..Len(records)
        /\ DOMAIN records' = 1..(Len(records) + 1)
        /\ records'[Len(records) + 1].event_ns = time
        /\ \A k \in 1..Len(records) : records'[k] = records[k]
    BY <1>1, <1>3, <1>5, AppendRecord
  <2>2. \A k \in DOMAIN records : records[k].event_ns \in Nat /\ records[k].event_ns <= time
    BY <1>2, RecordElements DEF LogInOrder, TypeOK, BeforeAll
  <2>3. QED
    <3>1. ASSUME NEW k \in DOMAIN records'
          PROVE  records'[k].event_ns <= time
      BY <1>2, <1>3, <2>1, <2>2, <3>1
    <3>2. ASSUME NEW j \in DOMAIN records', NEW k \in DOMAIN records', j <= k
          PROVE  records'[j].event_ns <= records'[k].event_ns
      <4>1. CASE k = Len(records) + 1
        BY <2>1, <3>1, <3>2, <4>1
      <4>2. CASE k \in 1..Len(records)
        BY <1>3, <2>1, <3>2, <4>2 DEF LogInOrder
      <4>3. QED
        BY <1>3, <2>1, <4>1, <4>2
    <3>3. QED
      BY <1>2, <3>1, <3>2 DEF LogInOrder
<1>13. QED
  BY <1>9, <1>10, <1>11, <1>12 DEF IInv

(* The reason alone plays no part in the invariant. *)
LEMMA OnlyReason ==
    ASSUME IInv, UNCHANGED <<notes, cursors, records, feedback, last_input>>,
           invalid_reason' \in Reason
    PROVE  IInv'
<1>1. TypeOK'
  BY DEF IInv, TypeOK
<1>2. ChartSound' /\ LogInOrder'
  BY DEF IInv, ChartSound, LogInOrder
<1>3. CursorsSafe'
  BY DEF IInv, CursorsSafe
<1>4. QED
  BY <1>1, <1>2, <1>3 DEF IInv

LEMMA NextIInv == IInv /\ [Next]_vars => IInv'
<1> SUFFICES ASSUME IInv, [Next]_vars PROVE IInv'
  OBVIOUS
<1> USE DEF IInv
<1>1. ASSUME NEW time \in Times, NEW lane \in Lane, HitWhenInvalid(time, lane)
      PROVE  IInv'
  BY <1>1 DEF HitWhenInvalid, vars, TypeOK, ChartSound, CursorsSafe, LogInOrder
<1>2. ASSUME NEW time \in Times, NEW lane \in Lane, HitBackwards(time, lane)
      PROVE  IInv'
  <2>1. UNCHANGED <<notes, cursors, records, feedback, last_input>> /\ invalid_reason' \in Reason
    BY <1>2 DEF HitBackwards, Reason
  <2>2. QED
    BY <2>1, OnlyReason
<1>3. ASSUME NEW time \in Times, NEW lane \in Lane, HitOutsideStages(time, lane)
      PROVE  IInv'
  <2>1. /\ time \in Nat /\ last_input <= time /\ last_input' = time
        /\ UNCHANGED <<notes, cursors, records, feedback, invalid_reason>>
    BY <1>3, EngineAssumption DEF HitOutsideStages, InOrder, TypeOK, BeforeAll
  <2>2. TypeOK'
    BY <2>1 DEF TypeOK
  <2>3. QED
    BY <2>1, <2>2, ClockAdvances
<1>4. ASSUME NEW time \in Times, NEW lane \in Lane, HitOverCapacity(time, lane)
      PROVE  IInv'
  <2>1. /\ time \in Nat /\ lane \in Nat /\ last_input <= time /\ last_input' = time
        /\ UNCHANGED <<notes, cursors, records>>
    <3>1. time \in Nat /\ lane \in Nat
      BY EngineAssumption, TimelineAssumption DEF Lane
    <3>2. QED
      BY <1>4, <3>1 DEF HitOverCapacity, InOrder
  <2>2. Event(time, lane, "Invalid", NoNote, 0) \in Feedback
    BY <2>1, InputStageType DEF Event, Feedback, Judgment
  <2>3. feedback' \in [Lane -> Feedback]
    BY <1>4, <2>2 DEF HitOverCapacity, TypeOK
  <2>4. invalid_reason' \in Reason
    BY <1>4 DEF HitOverCapacity, Reason
  <2>5. TypeOK'
    BY <2>1, <2>3, <2>4 DEF TypeOK
  <2>6. QED
    BY <2>1, <2>5, ClockAdvances
<1>5. ASSUME NEW time \in Times, NEW lane \in Lane, HitJudged(time, lane)
      PROVE  IInv'
  <2>1. PICK p \in cursors[lane]..(Len(notes) + 1) :
            /\ StopsAt(time, lane, p)
            /\ records' = Append(records, Judged(time, lane, p))
            /\ feedback' = [feedback EXCEPT ![lane] = Judged(time, lane, p)]
            /\ Advance(time, lane, p)
    BY <1>5 DEF HitJudged
  <2>2. QED
    BY <1>5, <2>1, HitJudgedIInv
<1>6. ASSUME NEW reason \in HostReasons, invalidate(reason)
      PROVE  IInv'
  <2>1. UNCHANGED <<notes, cursors, records, feedback, last_input>> /\ invalid_reason' \in Reason
    BY <1>6 DEF invalidate, Reason
  <2>2. QED
    BY <2>1, OnlyReason
<1>7. CASE UNCHANGED vars
  BY <1>7 DEF vars, TypeOK, ChartSound, CursorsSafe, LogInOrder
<1>8. QED
  BY <1>1, <1>2, <1>3, <1>4, <1>5, <1>6, <1>7 DEF Next, hit

(* The engine's state keeps its shape, and the input log never outgrows the *)
(* capacity reserved for it when the engine was built.                      *)
THEOREM TypeCorrect == Spec => []TypeOK
<1>1. IInv => TypeOK
  BY DEF IInv
<1>2. QED
  BY InitIInv, NextIInv, <1>1, PTL DEF Spec

(* The per-lane cursor never steps over a note that a later tap could still *)
(* hit: what it leaves behind is hit or older than the good window.         *)
THEOREM CursorsCorrect == Spec => []CursorsSafe
<1>1. IInv => CursorsSafe
  BY DEF IInv
<1>2. QED
  BY InitIInv, NextIInv, <1>1, PTL DEF Spec

-----------------------------------------------------------------------------
(* One record for a consumed note.  The scan stops at a note that is not    *)
(* consumed, so no earlier record names it.                                 *)

LEMMA RecordAppended ==
    ASSUME TypeOK, NEW time \in Nat, NEW lane \in Nat, NEW p,
           records' = Append(records, Judged(time, lane, p))
    PROVE  /\ Len(records) \in Nat
           /\ DOMAIN records = 1..Len(records)
           /\ DOMAIN records' = 1..(Len(records) + 1)
           /\ records'[Len(records) + 1] = Judged(time, lane, p)
           /\ \A k \in 1..Len(records) : records'[k] = records[k]
<1>1. records \in Seq(Feedback) /\ notes \in Seq(Note) /\ time \in Nat /\ lane \in Nat
  BY DEF TypeOK
<1>2. Judged(time, lane, p) \in Feedback
  BY ONLY <1>1, JudgedType
<1>3. QED
  BY <1>1, <1>2, AppendRecord

LEMMA InitOneHit == Init => OneHitPerNote
<1> SUFFICES ASSUME Init PROVE OneHitPerNote
  OBVIOUS
<1>1. records = <<>> /\ \A i \in DOMAIN notes : ~notes[i].consumed
  BY DEF Init, ValidChart
<1>2. DOMAIN records = {}
  BY <1>1
<1>3. QED
  BY <1>1, <1>2 DEF OneHitPerNote

LEMMA HitJudgedOneHit ==
    ASSUME TypeOK, ChartSound, OneHitPerNote,
           NEW time \in Nat, NEW lane \in Nat, NEW p,
           StopsAt(time, lane, p),
           records' = Append(records, Judged(time, lane, p)),
           Advance(time, lane, p)
    PROVE  OneHitPerNote'
<1> DEFINE n == Len(records) + 1
           event == Judged(time, lane, p)
<1>1. /\ n \in Nat
      /\ DOMAIN records = 1..(n - 1)
      /\ DOMAIN records' = 1..n
      /\ records'[n] = event
      /\ \A k \in 1..(n - 1) : records'[k] = records[k]
  BY RecordAppended
<1>2. notes \in Seq(Note) /\ time \in Nat /\ lane \in Nat
  BY DEF TypeOK
<1>3. /\ DOMAIN notes' = DOMAIN notes
      /\ \A i \in DOMAIN notes :
            /\ notes'[i].id = notes[i].id
            /\ notes'[i].consumed <=> (notes[i].consumed \/ (i = p /\ Matches(p, time)))
  BY <1>2, AdvanceNotes
<1>4. /\ Matches(p, time) => event.note_id = notes[p].id
      /\ ~Matches(p, time) => event.note_id = NoNote
  BY ONLY <1>2, JudgedType
<1> HIDE DEF event
<1>5. DOMAIN notes = 1..Len(notes) /\ Len(notes) \in Nat /\
        \A i \in DOMAIN notes : notes[i].id # NoNote
  BY NoteElements DEF NoNote
<1>6. \A i, j \in DOMAIN notes : notes[i].id = notes[j].id => i = j
  BY <1>5 DEF ChartSound
<1>7. Matches(p, time) => p \in DOMAIN notes /\ ~notes[p].consumed
  BY DEF Matches, StopsAt, Skipped
<1>8. Matches(p, time) => \A k \in DOMAIN records : records[k].note_id # event.note_id
  BY <1>4, <1>7 DEF OneHitPerNote
<1>9. ASSUME NEW i \in DOMAIN notes
      PROVE  notes'[i].consumed <=> \E k \in DOMAIN records' : records'[k].note_id = notes'[i].id
  <2>1. notes[i].consumed <=> \E k \in DOMAIN records : records[k].note_id = notes[i].id
    BY DEF OneHitPerNote
  <2>2. event.note_id = notes[i].id <=> (i = p /\ Matches(p, time))
    BY <1>4, <1>5, <1>6, <1>7
  <2>3. (\E k \in DOMAIN records' : records'[k].note_id = notes[i].id)
          <=> (\E k \in DOMAIN records : records[k].note_id = notes[i].id) \/
            event.note_id = notes[i].id
    BY <1>1
  <2>4. QED
    BY <1>3, <2>1, <2>2, <2>3
<1>10. ASSUME NEW j \in DOMAIN records', NEW k \in DOMAIN records',
              records'[j].note_id = records'[k].note_id
       PROVE  j = k \/ records'[j].note_id = NoNote
  <2>1. CASE j \in 1..(n - 1) /\ k \in 1..(n - 1)
    BY <1>1, <1>10, <2>1 DEF OneHitPerNote
  <2>2. CASE j = n \/ k = n
    BY <1>1, <1>4, <1>8, <1>10, <2>2
  <2>3. QED
    BY <1>1, <2>1, <2>2
<1>11. QED
  BY <1>3, <1>9, <1>10 DEF OneHitPerNote

(* Every other step leaves the notes and the log alone. *)
LEMMA OtherStepsKeepNotesAndLog ==
    ASSUME [Next]_vars
    PROVE  \/ UNCHANGED <<notes, records>>
           \/ \E time \in Times, lane \in Lane : HitJudged(time, lane)
BY DEF Next, hit, HitWhenInvalid, HitBackwards, HitOutsideStages, HitOverCapacity,
       invalidate, vars

LEMMA HitFacts ==
    ASSUME TypeOK, NEW time \in Times, NEW lane \in Lane, HitJudged(time, lane)
    PROVE  /\ time \in Nat /\ lane \in Nat
           /\ last_input \in Int /\ last_input <= time /\ last_input' = time
BY EngineAssumption, TimelineAssumption DEF HitJudged, InOrder, Lane, TypeOK, BeforeAll

LEMMA NextOneHit == IInv /\ OneHitPerNote /\ [Next]_vars => OneHitPerNote'
<1> SUFFICES ASSUME IInv, OneHitPerNote, [Next]_vars PROVE OneHitPerNote'
  OBVIOUS
<1>1. CASE UNCHANGED <<notes, records>>
  BY <1>1 DEF OneHitPerNote
<1>2. ASSUME NEW time \in Times, NEW lane \in Lane, HitJudged(time, lane)
      PROVE  OneHitPerNote'
  <2>1. PICK p \in cursors[lane]..(Len(notes) + 1) :
            /\ StopsAt(time, lane, p)
            /\ records' = Append(records, Judged(time, lane, p))
            /\ Advance(time, lane, p)
    BY <1>2 DEF HitJudged
  <2>2. time \in Nat /\ lane \in Nat
    BY <1>2, HitFacts DEF IInv
  <2>3. QED
    BY <2>1, <2>2, HitJudgedOneHit DEF IInv
<1>3. QED
  BY <1>1, <1>2, OtherStepsKeepNotesAndLog

(* A tap never scores a note a second time: a note is consumed exactly when *)
(* one record names it.                                                     *)
THEOREM OneHitCorrect == Spec => []OneHitPerNote
BY InitIInv, NextIInv, InitOneHit, NextOneHit, PTL DEF Spec

(* A late tap, or a second reason, cannot rewrite an invalid run. *)
THEOREM InvalidFrozen == Spec => FrozenWhenInvalid
<1>1. [Next]_vars => [~valid => UNCHANGED <<notes, records, invalid_reason>>]_vars
  BY DEF Next, hit, HitWhenInvalid, HitBackwards, HitOutsideStages, HitOverCapacity,
         HitJudged, InOrder, invalidate, vars
<1>2. QED
  BY <1>1, PTL DEF Spec, FrozenWhenInvalid

-----------------------------------------------------------------------------
(* The log can be replayed.  The scan stops at the earliest note the tap    *)
(* could hit, if there is one, and later records change neither what an     *)
(* earlier tap could have hit nor what it hit.                              *)

(* The notes a tap could hit now, as Candidates counts them for a record.   *)
Hittable(time, lane) ==
    {i \in DOMAIN notes :
        /\ notes[i].lane = lane
        /\ notes[i].target - GoodWindow <= time
        /\ time <= notes[i].target + GoodWindow
        /\ ~notes[i].consumed}

LEMMA ScanFindsEarliest ==
    ASSUME TypeOK, ChartSound, CursorsSafe,
           NEW time \in Nat, NEW lane \in Lane, last_input <= time,
           NEW p \in cursors[lane]..(Len(notes) + 1), StopsAt(time, lane, p)
    PROVE  /\ Matches(p, time) => /\ p \in Hittable(time, lane)
                                 /\ \A i \in Hittable(time, lane) :
                                      notes[p].target <= notes[i].target
           /\ ~Matches(p, time) => Hittable(time, lane) = {}
<1>1. /\ Len(notes) \in Nat /\ DOMAIN notes = 1..Len(notes)
      /\ \A i \in DOMAIN notes : notes[i].target \in Nat /\ notes[i].stage \in Stage
      /\ GoodWindow \in Nat /\ last_input \in Int /\ cursors[lane] \in Nat \ {0}
  BY NoteElements, TimelineAssumption DEF TypeOK, BeforeAll
<1>2. p \in Nat \ {0} /\ cursors[lane] <= p
  BY <1>1
<1>3. ASSUME NEW i \in Hittable(time, lane) PROVE p <= i
  <2>1. /\ i \in DOMAIN notes /\ notes[i].lane = lane /\ ~notes[i].consumed
        /\ time <= notes[i].target + GoodWindow
    BY <1>3 DEF Hittable
  <2>2. ~(i < cursors[lane])
    BY <1>1, <2>1 DEF CursorsSafe
  <2>3. ~(cursors[lane] <= i /\ i < p)
    <3>1. SUFFICES ASSUME cursors[lane] <= i, i < p PROVE FALSE
      OBVIOUS
    <3>2. Skipped(i, time)
      BY <1>1, <1>2, <2>1, <3>1 DEF StopsAt
    <3>3. QED
      BY <1>1, <2>1, <3>2 DEF Skipped
  <2>4. QED
    BY <1>1, <1>2, <2>1, <2>2, <2>3
<1>4. CASE p \in DOMAIN notes
  <2>1. /\ notes[p].lane = lane /\ ~notes[p].consumed
        /\ time <= notes[p].target + GoodWindow
    BY <1>1, <1>4 DEF StopsAt, Skipped
  <2>2. \A i \in Hittable(time, lane) : notes[p].target <= notes[i].target
    <3> SUFFICES ASSUME NEW i \in Hittable(time, lane) PROVE notes[p].target <= notes[i].target
      OBVIOUS
    <3>1. i \in DOMAIN notes /\ p <= i
      BY <1>3 DEF Hittable
    <3>2. CASE p = i
      BY <1>1, <1>4, <3>2
    <3>3. CASE p < i
      BY <1>4, <3>1, <3>3 DEF ChartSound
    <3>4. QED
      BY <1>1, <1>4, <3>1, <3>2, <3>3
  <2>3. notes[p].target <= time + GoodWindow => notes[p].stage = InputStage(time)
    <3> SUFFICES ASSUME notes[p].target <= time + GoodWindow
                 PROVE  notes[p].stage = InputStage(time)
      OBVIOUS
    <3>1. TargetInStage(notes[p].target, notes[p].stage)
      BY <1>4 DEF ChartSound
    <3>2. notes[p].target - GoodWindow <= time
      BY <1>1, <1>4
    <3>3. QED
      BY <1>1, <1>4, <2>1, <3>1, <3>2, StageAgreement
  <2>4. Matches(p, time) <=> notes[p].target <= time + GoodWindow
    BY <1>4, <2>3 DEF Matches
  <2>5. CASE Matches(p, time)
    <3>1. p \in Hittable(time, lane)
      BY <1>1, <1>4, <2>1, <2>4, <2>5 DEF Hittable
    <3>2. QED
      BY <2>2, <2>5, <3>1
  <2>6. CASE ~Matches(p, time)
    <3> SUFFICES ASSUME NEW i \in Hittable(time, lane) PROVE FALSE
      BY <2>6
    <3>1. /\ i \in DOMAIN notes /\ notes[i].target - GoodWindow <= time
          /\ notes[p].target <= notes[i].target
      BY <2>2 DEF Hittable
    <3>2. QED
      BY <1>1, <1>4, <2>4, <2>6, <3>1
  <2>7. QED
    BY <2>5, <2>6
<1>5. CASE p \notin DOMAIN notes
  <2>1. ~Matches(p, time)
    BY <1>5 DEF Matches
  <2>2. Hittable(time, lane) = {}
    <3> SUFFICES ASSUME NEW i \in Hittable(time, lane) PROVE FALSE
      OBVIOUS
    <3>1. i \in DOMAIN notes /\ p <= i
      BY <1>3 DEF Hittable
    <3>2. QED
      BY <1>1, <1>2, <1>5, <3>1
  <2>3. QED
    BY <2>1, <2>2
<1>6. QED
  BY <1>4, <1>5

LEMMA HitJudgedReplays ==
    ASSUME TypeOK, ChartSound, CursorsSafe, LogInOrder, OneHitPerNote, LogReplays,
           NEW time \in Nat, NEW lane \in Lane, last_input <= time,
           NEW p \in cursors[lane]..(Len(notes) + 1), StopsAt(time, lane, p),
           records' = Append(records, Judged(time, lane, p)),
           Advance(time, lane, p)
    PROVE  LogReplays'
<1> DEFINE event == Judged(time, lane, p)
<1>1. /\ lane \in Nat /\ notes \in Seq(Note) /\ Len(records) \in Nat
      /\ last_input \in Int
  BY TimelineAssumption, RecordElements DEF Lane, TypeOK, BeforeAll
<1> PICK n \in Nat : n = Len(records) + 1
  BY <1>1
<1>2. /\ n \in Nat
      /\ DOMAIN records = 1..(n - 1)
      /\ DOMAIN records' = 1..n
      /\ records'[n] = event
      /\ \A k \in 1..(n - 1) : records'[k] = records[k]
  BY <1>1, RecordAppended
<1>3. /\ DOMAIN notes' = DOMAIN notes
      /\ \A i \in DOMAIN notes :
            /\ notes'[i].id = notes[i].id
            /\ notes'[i].lane = notes[i].lane
            /\ notes'[i].target = notes[i].target
            /\ notes'[i].stage = notes[i].stage
  BY <1>1, AdvanceNotes
<1>4. /\ event.event_ns = time
      /\ event.lane = lane
      /\ event.stage = InputStage(time)
      /\ Matches(p, time) =>
            /\ event.note_id = notes[p].id
            /\ event.kind = Verdict(time - notes[p].target)
      /\ ~Matches(p, time) =>
            /\ event.note_id = NoNote
            /\ event.kind = "Empty"
  <2>1. time \in Nat /\ lane \in Nat /\ notes \in Seq(Note)
    BY <1>1
  <2>2. QED
    BY ONLY <2>1, JudgedType
<1> HIDE DEF event
<1>5. ASSUME NEW k \in 1..(n - 1) PROVE Candidates(k)' = Candidates(k)
  <2>1. \A j \in 1..(k - 1) : records'[j] = records[j]
    BY <1>2
  <2>2. records'[k] = records[k]
    BY <1>2
  <2>3. QED
    BY <1>3, <2>1, <2>2 DEF Candidates
<1>6. Candidates(n)' = Hittable(time, lane)
  <2>1. ASSUME NEW i \in DOMAIN notes
        PROVE  (\A j \in 1..(n - 1) : records'[j].note_id # notes[i].id) <=> ~notes[i].consumed
    BY <1>2 DEF OneHitPerNote
  <2>2. QED
    BY <1>2, <1>3, <1>4, <2>1 DEF Candidates, Hittable
<1>7. \A k \in DOMAIN records' : \A j \in 1..k : records'[j].event_ns <= records'[k].event_ns
  <2>1. \A j \in 1..(n - 1) : records[j].event_ns \in Nat /\ records[j].event_ns <= time
    BY <1>1, <1>2, RecordElements DEF LogInOrder
  <2> SUFFICES ASSUME NEW k \in 1..n, NEW j \in 1..k
               PROVE  records'[j].event_ns <= records'[k].event_ns
    BY <1>2
  <2>2. CASE k = n
    BY <1>2, <1>4, <2>1, <2>2
  <2>3. CASE k \in 1..(n - 1)
    BY <1>2, <2>3 DEF LogInOrder
  <2>4. QED
    BY <1>2, <2>2, <2>3
<1>8. ASSUME NEW k \in 1..(n - 1)
      PROVE  IF Candidates(k)' = {}
             THEN records'[k].kind = "Empty" /\ records'[k].note_id = NoNote
             ELSE \E i \in Candidates(k)' :
                     /\ records'[k].note_id = notes'[i].id
                     /\ records'[k].stage = notes'[i].stage
                     /\ records'[k].kind \in Hits
                     /\ \A j \in Candidates(k)' : notes'[i].target <= notes'[j].target
  <2>1. records'[k] = records[k] /\ k \in DOMAIN records
    BY <1>2
  <2>2. Candidates(k) \subseteq DOMAIN notes
    BY DEF Candidates
  <2>3. QED
    BY <1>3, <1>5, <2>1, <2>2 DEF LogReplays
<1>9. IF Candidates(n)' = {}
      THEN records'[n].kind = "Empty" /\ records'[n].note_id = NoNote
      ELSE \E i \in Candidates(n)' :
              /\ records'[n].note_id = notes'[i].id
              /\ records'[n].stage = notes'[i].stage
              /\ records'[n].kind \in Hits
              /\ \A j \in Candidates(n)' : notes'[i].target <= notes'[j].target
  <2>1. CASE Matches(p, time)
    <3>1. /\ p \in Hittable(time, lane)
          /\ \A i \in Hittable(time, lane) : notes[p].target <= notes[i].target
      BY <2>1, ScanFindsEarliest
    <3>2. Hittable(time, lane) \subseteq DOMAIN notes
      BY DEF Hittable
    <3>3. event.kind \in Hits /\ event.stage = notes[p].stage
      BY <1>4, <2>1 DEF Verdict, Hits, Matches
    <3>4. /\ p \in Candidates(n)' /\ Candidates(n)' \subseteq DOMAIN notes
          /\ \A j \in Candidates(n)' : notes'[p].target <= notes'[j].target
      BY <1>3, <1>6, <3>1, <3>2
    <3>5. /\ records'[n].note_id = notes'[p].id
          /\ records'[n].stage = notes'[p].stage
          /\ records'[n].kind \in Hits
      BY <1>2, <1>3, <1>4, <2>1, <3>1, <3>2, <3>3
    <3>6. QED
      BY <3>4, <3>5
  <2>2. CASE ~Matches(p, time)
    <3>1. Hittable(time, lane) = {}
      BY <2>2, ScanFindsEarliest
    <3>2. QED
      BY <1>2, <1>4, <1>6, <2>2, <3>1
  <2>3. QED
    BY <2>1, <2>2
<1>10. QED
  <2>1. \A k \in DOMAIN records' : k \in 1..(n - 1) \/ k = n
    BY <1>2
  <2>2. QED
    BY <1>7, <1>8, <1>9, <2>1 DEF LogReplays

LEMMA InitReplays == Init => LogReplays
<1> SUFFICES ASSUME Init PROVE LogReplays
  OBVIOUS
<1>1. records = <<>>
  BY DEF Init
<1>2. DOMAIN records = {}
  BY <1>1
<1>3. QED
  BY <1>2 DEF LogReplays

LEMMA NextReplays == IInv /\ OneHitPerNote /\ LogReplays /\ [Next]_vars => LogReplays'
<1> SUFFICES ASSUME IInv, OneHitPerNote, LogReplays, [Next]_vars PROVE LogReplays'
  OBVIOUS
<1>1. CASE UNCHANGED <<notes, records>>
  BY <1>1 DEF LogReplays, Candidates
<1>2. ASSUME NEW time \in Times, NEW lane \in Lane, HitJudged(time, lane)
      PROVE  LogReplays'
  <2>1. PICK p \in cursors[lane]..(Len(notes) + 1) :
            /\ StopsAt(time, lane, p)
            /\ records' = Append(records, Judged(time, lane, p))
            /\ Advance(time, lane, p)
    BY <1>2 DEF HitJudged
  <2>2. time \in Nat /\ last_input <= time
    BY <1>2, HitFacts DEF IInv
  <2>3. QED
    BY <2>1, <2>2, HitJudgedReplays DEF IInv
<1>3. QED
  BY <1>1, <1>2, OtherStepsKeepNotesAndLog

(* Whatever is tapped, the log is the one a judge without cursors would     *)
(* have written: each record names the earliest note it could have hit.     *)
THEOREM LogReplaysCorrect == Spec => []LogReplays
BY InitIInv, NextIInv, InitOneHit, NextOneHit, InitReplays, NextReplays, PTL DEF Spec

-----------------------------------------------------------------------------
(* The engine implements the judge.  The note the scan stops at is the one  *)
(* the judge takes, and the log maps record by record.                      *)

Entry == [time : Nat, lane : Nat, note : Nat \cup {NoNote}, stage : Stage, kind : Judgment]

EntryOf(event) == [time |-> event.event_ns, lane |-> event.lane, note |-> event.note_id,
                   stage |-> event.stage, kind |-> event.kind]

LogOf(events) == [k \in DOMAIN events |-> EntryOf(events[k])]

TakenIn(chart) == {i \in DOMAIN chart : chart[i].consumed}

LEMMA EntryType == ASSUME NEW event \in Feedback PROVE EntryOf(event) \in Entry
BY DEF Feedback, EntryOf, Entry

LEMMA LogAppended ==
    ASSUME NEW s \in Seq(Feedback), NEW e \in Feedback
    PROVE  LogOf(Append(s, e)) = Append(LogOf(s), EntryOf(e))
<1> DEFINE t == Append(s, e)
<1>1. /\ Len(s) \in Nat /\ DOMAIN s = 1..Len(s) /\ DOMAIN t = 1..(Len(s) + 1)
      /\ t[Len(s) + 1] = e /\ \A i \in 1..Len(s) : t[i] = s[i]
  BY AppendRecord
<1>2. \A i \in 1..Len(s) : s[i] \in Feedback
  BY SeqElements
<1> DEFINE u == LogOf(s)
<1>3. u \in Seq(Entry) /\ Len(u) = Len(s) /\ \A i \in 1..Len(s) : u[i] = EntryOf(s[i])
  <2>1. u = [i \in 1..Len(s) |-> EntryOf(s[i])]
    BY <1>1 DEF LogOf
  <2>2. \A i \in 1..Len(s) : EntryOf(s[i]) \in Entry
    BY <1>2, EntryType
  <2>3. QED
    BY <1>1, <2>1, <2>2
<1>4. EntryOf(e) \in Entry
  BY EntryType
<1> DEFINE v == Append(u, EntryOf(e))
<1>5. /\ v \in Seq(Entry) /\ DOMAIN v = 1..(Len(s) + 1) /\ v[Len(s) + 1] = EntryOf(e)
      /\ \A i \in 1..Len(s) : v[i] = u[i]
  <2> HIDE DEF u
  <2>1. QED
    BY <1>3, <1>4, AppendRecord
<1>6. LogOf(t) = [i \in 1..(Len(s) + 1) |-> EntryOf(t[i])]
  BY <1>1 DEF LogOf
<1> HIDE DEF t, u
<1>7. v = [i \in 1..(Len(s) + 1) |-> v[i]]
  <2> HIDE DEF v
  <2>1. v \in [1..Len(v) -> Entry]
    BY <1>5
  <2>2. QED
    BY <1>5, <2>1
<1>8. ASSUME NEW i \in 1..(Len(s) + 1) PROVE v[i] = EntryOf(t[i])
  <2> HIDE DEF v
  <2>1. QED
    BY <1>1, <1>3, <1>5
<1>9. LogOf(t) = v
  <2> HIDE DEF v
  <2>1. QED
    BY <1>6, <1>7, <1>8
<1>10. QED
  BY <1>9 DEF t, u, v

LEMMA PlainChart ==
    ASSUME NEW chart
    PROVE  /\ DOMAIN Plain(chart) = DOMAIN chart
           /\ \A i \in DOMAIN chart : /\ Plain(chart)[i].id = chart[i].id
                                      /\ Plain(chart)[i].lane = chart[i].lane
                                      /\ Plain(chart)[i].target = chart[i].target
                                      /\ Plain(chart)[i].stage = chart[i].stage
BY DEF Plain

LEMMA SameVerdict == ASSUME NEW delay \in Int PROVE J!Verdict(delay) = Verdict(delay)
BY TimelineAssumption DEF J!Verdict, Verdict, Magnitude

LEMMA SameStage == J!NoNote = NoNote /\ \A time : J!InputStage(time) = InputStage(time)
BY DEF J!NoNote, NoNote, J!InputStage, InputStage, J!CalibrationTailEnd, CalibrationTailEnd,
   J!ScoredStart, ScoredStart, J!ScoredEnd, ScoredEnd, J!Finish, Finish

LEMMA SameEligible ==
    ASSUME TypeOK, NEW time \in Nat, NEW lane \in Lane
    PROVE  J!Eligible(time, lane) = Hittable(time, lane)
<1>1. \A i \in DOMAIN notes : notes[i].target \in Nat /\ GoodWindow \in Nat
  BY NoteElements, TimelineAssumption
<1>2. QED
  BY <1>1, PlainChart DEF J!Eligible, Hittable

(* The constructor's state. *)
LEMMA JudgeStarts == ASSUME Init PROVE J!JudgeInit
<1>1. Plain(notes) \in {Plain(c) : c \in {d \in Charts : ValidChart(d)}}
  BY DEF Init
<1>2. {i \in DOMAIN notes : notes[i].consumed} = {}
  BY DEF Init, ValidChart
<1>3. LogOf(records) = <<>>
  <2>1. records = <<>>
    BY DEF Init
  <2>2. QED
    BY <2>1 DEF LogOf
<1>4. valid
  BY DEF Init, valid
<1>5. QED
  BY <1>1, <1>2, <1>3, <1>4 DEF J!JudgeInit, LogOf, EntryOf

(* A tap that is recorded is a tap of the judge. *)
LEMMA JudgeTaps ==
    ASSUME IInv, NEW time \in Times, NEW lane \in Lane, HitJudged(time, lane)
    PROVE  J!Tap(time, lane)
<1> PICK p \in cursors[lane]..(Len(notes) + 1) :
        /\ StopsAt(time, lane, p)
        /\ records' = Append(records, Judged(time, lane, p))
        /\ Advance(time, lane, p)
  BY DEF HitJudged
<1>1. /\ valid /\ invalid_reason' = invalid_reason /\ InputStage(time) # "None"
      /\ Len(records) # MaxEvents /\ Len(records) <= MaxEvents /\ Len(records) \in Nat
      /\ MaxEvents \in Nat
  BY EngineAssumption, RecordElements DEF HitJudged, InOrder, HasRoom, IInv, TypeOK
<1>2. time \in Nat /\ lane \in Nat /\ last_input <= time /\ last_input \in Int
  BY HitFacts DEF IInv
<1>3. notes \in Seq(Note) /\ records \in Seq(Feedback)
  BY DEF IInv, TypeOK
<1> DEFINE event == Judged(time, lane, p)
<1>4. /\ event \in Feedback /\ event.event_ns = time /\ event.lane = lane
      /\ event.stage = InputStage(time)
      /\ Matches(p, time) =>
            /\ event.note_id = notes[p].id
            /\ event.kind = Verdict(time - notes[p].target)
      /\ ~Matches(p, time) => event.note_id = NoNote /\ event.kind = "Empty"
  <2>1. time \in Nat /\ lane \in Nat /\ notes \in Seq(Note)
    BY <1>2, <1>3
  <2>2. event \in Feedback /\ event.event_ns = time /\ event.lane = lane
    BY ONLY <2>1, JudgedType
  <2>3. event.stage = InputStage(time)
    BY ONLY <2>1, JudgedType
  <2>4. /\ Matches(p, time) =>
              /\ event.note_id = notes[p].id
              /\ event.kind = Verdict(time - notes[p].target)
        /\ ~Matches(p, time) => event.note_id = NoNote /\ event.kind = "Empty"
    BY ONLY <2>1, JudgedType
  <2> HIDE DEF event
  <2>5. QED
    BY <2>2, <2>3, <2>4
<1>5. records' = Append(records, event)
  OBVIOUS
<1> HIDE DEF event
<1>6. LogOf(records') = Append(LogOf(records), EntryOf(event))
  BY <1>3, <1>4, <1>5, LogAppended
<1>7. /\ DOMAIN notes' = DOMAIN notes
      /\ \A i \in DOMAIN notes :
            /\ notes'[i].id = notes[i].id
            /\ notes'[i].lane = notes[i].lane
            /\ notes'[i].target = notes[i].target
            /\ notes'[i].stage = notes[i].stage
            /\ notes'[i].consumed <=> (notes[i].consumed \/ (i = p /\ Matches(p, time)))
  BY ONLY <1>3, Advance(time, lane, p), AdvanceNotes
<1>8. Plain(notes') = Plain(notes)
  BY <1>7 DEF Plain
<1>9. /\ Matches(p, time) => TakenIn(notes') = TakenIn(notes) \cup {p}
      /\ ~Matches(p, time) => TakenIn(notes') = TakenIn(notes)
  BY <1>7 DEF TakenIn, Matches
<1>10. /\ Matches(p, time) => /\ p \in Hittable(time, lane)
                              /\ \A i \in Hittable(time, lane) : notes[p].target <= notes[i].target
       /\ ~Matches(p, time) => Hittable(time, lane) = {}
  BY <1>2, ScanFindsEarliest DEF IInv
<1>11. J!Eligible(time, lane) = Hittable(time, lane)
  BY <1>2, SameEligible DEF IInv
<1>12. J!Take(time, lane) \/ J!Waste(time, lane)
  <2>1. CASE Matches(p, time)
    <3>1. p \in DOMAIN notes /\ notes[p].target \in Nat /\ notes[p].stage = InputStage(time)
      BY <2>1, NoteElements DEF Matches, IInv
    <3>2. \A i \in J!Eligible(time, lane) : i \in DOMAIN notes
      BY <1>11 DEF Hittable
    <3>3. \A i \in J!Eligible(time, lane) : Plain(notes)[p].target <= Plain(notes)[i].target
      BY <1>10, <1>11, <2>1, <3>1, <3>2, PlainChart
    <3>4. EntryOf(event) = [time |-> time, lane |-> lane, note |-> Plain(notes)[p].id,
                            stage |-> Plain(notes)[p].stage,
                            kind |-> J!Verdict(time - Plain(notes)[p].target)]
      <4>1. time - notes[p].target \in Int
        BY <1>2, <3>1
      <4>2. J!Verdict(time - notes[p].target) = Verdict(time - notes[p].target)
        BY <4>1, SameVerdict
      <4>3. QED
        BY <1>4, <2>1, <3>1, <4>2, PlainChart DEF EntryOf
    <3>5. J!Take(time, lane)
      BY <1>6, <1>9, <1>10, <1>11, <2>1, <3>3, <3>4 DEF J!Take, TakenIn, LogOf, EntryOf
    <3>6. QED
      BY <3>5
  <2>2. CASE ~Matches(p, time)
    <3>1. EntryOf(event) = [time |-> time, lane |-> lane, note |-> NoNote,
                            stage |-> InputStage(time), kind |-> "Empty"]
      BY <1>4, <2>2 DEF EntryOf
    <3>2. J!Waste(time, lane)
      BY <1>6, <1>9, <1>10, <1>11, <2>2, <3>1, SameStage
      DEF J!Waste, TakenIn, LogOf, EntryOf
    <3>3. QED
      BY <3>2
  <2>3. QED
    BY <2>1, <2>2
<1>13. Len(LogOf(records)) = Len(records)
  <2>1. LogOf(records) = [k \in 1..Len(records) |-> EntryOf(records[k])]
    BY <1>3 DEF LogOf
  <2>2. QED
    BY <1>1, <2>1
<1>14. \A k \in DOMAIN LogOf(records) : LogOf(records)[k].time <= time
  <2>1. ASSUME NEW k \in DOMAIN records PROVE records[k].event_ns <= time
    BY <1>2, RecordElements DEF IInv, LogInOrder
  <2>2. QED
    BY <2>1 DEF LogOf, EntryOf
<1>15. Len(LogOf(records)) < MaxEvents
  BY <1>1, <1>13
<1>16. valid' = valid
  BY <1>1 DEF valid
<1>17. QED
  BY <1>1, <1>8, <1>12, <1>14, <1>15, <1>16, SameStage
  DEF J!Tap, LogOf, EntryOf

(* The texts that invalidate a run are not empty. *)
LEMMA JudgeSpoils ==
    ASSUME valid, ~valid', UNCHANGED <<notes, records>> PROVE J!Spoil
BY DEF J!Spoil

LEMMA Invalidates ==
    ASSUME [Next]_vars
    PROVE  \/ UNCHANGED <<notes, records>> /\ (valid' <=> valid)
           \/ UNCHANGED <<notes, records>> /\ valid /\ ~valid'
           \/ \E time \in Times, lane \in Lane : HitJudged(time, lane)
<1>1. \/ UNCHANGED <<notes, records, invalid_reason>>
      \/ UNCHANGED <<notes, records>> /\ valid /\ ~valid'
      \/ \E time \in Times, lane \in Lane : HitJudged(time, lane)
  BY Zenon DEF Next, hit, HitWhenInvalid, HitBackwards, HitOutsideStages, HitOverCapacity, InOrder,
     invalidate, vars, valid
<1>2. QED
  BY <1>1 DEF valid

(* A call of the cursor engine is a step of the cursor-free judge or none   *)
(* that shows: every tap is judged against the earliest eligible note.      *)
THEOREM JudgeImplemented == Spec => ImplementsJudge
<1>1. Init => J!JudgeInit
  BY JudgeStarts
<1>2. ASSUME IInv, [Next]_vars PROVE [J!JudgeNext]_(J!judgeVars)
  <2>1. CASE UNCHANGED <<notes, records>> /\ (valid' <=> valid)
    BY <2>1 DEF J!judgeVars
  <2>2. CASE UNCHANGED <<notes, records>> /\ valid /\ ~valid'
    BY <2>2, JudgeSpoils DEF J!JudgeNext
  <2>3. ASSUME NEW time \in Times, NEW lane \in Lane, HitJudged(time, lane)
        PROVE  J!JudgeNext
    <3>1. J!Tap(time, lane)
      BY <1>2, <2>3, JudgeTaps
    <3>2. lane \in J!Lane
      BY DEF J!Lane, Lane
    <3>3. QED
      BY <3>1, <3>2 DEF J!JudgeNext
  <2>4. QED
    BY <1>2, <2>1, <2>2, <2>3, Invalidates
<1>3. QED
  BY <1>1, <1>2, InitIInv, NextIInv, PTL DEF Spec, ImplementsJudge, J!JudgeSpec

-----------------------------------------------------------------------------
(* Sums over sets of records. *)

(* Induction over the natural numbers, for a set instead of an operator.    *)
LEMMA SetInduction ==
    ASSUME NEW T, 0 \in T, \A n \in T \cap Nat : n + 1 \in T
    PROVE  Nat \subseteq T
<1> SUFFICES ASSUME Nat \ T # {} PROVE FALSE
  OBVIOUS
<1>1. PICK x \in Nat \ T : \A y \in Nat \ T : <<y, x>> \notin OpToRel(<, Nat)
  <2>1. \E x \in Nat \ T : \A y \in Nat \ T : <<y, x>> \notin OpToRel(<, Nat)
    BY NatLessThanWellFounded, WFMin
  <2>2. QED
    BY <2>1
<1>2. \A y \in Nat \ T : ~ (y < x)
  BY <1>1 DEF OpToRel
<1>3. x - 1 \in Nat /\ x - 1 < x /\ (x - 1) + 1 = x
  OBVIOUS
<1>4. (x - 1) + 1 \in T
  BY <1>2, <1>3
<1>5. QED
  BY <1>3, <1>4

(* One step of the sum of the v[x] over s. *)
SumStep(g, v, s) == IF s = {} THEN 0 ELSE LET x == CHOOSE x \in s : TRUE IN v[x] + g[s \ {x}]

(* The subsets of at most k elements, and the sums over them.               *)
UpTo(D, k) == {s \in SUBSET D : Cardinality(s) <= k}

Partial(v, D, k) ==
    {g \in [UpTo(D, k) -> Nat] : \A s \in UpTo(D, k) : g[s] = SumStep(g, v, s)}

(* g gives the sum of v over every subset of D, as MapThenSumSet takes it.  *)
Sums(g, v, D) == g \in [SUBSET D -> Nat] /\ \A s \in SUBSET D : g[s] = SumStep(g, v, s)

LEMMA Smaller ==
    ASSUME NEW D, IsFiniteSet(D), NEW s \in SUBSET D, NEW x \in s
    PROVE  /\ s \ {x} \in SUBSET D /\ s # {}
           /\ Cardinality(s) \in Nat /\ Cardinality(s) >= 1
           /\ Cardinality(s \ {x}) = Cardinality(s) - 1
<1>1. IsFiniteSet(s)
  BY FS_Subset
<1>2. Cardinality(s) \in Nat /\ Cardinality(s) # 0
  BY <1>1, FS_CardinalityType, FS_EmptySet
<1>3. Cardinality(s \ {x}) = Cardinality(s) - 1
  BY <1>1, FS_RemoveElement
<1>4. QED
  BY <1>2, <1>3

(* The recursion has a solution on the sets of at most k elements, ...      *)
LEMMA PartialExists ==
    ASSUME NEW D, IsFiniteSet(D), NEW v \in [D -> Nat]
    PROVE  \A k \in Nat : Partial(v, D, k) # {}
<1> DEFINE T == {k \in Nat : Partial(v, D, k) # {}}
<1>1. 0 \in T
  <2> DEFINE g == [s \in UpTo(D, 0) |-> 0]
  <2>1. ASSUME NEW s \in UpTo(D, 0) PROVE s = {}
    <3>1. IsFiniteSet(s) /\ Cardinality(s) <= 0
      BY FS_Subset DEF UpTo
    <3>2. Cardinality(s) = 0
      BY <3>1, FS_CardinalityType
    <3>3. QED
      BY <3>1, <3>2, FS_EmptySet
  <2>2. g \in Partial(v, D, 0)
    BY <2>1 DEF Partial, SumStep
  <2>3. QED
    BY <2>2
<1>2. ASSUME NEW k \in T \cap Nat PROVE k + 1 \in T
  <2>1. PICK g : g \in Partial(v, D, k)
    BY <1>2
  <2> DEFINE h == [s \in UpTo(D, k + 1) |-> SumStep(g, v, s)]
  <2>2. \A s \in UpTo(D, k) : s \in UpTo(D, k + 1) /\ g[s] = SumStep(g, v, s) /\ g[s] \in Nat
    <3>1. g \in [UpTo(D, k) -> Nat] /\ \A s \in UpTo(D, k) : g[s] = SumStep(g, v, s)
      BY <2>1 DEF Partial
    <3>2. ASSUME NEW s \in UpTo(D, k) PROVE s \in UpTo(D, k + 1)
      <4>1. IsFiniteSet(s)
        BY FS_Subset DEF UpTo
      <4>2. Cardinality(s) \in Nat
        BY <4>1, FS_CardinalityType
      <4>3. QED
        BY <4>2, <1>2 DEF UpTo
    <3>3. QED
      BY <3>1, <3>2
  <2>3. \A s \in UpTo(D, k) : h[s] = g[s]
    BY <2>2
  <2>4. ASSUME NEW s \in UpTo(D, k + 1)
        PROVE  h[s] \in Nat /\ h[s] = SumStep(h, v, s)
    <3>1. h[s] = SumStep(g, v, s)
      OBVIOUS
    <3> HIDE DEF h
    <3>2. CASE s = {}
      BY <3>1, <3>2 DEF SumStep
    <3>3. CASE s # {}
      <4>1. PICK x : x = CHOOSE y \in s : TRUE
        OBVIOUS
      <4>2. s \in SUBSET D /\ Cardinality(s) <= k + 1 /\ x \in s
        BY <3>3, <4>1 DEF UpTo
      <4>3. s \ {x} \in SUBSET D /\ Cardinality(s) \in Nat
            /\ Cardinality(s \ {x}) = Cardinality(s) - 1
        BY <4>2, Smaller
      <4>4. s \ {x} \in UpTo(D, k)
        BY <4>2, <4>3, <1>2 DEF UpTo
      <4>5. h[s \ {x}] = g[s \ {x}] /\ g[s \ {x}] \in Nat
        BY <2>2, <2>3, <4>4
      <4>6. v[x] \in Nat
        BY <4>2
      <4>7. SumStep(g, v, s) = v[x] + g[s \ {x}] /\ SumStep(h, v, s) = v[x] + h[s \ {x}]
        BY <4>1, <3>3 DEF SumStep
      <4>8. QED
        BY <3>1, <4>5, <4>6, <4>7
    <3>4. QED
      BY <3>2, <3>3
  <2>5. h \in Partial(v, D, k + 1)
    <3>1. h \in [UpTo(D, k + 1) -> Nat]
      BY <2>4
    <3> HIDE DEF h
    <3>2. QED
      BY <3>1, <2>4 DEF Partial
  <2>6. QED
    BY <2>5
<1> HIDE DEF T
<1>3. Nat \subseteq T
  BY <1>1, <1>2, SetInduction
<1>4. QED
  BY <1>3 DEF T

(* ... and so on all of them.                                               *)
LEMMA SumExists ==
    ASSUME NEW D, IsFiniteSet(D), NEW v \in [D -> Nat]
    PROVE  \E g : Sums(g, v, D)
<1>1. Cardinality(D) \in Nat
  BY FS_CardinalityType
<1>2. UpTo(D, Cardinality(D)) = SUBSET D
  BY FS_Subset DEF UpTo
<1>3. PICK g : g \in Partial(v, D, Cardinality(D))
  BY <1>1, PartialExists
<1>4. QED
  BY <1>2, <1>3 DEF Partial, Sums

(* The element that is added last may be any one. *)
LEMMA SumAnyOrder ==
    ASSUME NEW D, IsFiniteSet(D), NEW v \in [D -> Nat], NEW g, Sums(g, v, D)
    PROVE  \A s \in SUBSET D : \A y \in s : g[s] = v[y] + g[s \ {y}]
<1> DEFINE T == {n \in Nat : \A s \in SUBSET D : Cardinality(s) = n =>
                   \A y \in s : g[s] = v[y] + g[s \ {y}]}
<1>1. /\ \A s \in SUBSET D : g[s] \in Nat /\ g[s] = SumStep(g, v, s)
      /\ \A x \in D : v[x] \in Nat
  BY DEF Sums
<1>2. 0 \in T
  <2> SUFFICES ASSUME NEW s \in SUBSET D, Cardinality(s) = 0, NEW y \in s PROVE FALSE
    OBVIOUS
  <2>1. Cardinality(s) >= 1 /\ Cardinality(s) = 0
    BY Smaller
  <2>2. QED
    BY <2>1
<1>3. ASSUME NEW n \in T \cap Nat PROVE n + 1 \in T
  <2> SUFFICES ASSUME NEW s \in SUBSET D, Cardinality(s) = n + 1, NEW y \in s
               PROVE  g[s] = v[y] + g[s \ {y}]
    OBVIOUS
  <2>0. \A r \in SUBSET D : Cardinality(r) = n => \A z \in r : g[r] = v[z] + g[r \ {z}]
    BY <1>3
  <2>1. n \in Nat
    BY <1>3
  <2> HIDE DEF T
  <2>2. PICK x : x = CHOOSE z \in s : TRUE
    OBVIOUS
  <2>3. x \in s /\ s # {}
    BY <2>2
  <2>4. g[s] = v[x] + g[s \ {x}]
    BY <1>1, <2>2, <2>3 DEF SumStep
  <2>5. CASE x = y
    BY <2>4, <2>5
  <2>6. CASE x # y
    <3>1. /\ s \ {x} \in SUBSET D /\ Cardinality(s \ {x}) = n /\ y \in s \ {x}
          /\ s \ {y} \in SUBSET D /\ Cardinality(s \ {y}) = n /\ x \in s \ {y}
      BY <2>1, <2>3, <2>6, Smaller
    <3>2. g[s \ {x}] = v[y] + g[(s \ {x}) \ {y}] /\ g[s \ {y}] = v[x] + g[(s \ {y}) \ {x}]
      BY <2>0, <3>1
    <3>3. (s \ {x}) \ {y} = (s \ {y}) \ {x} /\ (s \ {x}) \ {y} \in SUBSET D
      OBVIOUS
    <3>4. v[x] \in Nat /\ v[y] \in Nat /\ g[(s \ {x}) \ {y}] \in Nat
      BY <1>1, <2>3, <3>3
    <3>5. QED
      BY <2>4, <3>2, <3>3, <3>4
  <2>7. QED
    BY <2>5, <2>6
<1> HIDE DEF T
<1>4. Nat \subseteq T
  BY <1>2, <1>3, SetInduction
<1>5. ASSUME NEW s \in SUBSET D PROVE \A y \in s : g[s] = v[y] + g[s \ {y}]
  <2>1. Cardinality(s) \in T
    BY <1>4, FS_Subset, FS_CardinalityType
  <2>2. QED
    BY <2>1 DEF T
<1>6. QED
  BY <1>5

(* The sum over a part of D does not depend on D. *)
LEMMA SumUnique ==
    ASSUME NEW D, IsFiniteSet(D), NEW v \in [D -> Nat], NEW g, Sums(g, v, D),
           NEW S \in SUBSET D, NEW h, \A s \in SUBSET S : h[s] = SumStep(h, v, s)
    PROVE  h[S] = g[S]
<1> DEFINE T == {n \in Nat : \A s \in SUBSET S : Cardinality(s) = n => h[s] = g[s]}
<1>1. \A s \in SUBSET S : g[s] = SumStep(g, v, s) /\ s \in SUBSET D
  BY DEF Sums
<1>2. 0 \in T
  <2> SUFFICES ASSUME NEW s \in SUBSET S, Cardinality(s) = 0 PROVE h[s] = g[s]
    OBVIOUS
  <2>1. s = {}
    BY <1>1, FS_Subset, FS_EmptySet
  <2>2. QED
    BY <1>1, <2>1 DEF SumStep
<1>3. ASSUME NEW n \in T \cap Nat PROVE n + 1 \in T
  <2> SUFFICES ASSUME NEW s \in SUBSET S, Cardinality(s) = n + 1 PROVE h[s] = g[s]
    OBVIOUS
  <2>0. n \in Nat /\ \A r \in SUBSET S : Cardinality(r) = n => h[r] = g[r]
    BY <1>3
  <2> HIDE DEF T
  <2>1. s # {}
    <3> SUFFICES ASSUME s = {} PROVE FALSE
      OBVIOUS
    <3>1. Cardinality(s) = 0 /\ Cardinality(s) = n + 1
      BY FS_EmptySet
    <3>2. QED
      BY <2>0, <3>1
  <2>2. PICK x : x = CHOOSE z \in s : TRUE
    OBVIOUS
  <2>3. x \in s
    BY <2>1, <2>2
  <2>4. s \ {x} \in SUBSET S /\ Cardinality(s \ {x}) = n
    BY <1>1, <2>0, <2>3, Smaller
  <2>5. h[s \ {x}] = g[s \ {x}]
    BY <2>0, <2>4
  <2>6. g[s] = v[x] + g[s \ {x}] /\ h[s] = v[x] + h[s \ {x}]
    BY <1>1, <2>1, <2>2 DEF SumStep
  <2>7. QED
    BY <2>5, <2>6
<1> HIDE DEF T
<1>4. Nat \subseteq T
  BY <1>2, <1>3, SetInduction
<1>5. S \in SUBSET S /\ Cardinality(S) \in T
  BY <1>4, FS_Subset, FS_CardinalityType
<1>6. QED
  BY <1>5 DEF T

(* The fold of Delays, over any set of records.                             *)
DelaysOf(rs, S) == MapThenSumSet(LAMBDA k : Magnitude(rs[k].delay_ns), S)

DelaysIn(S) == DelaysOf(records, S)

DelayOf == [k \in DOMAIN records |-> Magnitude(records[k].delay_ns)]

(* The sums of Delays are the ones of every solution of their recursion. *)
LEMMA DelaysAre ==
    ASSUME NEW g, IsFiniteSet(DOMAIN records), DelayOf \in [DOMAIN records -> Nat],
           Sums(g, DelayOf, DOMAIN records), NEW S \in SUBSET DOMAIN records
    PROVE  DelaysIn(S) = g[S]
<1> DEFINE h == CHOOSE h : h = [s \in SUBSET S |->
                    IF s = {} THEN 0
                    ELSE LET x == CHOOSE x \in s : TRUE
                         IN  Magnitude(records[x].delay_ns) + h[s \ {x}]]
<1>1. DelaysIn(S) = h[S]
  BY Zenon DEF DelaysIn, DelaysOf, MapThenSumSet, MapThenFoldSet
<1>2. [s \in SUBSET S |-> g[s]] =
        [s \in SUBSET S |->
            IF s = {} THEN 0
            ELSE LET x == CHOOSE x \in s : TRUE
                 IN  Magnitude(records[x].delay_ns) + [r \in SUBSET S |-> g[r]][s \ {x}]]
  <2> SUFFICES ASSUME NEW s \in SUBSET S
               PROVE  g[s] = IF s = {} THEN 0
                             ELSE LET x == CHOOSE x \in s : TRUE
                                  IN  Magnitude(records[x].delay_ns)
                                        + [r \in SUBSET S |-> g[r]][s \ {x}]
    OBVIOUS
  <2>1. g[s] = SumStep(g, DelayOf, s)
    BY DEF Sums
  <2>2. CASE s = {}
    BY <2>1, <2>2 DEF SumStep
  <2>3. CASE s # {}
    <3>1. PICK x : x = CHOOSE z \in s : TRUE
      OBVIOUS
    <3>2. x \in s /\ s \ {x} \in SUBSET S
      BY <2>3, <3>1
    <3>3. g[s] = DelayOf[x] + g[s \ {x}]
      BY <2>1, <2>3, <3>1 DEF SumStep
    <3>4. DelayOf[x] = Magnitude(records[x].delay_ns)
      BY <3>2 DEF DelayOf
    <3>5. [r \in SUBSET S |-> g[r]][s \ {x}] = g[s \ {x}]
      BY <3>2
    <3>6. QED
      BY <2>3, <3>1, <3>3, <3>4, <3>5
  <2>4. QED
    BY <2>2, <2>3
<1>3. h = [s \in SUBSET S |->
              IF s = {} THEN 0
              ELSE LET x == CHOOSE x \in s : TRUE
                   IN  Magnitude(records[x].delay_ns) + h[s \ {x}]]
  BY <1>2
<1> HIDE DEF h
<1>4. ASSUME NEW s \in SUBSET S PROVE h[s] = SumStep(h, DelayOf, s)
  <2>1. CASE s = {}
    BY <1>3, <2>1 DEF SumStep
  <2>2. CASE s # {}
    <3>1. PICK x : x = CHOOSE z \in s : TRUE
      OBVIOUS
    <3>2. x \in s
      BY <2>2, <3>1
    <3>3. h[s] = Magnitude(records[x].delay_ns) + h[s \ {x}]
      BY <1>3, <2>2, <3>1
    <3>4. DelayOf[x] = Magnitude(records[x].delay_ns)
      BY <3>2 DEF DelayOf
    <3>5. QED
      BY <2>2, <3>1, <3>3, <3>4 DEF SumStep
  <2>3. QED
    BY <2>1, <2>2
<1>5. QED
  BY <1>1, <1>4, SumUnique

-----------------------------------------------------------------------------
(* What a run saves: beyond the order of the log, each record says exactly   *)
(* how far the tap was from the note it names, and the chart is numbered.    *)

(* A record says of its note what the chart says.                           *)
Exact(r) ==
    /\ r.lane \in Lane
    /\ r.stage = InputStage(r.event_ns)
    /\ r.stage # "None"
    /\ \/ r.kind = "Empty" /\ r.note_id = NoNote /\ r.delay_ns = 0
       \/ \E i \in DOMAIN notes :
             /\ r.note_id = notes[i].id
             /\ r.delay_ns = r.event_ns - notes[i].target
             /\ r.kind = Verdict(r.delay_ns)

RecordsExact == \A k \in DOMAIN records : Exact(records[k])

(* What ReplayAssumption and the constructor ensure of the chart.           *)
ChartNumbered ==
    /\ Len(notes) < WordSize
    /\ \A i \in DOMAIN notes : notes[i].id = i - 1
    /\ \A i, j \in DOMAIN notes :
          i < j /\ notes[i].lane = notes[j].lane => notes[j].target - notes[i].target >= LaneLock

RunInv == IInv /\ OneHitPerNote /\ LogReplays /\ RecordsExact /\ ChartNumbered

(* What a judged tap appends is exact.                                      *)
LEMMA JudgedExact ==
    ASSUME notes \in Seq(Note), NEW time \in Nat, NEW lane \in Lane, NEW p,
           InputStage(time) # "None"
    PROVE  Exact(Judged(time, lane, p))
<1> DEFINE r == Judged(time, lane, p)
<1>1. /\ Matches(p, time) =>
            r = Event(time, lane, Verdict(time - notes[p].target), notes[p].id,
                      time - notes[p].target)
      /\ ~Matches(p, time) => r = Event(time, lane, "Empty", NoNote, 0)
  BY DEF Judged
<1>2. CASE Matches(p, time)
  <2>1. PICK d : d = time - notes[p].target
    OBVIOUS
  <2>2. r = Event(time, lane, Verdict(d), notes[p].id, d)
    BY <1>1, <1>2, <2>1
  <2> HIDE DEF r
  <2>3. /\ r.event_ns = time /\ r.delay_ns = d /\ r.note_id = notes[p].id /\ r.lane = lane
        /\ r.stage = InputStage(time) /\ r.kind = Verdict(d)
    BY <2>2 DEF Event
  <2>4. p \in DOMAIN notes
    BY <1>2 DEF Matches
  <2>5. Exact(r)
    BY <2>1, <2>3, <2>4 DEF Exact
  <2>6. QED
    BY <2>5 DEF r
<1>3. CASE ~Matches(p, time)
  <2>1. r = Event(time, lane, "Empty", NoNote, 0)
    BY <1>1, <1>3
  <2> HIDE DEF r
  <2>2. /\ r.event_ns = time /\ r.delay_ns = 0 /\ r.note_id = NoNote /\ r.lane = lane
        /\ r.stage = InputStage(time) /\ r.kind = "Empty"
    BY <2>1 DEF Event
  <2>3. Exact(r)
    BY <2>2 DEF Exact
  <2>4. QED
    BY <2>3 DEF r
<1>4. QED
  BY <1>2, <1>3

LEMMA InitRunInv == ASSUME Init PROVE RunInv
<1>1. IInv /\ OneHitPerNote /\ LogReplays
  BY InitIInv, InitOneHit, InitReplays
<1>2. DOMAIN records = {}
  <2>1. records = <<>>
    BY DEF Init
  <2>2. QED
    BY <2>1
<1>3. notes \in Charts /\ ValidChart(notes)
  BY DEF Init
<1>4. ChartNumbered
  BY <1>3, ReplayAssumption DEF ChartNumbered, ValidChart
<1>5. QED
  BY <1>1, <1>2, <1>4 DEF RunInv, RecordsExact

LEMMA HitJudgedExact ==
    ASSUME IInv, RecordsExact, ChartNumbered,
           NEW time \in Times, NEW lane \in Lane, HitJudged(time, lane)
    PROVE  RecordsExact' /\ ChartNumbered'
<1>1. PICK p \in cursors[lane]..(Len(notes) + 1) :
          /\ StopsAt(time, lane, p)
          /\ records' = Append(records, Judged(time, lane, p))
          /\ Advance(time, lane, p)
  BY DEF HitJudged
<1>2. /\ TypeOK /\ time \in Nat /\ lane \in Nat /\ notes \in Seq(Note)
      /\ InputStage(time) # "None"
  BY HitFacts DEF IInv, TypeOK, HitJudged
<1> DEFINE r == Judged(time, lane, p)
<1>3. /\ Len(records) \in Nat
      /\ DOMAIN records = 1..Len(records)
      /\ DOMAIN records' = 1..(Len(records) + 1)
      /\ records'[Len(records) + 1] = r
      /\ \A k \in 1..Len(records) : records'[k] = records[k]
  BY <1>1, <1>2, RecordAppended
<1>4. Exact(r)
  BY <1>2, JudgedExact
<1> HIDE DEF r
<1>5. /\ Len(notes') = Len(notes)
      /\ DOMAIN notes' = DOMAIN notes
      /\ \A i \in DOMAIN notes :
            /\ notes'[i].id = notes[i].id
            /\ notes'[i].lane = notes[i].lane
            /\ notes'[i].target = notes[i].target
  BY ONLY <1>1, <1>2, AdvanceNotes
<1>6. ASSUME NEW k \in DOMAIN records' PROVE Exact(records[k])'
  <2>1. Exact(records'[k])
    <3>1. CASE k \in 1..Len(records)
      BY <1>3, <3>1 DEF RecordsExact
    <3>2. CASE k = Len(records) + 1
      BY <1>3, <1>4, <3>2
    <3>3. QED
      BY <1>3, <3>1, <3>2
  <2>2. QED
    BY <1>5, <2>1 DEF Exact
<1>7. QED
  BY <1>5, <1>6 DEF RecordsExact, ChartNumbered

LEMMA NextRunInv == ASSUME RunInv, [Next]_vars PROVE RunInv'
<1>1. IInv' /\ OneHitPerNote' /\ LogReplays'
  BY NextIInv, NextOneHit, NextReplays DEF RunInv
<1>2. CASE UNCHANGED <<notes, records>>
  BY <1>1, <1>2 DEF RunInv, RecordsExact, Exact, ChartNumbered
<1>3. ASSUME NEW time \in Times, NEW lane \in Lane, HitJudged(time, lane) PROVE RunInv'
  BY <1>1, <1>3, HitJudgedExact DEF RunInv
<1>4. QED
  BY <1>2, <1>3, OtherStepsKeepNotesAndLog

-----------------------------------------------------------------------------
(* The summaries after n rows, and how a row changes them. *)

(* The first n rows of a stage, as far as they are of some kinds.           *)
Done(n, s, kinds) == {k \in 1..n : records[k].stage = s /\ records[k].kind \in kinds}

Score(n, p, g, e, h, x, d) ==
    [notes |-> n, perfect |-> p, good |-> g, empty |-> e, missed |-> n - h,
     raw_score |-> 2 * p + g - 5 * e, delay_sum |-> d + x, hit_delay_sum |-> d]

Tally(n, s) ==
    LET count(kinds) == Cardinality(Done(n, s, kinds))
    IN  Score(Cardinality(NotesOf(s)), count({"Perfect"}), count({"Good"}), count({"Empty"}),
              count(Hits), EmptyDelayPenalty * count({"Empty"}), DelaysIn(Done(n, s, Hits)))

Tallies(n) == [s \in PlayedStage |-> Tally(n, s)]

(* One more row on a summary.                                               *)
LEMMA CountedScore ==
    ASSUME NEW n \in Int, NEW p \in Int, NEW g \in Int, NEW e \in Int, NEW h \in Int,
           NEW x \in Int, NEW d \in Int, NEW r, r.delay \in Int
    PROVE  /\ r.kind = "Empty" =>
                Counted(Score(n, p, g, e, h, x, d), r)
                    = Score(n, p, g, e + 1, h, x + EmptyDelayPenalty, d)
           /\ r.kind = "Perfect" =>
                Counted(Score(n, p, g, e, h, x, d), r)
                    = Score(n, p + 1, g, e, h + 1, x, d + Magnitude(r.delay))
           /\ r.kind = "Good" =>
                Counted(Score(n, p, g, e, h, x, d), r)
                    = Score(n, p, g + 1, e, h + 1, x, d + Magnitude(r.delay))
<1>1. PICK m \in Int : m = Magnitude(r.delay)
  BY DEF Magnitude
<1>2. PICK q \in Int : q = EmptyDelayPenalty
  BY ReplayAssumption
<1> DEFINE a == Score(n, p, g, e, h, x, d)
<1>3. PICK u \in Int : u = n - h
  OBVIOUS
<1>4. PICK v \in Int : v = 2 * p + g - 5 * e
  OBVIOUS
<1>5. PICK w \in Int : w = d + x
  OBVIOUS
<1>6. a = [notes |-> n, perfect |-> p, good |-> g, empty |-> e, missed |-> u,
           raw_score |-> v, delay_sum |-> w, hit_delay_sum |-> d]
  BY <1>3, <1>4, <1>5 DEF Score
<1> HIDE DEF a
<1>7. ASSUME r.kind = "Empty" PROVE Counted(a, r) = Score(n, p, g, e + 1, h, x + q, d)
  <2>1. Counted(a, r) = [a EXCEPT !.empty = a.empty + 1, !.raw_score = a.raw_score - 5,
                                  !.delay_sum = a.delay_sum + q]
    BY <1>2, <1>7 DEF Counted
  <2>2. Counted(a, r) = [notes |-> n, perfect |-> p, good |-> g, empty |-> e + 1,
                         missed |-> u, raw_score |-> v - 5,
                         delay_sum |-> w + q, hit_delay_sum |-> d]
    BY <1>6, <2>1
  <2>3. v - 5 = 2 * p + g - 5 * (e + 1) /\ w + q = d + (x + q)
    BY <1>3, <1>4, <1>5
  <2>4. QED
    BY <1>3, <2>2, <2>3 DEF Score
<1>8. ASSUME r.kind = "Perfect" PROVE Counted(a, r) = Score(n, p + 1, g, e, h + 1, x, d + m)
  <2>1. Counted(a, r) = [a EXCEPT !.perfect = a.perfect + 1, !.good = a.good + 0,
                                  !.missed = a.missed - 1, !.raw_score = a.raw_score + 2,
                                  !.delay_sum = a.delay_sum + m,
                                  !.hit_delay_sum = a.hit_delay_sum + m]
    BY <1>1, <1>8 DEF Counted
  <2>2. Counted(a, r) = [notes |-> n, perfect |-> p + 1, good |-> g + 0, empty |-> e,
                         missed |-> u - 1, raw_score |-> v + 2,
                         delay_sum |-> w + m, hit_delay_sum |-> d + m]
    BY <1>6, <2>1
  <2>3. /\ v + 2 = 2 * (p + 1) + g - 5 * e /\ w + m = (d + m) + x
        /\ u - 1 = n - (h + 1) /\ g + 0 = g
    BY <1>3, <1>4, <1>5
  <2>4. QED
    BY <1>3, <2>2, <2>3 DEF Score
<1>9. ASSUME r.kind = "Good" PROVE Counted(a, r) = Score(n, p, g + 1, e, h + 1, x, d + m)
  <2>1. Counted(a, r) = [a EXCEPT !.perfect = a.perfect + 0, !.good = a.good + 1,
                                  !.missed = a.missed - 1, !.raw_score = a.raw_score + 1,
                                  !.delay_sum = a.delay_sum + m,
                                  !.hit_delay_sum = a.hit_delay_sum + m]
    BY <1>1, <1>9 DEF Counted
  <2>2. Counted(a, r) = [notes |-> n, perfect |-> p + 0, good |-> g + 1, empty |-> e,
                         missed |-> u - 1, raw_score |-> v + 1,
                         delay_sum |-> w + m, hit_delay_sum |-> d + m]
    BY <1>6, <2>1
  <2>3. /\ v + 1 = 2 * p + (g + 1) - 5 * e /\ w + m = (d + m) + x
        /\ u - 1 = n - (h + 1) /\ p + 0 = p
    BY <1>3, <1>4, <1>5
  <2>4. QED
    BY <1>3, <2>2, <2>3 DEF Score
<1>10. QED
  BY <1>1, <1>2, <1>7, <1>8, <1>9 DEF a

LEMMA RecordFacts ==
    ASSUME RunInv
    PROVE  /\ Len(records) \in Nat /\ DOMAIN records = 1..Len(records)
           /\ IsFiniteSet(DOMAIN records)
           /\ records \in Seq(Feedback)
           /\ \A k \in DOMAIN records :
                 /\ records[k] \in Feedback
                 /\ records[k].event_ns \in Nat
                 /\ records[k].delay_ns \in Int
                 /\ Magnitude(records[k].delay_ns) \in Nat
                 /\ records[k].lane \in Lane
                 /\ records[k].stage \in PlayedStage
                 /\ records[k].kind \in {"Perfect", "Good", "Empty"}
           /\ DelayOf \in [DOMAIN records -> Nat]
<1>1. records \in Seq(Feedback)
  BY DEF RunInv, IInv, TypeOK
<1>2. Len(records) \in Nat /\ DOMAIN records = 1..Len(records)
  BY <1>1, LenProperties
<1>3. IsFiniteSet(DOMAIN records)
  BY <1>2, FS_Interval
<1>4. ASSUME NEW k \in DOMAIN records
      PROVE  /\ records[k] \in Feedback
             /\ records[k].event_ns \in Nat
             /\ records[k].delay_ns \in Int
             /\ Magnitude(records[k].delay_ns) \in Nat
             /\ records[k].lane \in Lane
             /\ records[k].stage \in PlayedStage
             /\ records[k].kind \in {"Perfect", "Good", "Empty"}
  <2>1. records[k] \in Feedback
    BY <1>1, <1>2, ElementOfSeq
  <2>2. /\ records[k].event_ns \in Nat /\ records[k].delay_ns \in Int
        /\ records[k].stage \in Stage
    BY <2>1 DEF Feedback
  <2>3. Magnitude(records[k].delay_ns) \in Nat
    BY <2>2 DEF Magnitude
  <2>4. Exact(records[k])
    BY DEF RunInv, RecordsExact
  <2>5. records[k].kind \in {"Perfect", "Good", "Empty"}
    BY <2>4 DEF Exact, Verdict
  <2>6. records[k].lane \in Lane /\ records[k].stage # "None"
    BY <2>4 DEF Exact
  <2>7. QED
    BY <2>1, <2>2, <2>3, <2>5, <2>6 DEF Stage
<1>5. DelayOf \in [DOMAIN records -> Nat]
  BY <1>4 DEF DelayOf
<1>6. QED
  BY <1>1, <1>2, <1>3, <1>4, <1>5

(* A row adds one to each count it belongs to and its delay to the sum. *)
LEMMA DoneStep ==
    ASSUME RunInv, NEW n \in DOMAIN records, NEW s, NEW kinds
    PROVE  LET here == records[n].stage = s /\ records[n].kind \in kinds
           IN  /\ Cardinality(Done(n - 1, s, kinds)) \in Nat
               /\ Cardinality(Done(n, s, kinds))
                    = Cardinality(Done(n - 1, s, kinds)) + (IF here THEN 1 ELSE 0)
               /\ DelaysIn(Done(n - 1, s, kinds)) \in Nat
               /\ DelaysIn(Done(n, s, kinds))
                    = DelaysIn(Done(n - 1, s, kinds))
                        + (IF here THEN Magnitude(records[n].delay_ns) ELSE 0)
<1> DEFINE D == DOMAIN records
           A == Done(n - 1, s, kinds)
           B == Done(n, s, kinds)
           here == records[n].stage = s /\ records[n].kind \in kinds
<1>1. /\ n \in Nat /\ n >= 1 /\ n <= Len(records) /\ D = 1..Len(records) /\ IsFiniteSet(D)
      /\ Len(records) \in Nat /\ DelayOf \in [D -> Nat] /\
           DelayOf[n] = Magnitude(records[n].delay_ns)
  BY RecordFacts DEF DelayOf
<1>2. /\ A \in SUBSET D /\ B \in SUBSET D /\ n \notin A
      /\ here => B = A \cup {n}
      /\ ~here => B = A
  <2>1. 1..(n - 1) \subseteq D /\ 1..n \subseteq D /\ 1..n = 1..(n - 1) \cup {n}
        /\ n \notin 1..(n - 1)
    BY <1>1
  <2>2. QED
    BY <2>1 DEF Done
<1> HIDE DEF A, B, here
<1>3. IsFiniteSet(A)
  BY <1>1, <1>2, FS_Subset
<1>4. Cardinality(A) \in Nat
  BY <1>3, FS_CardinalityType
<1>5. here => Cardinality(B) = Cardinality(A) + 1
  <2>1. Cardinality(A \cup {n}) = Cardinality(A) + 1
    BY <1>2, <1>3, FS_AddElement
  <2>2. QED
    BY <1>2, <2>1
<1>6. PICK g : Sums(g, DelayOf, D)
  BY <1>1, SumExists
<1>7. DelaysIn(A) = g[A] /\ DelaysIn(B) = g[B] /\ g[A] \in Nat
  <2>1. g[A] \in Nat
    BY <1>2, <1>6 DEF Sums
  <2>2. DelaysIn(A) = g[A]
    BY <1>1, <1>2, <1>6, DelaysAre
  <2>3. DelaysIn(B) = g[B]
    BY <1>1, <1>2, <1>6, DelaysAre
  <2>4. QED
    BY <2>1, <2>2, <2>3
<1>8. here => g[B] = DelayOf[n] + g[A]
  <2>1. ASSUME here PROVE n \in B /\ B \ {n} = A
    BY <1>2, <2>1
  <2>2. here => g[B] = DelayOf[n] + g[B \ {n}]
    BY <1>1, <1>2, <1>6, <2>1, SumAnyOrder
  <2>3. QED
    BY <2>1, <2>2
<1>9. DelayOf[n] \in Nat
  BY <1>1
<1>10. /\ Cardinality(A) \in Nat
       /\ Cardinality(B) = Cardinality(A) + (IF here THEN 1 ELSE 0)
       /\ DelaysIn(A) \in Nat
       /\ DelaysIn(B) = DelaysIn(A) + (IF here THEN DelayOf[n] ELSE 0)
  BY <1>2, <1>4, <1>5, <1>7, <1>8, <1>9
<1>11. QED
  BY <1>1, <1>10 DEF A, B, here

(* The summary after row n is the one before it with the row counted.       *)
LEMMA TallyStep ==
    ASSUME RunInv, NEW n \in DOMAIN records, NEW s \in PlayedStage,
           NEW r, r.kind = records[n].kind, r.delay = records[n].delay_ns
    PROVE  Tally(n, s) = IF s = records[n].stage THEN Counted(Tally(n - 1, s), r)
                         ELSE Tally(n - 1, s)
<1> DEFINE p0 == Cardinality(Done(n - 1, s, {"Perfect"}))
           g0 == Cardinality(Done(n - 1, s, {"Good"}))
           e0 == Cardinality(Done(n - 1, s, {"Empty"}))
           h0 == Cardinality(Done(n - 1, s, Hits))
           d0 == DelaysIn(Done(n - 1, s, Hits))
           p1 == Cardinality(Done(n, s, {"Perfect"}))
           g1 == Cardinality(Done(n, s, {"Good"}))
           e1 == Cardinality(Done(n, s, {"Empty"}))
           h1 == Cardinality(Done(n, s, Hits))
           d1 == DelaysIn(Done(n, s, Hits))
           x0 == EmptyDelayPenalty * e0
           x1 == EmptyDelayPenalty * e1
           N  == Cardinality(NotesOf(s))
           m  == Magnitude(records[n].delay_ns)
           kind == records[n].kind
           here == records[n].stage = s
<1>1. /\ p0 \in Nat /\ p1 = p0 + (IF here /\ kind \in {"Perfect"} THEN 1 ELSE 0)
      /\ g0 \in Nat /\ g1 = g0 + (IF here /\ kind \in {"Good"} THEN 1 ELSE 0)
      /\ e0 \in Nat /\ e1 = e0 + (IF here /\ kind \in {"Empty"} THEN 1 ELSE 0)
      /\ h0 \in Nat /\ h1 = h0 + (IF here /\ kind \in Hits THEN 1 ELSE 0)
      /\ d0 \in Nat /\ d1 = d0 + (IF here /\ kind \in Hits THEN m ELSE 0)
  BY DoneStep
<1>2. kind \in {"Perfect", "Good", "Empty"} /\ m \in Nat /\ records[n].delay_ns \in Int
  BY RecordFacts
<1>3. N \in Nat
  <2>1. IsFiniteSet(DOMAIN notes) /\ NotesOf(s) \in SUBSET DOMAIN notes
    BY NoteElements, FS_Interval DEF RunInv, IInv, NotesOf
  <2>2. QED
    BY <2>1, FS_Subset, FS_CardinalityType
<1>4. Tally(n - 1, s) = Score(N, p0, g0, e0, h0, x0, d0)
      /\ Tally(n, s) = Score(N, p1, g1, e1, h1, x1, d1)
  BY DEF Tally
<1> HIDE DEF p0, g0, e0, h0, d0, p1, g1, e1, h1, d1, N, m
<1>5. EmptyDelayPenalty \in Nat
  BY ReplayAssumption
<1>6. x0 \in Nat /\ x1 = x0 + (IF here /\ kind = "Empty" THEN EmptyDelayPenalty ELSE 0)
  <2>1. x0 \in Nat /\ EmptyDelayPenalty * (e0 + 1) = EmptyDelayPenalty * e0 + EmptyDelayPenalty
    BY <1>1, <1>5
  <2>2. CASE here /\ kind = "Empty"
    BY <1>1, <2>1, <2>2
  <2>3. CASE ~(here /\ kind = "Empty")
    BY <1>1, <2>1, <2>3
  <2>4. QED
    BY <2>2, <2>3, <2>1, <1>5
<1> HIDE DEF x0, x1
<1>7. m = Magnitude(r.delay) /\ r.kind = kind /\ r.delay \in Int
  BY <1>2 DEF m
<1> HIDE DEF kind
<1>8. CASE ~here
  <2>1. p1 = p0 /\ g1 = g0 /\ e1 = e0 /\ h1 = h0 /\ d1 = d0 /\ x1 = x0
    BY <1>1, <1>6, <1>8
  <2>2. QED
    BY <1>4, <1>8, <2>1
<1>9. CASE here /\ kind = "Empty"
  <2>1. p1 = p0 /\ g1 = g0 /\ e1 = e0 + 1 /\ h1 = h0 /\ d1 = d0 /\ x1 = x0 + EmptyDelayPenalty
    BY <1>1, <1>6, <1>9 DEF Hits
  <2>2. Counted(Score(N, p0, g0, e0, h0, x0, d0), r)
          = Score(N, p0, g0, e0 + 1, h0, x0 + EmptyDelayPenalty, d0)
    BY <1>1, <1>3, <1>6, <1>7, <1>9, CountedScore
  <2>3. QED
    BY <1>4, <1>9, <2>1, <2>2
<1>10. CASE here /\ kind = "Perfect"
  <2>1. p1 = p0 + 1 /\ g1 = g0 /\ e1 = e0 /\ h1 = h0 + 1 /\ d1 = d0 + m /\ x1 = x0
    BY <1>1, <1>6, <1>10 DEF Hits
  <2>2. Counted(Score(N, p0, g0, e0, h0, x0, d0), r)
          = Score(N, p0 + 1, g0, e0, h0 + 1, x0, d0 + m)
    BY <1>1, <1>3, <1>6, <1>7, <1>10, CountedScore
  <2>3. QED
    BY <1>4, <1>10, <2>1, <2>2
<1>11. CASE here /\ kind = "Good"
  <2>1. p1 = p0 /\ g1 = g0 + 1 /\ e1 = e0 /\ h1 = h0 + 1 /\ d1 = d0 + m /\ x1 = x0
    BY <1>1, <1>6, <1>11 DEF Hits
  <2>2. Counted(Score(N, p0, g0, e0, h0, x0, d0), r)
          = Score(N, p0, g0 + 1, e0, h0 + 1, x0, d0 + m)
    BY <1>1, <1>3, <1>6, <1>7, <1>11, CountedScore
  <2>3. QED
    BY <1>4, <1>11, <2>1, <2>2
<1>12. QED
  BY <1>2, <1>8, <1>9, <1>10, <1>11 DEF kind

LEMMA TallyStart == ASSUME RunInv PROVE Tallies(0) = Empty
<1>1. ASSUME NEW s \in PlayedStage PROVE Tally(0, s) = Summary(s)
  <2>1. Done(0, s, {"Perfect"}) = {} /\ Done(0, s, {"Good"}) = {} /\ Done(0, s, {"Empty"}) = {}
        /\ Done(0, s, Hits) = {}
    BY DEF Done
  <2>2. DelaysIn({}) = 0
    <3>1. PICK g : Sums(g, DelayOf, DOMAIN records)
      BY RecordFacts, SumExists
    <3>2. {} \in SUBSET DOMAIN records
      OBVIOUS
    <3>3. DelaysIn({}) = g[{}]
      BY <3>1, <3>2, RecordFacts, DelaysAre
    <3>4. g[{}] = 0
      BY <3>1, <3>2 DEF Sums, SumStep
    <3>5. QED
      BY <3>3, <3>4
  <2>3. Cardinality({}) = 0
    BY FS_EmptySet
  <2>4. PICK N \in Int : N = Cardinality(NotesOf(s))
    <3>1. IsFiniteSet(DOMAIN notes) /\ NotesOf(s) \in SUBSET DOMAIN notes
      BY NoteElements, FS_Interval DEF RunInv, IInv, NotesOf
    <3>2. Cardinality(NotesOf(s)) \in Nat
      BY <3>1, FS_Subset, FS_CardinalityType
    <3>3. QED
      BY <3>2
  <2>5. EmptyDelayPenalty * 0 = 0
    BY ReplayAssumption
  <2>6. Tally(0, s) = Score(N, 0, 0, 0, 0, 0, 0)
    BY <2>1, <2>2, <2>3, <2>4, <2>5 DEF Tally
  <2>7. Summary(s) = [notes |-> N, perfect |-> 0, good |-> 0, empty |-> 0, missed |-> N,
                      raw_score |-> 0, delay_sum |-> 0, hit_delay_sum |-> 0]
    BY <2>4 DEF Summary
  <2>8. N - 0 = N /\ 2 * 0 + 0 - 5 * 0 = 0 /\ 0 + 0 = 0
    BY <2>4
  <2>9. QED
    BY <2>6, <2>7, <2>8 DEF Score
<1>2. QED
  BY <1>1 DEF Tallies, Empty

(* The records that are hits name notes of their stage, each another one. *)
LEMMA HitsWithin ==
    ASSUME RunInv, NEW s \in PlayedStage
    PROVE  /\ Cardinality(RecordsOf(s, Hits)) \in Nat
           /\ Cardinality(NotesOf(s)) \in Nat
           /\ Cardinality(RecordsOf(s, Hits)) <= Cardinality(NotesOf(s))
           /\ Cardinality(NotesOf(s)) <= Len(notes)
<1> DEFINE R == RecordsOf(s, Hits)
           N == NotesOf(s)
           f == [k \in R |-> records[k].note_id + 1]
<1>1. /\ DOMAIN notes = 1..Len(notes) /\ Len(notes) \in Nat
  BY NoteElements DEF RunInv, IInv
<1>2. IsFiniteSet(DOMAIN notes) /\ Cardinality(DOMAIN notes) = Len(notes) /\
        N \in SUBSET DOMAIN notes
  <2>1. /\ IsFiniteSet(1..Len(notes))
        /\ Cardinality(1..Len(notes)) = IF 1 > Len(notes) THEN 0 ELSE Len(notes) - 1 + 1
    <3>1. 1 \in Int /\ Len(notes) \in Int
      BY <1>1
    <3>2. QED
      BY ONLY <3>1, FS_Interval
  <2>2. N \in SUBSET DOMAIN notes
    BY DEF NotesOf
  <2>3. Cardinality(1..Len(notes)) = Len(notes)
    BY <1>1, <2>1
  <2>4. QED
    BY <1>1, <2>1, <2>2, <2>3
<1>3. IsFiniteSet(N) /\ Cardinality(N) \in Nat /\ Cardinality(N) <= Len(notes)
  <2>1. IsFiniteSet(N) /\ Cardinality(N) <= Cardinality(DOMAIN notes)
    BY <1>2, FS_Subset
  <2>2. QED
    BY <1>2, <2>1, FS_CardinalityType
<1>4. ASSUME NEW k \in R
      PROVE  f[k] \in N /\ records[k].note_id \in Nat
  <2>1. k \in DOMAIN records /\ records[k].stage = s /\ records[k].kind \in Hits
    BY DEF RecordsOf
  <2>2. records[k].kind # "Empty"
    BY <2>1 DEF Hits
  <2>3. Candidates(k) # {}
    BY <2>1, <2>2 DEF RunInv, LogReplays
  <2>4. PICK i \in Candidates(k) : records[k].note_id = notes[i].id /\
          records[k].stage = notes[i].stage
    BY <2>1, <2>3 DEF RunInv, LogReplays
  <2>5. i \in DOMAIN notes
    BY DEF Candidates
  <2>6. notes[i].id = i - 1 /\ i \in Nat /\ i >= 1
    BY <1>1, <2>5 DEF RunInv, ChartNumbered
  <2>7. f[k] = i /\ records[k].note_id \in Nat
    BY <2>4, <2>6
  <2>8. i \in N
    BY <2>1, <2>4, <2>5 DEF NotesOf
  <2>9. QED
    BY <2>7, <2>8
<1>5. \A j, k \in R : f[j] = f[k] => j = k
  <2> SUFFICES ASSUME NEW j \in R, NEW k \in R, f[j] = f[k] PROVE j = k
    OBVIOUS
  <2>1. records[j].note_id \in Nat /\ records[k].note_id \in Nat
    BY <1>4
  <2>2. records[j].note_id = records[k].note_id
    BY <2>1
  <2>3. j \in DOMAIN records /\ k \in DOMAIN records
    BY DEF RecordsOf
  <2>4. QED
    BY <2>1, <2>2, <2>3 DEF RunInv, OneHitPerNote, NoNote
<1>6. f \in Injection(R, N)
  <2>1. f \in [R -> N] /\ DOMAIN f = R
    BY <1>4
  <2> HIDE DEF f, R, N
  <2>2. QED
    BY <1>5, <2>1 DEF Injection, IsInjective
<1> HIDE DEF f, R, N
<1>7. IsFiniteSet(R) /\ Cardinality(R) <= Cardinality(N)
  BY <1>3, <1>6, FS_Injection
<1>8. QED
  BY <1>3, <1>7, FS_CardinalityType DEF R, N

(* What the engine reports is what the rows of its log add up to. *)
LEMMA TallyEnd ==
    ASSUME RunInv PROVE [s \in PlayedStage |-> results(s)] = Tallies(Len(records))
<1>1. ASSUME NEW s \in PlayedStage PROVE results(s) = Tally(Len(records), s)
  <2>1. ASSUME NEW kinds PROVE RecordsOf(s, kinds) = Done(Len(records), s, kinds)
    BY RecordFacts DEF RecordsOf, Done
  <2> DEFINE n == Len(records)
             p == Cardinality(Done(n, s, {"Perfect"}))
             g == Cardinality(Done(n, s, {"Good"}))
             e == Cardinality(Done(n, s, {"Empty"}))
             h == Cardinality(Done(n, s, Hits))
             d == DelaysIn(Done(n, s, Hits))
             N == Cardinality(NotesOf(s))
  <2>2. Delays(s) = d
    <3>1. Delays(s) = DelaysIn(RecordsOf(s, Hits))
      BY DEF Delays, DelaysIn, DelaysOf
    <3>2. QED
      BY <2>1, <3>1
  <2>3. missed(s) = N - h
    <3>1. h \in Nat /\ N \in Nat /\ h <= N /\ N <= Len(notes)
      BY <2>1, HitsWithin
    <3>2. Len(notes) < WordSize /\ WordSize \in Nat \ {0} /\ Len(notes) \in Nat
      BY NoteElements, EngineAssumption DEF RunInv, ChartNumbered, IInv
    <3>3. missed(s) = (N - h) % WordSize
      BY <2>1 DEF missed
    <3> HIDE DEF N, h
    <3>4. N - h \in 0..(WordSize - 1)
      BY <3>1, <3>2
    <3>5. QED
      BY <3>2, <3>3, <3>4
  <2>4. results(s) = [notes |-> N, perfect |-> p, good |-> g, empty |-> e, missed |-> missed(s),
                      raw_score |-> 2 * p + g - 5 * e,
                        delay_sum |-> Delays(s) + EmptyDelayPenalty * e,
                      hit_delay_sum |-> Delays(s)]
    BY <2>1 DEF results
  <2>5. Tally(n, s) = Score(N, p, g, e, h, EmptyDelayPenalty * e, d)
    BY DEF Tally
  <2> HIDE DEF p, g, e, h, d, N
  <2>6. QED
    BY <2>2, <2>3, <2>4, <2>5 DEF Score
<1>2. QED
  BY <1>1 DEF Tallies

-----------------------------------------------------------------------------
(* The cursors of the verifier.  A note they have passed is named by a row    *)
(* or too old for one, and so for all after it; none before them is named.    *)

(* What the verifier's cursors know after n rows of the engine's taps.      *)
ScanSound(n) ==
    /\ scan \in [Lane -> Nat \ {0}]
    /\ \A i \in DOMAIN notes :
          IF i < scan[notes[i].lane]
          THEN \E j \in 1..n : \/ records[j].note_id = notes[i].id
                               \/ notes[i].target < records[j].event_ns - GoodWindow
          ELSE \A j \in 1..n : records[j].note_id # notes[i].id

(* The verifier and the engine agree on stages.                             *)
LEMMA StageAtIs == ASSUME NEW time \in Nat PROVE StageAt(time) = InputStage(time)
<1> DEFINE P(s) == StageStart(s) - GoodWindow <= time /\ time < StageEnd(s) + GoodWindow
<1>1. /\ P("Calibration") <=> CalibrationStart - GoodWindow <= time /\ time < CalibrationTailEnd
      /\ P("Scored") <=> ScoredStart - GoodWindow <= time /\ time < Finish
      /\ ~(P("Calibration") /\ P("Scored"))
  BY TimelineAssumption DEF StageStart, StageEnd, CalibrationTailEnd, ScoredStart, ScoredEnd, Finish
<1>2. StageAt(time) = IF \E s \in PlayedStage : P(s) THEN CHOOSE s \in PlayedStage : P(s)
                      ELSE "None"
  BY DEF StageAt
<1> HIDE DEF P
<1>3. CASE P("Calibration")
  <2>1. ~P("Scored")
    BY <1>1, <1>3
  <2>2. StageAt(time) = CHOOSE s \in PlayedStage : P(s)
    BY <1>2, <1>3 DEF PlayedStage
  <2>3. PICK c : c = CHOOSE s \in PlayedStage : P(s)
    OBVIOUS
  <2>4. c \in PlayedStage /\ P(c)
    BY <1>3, <2>3 DEF PlayedStage
  <2>5. c = "Calibration"
    BY <2>1, <2>4 DEF PlayedStage
  <2>6. QED
    BY <1>1, <1>3, <2>2, <2>3, <2>5 DEF InputStage
<1>4. CASE P("Scored")
  <2>1. ~P("Calibration")
    BY <1>1, <1>4
  <2>2. StageAt(time) = CHOOSE s \in PlayedStage : P(s)
    BY <1>2, <1>4 DEF PlayedStage
  <2>3. PICK c : c = CHOOSE s \in PlayedStage : P(s)
    OBVIOUS
  <2>4. c \in PlayedStage /\ P(c)
    BY <1>4, <2>3 DEF PlayedStage
  <2>5. c = "Scored"
    BY <2>1, <2>4 DEF PlayedStage
  <2>6. QED
    BY <1>1, <1>4, <2>1, <2>2, <2>3, <2>5 DEF InputStage
<1>5. CASE ~P("Calibration") /\ ~P("Scored")
  BY <1>1, <1>2, <1>5 DEF InputStage, PlayedStage
<1>6. QED
  BY <1>3, <1>4, <1>5

LEMMA NoteFacts ==
    ASSUME RunInv
    PROVE  /\ Len(notes) \in Nat /\ DOMAIN notes = 1..Len(notes) /\ GoodWindow \in Nat
           /\ \A i \in DOMAIN notes :
                 /\ notes[i].id = i - 1 /\ notes[i].id # NoNote
                 /\ notes[i].lane \in Lane
                 /\ notes[i].target \in Nat
                 /\ notes[i].stage \in Stage
                 /\ TargetInStage(notes[i].target, notes[i].stage)
           /\ \A i, j \in DOMAIN notes : notes[i].id = notes[j].id => i = j
           /\ \A i, j \in DOMAIN notes : i < j =>
                 /\ notes[i].target <= notes[j].target
                 /\ notes[i].lane = notes[j].lane => notes[i].target < notes[j].target
<1>1. IInv /\ ChartNumbered /\ ChartSound
  BY DEF RunInv, IInv
<1>2. /\ Len(notes) \in Nat /\ DOMAIN notes = 1..Len(notes)
      /\ \A i \in DOMAIN notes : notes[i].target \in Nat /\ notes[i].stage \in Stage
  BY <1>1, NoteElements DEF IInv
<1>3. \A i \in DOMAIN notes : notes[i].id = i - 1
  BY <1>1 DEF ChartNumbered
<1>4. QED
  BY <1>1, <1>2, <1>3, TimelineAssumption DEF ChartSound, NoNote

(* A row of the taps of the log leads the verifier to what the record says. *)
LEMMA RowReplays ==
    ASSUME RunInv, NEW n \in DOMAIN records, ScanSound(n - 1),
           NEW r, r.event_ns = records[n].event_ns, r.lane = records[n].lane,
           NEW p \in scan[r.lane]..(Len(notes) + 1), Reaches(r, p)
    PROVE  /\ Expected(r, p).note = records[n].note_id
           /\ Expected(r, p).delay = records[n].delay_ns
           /\ Expected(r, p).kind = records[n].kind
           /\ StageAt(r.event_ns) = records[n].stage
           /\ Matched(r, p) => p \in DOMAIN notes /\ notes[p].lane = r.lane
                                 /\ records[n].note_id = notes[p].id
           /\ ~Matched(r, p) => records[n].note_id = NoNote
<1>1. PICK e \in Nat : e = records[n].event_ns
  BY RecordFacts
<1>2. PICK l \in Lane : l = records[n].lane
  BY RecordFacts
<1>3. scan[l] \in Nat \ {0} /\ p \in Nat /\ p >= 1 /\ scan[l] <= p /\ p <= Len(notes) + 1
  BY <1>2, NoteFacts DEF ScanSound
<1>4. \A j \in 1..(n - 1) : records[j].event_ns \in Nat /\ records[j].event_ns <= e
  <2>1. n \in 1..Len(records) /\ DOMAIN records = 1..Len(records) /\ Len(records) \in Nat
    BY RecordFacts
  <2>2. \A j \in 1..n : records[j].event_ns <= records[n].event_ns
    BY DEF RunInv, LogReplays
  <2>3. \A j \in 1..(n - 1) : j \in 1..n /\ j \in DOMAIN records
    BY <2>1
  <2>4. QED
    BY <1>1, <2>2, <2>3, RecordFacts
<1>5. ASSUME NEW i \in DOMAIN notes
      PROVE  i \in Candidates(n) <=>
               /\ notes[i].lane = l /\ notes[i].target - GoodWindow <= e
               /\ e <= notes[i].target + GoodWindow
               /\ \A j \in 1..(n - 1) : records[j].note_id # notes[i].id
  BY <1>1, <1>2 DEF Candidates
<1>6. Candidates(n) \subseteq DOMAIN notes
  BY DEF Candidates
<1>7. ASSUME NEW i \in Candidates(n) PROVE i >= p
  <2>1. /\ i \in DOMAIN notes /\ notes[i].lane = l /\ e <= notes[i].target + GoodWindow
        /\ \A j \in 1..(n - 1) : records[j].note_id # notes[i].id
    BY <1>5, <1>6
  <2>2. i \in Nat /\ notes[i].target \in Nat /\ GoodWindow \in Nat
    BY <2>1, NoteFacts
  <2>3. ~(i < scan[l])
    <3> SUFFICES ASSUME i < scan[l] PROVE FALSE
      OBVIOUS
    <3>1. PICK j \in 1..(n - 1) : notes[i].target < records[j].event_ns - GoodWindow
      BY <2>1 DEF ScanSound
    <3>2. QED
      BY <1>4, <2>1, <2>2, <3>1
  <2>4. ASSUME i \in scan[l]..(p - 1) PROVE FALSE
    <3>1. TooOld(i, e)
      BY <1>1, <1>2, <2>1, <2>4 DEF Reaches
    <3>2. QED
      BY <2>1, <2>2, <3>1 DEF TooOld
  <2>5. QED
    BY <1>3, <2>2, <2>3, <2>4
<1>8. StageAt(r.event_ns) = records[n].stage /\ InputStage(e) = records[n].stage
  <2>1. StageAt(e) = InputStage(e)
    BY StageAtIs
  <2>2. records[n].stage = InputStage(records[n].event_ns)
    BY DEF RunInv, RecordsExact, Exact
  <2>3. QED
    BY <1>1, <2>1, <2>2
<1>9. CASE Matched(r, p)
  <2>1. /\ p \in DOMAIN notes /\ notes[p].target <= e + GoodWindow
        /\ notes[p].lane = l /\ ~TooOld(p, e)
    BY <1>1, <1>2, <1>9 DEF Matched, Reaches
  <2>2. notes[p].target \in Nat /\ GoodWindow \in Nat
    BY <2>1, NoteFacts
  <2>3. p \in Candidates(n)
    <3>1. ~(p < scan[notes[p].lane])
      BY <1>3, <2>1
    <3>2. \A j \in 1..(n - 1) : records[j].note_id # notes[p].id
      BY <2>1, <3>1 DEF ScanSound
    <3>3. notes[p].target - GoodWindow <= e /\ e <= notes[p].target + GoodWindow
      BY <2>1, <2>2 DEF TooOld
    <3>4. QED
      BY <1>5, <2>1, <3>2, <3>3
  <2>4. PICK i \in Candidates(n) :
            /\ records[n].note_id = notes[i].id
            /\ records[n].kind \in Hits
            /\ \A j \in Candidates(n) : notes[i].target <= notes[j].target
    BY <2>3 DEF RunInv, LogReplays
  <2>5. i = p
    <3>1. i \in DOMAIN notes /\ notes[i].lane = l /\ notes[i].target <= notes[p].target /\ i >= p
      BY <1>5, <1>6, <1>7, <2>3, <2>4
    <3>2. i \in Nat /\ notes[i].target \in Nat
      BY <3>1, NoteFacts
    <3>3. p < i => notes[p].target < notes[i].target
      BY <2>1, <3>1, NoteFacts
    <3>4. QED
      BY <1>3, <2>2, <3>1, <3>2, <3>3
  <2>6. records[n].note_id = notes[p].id
    BY <2>4, <2>5
  <2>7. records[n].delay_ns = e - notes[p].target /\ records[n].kind = Verdict(e - notes[p].target)
    <3>1. records[n].kind # "Empty"
      BY <2>4 DEF Hits
    <3>2. PICK k \in DOMAIN notes :
              /\ records[n].note_id = notes[k].id
              /\ records[n].delay_ns = e - notes[k].target
              /\ records[n].kind = Verdict(records[n].delay_ns)
      BY <1>1, <3>1 DEF RunInv, RecordsExact, Exact
    <3>3. k = p
      BY <2>1, <2>6, <3>2, NoteFacts
    <3>4. QED
      BY <3>2, <3>3
  <2>8. Expected(r, p) = [note |-> notes[p].id, delay |-> e - notes[p].target,
                          kind |-> Verdict(e - notes[p].target)]
    BY <1>1, <1>9 DEF Expected, Verdict
  <2>9. QED
    BY <1>2, <1>8, <1>9, <2>1, <2>6, <2>7, <2>8
<1>10. CASE ~Matched(r, p)
  <2>1. ASSUME NEW i \in Candidates(n) PROVE FALSE
    <3>1. /\ i \in DOMAIN notes /\ notes[i].lane = l /\ i >= p
          /\ notes[i].target - GoodWindow <= e
      BY <1>5, <1>6, <1>7
    <3>2. i \in Nat /\ i <= Len(notes) /\ notes[i].target \in Nat /\ GoodWindow \in Nat
          /\ Len(notes) \in Nat /\ DOMAIN notes = 1..Len(notes)
      BY <3>1, NoteFacts
    <3>3. p \in DOMAIN notes
      BY <1>3, <3>1, <3>2
    <3>4. notes[p].lane = l /\ ~TooOld(p, e) /\ notes[p].target \in Nat
      BY <1>1, <1>2, <3>3, NoteFacts DEF Reaches
    <3>5. notes[p].target <= notes[i].target
      <4>1. p < i => notes[p].target <= notes[i].target
        BY <3>1, <3>3, NoteFacts
      <4>2. p = i => notes[p].target <= notes[i].target
        BY <3>4
      <4>3. QED
        BY <1>3, <3>1, <3>2, <4>1, <4>2
    <3>6. notes[p].target - GoodWindow <= e /\ e <= notes[p].target + GoodWindow
      BY <3>1, <3>2, <3>4, <3>5 DEF TooOld
    <3>7. InputStage(e) = notes[p].stage
      <4>1. /\ notes[p].stage \in Stage /\ TargetInStage(notes[p].target, notes[p].stage)
            /\ notes[p].target \in Int /\ e \in Int
        BY <3>3, <3>4, NoteFacts
      <4>2. QED
        BY <3>6, <4>1, StageAgreement
    <3>8. notes[p].target <= e + GoodWindow
      BY <3>2, <3>4, <3>6
    <3>9. QED
      BY <1>1, <1>8, <1>10, <3>3, <3>7, <3>8 DEF Matched
  <2>2. Candidates(n) = {}
    BY <2>1
  <2>3. records[n].kind = "Empty" /\ records[n].note_id = NoNote
    BY <2>2 DEF RunInv, LogReplays
  <2>4. records[n].delay_ns = 0
    BY <2>3 DEF RunInv, RecordsExact, Exact, Verdict
  <2>5. Expected(r, p) = [note |-> NoNote, delay |-> 0, kind |-> "Empty"]
    BY <1>10 DEF Expected
  <2>6. QED
    BY <1>8, <1>10, <2>3, <2>4, <2>5
<1>11. QED
  BY <1>9, <1>10

(* ... and moves its cursor to where the next row needs it.                 *)
LEMMA ScanAdvances ==
    ASSUME RunInv, NEW n \in DOMAIN records, ScanSound(n - 1),
           NEW r, r.event_ns = records[n].event_ns, r.lane = records[n].lane,
           NEW p \in scan[r.lane]..(Len(notes) + 1), Reaches(r, p),
           scan' = [scan EXCEPT ![r.lane] = IF Matched(r, p) THEN p + 1 ELSE p],
           UNCHANGED <<notes, records>>
    PROVE  ScanSound(n)'
<1>1. PICK l \in Lane : l = r.lane
  BY RecordFacts
<1>2. /\ Matched(r, p) => p \in DOMAIN notes /\ notes[p].lane = l
                            /\ records[n].note_id = notes[p].id
      /\ ~Matched(r, p) => records[n].note_id = NoNote
  BY <1>1, RowReplays
<1>3. /\ scan \in [Lane -> Nat \ {0}] /\ scan[l] \in Nat \ {0} /\ p \in Nat /\ p >= 1
      /\ scan[l] <= p
      /\ n \in Nat /\ n >= 1 /\ 1..n = 1..(n - 1) \cup {n}
  BY <1>1, NoteFacts, RecordFacts DEF ScanSound
<1>4. PICK q \in Nat : q = IF Matched(r, p) THEN p + 1 ELSE p
  BY <1>3
<1>5. scan' = [scan EXCEPT ![l] = q]
  BY <1>1, <1>4
<1>6. scan' \in [Lane -> Nat \ {0}]
  <2>1. q \in Nat \ {0}
    BY <1>3, <1>4
  <2>2. QED
    BY <1>3, <1>5, <2>1
<1>7. ASSUME NEW i \in DOMAIN notes
      PROVE  IF i < scan'[notes[i].lane]
             THEN \E j \in 1..n : \/ records[j].note_id = notes[i].id
                                  \/ notes[i].target < records[j].event_ns - GoodWindow
             ELSE \A j \in 1..n : records[j].note_id # notes[i].id
  <2>1. /\ i \in Nat /\ notes[i].lane \in Lane /\ notes[i].id # NoNote
        /\ \A k \in DOMAIN notes : notes[k].id = notes[i].id => k = i
    BY NoteFacts
  <2>2. IF i < scan[notes[i].lane]
        THEN \E j \in 1..(n - 1) : \/ records[j].note_id = notes[i].id
                                   \/ notes[i].target < records[j].event_ns - GoodWindow
        ELSE \A j \in 1..(n - 1) : records[j].note_id # notes[i].id
    BY DEF ScanSound
  <2>3. CASE notes[i].lane # l
    <3>1. scan'[notes[i].lane] = scan[notes[i].lane]
      BY <1>3, <1>5, <2>1, <2>3
    <3>2. records[n].note_id # notes[i].id
      BY <1>2, <2>1, <2>3
    <3>3. QED
      BY <1>3, <2>2, <3>1, <3>2
  <2>4. CASE notes[i].lane = l
    <3>1. scan'[notes[i].lane] = q
      BY <1>3, <1>5, <2>4
    <3>2. CASE i < scan[l]
      <4>1. i < q
        BY <1>3, <1>4, <2>1, <3>2
      <4>2. \E j \in 1..n : \/ records[j].note_id = notes[i].id
                            \/ notes[i].target < records[j].event_ns - GoodWindow
        BY <1>3, <2>2, <2>4, <3>2
      <4>3. QED
        BY <3>1, <4>1, <4>2
    <3>3. CASE i >= scan[l] /\ i < p
      <4>1. i < q
        BY <1>3, <1>4, <2>1, <3>3
      <4>2. TooOld(i, r.event_ns)
        <5>1. i \in scan[l]..(p - 1)
          BY <1>3, <2>1, <3>3
        <5>2. QED
          BY <1>1, <2>4, <5>1 DEF Reaches
      <4>3. notes[i].target < records[n].event_ns - GoodWindow
        BY <4>2 DEF TooOld
      <4>4. QED
        BY <1>3, <3>1, <4>1, <4>3
    <3>4. CASE i = p
      <4>1. CASE Matched(r, p)
        <5>1. i < q /\ records[n].note_id = notes[i].id
          BY <1>2, <1>3, <1>4, <3>4, <4>1
        <5>2. QED
          BY <1>3, <3>1, <5>1
      <4>2. CASE ~Matched(r, p)
        <5>1. ~(i < q) /\ records[n].note_id # notes[i].id /\ ~(i < scan[l])
          BY <1>2, <1>3, <1>4, <2>1, <3>4, <4>2
        <5>2. QED
          BY <1>3, <2>2, <2>4, <3>1, <5>1
      <4>3. QED
        BY <4>1, <4>2
    <3>5. CASE i > p
      <4>1. ~(i < q) /\ ~(i < scan[l])
        BY <1>3, <1>4, <2>1, <3>5
      <4>2. records[n].note_id # notes[i].id
        BY <1>2, <1>3, <2>1, <3>5
      <4>3. QED
        BY <1>3, <2>2, <2>4, <3>1, <4>1, <4>2
    <3>6. QED
      BY <1>3, <2>1, <3>2, <3>3, <3>4, <3>5
  <2>5. QED
    BY <2>3, <2>4
<1>8. QED
  BY <1>6, <1>7 DEF ScanSound

-----------------------------------------------------------------------------
(* What damage does to a log: it changes what rows claim of the same taps, or *)
(* how many rows there are, or their order in time.                           *)

(* A log is of the taps of the engine, of another length or out of order.   *)
SameTaps(s) ==
    /\ Len(s) = Len(records)
    /\ \A k \in DOMAIN records : s[k].event_ns = records[k].event_ns /\ s[k].lane = records[k].lane

Disordered(s) == \E k \in 1..(Len(s) - 1) : s[k].event_ns > s[k + 1].event_ns

LogShape(s) ==
    /\ s \in Seq(Feedback)
    /\ SameTaps(s) \/ Len(s) # Len(records) \/ Disordered(s)

(* A row that is replaced by one of the same tap. *)
LEMMA RowReplaced ==
    ASSUME RunInv, NEW k \in DOMAIN records, NEW r \in Feedback,
           r.event_ns = records[k].event_ns, r.lane = records[k].lane,
           NEW s, s = [records EXCEPT ![k] = r]
    PROVE  LogShape(s)
<1>1. k \in 1..Len(records) /\ DOMAIN records = 1..Len(records) /\ records \in Seq(Feedback)
  BY RecordFacts
<1>2. /\ s \in Seq(Feedback) /\ Len(s) = Len(records)
      /\ \A j \in 1..Len(records) : s[j] = IF j = k THEN r ELSE records[j]
  BY <1>1, ExceptSeq
<1>3. SameTaps(s)
  BY <1>1, <1>2 DEF SameTaps
<1>4. QED
  BY <1>2, <1>3 DEF LogShape

LEMMA AlteredShape ==
    ASSUME RunInv, NEW k \in DOMAIN records, NEW s \in Altered(records, k)
    PROVE  LogShape(s)
<1>1. records[k] \in Feedback /\ records[k].delay_ns \in Int
  BY RecordFacts
<1>2. ASSUME NEW id \in {notes[i].id : i \in DOMAIN notes} \cup {NoNote},
             s = [records EXCEPT ![k].note_id = id]
      PROVE  LogShape(s)
  <2>1. PICK r : r = [records[k] EXCEPT !.note_id = id]
    OBVIOUS
  <2>2. id \in Nat \cup {NoNote}
    BY NoteElements DEF RunInv, IInv
  <2>3. r \in Feedback /\ r.event_ns = records[k].event_ns /\ r.lane = records[k].lane
    BY <1>1, <2>1, <2>2 DEF Feedback
  <2>4. s = [records EXCEPT ![k] = r]
    BY <1>2, <2>1
  <2>5. QED
    BY <2>3, <2>4, RowReplaced
<1>3. ASSUME NEW kind \in Hits \cup {"Empty"}, s = [records EXCEPT ![k].kind = kind]
      PROVE  LogShape(s)
  <2>1. PICK r : r = [records[k] EXCEPT !.kind = kind]
    OBVIOUS
  <2>2. kind \in Judgment
    BY DEF Hits, Judgment
  <2>3. r \in Feedback /\ r.event_ns = records[k].event_ns /\ r.lane = records[k].lane
    BY <1>1, <2>1, <2>2 DEF Feedback
  <2>4. s = [records EXCEPT ![k] = r]
    BY <1>3, <2>1
  <2>5. QED
    BY <2>3, <2>4, RowReplaced
<1>4. ASSUME NEW d \in {-1, 1}, s = [records EXCEPT ![k].delay_ns = @ + d]
      PROVE  LogShape(s)
  <2>1. PICK r : r = [records[k] EXCEPT !.delay_ns = @ + d]
    OBVIOUS
  <2>2. records[k].delay_ns + d \in Int
    BY <1>1
  <2>3. r \in Feedback /\ r.event_ns = records[k].event_ns /\ r.lane = records[k].lane
    BY <1>1, <2>1, <2>2 DEF Feedback
  <2>4. s = [records EXCEPT ![k] = r]
    BY <1>4, <2>1
  <2>5. QED
    BY <2>3, <2>4, RowReplaced
<1>5. QED
  BY <1>2, <1>3, <1>4 DEF Altered

(* The rows before a lost or repeated one, and those after it.              *)
LEMMA PartOfLog ==
    ASSUME RunInv, NEW a \in Nat, NEW b \in Nat, a >= 1, b <= Len(records)
    PROVE  /\ SubSeq(records, a, b) \in Seq(Feedback)
           /\ Len(SubSeq(records, a, b)) = IF a <= b THEN b - a + 1 ELSE 0
<1>1. \A i \in a..b : records[i] \in Feedback
  BY RecordFacts
<1>2. a \in Int /\ b \in Int
  OBVIOUS
<1>3. QED
  BY <1>1, <1>2, SubSeqProperties

LEMMA LostShape ==
    ASSUME RunInv, NEW k \in DOMAIN records PROVE LogShape(Without(records, k))
<1> DEFINE a == SubSeq(records, 1, k - 1)
           b == SubSeq(records, k + 1, Len(records))
<1>1. k \in Nat /\ k >= 1 /\ k <= Len(records) /\ Len(records) \in Nat
  BY RecordFacts
<1>2. a \in Seq(Feedback) /\ Len(a) = k - 1
  <2>1. 1 \in Nat /\ k - 1 \in Nat /\ 1 >= 1 /\ k - 1 <= Len(records)
    BY <1>1
  <2>2. a \in Seq(Feedback) /\ Len(a) = IF 1 <= k - 1 THEN (k - 1) - 1 + 1 ELSE 0
    BY <2>1, PartOfLog
  <2> HIDE DEF a
  <2>3. QED
    BY <1>1, <2>2
<1>3. b \in Seq(Feedback) /\ Len(b) = Len(records) - k
  <2>1. k + 1 \in Nat /\ k + 1 >= 1 /\ Len(records) <= Len(records)
    BY <1>1
  <2>2. b \in Seq(Feedback)
        /\ Len(b) = IF k + 1 <= Len(records) THEN Len(records) - (k + 1) + 1 ELSE 0
    BY <1>1, <2>1, PartOfLog
  <2> HIDE DEF b
  <2>3. QED
    BY <1>1, <2>2
<1>4. Without(records, k) = a \o b
  BY DEF Without
<1> HIDE DEF a, b
<1>5. a \o b \in Seq(Feedback) /\ Len(a \o b) = Len(a) + Len(b)
  BY <1>2, <1>3, ConcatProperties
<1>6. Len(a \o b) = Len(records) - 1
  BY <1>1, <1>2, <1>3, <1>5
<1>7. Len(a \o b) # Len(records)
  BY <1>1, <1>6
<1>8. QED
  BY <1>4, <1>5, <1>7 DEF LogShape

LEMMA RepeatedShape ==
    ASSUME RunInv, NEW k \in DOMAIN records PROVE LogShape(Repeated(records, k))
<1> DEFINE a == SubSeq(records, 1, k)
           b == SubSeq(records, k, Len(records))
<1>1. k \in Nat /\ k >= 1 /\ k <= Len(records) /\ Len(records) \in Nat
  BY RecordFacts
<1>2. a \in Seq(Feedback) /\ Len(a) = k
  <2>1. 1 \in Nat /\ 1 >= 1
    OBVIOUS
  <2>2. a \in Seq(Feedback) /\ Len(a) = IF 1 <= k THEN k - 1 + 1 ELSE 0
    BY <1>1, <2>1, PartOfLog
  <2> HIDE DEF a
  <2>3. QED
    BY <1>1, <2>2
<1>3. b \in Seq(Feedback) /\ Len(b) = Len(records) - k + 1
  <2>1. Len(records) <= Len(records)
    BY <1>1
  <2>2. b \in Seq(Feedback) /\ Len(b) = IF k <= Len(records) THEN Len(records) - k + 1 ELSE 0
    BY <1>1, <2>1, PartOfLog
  <2> HIDE DEF b
  <2>3. QED
    BY <1>1, <2>2
<1>4. Repeated(records, k) = a \o b
  BY DEF Repeated
<1> HIDE DEF a, b
<1>5. a \o b \in Seq(Feedback) /\ Len(a \o b) = Len(a) + Len(b)
  BY <1>2, <1>3, ConcatProperties
<1>6. Len(a \o b) = Len(records) + 1
  BY <1>1, <1>2, <1>3, <1>5
<1>7. Len(a \o b) # Len(records)
  BY <1>1, <1>6
<1>8. QED
  BY <1>4, <1>5, <1>7 DEF LogShape

(* Rows of different times that are exchanged are out of order.             *)
LEMMA ExchangedShape ==
    ASSUME RunInv, NEW s \in Exchanged(records) PROVE LogShape(s)
<1>1. PICK k \in DOMAIN records :
          /\ k < Len(records) /\ records[k].event_ns # records[k + 1].event_ns
          /\ s = [records EXCEPT ![k] = records[k + 1], ![k + 1] = records[k]]
  BY DEF Exchanged
<1>2. /\ k \in Nat /\ k >= 1 /\ k \in 1..Len(records) /\ k + 1 \in 1..Len(records)
      /\ Len(records) \in Nat /\ DOMAIN records = 1..Len(records) /\ records \in Seq(Feedback)
      /\ records[k] \in Feedback /\ records[k + 1] \in Feedback
      /\ records[k].event_ns \in Nat /\ records[k + 1].event_ns \in Nat
  BY <1>1, RecordFacts
<1>3. PICK t : t = [records EXCEPT ![k] = records[k + 1]]
  OBVIOUS
<1>4. t \in Seq(Feedback) /\ Len(t) = Len(records) /\ t[k] = records[k + 1]
  BY <1>2, <1>3, ExceptSeq
<1>5. s = [t EXCEPT ![k + 1] = records[k]]
  BY <1>1, <1>3
<1>6. s \in Seq(Feedback) /\ Len(s) = Len(records) /\ s[k + 1] = records[k] /\ s[k] = t[k]
  BY <1>2, <1>4, <1>5, ExceptSeq
<1>7. records[k].event_ns <= records[k + 1].event_ns
  <2>1. \A j \in 1..(k + 1) : records[j].event_ns <= records[k + 1].event_ns
    BY <1>2 DEF RunInv, LogReplays
  <2>2. QED
    BY <1>2, <2>1
<1>8. Disordered(s)
  <2>1. s[k].event_ns > s[k + 1].event_ns
    BY <1>1, <1>2, <1>4, <1>6, <1>7
  <2>2. k \in 1..(Len(s) - 1)
    BY <1>1, <1>2, <1>6
  <2>3. QED
    BY <2>1, <2>2 DEF Disordered
<1>9. QED
  BY <1>6, <1>8 DEF LogShape

(* Whatever was saved.                                                      *)
LEMMA SavedShape ==
    ASSUME RunInv, NEW s \in {records} \cup Damaged(records) PROVE LogShape(s)
<1>1. CASE s = records
  BY <1>1, RecordFacts DEF LogShape, SameTaps
<1>2. CASE s \in Damaged(records)
  BY <1>2, AlteredShape, LostShape, RepeatedShape, ExchangedShape DEF Damaged
<1>3. QED
  BY <1>1, <1>2

-----------------------------------------------------------------------------
(* The replay. *)

(* How many rows have been replayed. *)
Replayed == IF row > 0 THEN row - 1 ELSE 0

(* Steps that leave the run alone leave its summaries alone.                *)
LEMMA TalliesKept ==
    ASSUME UNCHANGED <<notes, records>>, NEW n, Replayed' = n
    PROVE  Tallies(Replayed)' = Tallies(n)
BY DEF Tallies, Tally, Done, NotesOf, DelaysIn

LEMMA ClaimsKept ==
    ASSUME UNCHANGED <<notes, records>>
    PROVE  Tallies(Len(records))' = Tallies(Len(records))
BY DEF Tallies, Tally, Done, NotesOf, DelaysIn

(* A summary, and the rows that were counted in it.                         *)
Sheet == [notes : Int, perfect : Int, good : Int, empty : Int, missed : Int,
          raw_score : Int, delay_sum : Int, hit_delay_sum : Int]

RowsOf(t) == t.perfect + t.good + t.empty

CountedRows(sheets) == RowsOf(sheets["Calibration"]) + RowsOf(sheets["Scored"])

(* A row is counted once, in its stage.                                     *)
LEMMA CountedOne ==
    ASSUME NEW t \in Sheet, NEW e, e.kind \in {"Perfect", "Good", "Empty"}, e.delay \in Int
    PROVE  Counted(t, e) \in Sheet /\ RowsOf(Counted(t, e)) = RowsOf(t) + 1
<1>1. PICK m \in Int : m = Magnitude(e.delay)
  BY DEF Magnitude
<1>2. PICK q \in Int : q = EmptyDelayPenalty
  BY ReplayAssumption
<1>3. /\ t = [notes |-> t.notes, perfect |-> t.perfect, good |-> t.good, empty |-> t.empty,
                missed |-> t.missed, raw_score |-> t.raw_score, delay_sum |-> t.delay_sum,
                hit_delay_sum |-> t.hit_delay_sum]
      /\ t.notes \in Int /\ t.perfect \in Int /\ t.good \in Int /\ t.empty \in Int
      /\ t.missed \in Int /\ t.raw_score \in Int /\ t.delay_sum \in Int
      /\ t.hit_delay_sum \in Int
  BY DEF Sheet
<1>4. CASE e.kind = "Empty"
  <2>1. Counted(t, e) = [t EXCEPT !.empty = t.empty + 1, !.raw_score = t.raw_score - 5,
                                  !.delay_sum = t.delay_sum + q]
    BY <1>2, <1>4 DEF Counted
  <2>2. Counted(t, e) = [notes |-> t.notes, perfect |-> t.perfect, good |-> t.good,
                         empty |-> t.empty + 1, missed |-> t.missed,
                         raw_score |-> t.raw_score - 5, delay_sum |-> t.delay_sum + q,
                         hit_delay_sum |-> t.hit_delay_sum]
    BY <1>3, <2>1
  <2>3. QED
    BY <1>2, <1>3, <2>2 DEF Sheet, RowsOf
<1>5. CASE e.kind = "Perfect"
  <2>1. Counted(t, e) = [t EXCEPT !.perfect = t.perfect + 1, !.good = t.good + 0,
                                  !.missed = t.missed - 1, !.raw_score = t.raw_score + 2,
                                  !.delay_sum = t.delay_sum + m,
                                  !.hit_delay_sum = t.hit_delay_sum + m]
    BY <1>1, <1>5 DEF Counted
  <2>2. Counted(t, e) = [notes |-> t.notes, perfect |-> t.perfect + 1, good |-> t.good + 0,
                         empty |-> t.empty, missed |-> t.missed - 1,
                         raw_score |-> t.raw_score + 2, delay_sum |-> t.delay_sum + m,
                         hit_delay_sum |-> t.hit_delay_sum + m]
    BY <1>3, <2>1
  <2>3. QED
    BY <1>1, <1>3, <2>2 DEF Sheet, RowsOf
<1>6. CASE e.kind = "Good"
  <2>1. Counted(t, e) = [t EXCEPT !.perfect = t.perfect + 0, !.good = t.good + 1,
                                  !.missed = t.missed - 1, !.raw_score = t.raw_score + 1,
                                  !.delay_sum = t.delay_sum + m,
                                  !.hit_delay_sum = t.hit_delay_sum + m]
    BY <1>1, <1>6 DEF Counted
  <2>2. Counted(t, e) = [notes |-> t.notes, perfect |-> t.perfect + 0, good |-> t.good + 1,
                         empty |-> t.empty, missed |-> t.missed - 1,
                         raw_score |-> t.raw_score + 1, delay_sum |-> t.delay_sum + m,
                         hit_delay_sum |-> t.hit_delay_sum + m]
    BY <1>3, <2>1
  <2>3. QED
    BY <1>1, <1>3, <2>2 DEF Sheet, RowsOf
<1>7. QED
  BY <1>4, <1>5, <1>6

LEMMA CountedRow ==
    ASSUME NEW sheets \in [PlayedStage -> Sheet], NEW s \in PlayedStage,
           NEW t \in Sheet, RowsOf(t) = RowsOf(sheets[s]) + 1
    PROVE  /\ [sheets EXCEPT ![s] = t] \in [PlayedStage -> Sheet]
           /\ CountedRows([sheets EXCEPT ![s] = t]) = CountedRows(sheets) + 1
<1>1. PICK next : next = [sheets EXCEPT ![s] = t]
  OBVIOUS
<1>2. next \in [PlayedStage -> Sheet]
  BY <1>1
<1>3. \A z \in PlayedStage : RowsOf(sheets[z]) \in Int
  BY DEF Sheet, RowsOf
<1>4. /\ "Calibration" \in PlayedStage /\ "Scored" \in PlayedStage
      /\ s = "Calibration" \/ s = "Scored"
  BY DEF PlayedStage
<1>5. \A z \in PlayedStage : next[z] = IF z = s THEN t ELSE sheets[z]
  BY <1>1
<1>6. CountedRows(next) = CountedRows(sheets) + 1
  BY <1>3, <1>4, <1>5 DEF CountedRows
<1>7. QED
  BY <1>1, <1>2, <1>6

LEMMA EmptyCounts ==
    ASSUME RunInv PROVE Empty \in [PlayedStage -> Sheet] /\ CountedRows(Empty) = 0
<1>1. ASSUME NEW s \in PlayedStage PROVE Summary(s) \in Sheet /\ RowsOf(Summary(s)) = 0
  <2>1. Cardinality(NotesOf(s)) \in Int
    BY HitsWithin
  <2>2. QED
    BY <2>1 DEF Summary, Sheet, RowsOf
<1>2. "Calibration" \in PlayedStage /\ "Scored" \in PlayedStage
  BY DEF PlayedStage
<1>3. QED
  BY <1>1, <1>2 DEF Empty, CountedRows

LEMMA TalliesStep ==
    ASSUME RunInv, NEW n \in DOMAIN records,
           NEW e, e.kind = records[n].kind, e.delay = records[n].delay_ns
    PROVE  Tallies(n) = [Tallies(n - 1) EXCEPT ![records[n].stage] = Counted(@, e)]
<1>1. \A s \in PlayedStage :
          Tally(n, s) = IF s = records[n].stage THEN Counted(Tally(n - 1, s), e) ELSE Tally(n - 1,
            s)
  BY TallyStep
<1>2. QED
  BY <1>1 DEF Tallies

(* As many rows are counted as there are. *)
LEMMA AllCounted ==
    ASSUME RunInv
    PROVE  CountedRows(Tallies(Len(records))) = Len(records)
<1> DEFINE T == {n \in Nat : n <= Len(records) =>
                    Tallies(n) \in [PlayedStage -> Sheet] /\ CountedRows(Tallies(n)) = n}
<1>1. 0 \in T
  BY TallyStart, EmptyCounts
<1>2. ASSUME NEW n \in T \cap Nat PROVE n + 1 \in T
  <2> SUFFICES ASSUME n + 1 <= Len(records)
               PROVE  /\ Tallies(n + 1) \in [PlayedStage -> Sheet]
                      /\ CountedRows(Tallies(n + 1)) = n + 1
    BY <1>2
  <2>1. n \in Nat /\ n + 1 \in DOMAIN records /\ (n + 1) - 1 = n /\ n <= Len(records)
    BY <1>2, RecordFacts
  <2>2. Tallies(n) \in [PlayedStage -> Sheet] /\ CountedRows(Tallies(n)) = n
    BY <1>2, <2>1
  <2> HIDE DEF T
  <2>3. PICK m : m = n + 1
    OBVIOUS
  <2>4. PICK e : e = [kind |-> records[m].kind, delay |-> records[m].delay_ns]
    OBVIOUS
  <2>5. e.kind = records[m].kind /\ e.delay = records[m].delay_ns
    BY <2>4
  <2>6. Tallies(m) = [Tallies(m - 1) EXCEPT ![records[m].stage] = Counted(@, e)]
    BY <2>1, <2>3, <2>5, TalliesStep
  <2>7. /\ records[m].stage \in PlayedStage /\ e.kind \in {"Perfect", "Good", "Empty"}
        /\ e.delay \in Int
    BY <2>1, <2>3, <2>5, RecordFacts
  <2>8. m - 1 = n
    BY <2>1, <2>3
  <2>9. Tallies(m) = [Tallies(n) EXCEPT ![records[m].stage] = Counted(@, e)]
    BY <2>6, <2>8
  <2>10. PICK a : a = Tallies(n)
    OBVIOUS
  <2>11. PICK b : b = Tallies(m)
    OBVIOUS
  <2>12. b \in [PlayedStage -> Sheet] /\ CountedRows(b) = CountedRows(a) + 1
    <3>1. PICK s \in PlayedStage : s = records[m].stage
      BY <2>7
    <3>2. a \in [PlayedStage -> Sheet] /\ b = [a EXCEPT ![s] = Counted(@, e)]
      BY <2>2, <2>9, <2>10, <2>11, <3>1
    <3>3. e.kind \in {"Perfect", "Good", "Empty"} /\ e.delay \in Int
      BY <2>7
    <3>4. PICK t : t = Counted(a[s], e)
      OBVIOUS
    <3>5. t \in Sheet /\ RowsOf(t) = RowsOf(a[s]) + 1
      BY <3>1, <3>2, <3>3, <3>4, CountedOne
    <3>6. b = [a EXCEPT ![s] = t]
      BY <3>2, <3>4
    <3>7. /\ [a EXCEPT ![s] = t] \in [PlayedStage -> Sheet]
          /\ CountedRows([a EXCEPT ![s] = t]) = CountedRows(a) + 1
      <4>1. s \in PlayedStage
        BY <3>1
      <4>2. a \in [PlayedStage -> Sheet]
        BY <3>2
      <4>3. QED
        BY ONLY <4>1, <4>2, <3>5, CountedRow, Zenon
    <3>8. QED
      BY ONLY <3>6, <3>7
  <2>13. QED
    BY <2>2, <2>3, <2>10, <2>11, <2>12
<1> HIDE DEF T
<1>3. Nat \subseteq T
  BY <1>1, <1>2, SetInduction
<1>4. Len(records) \in T /\ Len(records) \in Nat
  BY <1>3, RecordFacts
<1>5. QED
  BY <1>4 DEF T

LEMMA ExpectedType ==
    ASSUME RunInv, NEW r, r.event_ns \in Nat, NEW p
    PROVE  /\ Expected(r, p).kind \in {"Perfect", "Good", "Empty"}
           /\ Expected(r, p).delay \in Int
<1>1. CASE Matched(r, p)
  <2>1. PICK d \in Int : d = r.event_ns - notes[p].target
    BY <1>1, NoteFacts DEF Matched
  <2>2. PICK k \in {"Perfect", "Good"} :
            k = IF Magnitude(d) <= PerfectWindow THEN "Perfect" ELSE "Good"
    OBVIOUS
  <2>3. Expected(r, p) = [note |-> notes[p].id, delay |-> d, kind |-> k]
    BY <1>1, <2>1, <2>2 DEF Expected
  <2>4. QED
    BY <2>3
<1>2. CASE ~Matched(r, p)
  BY <1>2 DEF Expected
<1>3. QED
  BY <1>1, <1>2

-----------------------------------------------------------------------------
(* The invariant of the replay, part by part. *)

Unsaved ==
    row = Playing =>
        log = <<>> /\ scan = [l \in Lane |-> 1] /\ summaries = Empty /\ verdict = "open"

SavedOk ==
    row # Playing =>
        LogShape(log) /\ claimed = Tallies(Len(records)) /\ Replayed <= Len(log)

RowsInOrder ==
    row # Playing => \A k \in 2..Replayed : log[k - 1].event_ns <= log[k].event_ns

SheetsCount ==
    row # Playing =>
        summaries \in [PlayedStage -> Sheet] /\ CountedRows(summaries) = Replayed

(* As long as the taps of the log are the engine's, so are the judgements. *)
TapsReplay ==
    row # Playing /\ SameTaps(log) =>
        /\ ScanSound(Replayed)
        /\ summaries = Tallies(Replayed)
        /\ verdict # "rejected" => \A k \in 1..Replayed : log[k] = records[k]

Concluded ==
    verdict = "consistent" => row # Playing /\ Replayed = Len(log) /\ claimed = summaries

(* The inductive invariant.                                                 *)
ReplayInv ==
    /\ RunInv
    /\ row \in {Playing} \cup Nat
    /\ verdict \in {"open", "consistent", "rejected"}
    /\ Unsaved /\ SavedOk /\ RowsInOrder /\ SheetsCount /\ TapsReplay /\ Concluded
    /\ GenuineAccepted

LEMMA InitReplay == ASSUME ReplayInit PROVE ReplayInv
<1>1. RunInv
  BY InitRunInv DEF ReplayInit
<1>2. row = Playing /\ verdict = "open" /\ Unsaved
  BY DEF ReplayInit, Unsaved
<1>3. QED
  BY <1>1, <1>2 DEF ReplayInv, SavedOk, RowsInOrder, SheetsCount, TapsReplay, Concluded,
     GenuineAccepted

(* What a step that leaves the run alone leaves alone. *)
LEMMA ReplayKept ==
    ASSUME UNCHANGED <<vars, log>>
    PROVE  /\ LogShape(log)' <=> LogShape(log)
           /\ SameTaps(log)' <=> SameTaps(log)
           /\ (log = records)' <=> log = records
           /\ Tallies(Len(records))' = Tallies(Len(records))
<1>1. Tallies(Len(records))' = Tallies(Len(records))
  BY ClaimsKept DEF vars
<1>2. UNCHANGED <<records, log>>
  BY DEF vars
<1>3. QED
  BY <1>1, <1>2 DEF LogShape, SameTaps, Disordered

LEMMA RunKept == ASSUME RunInv, UNCHANGED vars PROVE RunInv'
BY NextRunInv

(* A step that leaves the replay where it is, or only ends it. *)
LEMMA RestKept ==
    ASSUME ReplayInv, UNCHANGED <<vars, row, log, claimed, scan, summaries>>,
           verdict' \in {verdict, "rejected", "consistent"},
           verdict' # verdict => row # Playing /\ verdict # "rejected",
           GenuineAccepted', Concluded'
    PROVE  ReplayInv'
<1>1. RunInv'
  BY RunKept DEF ReplayInv
<1>2. /\ LogShape(log)' <=> LogShape(log)
      /\ SameTaps(log)' <=> SameTaps(log)
      /\ Tallies(Len(records))' = Tallies(Len(records))
  BY ReplayKept
<1>3. Replayed' = Replayed /\ Tallies(Replayed)' = Tallies(Replayed)
  <2>1. Replayed' = Replayed
    BY DEF Replayed
  <2>2. QED
    BY <2>1, TalliesKept DEF vars
<1>4. Empty' = Empty
  BY DEF Empty, Summary, NotesOf, vars
<1>5. Unsaved'
  BY <1>4 DEF ReplayInv, Unsaved
<1>6. SavedOk'
  BY <1>2, <1>3 DEF ReplayInv, SavedOk
<1>7. RowsInOrder'
  BY <1>3 DEF ReplayInv, RowsInOrder
<1>8. SheetsCount'
  BY <1>3 DEF ReplayInv, SheetsCount, CountedRows, RowsOf
<1>9. TapsReplay'
  <2>1. ScanSound(Replayed)' <=> ScanSound(Replayed)
    BY <1>3 DEF ScanSound, vars
  <2>2. UNCHANGED <<log, records, row, summaries>>
    BY DEF vars
  <2>3. QED
    BY <1>2, <1>3, <2>1, <2>2 DEF ReplayInv, TapsReplay
<1>10. row' \in {Playing} \cup Nat /\ verdict' \in {"open", "consistent", "rejected"}
  BY DEF ReplayInv
<1>11. QED
  BY <1>1, <1>5, <1>6, <1>7, <1>8, <1>9, <1>10 DEF ReplayInv

(* A run changes what is consumed, never the stage of a note. *)
LEMMA NotesOfKept ==
    ASSUME RunInv, [Next]_vars, NEW s
    PROVE  NotesOf(s)' = NotesOf(s)
<1>1. CASE UNCHANGED <<notes, records>>
  BY <1>1 DEF NotesOf
<1>2. ASSUME NEW time \in Times, NEW lane \in Lane, HitJudged(time, lane)
      PROVE  NotesOf(s)' = NotesOf(s)
  <2>1. PICK p : Advance(time, lane, p)
    BY <1>2 DEF HitJudged
  <2>2. notes \in Seq(Note)
    BY DEF RunInv, IInv, TypeOK
  <2>3. DOMAIN notes' = DOMAIN notes /\ \A i \in DOMAIN notes : notes'[i].stage = notes[i].stage
    BY ONLY <2>1, <2>2, AdvanceNotes
  <2>4. QED
    BY <2>3 DEF NotesOf
<1>3. QED
  BY <1>1, <1>2, OtherStepsKeepNotesAndLog

LEMMA PlayInv == ASSUME ReplayInv, Play PROVE ReplayInv'
<1>1. RunInv'
  BY NextRunInv DEF ReplayInv, Play
<1>2. row = Playing /\ UNCHANGED replayVars
  BY DEF Play
<1>3. Empty' = Empty
  <2>1. ASSUME NEW s PROVE NotesOf(s)' = NotesOf(s)
    BY NotesOfKept DEF ReplayInv, Play
  <2>2. QED
    BY <2>1 DEF Empty, Summary
<1>4. Unsaved'
  BY <1>2, <1>3 DEF ReplayInv, Unsaved, replayVars
<1>5. verdict' = "open" /\ row' = Playing
  BY <1>2 DEF ReplayInv, Unsaved, replayVars
<1>6. QED
  BY <1>1, <1>4, <1>5 DEF ReplayInv, SavedOk, RowsInOrder, SheetsCount, TapsReplay, Concluded,
     GenuineAccepted

(* The log is damaged here, and here only.                                  *)
LEMMA SaveInv == ASSUME ReplayInv, Save PROVE ReplayInv'
<1>1. /\ row = Playing /\ row' = 0 /\ UNCHANGED <<vars, scan, summaries, verdict>>
      /\ log' \in {records} \cup Damaged(records)
      /\ claimed' = [s \in PlayedStage |-> results(s)]
  BY DEF Save
<1>2. RunInv /\ RunInv' /\ Replayed' = 0 /\ UNCHANGED <<notes, records>>
  BY <1>1, RunKept DEF ReplayInv, Replayed, vars
<1>3. row' # Playing
  BY <1>1 DEF Playing
<1>4. scan = [l \in Lane |-> 1] /\ summaries = Empty /\ verdict = "open"
  BY <1>1 DEF ReplayInv, Unsaved
<1>5. LogShape(log)'
  <2>1. LogShape(log')
    BY <1>1, <1>2, SavedShape
  <2>2. QED
    BY <1>2, <2>1 DEF LogShape, SameTaps, Disordered
<1>6. SavedOk'
  <2>1. claimed' = Tallies(Len(records))
    BY <1>1, <1>2, TallyEnd
  <2>2. claimed' = Tallies(Len(records))'
    BY <1>2, <2>1, ClaimsKept
  <2>3. Replayed' <= Len(log')
    BY <1>2, <1>5 DEF LogShape
  <2>4. QED
    BY <1>5, <2>2, <2>3 DEF SavedOk
<1>7. RowsInOrder'
  BY <1>2 DEF RowsInOrder
<1>8. SheetsCount'
  <2>1. Empty \in [PlayedStage -> Sheet] /\ CountedRows(Empty) = 0
    BY <1>2, EmptyCounts
  <2>2. summaries' = Empty
    BY <1>1, <1>4
  <2>3. QED
    BY <1>2, <2>1, <2>2 DEF SheetsCount
<1>9. TapsReplay'
  <2>1. ScanSound(Replayed)'
    <3>1. \A i \in DOMAIN notes : notes[i].lane \in Lane /\ i >= 1
      BY <1>2, NoteFacts
    <3>2. scan' = [l \in Lane |-> 1]
      BY <1>1, <1>4
    <3>3. scan' \in [Lane -> Nat \ {0}] /\ UNCHANGED notes
      BY <1>2, <3>2
    <3>4. \A i \in DOMAIN notes : ~(i < scan'[notes[i].lane])
      BY <3>1, <3>2, NoteFacts, <1>2
    <3>5. 1..(Replayed') = {}
      BY <1>2
    <3>6. QED
      BY <3>3, <3>4, <3>5 DEF ScanSound
  <2>2. Tallies(Replayed)' = Tallies(0)
    BY <1>2, TalliesKept
  <2>3. summaries' = Tallies(Replayed)'
    BY <1>1, <1>2, <1>4, <2>2, TallyStart
  <2>4. QED
    BY <1>2, <2>1, <2>3 DEF TapsReplay
<1>10. verdict' = "open" /\ row' \in {Playing} \cup Nat
  BY <1>1, <1>4
<1>11. QED
  BY <1>2, <1>3, <1>6, <1>7, <1>8, <1>9, <1>10 DEF ReplayInv, Unsaved, Concluded,
     GenuineAccepted

(* What generate_chart writes passes the checks of notes.csv. *)
LEMMA NotesPass == ASSUME RunInv PROVE NotesConsistent
<1>1. ASSUME NEW i \in DOMAIN notes
      PROVE  /\ notes[i].id = i - 1
             /\ notes[i].lane \in Lane
             /\ notes[i].stage \in PlayedStage
             /\ StageStart(notes[i].stage) <= notes[i].target
             /\ notes[i].target < StageEnd(notes[i].stage)
  BY NoteFacts DEF TargetInStage
<1>2. ASSUME NEW i \in DOMAIN notes, i > 1 PROVE notes[i - 1].target <= notes[i].target
  <2>1. i - 1 \in DOMAIN notes /\ i - 1 < i
    BY <1>2, NoteFacts
  <2>2. QED
    BY <2>1, NoteFacts
<1>3. ASSUME NEW i \in DOMAIN notes, NEW j \in 1..(i - 1), notes[j].lane = notes[i].lane
      PROVE  notes[i].target - notes[j].target >= LaneLock
  <2>1. j \in DOMAIN notes /\ j < i
    BY NoteFacts
  <2>2. QED
    BY <1>3, <2>1 DEF RunInv, ChartNumbered
<1>4. QED
  BY <1>1, <1>2, <1>3 DEF NotesConsistent

LEMMA VerifyNotesInv == ASSUME ReplayInv, VerifyNotes PROVE ReplayInv'
<1>1. RunInv /\ row = 0 /\ row' = 1 /\ verdict' = "open"
      /\ UNCHANGED <<vars, log, claimed, scan, summaries>>
  BY NotesPass DEF ReplayInv, VerifyNotes
<1>2. RunInv' /\ Replayed' = 0 /\ Replayed = 0 /\ row # Playing /\ row' # Playing
  BY <1>1, RunKept DEF Replayed, Playing
<1>3. /\ LogShape(log)' <=> LogShape(log)
      /\ SameTaps(log)' <=> SameTaps(log)
      /\ Tallies(Len(records))' = Tallies(Len(records))
      /\ Tallies(Replayed)' = Tallies(Replayed)
  BY <1>1, <1>2, ReplayKept, TalliesKept DEF vars
<1>4. SavedOk'
  BY <1>1, <1>2, <1>3 DEF ReplayInv, SavedOk
<1>5. RowsInOrder'
  BY <1>2 DEF RowsInOrder
<1>6. SheetsCount'
  BY <1>1, <1>2 DEF ReplayInv, SheetsCount, CountedRows, RowsOf
<1>7. TapsReplay'
  <2>1. ScanSound(Replayed)' <=> ScanSound(Replayed)
    BY <1>1, <1>2 DEF ScanSound, vars
  <2>2. 1..(Replayed') = {}
    BY <1>2
  <2>3. QED
    BY <1>1, <1>2, <1>3, <2>1, <2>2 DEF ReplayInv, TapsReplay
<1>8. QED
  BY <1>1, <1>2, <1>4, <1>5, <1>6, <1>7 DEF ReplayInv, Unsaved, Concluded, GenuineAccepted

(* The row being replayed. *)
LEMMA RowFacts ==
    ASSUME ReplayInv, Replaying
    PROVE  /\ row \in Nat /\ row >= 1 /\ row \in 1..Len(log) /\ Len(log) \in Nat
           /\ Replayed = row - 1 /\ row # Playing /\ verdict = "open"
           /\ log \in Seq(Feedback) /\ log[row] \in Feedback /\ log[row].event_ns \in Nat
           /\ SameTaps(log) => /\ row \in DOMAIN records
                               /\ log[row].event_ns = records[row].event_ns
                               /\ log[row].lane = records[row].lane
<1>1. verdict = "open" /\ row \in DOMAIN log /\ row # Playing
  <2>1. verdict = "open" /\ row \in DOMAIN log
    BY DEF Replaying
  <2>2. ASSUME row = Playing PROVE FALSE
    <3>1. log = <<>>
      BY <2>2 DEF ReplayInv, Unsaved
    <3>2. DOMAIN log = {}
      BY <3>1
    <3>3. QED
      BY <2>1, <3>2
  <2>3. QED
    BY <2>1, <2>2
<1>2. log \in Seq(Feedback)
  BY <1>1 DEF ReplayInv, SavedOk, LogShape
<1>3. Len(log) \in Nat /\ DOMAIN log = 1..Len(log)
  BY <1>2
<1>4. log[row] \in Feedback
  BY <1>1, <1>2
<1>5. log[row].event_ns \in Nat
  BY <1>4 DEF Feedback
<1>6. row \in Nat /\ row >= 1 /\ row \in 1..Len(log) /\ Replayed = row - 1
  BY <1>1, <1>3 DEF Replayed
<1>7. ASSUME SameTaps(log) PROVE row \in DOMAIN records
  <2>1. DOMAIN records = 1..Len(records)
    BY RecordFacts DEF ReplayInv
  <2>2. QED
    BY <1>6, <1>7, <2>1 DEF SameTaps
<1>8. QED
  BY <1>1, <1>2, <1>3, <1>4, <1>5, <1>6, <1>7 DEF SameTaps

(* No row of the engine is malformed.                                       *)
LEMMA RejectRowInv == ASSUME ReplayInv, RejectRow PROVE ReplayInv'
<1>1. Replaying /\ RowMalformed /\ verdict' = "rejected"
      /\ UNCHANGED <<vars, row, log, claimed, scan, summaries>>
  BY DEF RejectRow
<1>2. log # records
  <2> SUFFICES ASSUME log = records PROVE FALSE
    OBVIOUS
  <2>1. RunInv /\ SameTaps(log)
    BY DEF ReplayInv, SameTaps
  <2>2. /\ row \in Nat /\ row >= 1 /\ row \in DOMAIN records /\ log[row] = records[row]
        /\ records[row].event_ns \in Nat
    BY <1>1, <2>1, RowFacts
  <2>3. StageAt(log[row].event_ns) # "None"
    <3>1. Exact(records[row])
      BY <2>1, <2>2 DEF RunInv, RecordsExact
    <3>2. StageAt(records[row].event_ns) = InputStage(records[row].event_ns)
      BY <2>2, StageAtIs
    <3>3. QED
      BY <2>2, <3>1, <3>2 DEF Exact
  <2>4. row > 1 => ~(log[row].event_ns < log[row - 1].event_ns)
    <3>1. ASSUME row > 1 PROVE records[row - 1].event_ns <= records[row].event_ns
      <4>1. row - 1 \in 1..row
        BY <2>2, <3>1
      <4>2. QED
        BY <2>1, <2>2, <4>1 DEF RunInv, LogReplays
    <3>2. row > 1 => row - 1 \in DOMAIN records
      BY <2>1, <2>2, RecordFacts
    <3>3. row > 1 => records[row - 1].event_ns \in Nat
      BY <2>1, <3>2, RecordFacts
    <3>4. QED
      BY <2>2, <3>1, <3>3
  <2>5. QED
    BY <1>1, <2>3, <2>4 DEF RowMalformed
<1>3. (log = records)' <=> log = records
  BY <1>1, ReplayKept
<1>4. row # Playing /\ verdict = "open"
  BY <1>1, RowFacts
<1>5. GenuineAccepted' /\ Concluded'
  BY <1>1, <1>2, <1>3 DEF GenuineAccepted, Concluded
<1>6. QED
  BY <1>1, <1>4, <1>5, RestKept

(* The sums of the engine are those of the replay.                          *)
LEMMA VerifySummariesInv == ASSUME ReplayInv, VerifySummaries PROVE ReplayInv'
<1>1. /\ verdict = "open" /\ row = Len(log) + 1
      /\ verdict' = IF claimed = summaries THEN "consistent" ELSE "rejected"
      /\ UNCHANGED <<vars, row, log, claimed, scan, summaries>>
  BY DEF VerifySummaries
<1>2. row # Playing /\ Replayed = Len(log) /\ Len(log) \in Nat
  <2>1. Len(log) \in Nat
    <3>1. CASE row = Playing
      <4>1. log = <<>>
        BY <3>1 DEF ReplayInv, Unsaved
      <4>2. QED
        BY <4>1
    <3>2. CASE row # Playing
      <4>1. log \in Seq(Feedback)
        BY <3>2 DEF ReplayInv, SavedOk, LogShape
      <4>2. QED
        BY <4>1
    <3>3. QED
      BY <3>1, <3>2
  <2>2. QED
    BY <1>1, <2>1 DEF Replayed, Playing
<1>3. log = records => claimed = summaries
  <2> SUFFICES ASSUME log = records PROVE claimed = summaries
    OBVIOUS
  <2>1. SameTaps(log)
    BY DEF SameTaps
  <2>2. summaries = Tallies(Len(records))
    BY <1>2, <2>1 DEF ReplayInv, TapsReplay
  <2>3. QED
    BY <1>2, <2>2 DEF ReplayInv, SavedOk
<1>4. (log = records)' <=> log = records
  BY <1>1, ReplayKept
<1>5. GenuineAccepted'
  BY <1>1, <1>3, <1>4 DEF GenuineAccepted
<1>6. Concluded'
  <2>1. Replayed' = Replayed
    BY <1>1 DEF Replayed
  <2>2. QED
    BY <1>1, <1>2, <2>1 DEF Concluded
<1>7. QED
  BY <1>1, <1>2, <1>5, <1>6, RestKept

(* A row whose claims hold is the record. *)
LEMMA ClaimsAreRecord ==
    ASSUME RunInv, NEW n \in DOMAIN records, ScanSound(n - 1), NEW r \in Feedback,
           r.event_ns = records[n].event_ns, r.lane = records[n].lane,
           NEW p \in scan[r.lane]..(Len(notes) + 1), Reaches(r, p)
    PROVE  ClaimsHold(r, p) <=> r = records[n]
<1>1. /\ Expected(r, p).note = records[n].note_id
      /\ Expected(r, p).delay = records[n].delay_ns
      /\ Expected(r, p).kind = records[n].kind
      /\ StageAt(r.event_ns) = records[n].stage
  BY RowReplays
<1>2. ClaimsHold(r, p) <=> /\ r.note_id = records[n].note_id
                           /\ r.delay_ns = records[n].delay_ns
                           /\ r.kind = records[n].kind
                           /\ r.stage = records[n].stage
  BY <1>1 DEF ClaimsHold
<1>3. records[n] \in Feedback
  BY RecordFacts
<1>4. ASSUME ClaimsHold(r, p) PROVE r = records[n]
  <2>1. PICK s \in Feedback : s = records[n]
    BY <1>3
  <2>2. /\ r.event_ns = s.event_ns /\ r.lane = s.lane /\ r.note_id = s.note_id
        /\ r.delay_ns = s.delay_ns /\ r.kind = s.kind /\ r.stage = s.stage
    BY <1>2, <1>4, <2>1
  <2>3. r = s
    BY <2>2 DEF Feedback
  <2>4. QED
    BY <2>1, <2>3
<1>5. QED
  BY <1>2, <1>4

(* The step the proof is about.                                             *)
LEMMA VerifyRowInv == ASSUME ReplayInv, VerifyRow PROVE ReplayInv'
<1>1. Replaying /\ ~RowMalformed /\ row' = row + 1 /\ UNCHANGED <<vars, log, claimed>>
  BY DEF VerifyRow
<1>2. PICK r : r = log[row]
  OBVIOUS
<1>3. PICK p \in scan[r.lane]..(Len(notes) + 1) :
          /\ Reaches(r, p)
          /\ scan' = [scan EXCEPT ![r.lane] = IF Matched(r, p) THEN p + 1 ELSE p]
          /\ summaries' = [summaries EXCEPT ![StageAt(r.event_ns)] = Counted(@, Expected(r, p))]
          /\ verdict' = IF ClaimsHold(r, p) THEN "open" ELSE "rejected"
  BY <1>2 DEF VerifyRow
<1>4. /\ row \in Nat /\ row >= 1 /\ row \in 1..Len(log) /\ Len(log) \in Nat
      /\ Replayed = row - 1 /\ row # Playing /\ verdict = "open"
      /\ log \in Seq(Feedback) /\ r \in Feedback /\ r.event_ns \in Nat
      /\ SameTaps(log) => /\ row \in DOMAIN records
                          /\ r.event_ns = records[row].event_ns
                          /\ r.lane = records[row].lane
  BY <1>1, <1>2, RowFacts
<1>5. RunInv /\ RunInv' /\ Replayed' = row /\ row' # Playing /\ row' \in Nat
      /\ UNCHANGED <<notes, records>>
  BY <1>1, <1>4, RunKept DEF ReplayInv, Replayed, Playing, vars
<1>6. /\ LogShape(log)' <=> LogShape(log)
      /\ SameTaps(log)' <=> SameTaps(log)
      /\ (log = records)' <=> log = records
      /\ Tallies(Len(records))' = Tallies(Len(records))
      /\ Tallies(Replayed)' = Tallies(row)
  BY <1>1, <1>5, ReplayKept, TalliesKept
<1>7. SavedOk'
  <2>1. Replayed' <= Len(log')
    BY <1>1, <1>4, <1>5
  <2>2. QED
    BY <1>1, <1>4, <1>6, <2>1 DEF ReplayInv, SavedOk
<1>8. RowsInOrder'
  <2>1. \A k \in 2..(row - 1) : log[k - 1].event_ns <= log[k].event_ns
    BY <1>4 DEF ReplayInv, RowsInOrder
  <2>2. row > 1 => ~(log[row].event_ns < log[row - 1].event_ns)
    BY <1>1 DEF RowMalformed
  <2>3. ASSUME row > 1 PROVE log[row - 1].event_ns \in Nat /\ log[row].event_ns \in Nat
    <3>1. row - 1 \in 1..Len(log)
      BY <1>4, <2>3
    <3>2. log[row - 1] \in Feedback
      BY <1>4, <3>1
    <3>3. QED
      BY <1>2, <1>4, <3>2 DEF Feedback
  <2>4. row > 1 => log[row - 1].event_ns <= log[row].event_ns
    BY <2>2, <2>3
  <2>5. \A k \in 2..row : k \in 2..(row - 1) \/ (k = row /\ row > 1)
    BY <1>4
  <2>6. \A k \in 2..row : log[k - 1].event_ns <= log[k].event_ns
    BY <2>1, <2>4, <2>5
  <2>7. QED
    BY <1>1, <1>5, <2>6 DEF RowsInOrder
<1>9. PICK e : e = Expected(r, p)
  OBVIOUS
<1>10. e.kind \in {"Perfect", "Good", "Empty"} /\ e.delay \in Int
  BY <1>4, <1>5, <1>9, ExpectedType
<1>11. PICK s \in PlayedStage : s = StageAt(r.event_ns)
  <2>1. StageAt(r.event_ns) # "None"
    BY <1>1, <1>2 DEF RowMalformed
  <2>2. StageAt(r.event_ns) = InputStage(r.event_ns)
    BY <1>4, StageAtIs
  <2>3. StageAt(r.event_ns) \in PlayedStage
    BY <2>1, <2>2 DEF InputStage, PlayedStage
  <2>4. QED
    BY <2>3
<1>12. summaries' = [summaries EXCEPT ![s] = Counted(@, e)]
  BY <1>3, <1>9, <1>11
<1>13. SheetsCount'
  <2>1. summaries \in [PlayedStage -> Sheet] /\ CountedRows(summaries) = row - 1
    BY <1>4 DEF ReplayInv, SheetsCount
  <2>2. PICK t : t = Counted(summaries[s], e)
    OBVIOUS
  <2>3. t \in Sheet /\ RowsOf(t) = RowsOf(summaries[s]) + 1
    BY <1>10, <2>1, <2>2, CountedOne
  <2>4. summaries' = [summaries EXCEPT ![s] = t]
    BY <1>12, <2>2
  <2>5. s \in PlayedStage
    BY <1>11
  <2>6. summaries \in [PlayedStage -> Sheet]
    BY <2>1
  <2>7. /\ [summaries EXCEPT ![s] = t] \in [PlayedStage -> Sheet]
        /\ CountedRows([summaries EXCEPT ![s] = t]) = CountedRows(summaries) + 1
    BY ONLY <2>3, <2>5, <2>6, CountedRow, Zenon
  <2>8. summaries' \in [PlayedStage -> Sheet] /\ CountedRows(summaries') = row
    BY <1>4, <2>1, <2>4, <2>7
  <2>9. CountedRows(summaries)' = CountedRows(summaries')
    BY DEF CountedRows, RowsOf
  <2>10. QED
    BY <1>5, <2>8, <2>9 DEF SheetsCount
<1>14. PICK n : n = row
  OBVIOUS
<1>15. ASSUME SameTaps(log)
       PROVE  /\ ScanSound(n)'
              /\ summaries' = Tallies(row)
              /\ ClaimsHold(r, p) <=> r = records[row]
              /\ \A k \in 1..(row - 1) : log[k] = records[k]
  <2>1. /\ row \in DOMAIN records
        /\ r.event_ns = records[row].event_ns /\ r.lane = records[row].lane
    BY <1>4, <1>15
  <2>2. ScanSound(row - 1) /\ summaries = Tallies(row - 1)
        /\ \A k \in 1..(row - 1) : log[k] = records[k]
    BY <1>4, <1>15 DEF ReplayInv, TapsReplay
  <2>3. p \in scan[r.lane]..(Len(notes) + 1) /\ Reaches(r, p)
    BY <1>3
  <2>4. ScanSound(n)'
    <3>1. /\ n \in DOMAIN records /\ ScanSound(n - 1)
          /\ r.event_ns = records[n].event_ns /\ r.lane = records[n].lane
      BY <1>14, <2>1, <2>2
    <3>2. scan' = [scan EXCEPT ![r.lane] = IF Matched(r, p) THEN p + 1 ELSE p]
      BY <1>3
    <3>3. RunInv /\ UNCHANGED <<notes, records>>
      BY <1>5
    <3>4. QED
      BY ONLY <2>3, <3>1, <3>2, <3>3, ScanAdvances
  <2>5. /\ e.delay = records[row].delay_ns /\ e.kind = records[row].kind
        /\ s = records[row].stage
    BY <1>5, <1>9, <1>11, <2>1, <2>2, <2>3, RowReplays
  <2>6. Tallies(row) = [Tallies(row - 1) EXCEPT ![records[row].stage] = Counted(@, e)]
    BY <1>5, <2>1, <2>5, TalliesStep
  <2>7. summaries' = Tallies(row)
    BY <1>12, <2>2, <2>5, <2>6
  <2>8. ClaimsHold(r, p) <=> r = records[row]
    BY <1>4, <1>5, <2>1, <2>2, <2>3, ClaimsAreRecord
  <2>9. QED
    BY <2>2, <2>4, <2>7, <2>8
<1>16. TapsReplay'
  <2> SUFFICES ASSUME SameTaps(log)
               PROVE  /\ ScanSound(Replayed)'
                      /\ summaries' = Tallies(Replayed)'
                      /\ verdict' # "rejected" =>
                            \A k \in 1..(Replayed') : log'[k] = records'[k]
    BY <1>6 DEF TapsReplay
  <2>1. ScanSound(Replayed)'
    <3>1. ScanSound(n)' /\ Replayed' = n
      BY <1>5, <1>14, <1>15
    <3>2. QED
      BY <3>1 DEF ScanSound
  <2>2. summaries' = Tallies(Replayed)'
    BY <1>6, <1>15
  <2>3. ASSUME verdict' # "rejected" PROVE \A k \in 1..row : log[k] = records[k]
    <3>1. r = records[row] /\ log[row] = r
      BY <1>2, <1>3, <1>15, <2>3
    <3>2. \A k \in 1..row : k = row \/ k \in 1..(row - 1)
      BY <1>4
    <3>3. QED
      BY <1>15, <3>1, <3>2
  <2>4. QED
    BY <1>1, <1>5, <2>1, <2>2, <2>3
<1>17. verdict' \in {"open", "rejected"}
  BY <1>3
<1>18. GenuineAccepted'
  <2>1. ASSUME log = records PROVE verdict' = "open"
    <3>1. SameTaps(log)
      BY <2>1 DEF SameTaps
    <3>2. QED
      BY <1>2, <1>3, <1>15, <2>1, <3>1
  <2>2. QED
    BY <1>6, <2>1 DEF GenuineAccepted
<1>19. QED
  BY <1>5, <1>7, <1>8, <1>13, <1>16, <1>17, <1>18 DEF ReplayInv, Unsaved, Concluded

LEMMA NextReplay == ASSUME ReplayInv, [ReplayNext]_<<vars, replayVars>> PROVE ReplayInv'
<1>1. CASE UNCHANGED <<vars, replayVars>>
  <2>1. UNCHANGED <<vars, row, log, claimed, scan, summaries, verdict>>
    BY <1>1 DEF replayVars
  <2>2. GenuineAccepted' /\ Concluded'
    <3>1. (log = records)' <=> log = records
      BY <2>1, ReplayKept
    <3>2. Replayed' = Replayed
      BY <2>1 DEF Replayed
    <3>3. QED
      BY <2>1, <3>1, <3>2 DEF ReplayInv, GenuineAccepted, Concluded
  <2>3. QED
    BY <2>1, <2>2, RestKept
<1>2. CASE Verified
  BY <1>1, <1>2 DEF Verified
<1>3. QED
  BY <1>1, <1>2, PlayInv, SaveInv, VerifyNotesInv, VerifyRowInv, RejectRowInv,
     VerifySummariesInv DEF ReplayNext

(* The rows are counted once each, so a log of another length has other sums. *)
LEMMA ConsistentIsLog == ASSUME ReplayInv PROVE DamageDetected
<1> SUFFICES ASSUME verdict = "consistent" PROVE log = records
  BY DEF DamageDetected
<1>1. row # Playing /\ Replayed = Len(log) /\ claimed = summaries
  BY DEF ReplayInv, Concluded
<1>2. /\ LogShape(log) /\ claimed = Tallies(Len(records))
      /\ CountedRows(summaries) = Replayed
      /\ \A k \in 2..Replayed : log[k - 1].event_ns <= log[k].event_ns
      /\ SameTaps(log) => \A k \in 1..Replayed : log[k] = records[k]
  BY <1>1 DEF ReplayInv, SavedOk, SheetsCount, RowsInOrder, TapsReplay
<1>3. log \in Seq(Feedback) /\ Len(log) \in Nat /\ records \in Seq(Feedback)
  BY <1>2, RecordFacts DEF LogShape, ReplayInv
<1>4. Len(log) = Len(records)
  BY <1>1, <1>2, AllCounted DEF ReplayInv
<1>5. ~Disordered(log)
  <2>1. ASSUME NEW k \in 1..(Len(log) - 1) PROVE ~(log[k].event_ns > log[k + 1].event_ns)
    <3>1. k + 1 \in 2..Len(log) /\ (k + 1) - 1 = k /\ k \in 1..Len(log) /\ k + 1 \in 1..Len(log)
      BY <1>3
    <3>2. log[k].event_ns <= log[k + 1].event_ns
      BY <1>1, <1>2, <3>1
    <3>3. log[k] \in Feedback /\ log[k + 1] \in Feedback
      BY <1>3, <3>1
    <3>4. log[k].event_ns \in Nat /\ log[k + 1].event_ns \in Nat
      BY <3>3 DEF Feedback
    <3>5. QED
      BY <3>2, <3>4
  <2>2. QED
    BY <2>1 DEF Disordered
<1>6. SameTaps(log)
  BY <1>2, <1>4, <1>5 DEF LogShape
<1>7. \A k \in 1..Len(log) : log[k] = records[k]
  BY <1>1, <1>2, <1>6
<1>8. QED
  BY <1>3, <1>4, <1>7, SeqEqual

(* The verifier's cursors, which know nothing of consumed notes, reach for  *)
(* every tap the note the engine reached, and its sums are those of         *)
(* results: what the program saved is never rejected.                       *)
THEOREM GenuineCorrect == ReplaySpec => []GenuineAccepted
<1>1. ReplayInv => GenuineAccepted
  BY DEF ReplayInv
<1>2. QED
  BY <1>1, InitReplay, NextReplay, PTL DEF ReplaySpec

(* An altered claim is noticed at its row, rows exchanged by their order,   *)
(* and a row lost or repeated by the sums at the latest.                    *)
THEOREM DamageCorrect == ReplaySpec => []DamageDetected
BY InitReplay, NextReplay, ConsistentIsLog, PTL DEF ReplaySpec
=============================================================================
