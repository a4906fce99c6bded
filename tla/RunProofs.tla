----------------------------- MODULE RunProofs ------------------------------
(***************************************************************************)
(* One run of the native program, in the order src/main.cpp goes through   *)
(* it.                                                                     *)
(*   ChartGen: ChartAccepted and Unbiased, for every value of the timing   *)
(* constants, any number of lanes and of random words, and any waits.      *)
(*   Session: VerdictFrozen, NoBackwards and ExitMatchesReport, for any    *)
(* length of the trial, any number of events and keys and any clock.       *)
(***************************************************************************)
EXTENDS ChartGen, Session, FiniteSetTheorems, TLAPS

-----------------------------------------------------------------------------
(* Division. *)

LEMMA Division ==
    ASSUME NEW a \in Nat, NEW n \in Nat \ {0}
    PROVE  a = n * (a \div n) + (a % n) /\ a % n \in 0..(n - 1) /\ a \div n \in Nat
OBVIOUS

LEMMA Remainder ==
    ASSUME NEW q \in Nat, NEW r \in Nat, NEW n \in Nat \ {0}, r < n
    PROVE  (n * q + r) % n = r
OBVIOUS

LEMMA QuotientsApart ==
    ASSUME NEW a \in Nat, NEW b \in Nat, NEW n \in Nat \ {0}, a + n <= b
    PROVE  a \div n < b \div n
OBVIOUS

LEMMA QuotientBelow ==
    ASSUME NEW a \in Nat, NEW b \in Nat, NEW n \in Nat \ {0}, b % n = 0, a < b
    PROVE  a \div n < b \div n
OBVIOUS

-----------------------------------------------------------------------------
(* The chart.  The notes so far are no later than the last attempt, and     *)
(* their lanes are locked for LaneLock after them; there are no more        *)
(* attempts than ticks since the stage began.                               *)

Types ==
    /\ stage \in PlayedStage \cup {"Done", "Failed"}
    /\ target \in Nat
    /\ next_available \in [Lane -> Nat]
    /\ notes \in Seq(Note)
    /\ stats \in [PlayedStage -> [attempts : Nat, emitted : Nat, dropped : Nat]]

Attempts ==
    /\ stage \in PlayedStage =>
          /\ StageStart(stage) <= target /\ target < StageEnd(stage)
          /\ stats[stage].attempts <= target - StageStart(stage)
    /\ stage = "Calibration" => stats["Scored"].attempts = 0
    /\ \A s \in PlayedStage : stats[s].attempts < StageEnd(s) - StageStart(s)

Locked == \A k \in 1..Len(notes) :
    /\ stage \in PlayedStage => notes[k].target <= target
    /\ notes[k].target + LaneLock <= next_available[notes[k].lane]

Placed == \A k \in 1..Len(notes) :
    /\ notes[k].id = k - 1 /\ notes[k].lane \in Lane /\ ~notes[k].consumed
    /\ TargetInStage(notes[k].target, notes[k].stage)

Apart == \A j, k \in 1..Len(notes) : j < k =>
    /\ notes[j].target <= notes[k].target
    /\ notes[j].lane = notes[k].lane => notes[j].target + LaneLock <= notes[k].target

GInv == Types /\ Attempts /\ Locked /\ Placed /\ Apart

-----------------------------------------------------------------------------
LEMMA Elements == ASSUME NEW S, NEW s \in Seq(S) PROVE \A k \in 1..Len(s) : s[k] \in S
OBVIOUS

LEMMA Chart ==
    ASSUME GInv
    PROVE  /\ Len(notes) \in Nat /\ DOMAIN notes = 1..Len(notes)
           /\ \A k \in 1..Len(notes) : notes[k] \in Note /\ notes[k].target \in Nat
<1>1. \A k \in 1..Len(notes) : notes[k] \in Note
  BY Elements DEF GInv, Types
<1>2. \A note \in Note : note.target \in Nat
  BY DEF Note
<1>3. QED
  BY <1>1, <1>2 DEF GInv, Types

LEMMA Stages ==
    /\ \A s \in PlayedStage : /\ StageStart(s) \in Nat /\ StageEnd(s) \in Nat
                              /\ StageStart(s) < StageEnd(s) /\ StageStart(s) <= ScoredStart
    /\ StageStart("Scored") = ScoredStart /\ StageStart("Calibration") = CalibrationStart
    /\ CalibrationEnd <= ScoredStart /\ ScoredStart \in Nat
    /\ StageEnd("Calibration") = CalibrationEnd /\ StageEnd("Scored") = ScoredStart + ScoredLength
BY TimelineAssumption
DEF PlayedStage, StageStart, StageEnd, ScoredStart, ScoredEnd, CalibrationTailEnd

LEMMA Waits ==
    ASSUME GInv, NEW wait \in 0..MaxWait, Attempt(wait), stage \in PlayedStage
    PROVE  /\ stage' = stage /\ target' \in Nat /\ target < target'
           /\ StageStart(stage) <= target' /\ target' < StageEnd(stage)
           /\ stats[stage].attempts + 1 <= target' - StageStart(stage)
           /\ stats[stage].attempts + 1 < StageEnd(stage) - StageStart(stage)
           /\ stats[stage] \in [attempts : Nat, emitted : Nat, dropped : Nat]
<1>1. wait \in Nat /\ AtLeastOne(wait) \in Nat /\ AtLeastOne(wait) >= 1
  BY ChartGenAssumption DEF AtLeastOne
<1>2. stats[stage] \in [attempts : Nat, emitted : Nat, dropped : Nat] /\ target \in Nat
  BY DEF GInv, Types
<1>3. /\ StageStart(stage) \in Nat /\ StageEnd(stage) \in Nat
      /\ StageStart(stage) <= target /\ stats[stage].attempts <= target - StageStart(stage)
  BY Stages DEF GInv, Attempts
<1>4. QED
  BY <1>1, <1>2, <1>3 DEF Attempt

LEMMA InitGInv == ASSUME ChartInit PROVE GInv
<1>1. Types
  BY TimelineAssumption DEF ChartInit, Types, NoStats, PlayedStage
<1>2. Attempts
  BY Stages, TimelineAssumption DEF ChartInit, Attempts, NoStats, PlayedStage
<1>3. Locked /\ Placed /\ Apart
  BY DEF ChartInit, Locked, Placed, Apart
<1>4. QED
  BY <1>1, <1>2, <1>3 DEF GInv

LEMMA EndStageStep ==
    ASSUME GInv, stage \in PlayedStage, NEW wait \in 0..MaxWait, EndStage(wait) PROVE GInv'
<1>1. Types'
  BY Stages DEF GInv, Types, EndStage, PlayedStage
<1>2. Attempts'
  BY Stages, TimelineAssumption DEF GInv, Types, Attempts, EndStage, PlayedStage
<1>3. Locked'
  <2>1. ASSUME NEW k \in 1..Len(notes), stage = "Calibration"
        PROVE  notes[k].target <= ScoredStart
    <3>1. notes[k].target <= target /\ target < CalibrationEnd
      BY <2>1, Stages DEF GInv, Locked, Attempts, PlayedStage
    <3>2. notes[k].target \in Nat /\ target \in Nat
      BY Chart DEF GInv, Types
    <3>3. CalibrationEnd \in Nat /\ ScoredStart \in Nat /\ CalibrationEnd <= ScoredStart
      BY Stages DEF PlayedStage
    <3>4. QED
      BY <3>1, <3>2, <3>3
  <2>2. QED
    BY <2>1 DEF GInv, Locked, EndStage, PlayedStage
<1>4. Placed' /\ Apart'
  BY DEF GInv, Placed, Apart, EndStage
<1>5. QED
  BY <1>1, <1>2, <1>3, <1>4 DEF GInv

LEMMA DropStep ==
    ASSUME GInv, stage \in PlayedStage, NEW wait \in 0..MaxWait, Drop(wait) PROVE GInv'
<1>1. /\ stats' = [stats EXCEPT ![stage].attempts = @ + 1, ![stage].dropped = @ + 1]
      /\ UNCHANGED <<next_available, notes>> /\ Attempt(wait)
  BY DEF Drop
<1>2. Types'
  BY <1>1, Waits DEF GInv, Types
<1>3. /\ stats'[stage].attempts = stats[stage].attempts + 1
      /\ \A s \in PlayedStage : s # stage => stats'[s] = stats[s]
  BY <1>1 DEF GInv, Types
<1>4. Attempts'
  BY <1>1, <1>3, Waits DEF GInv, Attempts, PlayedStage
<1>5. Locked' /\ Placed' /\ Apart'
  <2>1. \A k \in 1..Len(notes) : notes[k].target \in Nat
    BY Chart
  <2>2. /\ UNCHANGED <<next_available, notes, stage>>
        /\ target \in Nat /\ target' \in Nat /\ target < target'
    BY <1>1, Waits DEF GInv, Types
  <2>3. Locked'
    BY <2>1, <2>2 DEF GInv, Locked
  <2>4. Placed' /\ Apart'
    BY <2>2 DEF GInv, Placed, Apart
  <2>5. QED
    BY <2>3, <2>4
<1>6. QED
  BY <1>2, <1>4, <1>5 DEF GInv

LEMMA EmitStep ==
    ASSUME GInv, stage \in PlayedStage, NEW wait \in 0..MaxWait, NEW word \in 0..(Words - 1),
           NEW lane \in Lane, Emit(wait, word, lane)
    PROVE  GInv'
<1> DEFINE note == [id |-> Len(notes), lane |-> lane, target |-> target', stage |-> stage,
                    consumed |-> FALSE]
<1>1. /\ Attempt(wait) /\ target' >= next_available[lane]
      /\ notes' = Append(notes, note) /\ stats' = Count(stage)
      /\ next_available' = [next_available EXCEPT ![lane] = target' + LaneLock]
  BY DEF Emit, EligibleAt
<1>2. note \in Note
  <2>1. lane \in Nat /\ Len(notes) \in Nat
    BY TimelineAssumption, Chart DEF Lane
  <2>2. target' \in Nat /\ stage \in Stage
    BY <1>1, Waits DEF Stage
  <2>3. QED
    BY <2>1, <2>2 DEF Note
<1>3. /\ note.id = Len(notes) /\ note.lane = lane /\ note.target = target'
      /\ note.stage = stage /\ ~note.consumed
  OBVIOUS
<1>4. /\ notes' \in Seq(Note) /\ Len(notes') = Len(notes) + 1 /\ Len(notes) \in Nat
      /\ notes'[Len(notes) + 1] = note /\ \A k \in 1..Len(notes) : notes'[k] = notes[k]
  BY <1>1, <1>2 DEF GInv, Types
<1> HIDE DEF note
<1>5. \A k \in 1..Len(notes') : k \in 1..Len(notes) \/ k = Len(notes) + 1
  BY <1>4
<1>6. \A k \in 1..Len(notes) : notes[k] \in Note /\ notes[k].target \in Nat /\
        notes[k].lane \in Lane
  BY Chart DEF GInv, Placed
<1>7. /\ stats'[stage].attempts = stats[stage].attempts + 1
      /\ \A s \in PlayedStage : s # stage => stats'[s] = stats[s]
  BY <1>1 DEF Count, GInv, Types
<1>8. /\ next_available'[lane] = target' + LaneLock
      /\ \A l \in Lane : l # lane => next_available'[l] = next_available[l]
      /\ next_available[lane] \in Nat
  BY <1>1 DEF GInv, Types
<1>9. Types'
  <2>1. stats' \in [PlayedStage -> [attempts : Nat, emitted : Nat, dropped : Nat]]
    <3>1. stats' = [stats EXCEPT ![stage].attempts = @ + 1, ![stage].emitted = @ + 1]
      BY <1>1 DEF Count
    <3>2. QED
      BY <3>1 DEF GInv, Types
  <2>2. next_available' \in [Lane -> Nat]
    <3>1. target' + LaneLock \in Nat
      BY <1>1, Waits, TimelineAssumption
    <3>2. QED
      BY <1>1, <3>1 DEF GInv, Types
  <2>3. QED
    BY <1>1, <1>4, <2>1, <2>2, Waits DEF Types
<1>10. Attempts'
  BY <1>1, <1>7, Waits DEF GInv, Attempts, PlayedStage
<1>11. Locked'
  <2>1. ASSUME NEW k \in 1..Len(notes)
        PROVE  /\ notes[k].target <= target'
               /\ notes[k].target + LaneLock <= next_available'[notes[k].lane]
    <3>1. notes[k].target <= target /\ notes[k].target + LaneLock <= next_available[notes[k].lane]
      BY DEF GInv, Locked
    <3>2. target' \in Nat /\ target \in Nat /\ target < target' /\ LaneLock \in Nat
      BY <1>1, Waits, TimelineAssumption DEF GInv, Types
    <3>3. notes[k].target \in Nat /\ notes[k].lane \in Lane
      BY <1>6
    <3>4. notes[k].target <= target'
      BY <3>1, <3>2, <3>3
    <3>5. CASE notes[k].lane = lane
      BY <1>8, <3>2, <3>3, <3>4, <3>5
    <3>6. CASE notes[k].lane # lane
      BY <1>8, <3>1, <3>3, <3>4, <3>6
    <3>7. QED
      BY <3>5, <3>6
  <2>2. note.target <= target' /\ note.target + LaneLock <= next_available'[note.lane]
    BY <1>1, <1>3, <1>8, Waits, TimelineAssumption
  <2>3. QED
    BY <1>4, <1>5, <2>1, <2>2 DEF Locked
<1>12. Placed'
  <2>1. TargetInStage(note.target, note.stage)
    BY <1>1, <1>3, Waits DEF TargetInStage
  <2>2. note.id = (Len(notes) + 1) - 1
    BY <1>3, <1>4
  <2>3. QED
    BY <1>3, <1>4, <1>5, <2>1, <2>2 DEF GInv, Placed
<1>13. Apart'
  <2>1. ASSUME NEW j \in 1..Len(notes)
        PROVE  /\ notes[j].target <= note.target
               /\ notes[j].lane = note.lane => notes[j].target + LaneLock <= note.target
    <3>1. notes[j].target <= target /\ notes[j].target + LaneLock <= next_available[notes[j].lane]
      BY DEF GInv, Locked
    <3>2. target' \in Nat /\ target \in Nat /\ target < target' /\ LaneLock \in Nat
      BY <1>1, Waits, TimelineAssumption DEF GInv, Types
    <3>3. notes[j].target \in Nat
      BY <1>6
    <3>4. notes[j].target <= note.target
      BY <1>3, <3>1, <3>2, <3>3
    <3>5. ASSUME notes[j].lane = note.lane PROVE notes[j].target + LaneLock <= note.target
      <4>1. notes[j].target + LaneLock <= next_available[lane] /\ next_available[lane] <= target'
        BY <1>1, <1>3, <1>8, <3>1, <3>2, <3>5
      <4>2. QED
        BY <1>3, <1>8, <3>2, <3>3, <4>1
    <3>6. QED
      BY <3>4, <3>5
  <2>2. \A j, k \in 1..Len(notes') : j < k => j \in 1..Len(notes)
    BY <1>4
  <2>3. QED
    BY <1>4, <1>5, <2>1, <2>2 DEF GInv, Apart
<1>14. QED
  BY <1>9, <1>10, <1>11, <1>12, <1>13 DEF GInv

LEMMA Inductive == ASSUME GInv, [ChartNext]_chartVars PROVE GInv'
<1>1. CASE Turn
  <2>1. CASE Fail
    <3>1. Types'
      BY <2>1 DEF Fail, GInv, Types, PlayedStage
    <3>2. Attempts' /\ Locked' /\ Placed' /\ Apart'
      BY <2>1 DEF Fail, GInv, Attempts, Locked, Placed, Apart, PlayedStage
    <3>3. QED
      BY <3>1, <3>2 DEF GInv
  <2>2. QED
    BY <1>1, <2>1, EndStageStep, DropStep, EmitStep DEF Turn
<1>2. CASE UNCHANGED chartVars
  BY <1>2 DEF chartVars, GInv, Types, Attempts, Locked, Placed, Apart
<1>3. QED
  BY <1>1, <1>2 DEF ChartNext, Finished

LEMMA GInvCorrect == ChartSpec => []GInv
BY InitGInv, Inductive, PTL DEF ChartSpec

-----------------------------------------------------------------------------
(* The capacity.  The locks that fit into the two stages number the places  *)
(* of a lane, and no two notes are in the same place of the same lane.      *)

Locks(s) == (StageEnd(s) - StageStart(s)) \div LaneLock

Capacity == (CalibrationEnd - CalibrationStart + ScoredLength) \div LaneLock

Spot(note) ==
    (IF note.stage = "Calibration" THEN 0 ELSE Locks("Calibration"))
        + (note.target - StageStart(note.stage)) \div LaneLock

LEMMA Capacities ==
    /\ Locks("Calibration") \in Nat /\ Locks("Scored") \in Nat /\ Capacity \in Nat
    /\ Locks("Calibration") + Locks("Scored") = Capacity
<1> DEFINE c == CalibrationEnd - CalibrationStart
<1>1. c \in Nat /\ ScoredLength \in Nat /\ LaneLock \in Nat \ {0}
  BY TimelineAssumption
<1>2. c % LaneLock = 0 /\ ScoredLength % LaneLock = 0
  BY ChartGenAssumption
<1>3. Locks("Calibration") = c \div LaneLock /\ Locks("Scored") = ScoredLength \div LaneLock
  <2>1. StageEnd("Scored") - StageStart("Scored") = ScoredLength
    BY Stages, <1>1
  <2>2. QED
    BY <2>1, Stages DEF Locks
<1> HIDE DEF c
<1>4. c = LaneLock * (c \div LaneLock) /\ c \div LaneLock \in Nat
  BY <1>1, <1>2, Division
<1>5. ScoredLength = LaneLock * (ScoredLength \div LaneLock) /\ ScoredLength \div LaneLock \in Nat
  BY <1>1, <1>2, Division
<1>6. (c + ScoredLength) \div LaneLock = (c \div LaneLock) + (ScoredLength \div LaneLock)
  BY <1>1, <1>4, <1>5
<1>7. QED
  BY <1>3, <1>4, <1>5, <1>6 DEF Capacity, c

LEMMA SpotBounds ==
    ASSUME NEW note \in Note, TargetInStage(note.target, note.stage)
    PROVE  /\ Spot(note) \in 0..(Capacity - 1)
           /\ note.stage = "Calibration" <=> Spot(note) < Locks("Calibration")
<1> DEFINE s == note.stage
<1> DEFINE a == note.target - StageStart(s)
<1> DEFINE b == StageEnd(s) - StageStart(s)
<1>1. /\ s \in PlayedStage /\ a \in Nat /\ b \in Nat /\ a < b /\ LaneLock \in Nat \ {0}
  BY Stages, TimelineAssumption DEF TargetInStage, Note
<1>2. b % LaneLock = 0
  <2>1. StageEnd("Scored") - StageStart("Scored") = ScoredLength
    BY Stages, TimelineAssumption
  <2>2. QED
    BY <1>1, <2>1, Stages, ChartGenAssumption DEF PlayedStage
<1>3. a \div LaneLock \in Nat /\ a \div LaneLock < b \div LaneLock
  <2> HIDE DEF a, b
  <2>1. QED
    BY <1>1, <1>2, Division, QuotientBelow
<1>4. a \div LaneLock < Locks(s)
  BY <1>3 DEF Locks
<1>5. Spot(note) = (IF s = "Calibration" THEN 0 ELSE Locks("Calibration")) + a \div LaneLock
  BY DEF Spot
<1> HIDE DEF a, b, s
<1>6. Spot(note) \in 0..(Capacity - 1) /\ (s = "Calibration" <=> Spot(note) < Locks("Calibration"))
  BY <1>1, <1>3, <1>4, <1>5, Capacities DEF PlayedStage
<1>7. QED
  BY <1>6 DEF s

LEMMA SpotsApart ==
    ASSUME NEW m \in Note, NEW n \in Note, TargetInStage(m.target, m.stage),
           TargetInStage(n.target, n.stage), m.target + LaneLock <= n.target
    PROVE  Spot(m) # Spot(n)
<1>1. CASE m.stage # n.stage
  <2>1. ~(m.stage = "Calibration" <=> n.stage = "Calibration")
    BY <1>1 DEF TargetInStage, PlayedStage
  <2>2. QED
    BY <2>1, SpotBounds
<1>2. CASE m.stage = n.stage
  <2> DEFINE a == m.target - StageStart(m.stage)
  <2> DEFINE b == n.target - StageStart(m.stage)
  <2>1. a \in Nat /\ b \in Nat /\ a + LaneLock <= b /\ LaneLock \in Nat \ {0}
    BY <1>2, Stages, TimelineAssumption DEF TargetInStage, Note
  <2>2. /\ Spot(m) = (IF m.stage = "Calibration" THEN 0 ELSE Locks("Calibration")) + a \div LaneLock
        /\ Spot(n) = (IF m.stage = "Calibration" THEN 0 ELSE Locks("Calibration")) + b \div LaneLock
    BY <1>2 DEF Spot
  <2> HIDE DEF a, b
  <2>3. a \div LaneLock < b \div LaneLock /\ a \div LaneLock \in Nat /\ b \div LaneLock \in Nat
    BY <2>1, QuotientsApart, Division
  <2>4. QED
    BY <2>2, <2>3, Capacities
<1>3. QED
  BY <1>1, <1>2

LEMMA Fits == ASSUME GInv PROVE Len(notes) <= NumLanes * Capacity
<1> DEFINE f == [k \in 1..Len(notes) |-> <<notes[k].lane, Spot(notes[k])>>]
<1>1. Len(notes) \in Nat /\ \A k \in 1..Len(notes) : notes[k] \in Note
  BY DEF GInv, Types
<1>2. f \in [1..Len(notes) -> Lane \X (0..(Capacity - 1))]
  BY <1>1, SpotBounds DEF GInv, Placed
<1>3. ASSUME NEW j \in 1..Len(notes), NEW k \in 1..Len(notes), j < k PROVE f[j] # f[k]
  BY <1>1, <1>3, SpotsApart DEF GInv, Placed, Apart
<1>4. ASSUME NEW j \in 1..Len(notes), NEW k \in 1..Len(notes), f[j] = f[k] PROVE j = k
  BY <1>1, <1>3, <1>4
<1>5. f \in Injection(1..Len(notes), Lane \X (0..(Capacity - 1)))
  BY <1>2, <1>4 DEF Injection, IsInjective
<1>6. /\ IsFiniteSet(Lane) /\ Cardinality(Lane) = NumLanes
      /\ IsFiniteSet(0..(Capacity - 1)) /\ Cardinality(0..(Capacity - 1)) = Capacity
      /\ Cardinality(1..Len(notes)) = Len(notes)
  <2>1. \A n \in Nat : IsFiniteSet(0..(n - 1)) /\ Cardinality(0..(n - 1)) = n
    <3>1. ASSUME NEW n \in Nat PROVE IsFiniteSet(0..(n - 1)) /\ Cardinality(0..(n - 1)) = n
      <4>1. n - 1 \in Int /\ (IF 0 > n - 1 THEN 0 ELSE n - 1 - 0 + 1) = n
        OBVIOUS
      <4>2. QED
        BY <4>1, FS_Interval
    <3>2. QED
      BY <3>1
  <2>2. Cardinality(1..Len(notes)) = Len(notes)
    <3>1. (IF 1 > Len(notes) THEN 0 ELSE Len(notes) - 1 + 1) = Len(notes)
      BY <1>1
    <3>2. QED
      BY <1>1, <3>1, FS_Interval
  <2>3. QED
    BY <2>1, <2>2, Capacities, TimelineAssumption DEF Lane
<1>7. /\ IsFiniteSet(Lane \X (0..(Capacity - 1)))
      /\ Cardinality(Lane \X (0..(Capacity - 1))) = NumLanes * Capacity
  BY <1>6, FS_Product
<1>8. QED
  BY <1>5, <1>6, <1>7, FS_Injection

(* Every chart that generate_chart returns, and every part of one, is one   *)
(* that the Engine constructor accepts, and fits the space reserved for it; *)
(* a stage has fewer attempts than ticks.                                   *)
THEOREM ChartAcceptedCorrect == ChartSpec => []ChartAccepted
<1>1. ASSUME GInv PROVE ChartAccepted
  <2>1. DOMAIN notes = 1..Len(notes) /\ Len(notes) \in Nat
        /\ \A k \in 1..Len(notes) : notes[k] \in Note
    BY <1>1 DEF GInv, Types
  <2>2. ValidChart(notes)
    <3>1. ASSUME NEW i \in DOMAIN notes
          PROVE  /\ notes[i].lane \in Lane /\ ~notes[i].consumed /\ notes[i].id # NoNote
                 /\ TargetInStage(notes[i].target, notes[i].stage)
      BY <1>1, <2>1 DEF GInv, Placed, NoNote
    <3>2. ASSUME NEW i \in DOMAIN notes, NEW j \in DOMAIN notes, i < j
          PROVE  /\ notes[i].target <= notes[j].target /\ notes[i].id # notes[j].id
                 /\ notes[i].lane = notes[j].lane => notes[j].target - notes[i].target >= LaneLock
      <4>1. notes[i].target \in Nat /\ notes[j].target \in Nat
        BY <2>1 DEF Note
      <4>2. notes[i].id # notes[j].id
        BY <1>1, <2>1, <3>2 DEF GInv, Placed
      <4>3. QED
        BY <1>1, <2>1, <3>2, <4>1, <4>2, TimelineAssumption DEF GInv, Apart
    <3>3. QED
      BY <3>1, <3>2 DEF ValidChart
  <2>3. QED
    BY <1>1, <2>2, Fits DEF GInv, Attempts, ChartAccepted, Capacity
<1>2. QED
  BY <1>1, GInvCorrect, PTL

(* What Replay assumes of the chart of a run: its notes are numbered from   *)
(* zero, and a counter that can count the reserved notes can count them.    *)
THEOREM ReplayableCorrect ==
    ASSUME NEW CONSTANT WordSize \in Nat, NumLanes * Capacity < WordSize
    PROVE  ChartSpec => [](/\ Len(notes) < WordSize
                           /\ \A i \in DOMAIN notes : notes[i].id = i - 1)
<1>1. ASSUME GInv
      PROVE  Len(notes) < WordSize /\ \A i \in DOMAIN notes : notes[i].id = i - 1
  <2>1. DOMAIN notes = 1..Len(notes) /\ Len(notes) \in Nat
    BY <1>1, Chart
  <2>2. Len(notes) <= NumLanes * Capacity
    BY <1>1, Fits
  <2>3. NumLanes * Capacity \in Nat
    BY Capacities, TimelineAssumption
  <2>4. Len(notes) < WordSize
    BY <2>1, <2>2, <2>3
  <2>5. QED
    BY <1>1, <2>1, <2>4 DEF GInv, Placed
<1>2. QED
  BY <1>1, GInvCorrect, PTL

-----------------------------------------------------------------------------
(* uniform_below.  Shifting the words that pick one lane by a constant, at  *)
(* most once around the bound, gives words that pick another.               *)

Shift(i, j, limit, n) ==
    IF i < limit /\ limit <= j THEN j - i - n
    ELSE IF j < limit /\ limit <= i THEN j - i + n
    ELSE j - i

LEMMA Limit ==
    ASSUME NEW n \in Nat \ {0}, n <= Words
    PROVE  /\ rejection_limit(n) \in 0..(n - 1) /\ Words \in Nat
           /\ \E q \in Nat \ {0} : Words = n * q + rejection_limit(n)
<1>1. Words \in Nat /\ Words - n \in Nat
  BY ChartGenAssumption
<1>2. Words - n = n * ((Words - n) \div n) + rejection_limit(n)
  BY <1>1, Division DEF rejection_limit
<1>3. (Words - n) \div n \in Nat /\ rejection_limit(n) \in 0..(n - 1)
  BY <1>1, Division DEF rejection_limit
<1> DEFINE p == (Words - n) \div n
<1>4. Words - n = n * p + rejection_limit(n) /\ p \in Nat
  BY <1>2, <1>3
<1> HIDE DEF p
<1>5. Words = n * (p + 1) + rejection_limit(n) /\ p + 1 \in Nat \ {0}
  <2>1. n * (p + 1) = n * p + n /\ p + 1 \in Nat \ {0} /\ n * p \in Nat
    BY <1>4
  <2>2. QED
    BY <1>1, <1>3, <1>4, <2>1
<1>6. QED
  BY <1>1, <1>3, <1>5

Choosing(i, n) == {w \in Accepted(n) : w % n = i}

LEMMA Shifted ==
    ASSUME NEW n \in Nat \ {0}, n <= Words, NEW i \in 0..(n - 1), NEW j \in 0..(n - 1),
           NEW w \in Choosing(i, n)
    PROVE  w + Shift(i, j, rejection_limit(n), n) \in Choosing(j, n)
<1> DEFINE limit == rejection_limit(n)
<1>1. limit \in 0..(n - 1) /\ Words \in Nat
  BY Limit
<1>2. PICK q \in Nat \ {0} : Words = n * q + limit
  BY Limit
<1>3. w \in Nat /\ limit <= w /\ w < Words /\ w % n = i
  BY <1>1 DEF Choosing, Accepted
<1> DEFINE p == w \div n
<1>4. w = n * p + i /\ p \in Nat
  BY <1>3, Division
<1> HIDE DEF limit, p
<1> DEFINE shift == Shift(i, j, limit, n)
<1>5. ASSUME NEW r \in Nat, NEW v, v = n * r + j, limit <= v, v < Words
       PROVE  v \in Choosing(j, n)
  <2>1. v \in 0..(Words - 1) /\ v % n = j
    BY <1>1, <1>5, Remainder
  <2>2. QED
    BY <1>1, <1>5, <2>1 DEF Choosing, Accepted, limit
<1> SUFFICES w + shift \in Choosing(j, n)
  BY DEF limit
<1> HIDE DEF shift
<1>6. /\ i < limit => 1 <= p /\ p <= q
      /\ limit <= i => p < q
  BY <1>1, <1>2, <1>3, <1>4
<1>7. CASE i < limit /\ limit <= j
  <2>1. PICK r \in Nat : r = p - 1
    BY <1>4, <1>6, <1>7
  <2>2. n * p = n * r + n /\ n * r \in Nat /\ r < q
    BY <1>4, <1>6, <1>7, <2>1
  <2>3. n * r + j < Words /\ limit <= n * r + j
    BY <1>1, <1>2, <1>7, <2>2
  <2>4. shift = j - i - n
    BY <1>7 DEF Shift, shift
  <2>5. w + shift = n * r + j
    BY <1>4, <2>2, <2>4
  <2>6. QED
    BY <1>5, <2>3, <2>5
<1>8. CASE j < limit /\ limit <= i
  <2>1. PICK r \in Nat : r = p + 1
    BY <1>4
  <2>2. n * r = n * p + n /\ n * p \in Nat /\ r <= q /\ 1 <= r
    BY <1>4, <1>6, <1>8, <2>1
  <2>3. n * r <= n * q /\ n <= n * r /\ n * q \in Nat /\ n * r \in Nat
    BY <2>2
  <2>4. n * r + j < Words /\ limit <= n * r + j
    BY <1>1, <1>2, <1>8, <2>3
  <2>5. shift = j - i + n
    BY <1>1, <1>8 DEF Shift, shift
  <2>6. w + shift = n * r + j
    BY <1>4, <2>2, <2>5
  <2>7. QED
    BY <1>5, <2>4, <2>6
<1>9. CASE (i < limit /\ j < limit) \/ (limit <= i /\ limit <= j)
  <2>1. n * p \in Nat
    BY <1>4
  <2>2. n * p + j < Words /\ limit <= n * p + j /\ n * p + j \in Nat
    BY <1>1, <1>2, <1>4, <1>6, <1>9
  <2>3. shift = j - i
    BY <1>1, <1>9 DEF Shift, shift
  <2>4. w + shift = n * p + j
    BY <1>4, <2>1, <2>3
  <2>5. QED
    BY <1>4, <1>5, <2>2, <2>4
<1>10. QED
  BY <1>1, <1>7, <1>8, <1>9

LEMMA SomeWord ==
    ASSUME NEW n \in Nat \ {0}, n <= Words, NEW i \in 0..(n - 1)
    PROVE  Choosing(i, n) # {}
<1> DEFINE limit == rejection_limit(n)
<1>1. limit \in 0..(n - 1) /\ Words \in Nat
  BY Limit
<1>2. PICK q \in Nat \ {0} : Words = n * q + limit
  BY Limit
<1> HIDE DEF limit
<1>3. n * q >= n
  BY <1>2
<1>4. CASE limit <= i
  <2>1. i \in 0..(Words - 1) /\ i % n = i
    BY <1>1, <1>2, <1>3
  <2>2. QED
    BY <1>4, <2>1 DEF Choosing, Accepted, limit
<1>5. CASE i < limit
  <2>1. n + i \in 0..(Words - 1) /\ (n + i) % n = i /\ limit <= n + i
    BY <1>1, <1>2, <1>3, <1>5
  <2>2. QED
    BY <2>1 DEF Choosing, Accepted, limit
<1>6. QED
  BY <1>1, <1>4, <1>5

LEMMA NoMore ==
    ASSUME NEW n \in Nat \ {0}, n <= Words, NEW i \in 0..(n - 1), NEW j \in 0..(n - 1)
    PROVE  Cardinality(Choosing(i, n)) <= Cardinality(Choosing(j, n))
<1> DEFINE c == Shift(i, j, rejection_limit(n), n)
<1> DEFINE f == [w \in Choosing(i, n) |-> w + c]
<1>1. f \in [Choosing(i, n) -> Choosing(j, n)]
  BY Shifted
<1>2. \A w \in Choosing(i, n) : w \in Int
  BY DEF Choosing, Accepted
<1>3. c \in Int
  BY Limit DEF Shift
<1> HIDE DEF c
<1>4. f \in Injection(Choosing(i, n), Choosing(j, n))
  <2>1. ASSUME NEW a \in Choosing(i, n), NEW b \in Choosing(i, n), f[a] = f[b] PROVE a = b
    <3>1. a \in Int /\ b \in Int /\ a + c = b + c
      BY <1>2, <2>1
    <3>2. QED
      BY <1>3, <3>1
  <2>2. QED
    BY <1>1, <2>1 DEF Injection, IsInjective
<1>5. IsFiniteSet(Choosing(j, n))
  <2>1. IsFiniteSet(0..(Words - 1)) /\ Choosing(j, n) \in SUBSET (0..(Words - 1))
    BY FS_Interval, ChartGenAssumption DEF Choosing, Accepted
  <2>2. QED
    BY <2>1, FS_Subset
<1>6. QED
  BY <1>4, <1>5, FS_Injection

(* Whatever lanes are eligible, the words that uniform_below accepts        *)
(* select each of them equally often, and at least once.                    *)
THEOREM UnbiasedCorrect == ChartSpec => []Unbiased
<1>1. Unbiased
  <2> DEFINE lanes == EligibleAt(target)
  <2> DEFINE n == Cardinality(lanes)
  <2> DEFINE rank(lane) == Cardinality({l \in lanes : l < lane})
  <2>1. IsFiniteSet(Lane) /\ Cardinality(Lane) = NumLanes /\ lanes \in SUBSET Lane
    BY FS_Interval, TimelineAssumption DEF Lane, EligibleAt
  <2>2. IsFiniteSet(lanes) /\ n \in Nat /\ n <= Words
    BY <2>1, FS_Subset, FS_CardinalityType, ChartGenAssumption, TimelineAssumption
  <2> HIDE DEF lanes
  <2>3. ASSUME NEW lane \in lanes
        PROVE  n # 0 /\ rank(lane) \in 0..(n - 1)
    <3>1. {l \in lanes : l < lane} \in SUBSET lanes /\ lane \notin {l \in lanes : l < lane}
      BY <2>1, <2>3 DEF Lane
    <3>2. rank(lane) \in Nat /\ rank(lane) <= n /\ rank(lane) # n
      BY <2>2, <3>1, FS_Subset, FS_CardinalityType
    <3>3. QED
      BY <2>2, <3>2
  <2>4. ASSUME NEW lane
        PROVE  {w \in Accepted(n) : Picks(w, lanes, lane)} = Choosing(rank(lane), n)
    BY DEF Picks, Choosing
  <2>5. ASSUME NEW k \in lanes, NEW l \in lanes
        PROVE  /\ Choosing(rank(k), n) # {}
               /\ Cardinality(Choosing(rank(k), n)) <= Cardinality(Choosing(rank(l), n))
    BY <2>2, <2>3, SomeWord, NoMore
  <2>6. \A k \in lanes : Cardinality(Choosing(rank(k), n)) \in Nat
    <3>1. IsFiniteSet(0..(Words - 1))
      BY FS_Interval, ChartGenAssumption
    <3>2. \A i : Choosing(i, n) \in SUBSET (0..(Words - 1))
      BY DEF Choosing, Accepted
    <3>3. QED
      BY <3>1, <3>2, FS_Subset, FS_CardinalityType
  <2>7. ASSUME NEW k \in lanes, NEW l \in lanes
        PROVE  /\ Choosing(rank(k), n) # {}
               /\ Cardinality(Choosing(rank(k), n)) = Cardinality(Choosing(rank(l), n))
    <3> HIDE DEF n, rank
    <3>1. /\ Cardinality(Choosing(rank(k), n)) <= Cardinality(Choosing(rank(l), n))
          /\ Cardinality(Choosing(rank(l), n)) <= Cardinality(Choosing(rank(k), n))
      BY <2>5
    <3>2. QED
      BY <2>5, <2>6, <3>1
  <2>8. QED
    BY <2>4, <2>7 DEF Unbiased, lanes
<1>2. QED
  BY <1>1, PTL

-----------------------------------------------------------------------------
(* The session. *)

-----------------------------------------------------------------------------
(* VerdictFrozen needs no invariant: each writer looks at finished while it *)
(* holds the lock.                                                          *)

LEMMA StepFrozen ==
    ASSUME finished, [Next]_vars PROVE UNCHANGED <<invalid_reason, records, final_score>>
<1>1. CASE Tick
  BY <1>1 DEF Tick, engineVars, flagVars
<1>2. CASE Signal
  BY <1>2 DEF Signal, engineVars, flagVars
<1>3. CASE Input
  <2>1. CASE InputPoll
    BY <2>1 DEF InputPoll, engineVars, flagVars
  <2>2. CASE InputDone
    BY <2>2 DEF InputDone, engineVars, flagVars
  <2>3. CASE InputEvent
    BY <2>3 DEF InputEvent, InputOnly, start, tap, Judge, hit, invalidate, engineVars,
       humanVars, flagVars, reportVars
  <2>4. CASE InputAbort
    BY <2>4 DEF InputAbort, invalidate, flagVars
  <2>5. CASE InputStop
    BY <2>5 DEF InputStop, engineVars, flagVars
  <2>6. CASE InputTakeCommands
    BY <2>6 DEF InputTakeCommands, engineVars, flagVars
  <2>7. CASE InputOverflow
    BY <2>7 DEF InputOverflow, invalidate, engineVars, flagVars
  <2>8. CASE InputCommand
    BY <2>8 DEF InputCommand, InputOnly, start, tap, Judge, hit, engineVars, humanVars,
       flagVars, reportVars
  <2>9. CASE InputFinish
    BY <2>9 DEF InputFinish, engineVars
  <2>10. CASE InputThrows
    BY <2>10 DEF InputThrows, engineVars, flagVars
  <2>11. CASE InputThrowing
    BY <2>11 DEF InputThrowing, invalidate, flagVars
  <2>12. CASE InputDies
    BY <2>12 DEF InputDies, engineVars, flagVars
  <2>13. QED
    BY <1>3, <2>1, <2>2, <2>3, <2>4, <2>5, <2>6, <2>7, <2>8, <2>9, <2>10, <2>11, <2>12
       DEF Input
<1>4. CASE Model
  <2>1. CASE ModelDone
    BY <2>1 DEF ModelDone, ModelOnly, flagVars
  <2>2. CASE ModelThrows
    BY <2>2 DEF ModelThrows, ModelOnly, flagVars
  <2>3. CASE ModelAbort
    BY <2>3 DEF ModelAbort, ModelOnly, invalidate, flagVars
  <2>4. CASE ModelStop
    BY <2>4 DEF ModelStop, ModelOnly, flagVars
  <2>5. QED
    BY <1>4, <2>1, <2>2, <2>3, <2>4 DEF Model
<1>5. CASE Main
  <2>1. CASE MainTurn
    BY <2>1 DEF MainTurn, MainOnly, engineVars, flagVars
  <2>2. CASE MainInterrupted
    BY <2>2 DEF MainInterrupted, MainOnly, engineVars, flagVars
  <2>3. CASE MainInterrupt
    BY <2>3 DEF MainInterrupt, invalidate, MainOnly, flagVars
  <2>4. CASE MainLeave
    BY <2>4 DEF MainLeave, MainOnly, engineVars, flagVars
  <2>5. CASE MainKey
    BY <2>5 DEF MainKey, MainOnly, engineVars, flagVars
  <2>6. CASE MainEscape
    BY <2>6 DEF MainEscape, MainOnly, engineVars, flagVars
  <2>7. CASE MainAbort
    BY <2>7 DEF MainAbort, invalidate, MainOnly, flagVars
  <2>8. CASE MainStop
    BY <2>8 DEF MainStop, MainOnly, engineVars, flagVars
  <2>9. CASE MainSave
    BY <2>9 DEF MainSave, MainOnly, engineVars, flagVars
  <2>10. CASE MainTurnEnds
    BY <2>10 DEF MainTurnEnds, MainOnly, engineVars, flagVars
  <2>11. CASE MainFinalInvalidate
    BY <2>11 DEF MainFinalInvalidate, invalidate, MainOnly, flagVars
  <2>12. CASE MainFinalSave
    BY <2>12 DEF MainFinalSave, MainOnly, engineVars, flagVars
  <2>13. CASE MainNothingToSave
    BY <2>13 DEF MainNothingToSave, MainOnly, engineVars, flagVars
  <2>14. CASE MainExit
    BY <2>14 DEF MainExit, MainOnly, engineVars, flagVars
  <2>15. CASE MainThrows
    BY <2>15 DEF MainThrows, MainOnly, engineVars, flagVars
  <2>16. CASE MainFailed
    BY <2>16 DEF MainFailed, MainOnly, engineVars, flagVars
  <2>17. QED
    BY <1>5, <2>1, <2>2, <2>3, <2>4, <2>5, <2>6, <2>7, <2>8, <2>9, <2>10, <2>11, <2>12,
       <2>13, <2>14, <2>15, <2>16 DEF Main
<1>6. CASE Exited \/ UNCHANGED vars
  BY <1>6 DEF Exited, vars, engineVars, humanVars, flagVars, reportVars
<1>7. QED
  BY <1>1, <1>2, <1>3, <1>4, <1>5, <1>6 DEF Next

(* No step changes the verdict or the log of a completed trial.             *)
THEOREM VerdictCorrect == Spec => VerdictFrozen
BY StepFrozen, PTL DEF Spec, VerdictFrozen

-----------------------------------------------------------------------------
(* Time: events are stamped when they are polled and judged before the next *)
(* poll; keys are judged after them, with the time of that moment.          *)
Times ==
    /\ clock \in Nat \ {0} /\ origin \in 0..clock /\ last_input \in Int /\ last_input >= -1
    /\ origin = 0 => last_input = -1
    /\ origin # 0 => last_input <= clock - origin

Stamps ==
    /\ events \in Seq([kind : Kinds, time : Nat])
    /\ input \notin {"events", "abort", "stop"} => events = <<>>
    /\ \A k \in 1..Len(events) :
          /\ events[k].time \in 1..clock
          /\ origin # 0 => origin <= events[k].time /\ last_input <= events[k].time - origin
          /\ \A l \in 1..Len(events) : events[l].time = events[k].time

InOrder == invalid_reason # "input_timestamps_went_backwards"

TimeInv == Times /\ Stamps /\ InOrder

LEMMA EventsShift ==
    ASSUME NEW S, NEW s \in Seq(S), s # <<>>
    PROVE  /\ Tail(s) \in Seq(S) /\ 1 \in 1..Len(s) /\ Head(s) = s[1]
           /\ \A k \in 1..Len(Tail(s)) : k + 1 \in 1..Len(s) /\ Tail(s)[k] = s[k + 1]
OBVIOUS

LEMMA StampsEmpty == ASSUME events' = <<>> PROVE Stamps'
BY DEF Stamps

(* A tap that is not older than the last one does not go backwards. *)
LEMMA TapInTime ==
    ASSUME NEW kind, NEW now \in Nat, tap(kind, now), InOrder, origin \in Nat, last_input \in Int,
           origin # 0 => last_input <= now - origin
    PROVE  /\ InOrder' /\ origin' = origin
           /\ last_input' = last_input \/ (origin # 0 /\ last_input' = now - origin)
<1>1. ASSUME NEW t \in Int, last_input <= t, hit(t)
      PROVE  InOrder' /\ (last_input' = last_input \/ last_input' = t)
  BY <1>1 DEF hit, InOrder, engineVars
<1>2. ASSUME Judge(kind, now), origin # 0
      PROVE  InOrder' /\ (last_input' = last_input \/ last_input' = now - origin)
  <2>1. CASE kind = "Tap"
    <3>1. hit(now - origin) /\ now - origin \in Int /\ last_input <= now - origin
      BY <1>2, <2>1 DEF Judge
    <3>2. QED
      BY <1>1, <3>1
  <2>2. CASE kind # "Tap"
    BY <1>2, <2>2 DEF Judge, InOrder
  <2>3. QED
    BY <2>1, <2>2
<1>3. QED
  BY <1>2 DEF tap, InOrder, engineVars, flagVars

LEMMA StepInTime == ASSUME TimeInv, [Next]_vars PROVE TimeInv'
<1>1. CASE Tick
  <2>1. Times'
    BY <1>1 DEF Tick, flagVars, engineVars, TimeInv, Times
  <2>2. Stamps'
    BY <1>1 DEF Tick, flagVars, engineVars, TimeInv, Times, Stamps
  <2>3. InOrder'
    BY <1>1 DEF Tick, engineVars, TimeInv, InOrder
  <2>4. QED
    BY <2>1, <2>2, <2>3 DEF TimeInv
<1>2. CASE Signal
  BY <1>2 DEF Signal, engineVars, flagVars, TimeInv, Times, Stamps, InOrder
<1>3. CASE Input
  <2>1. CASE InputPoll
    <3>1. PICK n \in 0..(MaxArrivals - arrivals) : \E kinds \in [1..n -> Kinds] :
             events' = [k \in 1..n |-> [kind |-> kinds[k], time |-> clock]]
      BY <2>1 DEF InputPoll
    <3>2. clock \in Nat \ {0} /\ n \in Nat
      BY DEF TimeInv, Times
    <3>3. /\ events' \in Seq([kind : Kinds, time : Nat]) /\ Len(events') = n
          /\ \A k \in 1..n : events'[k].time = clock
      BY <3>1, <3>2
    <3>4. input' = "events" /\ UNCHANGED <<clock, origin, last_input, invalid_reason>>
      BY <2>1 DEF InputPoll, InputOnly, flagVars, engineVars
    <3>5. Stamps'
      BY <3>3, <3>4 DEF TimeInv, Times, Stamps
    <3>6. Times' /\ InOrder'
      BY <3>4 DEF TimeInv, Times, InOrder
    <3>7. QED
      BY <3>5, <3>6 DEF TimeInv
  <2>2. CASE InputDone
    BY <2>2 DEF InputDone, InputOnly, engineVars, flagVars, TimeInv, Times, Stamps,
       InOrder
  <2>3. CASE InputEvent
    <3> DEFINE event == Head(events)
    <3>1. /\ events # <<>> /\ events' = Tail(events)
          /\ input' \in {"events", "abort", "stop"} /\ UNCHANGED clock
      BY <2>3 DEF InputEvent, InputOnly, AbortFirst
    <3>2. /\ event.time \in 1..clock /\ clock \in Nat
          /\ origin # 0 => origin <= event.time /\ last_input <= event.time - origin
          /\ events' \in Seq([kind : Kinds, time : Nat])
          /\ \A k \in 1..Len(events') : events'[k].time = event.time
      BY <3>1 DEF TimeInv, Times, Stamps
    <3>3. \/ origin = 0 /\ origin' = event.time
          \/ origin' = origin
      BY <2>3 DEF InputEvent, start, tap, flagVars
    <3>4. \/ last_input' = last_input /\ (invalid_reason' = invalid_reason \/ InOrder')
          \/ /\ origin # 0 /\ origin' = origin
             /\ last_input' = event.time - origin /\ (invalid_reason' = invalid_reason \/ InOrder')
      <4>1. CASE event.kind \in {"Tap", "BadLane"}
        BY <2>3, <3>2, <4>1, TapInTime DEF InputEvent, TimeInv, Times
      <4>2. CASE event.kind \notin {"Tap", "BadLane"}
        BY <2>3, <4>2 DEF InputEvent, start, invalidate, engineVars, InOrder
      <4>3. QED
        BY <4>1, <4>2
    <3> HIDE DEF event
    <3>5. Times'
      BY <3>1, <3>2, <3>3, <3>4 DEF TimeInv, Times
    <3>6. Stamps'
      <4>1. origin \in Nat /\ last_input \in Int /\ (origin = 0 => last_input = -1)
        BY DEF TimeInv, Times
      <4>2. origin' # 0 => origin' <= event.time /\ last_input' <= event.time - origin'
        BY <4>1, <3>2, <3>3, <3>4
      <4>3. QED
        BY <4>2, <3>1, <3>2 DEF Stamps
    <3>7. InOrder'
      BY <3>4 DEF TimeInv, InOrder
    <3>8. QED
      BY <3>5, <3>6, <3>7 DEF TimeInv
  <2>4. CASE InputAbort
    BY <2>4 DEF InputAbort, InputOnly, invalidate, flagVars, TimeInv, Times, Stamps,
       InOrder
  <2>5. CASE InputStop
    BY <2>5 DEF InputStop, InputOnly, engineVars, flagVars, TimeInv, Times, Stamps,
       InOrder
  <2>6. CASE InputTakeCommands
    <3>1. Times'
      BY <2>6 DEF InputTakeCommands, InputOnly, flagVars, engineVars, TimeInv, Times
    <3>2. Stamps'
      BY <2>6, StampsEmpty DEF InputTakeCommands
    <3>3. InOrder'
      BY <2>6 DEF InputTakeCommands, engineVars, TimeInv, InOrder
    <3>4. QED
      BY <3>1, <3>2, <3>3 DEF TimeInv
  <2>7. CASE InputOverflow
    <3>1. Times'
      BY <2>7 DEF InputOverflow, InputOnly, invalidate, flagVars, engineVars, TimeInv,
         Times
    <3>2. Stamps'
      BY <2>7 DEF InputOverflow, TimeInv, Stamps
    <3>3. InOrder'
      BY <2>7 DEF InputOverflow, invalidate, engineVars, TimeInv, InOrder
    <3>4. QED
      BY <3>1, <3>2, <3>3 DEF TimeInv
  <2>8. CASE InputCommand
    <3>1. events = <<>> /\ UNCHANGED <<clock, events, input>>
      BY <2>8 DEF InputCommand, InputOnly, TimeInv, Stamps
    <3>2. /\ origin' = origin \/ (origin = 0 /\ origin' = clock)
          /\ \/ last_input' = last_input /\ (invalid_reason' = invalid_reason \/ InOrder')
             \/ origin # 0 /\ origin' = origin /\ last_input' = clock - origin /\
                  (invalid_reason' = invalid_reason \/ InOrder')
      BY <2>8, TapInTime DEF InputCommand, start, engineVars, TimeInv, Times
    <3>3. Times'
      BY <3>1, <3>2 DEF TimeInv, Times
    <3>4. QED
      BY <3>1, <3>2, <3>3, StampsEmpty DEF TimeInv, InOrder
  <2>9. CASE InputFinish
    BY <2>9 DEF InputFinish, InputOnly, engineVars, TimeInv, Times, Stamps, InOrder
  <2>10. CASE InputThrows
    BY <2>10 DEF InputThrows, InputOnly, engineVars, flagVars, TimeInv, Times, Stamps,
       InOrder
  <2>11. CASE InputThrowing
    BY <2>11 DEF InputThrowing, InputOnly, invalidate, flagVars, TimeInv, Times, Stamps,
       InOrder
  <2>12. CASE InputDies
    BY <2>12 DEF InputDies, InputOnly, engineVars, flagVars, TimeInv, Times, Stamps,
       InOrder
  <2>13. QED
    BY <1>3, <2>1, <2>2, <2>3, <2>4, <2>5, <2>6, <2>7, <2>8, <2>9, <2>10, <2>11, <2>12
       DEF Input
<1>4. CASE Model
  <2>1. CASE ModelDone
    BY <2>1 DEF ModelDone, ModelOnly, flagVars, TimeInv, Times, Stamps, InOrder
  <2>2. CASE ModelThrows
    BY <2>2 DEF ModelThrows, ModelOnly, flagVars, TimeInv, Times, Stamps, InOrder
  <2>3. CASE ModelAbort
    <3>1. Times'
      BY <2>3 DEF ModelAbort, ModelOnly, flagVars, TimeInv, Times
    <3>2. Stamps'
      BY <2>3 DEF ModelAbort, ModelOnly, flagVars, TimeInv, Stamps
    <3>3. InOrder'
      BY <2>3 DEF ModelAbort, invalidate, TimeInv, InOrder
    <3>4. QED
      BY <3>1, <3>2, <3>3 DEF TimeInv
  <2>4. CASE ModelStop
    BY <2>4 DEF ModelStop, ModelOnly, flagVars, TimeInv, Times, Stamps, InOrder
  <2>5. QED
    BY <1>4, <2>1, <2>2, <2>3, <2>4 DEF Model
<1>5. CASE Main
  <2>1. CASE MainTurn
    <3>1. UNCHANGED <<clock, origin, last_input, invalid_reason, events, input>>
      BY <2>1 DEF MainTurn, MainOnly, engineVars, flagVars
    <3>2. Times'
      BY <3>1 DEF TimeInv, Times
    <3>3. Stamps' /\ InOrder'
      BY <3>1 DEF TimeInv, Stamps, InOrder
    <3>4. QED
      BY <3>2, <3>3 DEF TimeInv
  <2>2. CASE MainInterrupted
    BY <2>2 DEF MainInterrupted, MainOnly, engineVars, flagVars, TimeInv, Times, Stamps,
       InOrder
  <2>3. CASE MainInterrupt
    BY <2>3 DEF MainInterrupt, invalidate, MainOnly, flagVars, TimeInv, Times, Stamps,
       InOrder
  <2>4. CASE MainLeave
    BY <2>4 DEF MainLeave, MainOnly, engineVars, flagVars, TimeInv, Times, Stamps,
       InOrder
  <2>5. CASE MainKey
    BY <2>5 DEF MainKey, MainOnly, engineVars, humanVars, flagVars, reportVars, TimeInv,
       Times, Stamps, InOrder, Kinds
  <2>6. CASE MainEscape
    BY <2>6 DEF MainEscape, MainOnly, engineVars, flagVars, TimeInv, Times, Stamps,
       InOrder
  <2>7. CASE MainAbort
    BY <2>7 DEF MainAbort, invalidate, MainOnly, flagVars, TimeInv, Times, Stamps,
       InOrder
  <2>8. CASE MainStop
    BY <2>8 DEF MainStop, MainOnly, engineVars, flagVars, TimeInv, Times, Stamps,
       InOrder
  <2>9. CASE MainSave
    BY <2>9 DEF MainSave, MainOnly, engineVars, flagVars, TimeInv, Times, Stamps,
       InOrder, Kinds
  <2>10. CASE MainTurnEnds
    BY <2>10 DEF MainTurnEnds, MainOnly, engineVars, flagVars, TimeInv, Times, Stamps,
       InOrder
  <2>11. CASE MainFinalInvalidate
    BY <2>11 DEF MainFinalInvalidate, invalidate, MainOnly, flagVars, TimeInv, Times,
       Stamps, InOrder, Kinds
  <2>12. CASE MainFinalSave
    BY <2>12 DEF MainFinalSave, Save, MainOnly, engineVars, flagVars, TimeInv, Times,
       Stamps, InOrder
  <2>13. CASE MainNothingToSave
    BY <2>13 DEF MainNothingToSave, MainOnly, engineVars, flagVars, TimeInv, Times,
       Stamps, InOrder
  <2>14. CASE MainExit
    BY <2>14 DEF MainExit, MainOnly, engineVars, flagVars, TimeInv, Times, Stamps,
       InOrder
  <2>15. CASE MainThrows
    BY <2>15 DEF MainThrows, MainOnly, engineVars, flagVars, TimeInv, Times, Stamps,
       InOrder, Kinds
  <2>16. CASE MainFailed
    BY <2>16 DEF MainFailed, MainOnly, engineVars, flagVars, TimeInv, Times, Stamps,
       InOrder
  <2>17. QED
    BY <1>5, <2>1, <2>2, <2>3, <2>4, <2>5, <2>6, <2>7, <2>8, <2>9, <2>10, <2>11, <2>12,
       <2>13, <2>14, <2>15, <2>16 DEF Main
<1>6. CASE Exited \/ UNCHANGED vars
  BY <1>6 DEF Exited, vars, engineVars, flagVars, TimeInv, Times, Stamps, InOrder, Kinds
<1>7. QED
  BY <1>1, <1>2, <1>3, <1>4, <1>5, <1>6 DEF Next

LEMMA TimeCorrect == Spec => []TimeInv
<1>1. ASSUME Init PROVE TimeInv
  <2>1. Times /\ InOrder
    <3>1. Times
      BY <1>1 DEF Init, Times
    <3>2. InOrder
      BY <1>1, Zenon DEF Init, InOrder, NoReason
    <3>3. QED
      BY <3>1, <3>2
  <2>2. events = <<>>
    BY <1>1 DEF Init
  <2>3. Stamps
    BY <2>2 DEF Stamps
  <2>4. QED
    BY <2>1, <2>3 DEF TimeInv
<1>2. TimeInv /\ [Next]_vars => TimeInv'
  BY StepInTime
<1>3. QED
  BY <1>1, <1>2, PTL DEF Spec

(* No legal input, in whatever order the threads take it, goes backwards.   *)
THEOREM NoBackwardsCorrect == Spec => []NoBackwards
<1>1. TimeInv => NoBackwards
  BY DEF TimeInv, Times, InOrder, NoBackwards
<1>2. QED
  BY <1>1, TimeCorrect, PTL

-----------------------------------------------------------------------------
(* The report: only a run that was started has one, and from then on the    *)
(* verdict stays, because the trial is over or because main is alone.       *)
Started == origin \in Nat /\ (finished \/ reports # 0 => origin # 0)

Alone ==
    \/ main \in {"finalsave", "exit"} \/ exit_code # Running \/ (reports = 1 /\ ~finished)
    => input = "done" /\ model = "done"

Places ==
    /\ reports \in {0, 1} /\ exit_code \in {Running, 0, 1, 2}
    /\ exit_code # Running => main = "done"
    /\ main = "finalsave" => origin # 0 /\ reports = 0
    /\ main = "exit" \/ exit_code \in {0, 2} => (origin # 0 => reports = 1)

Reported ==
    /\ reports = 0 => report = NoReport
    /\ reports = 1 => /\ report.valid <=> (valid /\ finished)
                      /\ report.completed <=> finished
                      /\ report.score = records
    /\ finished => final_score = records

Verdicts ==
    /\ exit_code = 0 => valid /\ finished
    /\ exit_code = 2 => ~(valid /\ finished)

ReportInv == Started /\ Alone /\ Places /\ Reported /\ Verdicts

LEMMA EventTime ==
    ASSUME TimeInv
    PROVE  clock \in Nat \ {0} /\ (events # <<>> => Head(events).time \in Nat \ {0})
BY DEF TimeInv, Times, Stamps

LEMMA Saves ==
    ASSUME Save, reports = 0
    PROVE  /\ reports' = 1 /\ report'.score = records
           /\ report'.valid <=> (valid /\ finished)
           /\ report'.completed <=> finished
<1>1. reports' = 1 /\ report'.score = records
  BY DEF Save
<1>2. report'.valid = (valid /\ finished) /\ report'.completed = finished
  BY DEF Save
<1>3. QED
  BY <1>1, <1>2

(* While the input thread lives there is no report of an unfinished run. *)
LEMMA InputKeeps ==
    ASSUME ReportInv, input # "done", finished => UNCHANGED <<invalid_reason, records>>,
           UNCHANGED <<finished, final_score, model, main, reportVars>>,
           origin' = origin \/ (origin = 0 /\ origin' \in Nat \ {0})
    PROVE  ReportInv'
<1>1. UNCHANGED <<report, reports, exit_code>>
  BY DEF reportVars
<1>2. Started'
  BY <1>1 DEF ReportInv, Started
<1>3. Alone' /\ Places' /\ exit_code = Running
  BY <1>1 DEF ReportInv, Alone, Places, Running
<1>4. finished \/ reports = 0
  BY DEF ReportInv, Alone, Places
<1>5. Reported'
  BY <1>1, <1>4 DEF ReportInv, Reported, valid
<1>6. Verdicts'
  BY <1>1, <1>3 DEF Verdicts, Running
<1>7. QED
  BY <1>2, <1>3, <1>5, <1>6 DEF ReportInv

LEMMA StepReported ==
    ASSUME ReportInv, TimeInv, [Next]_vars PROVE ReportInv'
<1>1. CASE Tick
  BY <1>1 DEF Tick, engineVars, flagVars, reportVars, ReportInv, Started, Alone, Places,
     Reported, Verdicts, NoReport, valid
<1>2. CASE Signal
  BY <1>2 DEF Signal, engineVars, flagVars, reportVars, ReportInv, Started, Alone,
     Places, Reported, Verdicts, NoReport, valid
<1>3. CASE Input
  <2>1. CASE InputPoll
    BY <2>1 DEF InputPoll, InputOnly, engineVars, flagVars, reportVars, ReportInv,
       Started, Alone, Places, Reported, Verdicts, Running, NoReport, valid
  <2>2. CASE InputDone
    BY <2>2 DEF InputDone, InputOnly, engineVars, flagVars, reportVars, ReportInv,
       Started, Alone, Places, Reported, Verdicts, Running, NoReport, valid
  <2>3. CASE InputEvent
    <3>1. UNCHANGED <<finished, final_score, model, main, reportVars>> /\ input # "done"
      BY <2>3 DEF InputEvent, InputOnly, start, tap, flagVars
    <3>2. origin' = origin \/ (origin = 0 /\ origin' \in Nat \ {0})
      BY <2>3, EventTime DEF InputEvent, start, tap, flagVars
    <3>3. QED
      BY <3>1, <3>2, StepFrozen, InputKeeps
  <2>4. CASE InputAbort
    BY <2>4 DEF InputAbort, InputOnly, invalidate, flagVars, reportVars, ReportInv,
       Started, Alone, Places, Reported, Verdicts, Running, NoReport, valid
  <2>5. CASE InputStop
    BY <2>5 DEF InputStop, InputOnly, engineVars, flagVars, reportVars, ReportInv,
       Started, Alone, Places, Reported, Verdicts, Running, NoReport, valid
  <2>6. CASE InputTakeCommands
    BY <2>6 DEF InputTakeCommands, InputOnly, engineVars, flagVars, reportVars,
       ReportInv, Started, Alone, Places, Reported, Verdicts, Running, NoReport, valid
  <2>7. CASE InputOverflow
    BY <2>7 DEF InputOverflow, InputOnly, invalidate, engineVars, flagVars, reportVars,
       ReportInv, Started, Alone, Places, Reported, Verdicts, Running, NoReport, valid
  <2>8. CASE InputCommand
    <3>1. UNCHANGED <<finished, final_score, model, main, reportVars>> /\ input # "done"
      BY <2>8 DEF InputCommand, InputOnly, start, tap, flagVars
    <3>2. origin' = origin \/ (origin = 0 /\ origin' \in Nat \ {0})
      BY <2>8, EventTime DEF InputCommand, start, tap, flagVars
    <3>3. QED
      BY <3>1, <3>2, StepFrozen, InputKeeps
  <2>9. CASE InputFinish
    BY <2>9 DEF InputFinish, InputOnly, engineVars, reportVars, ReportInv, Started,
       Alone, Places, Reported, Verdicts, Running, NoReport, valid
  <2>10. CASE InputThrows
    BY <2>10 DEF InputThrows, InputOnly, engineVars, flagVars, reportVars, ReportInv,
       Started, Alone, Places, Reported, Verdicts, Running, NoReport, valid
  <2>11. CASE InputThrowing
    BY <2>11 DEF InputThrowing, InputOnly, invalidate, flagVars, reportVars, ReportInv,
       Started, Alone, Places, Reported, Verdicts, Running, NoReport, valid
  <2>12. CASE InputDies
    BY <2>12 DEF InputDies, InputOnly, engineVars, flagVars, reportVars, ReportInv,
       Started, Alone, Places, Reported, Verdicts, Running, NoReport, valid
  <2>13. QED
    BY <1>3, <2>1, <2>2, <2>3, <2>4, <2>5, <2>6, <2>7, <2>8, <2>9, <2>10, <2>11, <2>12
       DEF Input
<1>4. CASE Model
  <2>1. CASE ModelDone
    BY <2>1 DEF ModelDone, ModelOnly, flagVars, reportVars, ReportInv, Started, Alone,
       Places, Reported, Verdicts, Running, NoReport, valid
  <2>2. CASE ModelThrows
    BY <2>2 DEF ModelThrows, ModelOnly, flagVars, reportVars, ReportInv, Started, Alone,
       Places, Reported, Verdicts, Running, NoReport, valid
  <2>3. CASE ModelAbort
    BY <2>3 DEF ModelAbort, ModelOnly, invalidate, flagVars, reportVars, ReportInv,
       Started, Alone, Places, Reported, Verdicts, Running, NoReport, valid
  <2>4. CASE ModelStop
    BY <2>4 DEF ModelStop, ModelOnly, flagVars, reportVars, ReportInv, Started, Alone,
       Places, Reported, Verdicts, Running, NoReport, valid
  <2>5. QED
    BY <1>4, <2>1, <2>2, <2>3, <2>4 DEF Model
<1>5. CASE Main
  <2>1. CASE MainTurn
    BY <2>1 DEF MainTurn, MainOnly, engineVars, flagVars, reportVars, ReportInv,
       Started, Alone, Places, Reported, Verdicts, Running, NoReport, valid
  <2>2. CASE MainInterrupted
    BY <2>2 DEF MainInterrupted, MainOnly, engineVars, flagVars, reportVars, ReportInv,
       Started, Alone, Places, Reported, Verdicts, Running, NoReport, valid
  <2>3. CASE MainInterrupt
    BY <2>3 DEF MainInterrupt, invalidate, MainOnly, flagVars, reportVars, ReportInv,
       Started, Alone, Places, Reported, Verdicts, Running, NoReport, valid
  <2>4. CASE MainLeave
    BY <2>4 DEF MainLeave, MainOnly, engineVars, flagVars, reportVars, ReportInv,
       Started, Alone, Places, Reported, Verdicts, Running, NoReport, valid
  <2>5. CASE MainKey
    BY <2>5 DEF MainKey, MainOnly, engineVars, flagVars, reportVars, ReportInv, Started,
       Alone, Places, Reported, Verdicts, Running, NoReport, valid
  <2>6. CASE MainEscape
    BY <2>6 DEF MainEscape, AbortFirst, MainOnly, engineVars, flagVars, reportVars,
       ReportInv, Started, Alone, Places, Reported, Verdicts, Running, NoReport, valid
  <2>7. CASE MainAbort
    BY <2>7 DEF MainAbort, invalidate, MainOnly, flagVars, reportVars, ReportInv,
       Started, Alone, Places, Reported, Verdicts, Running, NoReport, valid
  <2>8. CASE MainStop
    BY <2>8 DEF MainStop, MainOnly, engineVars, flagVars, reportVars, ReportInv,
       Started, Alone, Places, Reported, Verdicts, Running, NoReport, valid
  <2>9. CASE MainSave
    <3>1. Started'
      BY <2>9 DEF MainSave, SaveDue, MainOnly, flagVars, ReportInv, Started
    <3>2. Alone'
      BY <2>9 DEF MainSave, SaveDue, MainOnly, flagVars, ReportInv, Alone
    <3>3. Places'
      BY <2>9, Saves DEF MainSave, SaveDue, ReportInv, Places
    <3>4. Reported'
      BY <2>9, Saves DEF MainSave, SaveDue, MainOnly, engineVars, flagVars, ReportInv,
         valid, Reported
    <3>5. Verdicts'
      BY <2>9 DEF MainSave, ReportInv, Places, Running, Verdicts
    <3>6. QED
      BY <3>1, <3>2, <3>3, <3>4, <3>5 DEF ReportInv
  <2>10. CASE MainTurnEnds
    BY <2>10 DEF MainTurnEnds, MainOnly, engineVars, flagVars, reportVars, ReportInv,
       Started, Alone, Places, Reported, Verdicts, Running, NoReport, valid
  <2>11. CASE MainFinalInvalidate
    BY <2>11 DEF MainFinalInvalidate, invalidate, Joined, MainOnly, flagVars,
       reportVars, ReportInv, Started, Alone, Places, Reported, Verdicts, Running,
       NoReport, valid
  <2>12. CASE MainFinalSave
    <3>1. Started'
      BY <2>12 DEF MainFinalSave, MainOnly, flagVars, ReportInv, Places, Started
    <3>2. Alone'
      BY <2>12 DEF MainFinalSave, MainOnly, ReportInv, Alone
    <3>3. Places'
      BY <2>12, Saves DEF MainFinalSave, ReportInv, Places
    <3>4. Reported'
      BY <2>12, Saves DEF MainFinalSave, MainOnly, engineVars, flagVars, ReportInv,
         valid, Places, Reported
    <3>5. Verdicts'
      BY <2>12 DEF MainFinalSave, MainOnly, engineVars, flagVars, ReportInv, valid,
         Verdicts
    <3>6. QED
      BY <3>1, <3>2, <3>3, <3>4, <3>5 DEF ReportInv
  <2>13. CASE MainNothingToSave
    BY <2>13 DEF MainNothingToSave, Joined, MainOnly, engineVars, flagVars, reportVars,
       ReportInv, Started, Alone, Places, Reported, Verdicts, Running, NoReport, valid
  <2>14. CASE MainExit
    <3>1. Started'
      BY <2>14 DEF MainExit, MainOnly, flagVars, ReportInv, Started
    <3>2. Alone'
      BY <2>14 DEF MainExit, MainOnly, ReportInv, Alone
    <3>3. Places'
      BY <2>14 DEF MainExit, ExitCode, MainOnly, flagVars, ReportInv, Places
    <3>4. Reported'
      BY <2>14 DEF MainExit, MainOnly, engineVars, flagVars, ReportInv, valid, Reported
    <3>5. Verdicts'
      BY <2>14 DEF MainExit, ExitCode, MainOnly, engineVars, flagVars, valid, Verdicts
    <3>6. QED
      BY <3>1, <3>2, <3>3, <3>4, <3>5 DEF ReportInv
  <2>15. CASE MainThrows
    <3>1. Started'
      BY <2>15 DEF MainThrows, SaveDue, MainOnly, flagVars, ReportInv, Places, Started
    <3>2. Alone'
      BY <2>15 DEF MainThrows, SaveDue, MainOnly, flagVars, ReportInv, Alone
    <3>3. Places'
      BY <2>15, Saves DEF MainThrows, SaveDue, ReportInv, Running, Places
    <3>4. Reported'
      BY <2>15, Saves DEF MainThrows, SaveDue, MainOnly, engineVars, flagVars,
         ReportInv, valid, Places, Reported
    <3>5. Verdicts'
      BY <2>15 DEF MainThrows, ReportInv, Places, Running, Verdicts
    <3>6. QED
      BY <3>1, <3>2, <3>3, <3>4, <3>5 DEF ReportInv
  <2>16. CASE MainFailed
    <3>1. Started'
      BY <2>16 DEF MainFailed, MainOnly, flagVars, ReportInv, Started
    <3>2. Alone'
      BY <2>16 DEF MainFailed, MainOnly, Alone
    <3>3. Places'
      BY <2>16 DEF MainFailed, ReportInv, Places
    <3>4. Reported'
      BY <2>16 DEF MainFailed, MainOnly, engineVars, flagVars, ReportInv, valid,
         Reported
    <3>5. Verdicts'
      BY <2>16 DEF MainFailed, Verdicts
    <3>6. QED
      BY <3>1, <3>2, <3>3, <3>4, <3>5 DEF ReportInv
  <2>17. QED
    BY <1>5, <2>1, <2>2, <2>3, <2>4, <2>5, <2>6, <2>7, <2>8, <2>9, <2>10, <2>11, <2>12,
       <2>13, <2>14, <2>15, <2>16 DEF Main
<1>6. CASE Exited \/ UNCHANGED vars
  <2>1. UNCHANGED vars
    BY <1>6 DEF Exited
  <2>2. QED
    BY <2>1 DEF vars, engineVars, flagVars, reportVars, ReportInv, Started, Alone,
       Places, Reported, Verdicts, valid
<1>7. QED
  BY <1>1, <1>2, <1>3, <1>4, <1>5, <1>6 DEF Next

LEMMA ReportCorrect == Spec => []ReportInv
<1>1. ASSUME Init PROVE ReportInv
  <2>1. Started /\ Places
    BY <1>1 DEF Init, Started, Places
  <2>2. Alone
    BY <1>1 DEF Init, Alone
  <2>3. Reported /\ Verdicts
    BY <1>1 DEF Init, Reported, Verdicts, Running
  <2>4. QED
    BY <2>1, <2>2, <2>3 DEF ReportInv
<1>2. ReportInv /\ TimeInv /\ [Next]_vars => ReportInv'
  BY StepReported
<1>3. QED
  BY <1>1, <1>2, TimeCorrect, PTL DEF Spec

(* The exit code agrees with the report on disk, a started run leaves one   *)
(* report, and a completed report has the score of the end of the trial.    *)
THEOREM ExitMatchesReportCorrect == Spec => []ExitMatchesReport
<1>1. ASSUME ReportInv PROVE ExitMatchesReport
  <2>1. reports <= (IF origin = 0 THEN 0 ELSE 1)
    BY <1>1 DEF ReportInv, Started, Places
  <2>2. exit_code \in {0, 2} /\ origin # 0 => reports = 1
    BY <1>1 DEF ReportInv, Places
  <2>3. exit_code = 0 => report.valid /\ report.completed
    BY <1>1 DEF ReportInv, Started, Places, Reported, Verdicts
  <2>4. exit_code = 2 => ~report.valid
    BY <1>1 DEF ReportInv, Places, Reported, Verdicts, NoReport
  <2>5. report.completed => report.score = final_score
    BY <1>1 DEF ReportInv, Places, Reported, NoReport
  <2>6. QED
    BY <2>1, <2>2, <2>3, <2>4, <2>5 DEF ExitMatchesReport
<1>2. QED
  BY <1>1, ReportCorrect, PTL
=============================================================================
