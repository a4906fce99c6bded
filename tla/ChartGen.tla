------------------------------ MODULE ChartGen ------------------------------
(***************************************************************************)
(* generate_chart of src/core.cpp: two stages of exponential waits, each   *)
(* attempt placed in a random lane that is not locked, or dropped when all *)
(* are.  One step is one turn of the loop over random words.               *)
(*                                                                         *)
(* The wait, an exponential variate, is any rounded value up to MaxWait:   *)
(* waits beyond the stage behave alike.  A turn's second draw is the word  *)
(* uniform_below accepts; the words it rejects are redrawn within the turn.*)
(***************************************************************************)
EXTENDS Timeline

CONSTANTS MaxWait,    \* the largest rounded wait drawn
          Words       \* the number of random words, 2^64 in the code

ASSUME ChartGenAssumption ==
    /\ MaxWait \in Nat
    /\ Words \in Nat
    /\ NumLanes <= Words
    (* 125 and 1250 locks in the code: the reserve is lanes * 25 * 55 notes *)
    /\ (CalibrationEnd - CalibrationStart) % LaneLock = 0
    /\ ScoredLength % LaneLock = 0

VARIABLES stage,            \* the stage being generated, "Done" or "Failed"
          target,           \* the time of the last attempt in this stage
          next_available,   \* when each lane's lock ends
          notes,            \* chart.notes
          stats             \* GenerationStats of each stage

chartVars == <<stage, target, next_available, notes, stats>>

NoStats == [attempts |-> 0, emitted |-> 0, dropped |-> 0]

ChartInit ==
    /\ stage = "Calibration"
    /\ target = CalibrationStart
    /\ next_available = [l \in Lane |-> 0]
    /\ notes = <<>>
    /\ stats = [s \in PlayedStage |-> NoStats]

-----------------------------------------------------------------------------
(* uniform_below: a word below the limit is rejected, so that the accepted  *)
(* words are a whole multiple of bound.                                     *)

(* Faulty: every word is accepted. *)
rejection_limit_None(bound) == 0

rejection_limit(bound) == (Words - bound) % bound

Accepted(bound) == {w \in 0..(Words - 1) : w >= rejection_limit(bound)}

(* max(1, llround(...)): every attempt is later than the one before. *)
AtLeastOne(wait) == IF wait < 1 THEN 1 ELSE wait

(* Faulty: the lock ends one tick early. *)
EligibleAt_Early(time) == {l \in Lane : time + 1 >= next_available[l]}

EligibleAt(time) == {l \in Lane : time >= next_available[l]}

(* The word picks the lane at index word % count of the array of eligible   *)
(* lanes, which is in ascending order.                                      *)
Picks(word, lanes, lane) ==
    Cardinality({l \in lanes : l < lane}) = word % Cardinality(lanes)

EndStage(wait) ==
    /\ AtLeastOne(wait) >= StageEnd(stage) - target
    /\ stage' = IF stage = "Calibration" THEN "Scored" ELSE "Done"
    /\ target' = ScoredStart
    /\ UNCHANGED <<next_available, notes, stats>>

Attempt(wait) ==
    /\ AtLeastOne(wait) < StageEnd(stage) - target
    /\ target' = target + AtLeastOne(wait)
    /\ stage' = stage

Drop(wait) ==
    /\ Attempt(wait)
    /\ EligibleAt(target') = {}
    /\ stats' = [stats EXCEPT ![stage].attempts = @ + 1, ![stage].dropped = @ + 1]
    /\ UNCHANGED <<next_available, notes>>

Count(s) == [stats EXCEPT ![s].attempts = @ + 1, ![s].emitted = @ + 1]

Emit(wait, word, lane) ==
    LET lanes == EligibleAt(target')
    IN  /\ Attempt(wait)
        /\ lane \in lanes
        /\ word \in Accepted(Cardinality(lanes))
        /\ Picks(word, lanes, lane)
        /\ notes' = Append(notes, [id |-> Len(notes), lane |-> lane, target |-> target',
                                   stage |-> stage, consumed |-> FALSE])
        /\ next_available' = [next_available EXCEPT ![lane] = target' + LaneLock]
        /\ stats' = Count(stage)

(* HardwareRandom::next throws when the retries are used up: no chart. *)
Fail ==
    /\ stage' = "Failed"
    /\ UNCHANGED <<target, next_available, notes, stats>>

Turn ==
    /\ stage \in PlayedStage
    /\ \/ \E wait \in 0..MaxWait : EndStage(wait) \/ Drop(wait)
       \/ \E wait \in 0..MaxWait, word \in 0..(Words - 1), lane \in Lane : Emit(wait, word, lane)
       \/ Fail

(* generate_chart has returned, or thrown. *)
Finished ==
    /\ stage \in {"Done", "Failed"}
    /\ UNCHANGED chartVars

ChartNext == Turn \/ Finished

ChartSpec == ChartInit /\ [][ChartNext]_chartVars

-----------------------------------------------------------------------------
(* Properties. *)

(* The Engine constructor accepts every chart generated: sorted, unique     *)
(* ids, every target in its stage, and the lane lock kept even from the end *)
(* of calibration into the scored stage.  An attempt never leaves its       *)
(* stage, so that end - target stays positive, generation ends, as a stage  *)
(* has fewer attempts than ticks, and the notes never outgrow what was      *)
(* reserved for them.                                                       *)
ChartAccepted ==
    /\ ValidChart(notes)
    /\ stage \in PlayedStage => StageStart(stage) <= target /\ target < StageEnd(stage)
    /\ \A s \in PlayedStage : stats[s].attempts < StageEnd(s) - StageStart(s)
    /\ Len(notes) <= NumLanes * ((CalibrationEnd - CalibrationStart + ScoredLength)
                                  \div LaneLock)

(* uniform_below favours no lane: the words it accepts, however many lanes  *)
(* are eligible, select each of them equally often.                         *)
Unbiased ==
    LET lanes == EligibleAt(target)
        chosenBy(l) == {w \in Accepted(Cardinality(lanes)) : Picks(w, lanes, l)}
    IN  \A k, l \in lanes :
            /\ chosenBy(k) # {}
            /\ Cardinality(chosenBy(k)) = Cardinality(chosenBy(l))
=============================================================================
