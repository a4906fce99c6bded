------------------------------ MODULE Timeline ------------------------------
(***************************************************************************)
(* The timing constants of a run and the classification of times and       *)
(* charts that every other module uses (include/chronolane/core.hpp,       *)
(* Timeline::input_stage, target_in_stage and the chart checks of the      *)
(* Engine constructor in src/core.cpp).                                    *)
(*                                                                         *)
(* Times are integers (nanoseconds in the code, ticks here) counted from   *)
(* the origin of the run.                                                  *)
(***************************************************************************)
EXTENDS Integers, Sequences, FiniteSets

CONSTANTS PerfectWindow,     \* kPerfectWindow, 8 ms in the code
          GoodWindow,        \* kGoodWindow, 20 ms
          LaneLock,          \* kLaneLock, 40 ms
          CalibrationStart,  \* Timeline::calibration_start, 1 s
          CalibrationEnd,    \* Timeline::calibration_end, 6 s
          RestLength,        \* the 5 s between calibration tail and scored stage
          ScoredLength,      \* the 50 s of the scored stage
          NumLanes           \* Config::lanes, 2..16 in the code

(* What the proofs need of the constants of core.hpp: the windows are       *)
(* nested, a lane lock separates notes, and the rest is longer than the     *)
(* early window, so that the input windows of the two stages are disjoint.  *)
ASSUME TimelineAssumption ==
    /\ PerfectWindow \in Nat
    /\ GoodWindow \in Nat
    /\ PerfectWindow <= GoodWindow
    /\ LaneLock \in Nat \ {0}
    /\ CalibrationStart \in Nat
    /\ CalibrationEnd \in Nat
    /\ CalibrationStart < CalibrationEnd
    /\ RestLength \in Nat
    /\ GoodWindow <= RestLength
    /\ ScoredLength \in Nat \ {0}
    /\ NumLanes \in Nat \ {0}

Lane == 0..(NumLanes - 1)

CalibrationTailEnd == CalibrationEnd + GoodWindow
ScoredStart        == CalibrationTailEnd + RestLength
ScoredEnd          == ScoredStart + ScoredLength
Finish             == ScoredEnd + GoodWindow

PlayedStage == {"Calibration", "Scored"}
Stage       == PlayedStage \cup {"None"}

(* Targets live in [start, end) of their stage. *)
StageStart(stage) == IF stage = "Calibration" THEN CalibrationStart ELSE ScoredStart
StageEnd(stage)   == IF stage = "Calibration" THEN CalibrationEnd ELSE ScoredEnd

TargetInStage(time, stage) ==
    /\ stage \in PlayedStage
    /\ StageStart(stage) <= time
    /\ time < StageEnd(stage)

(* The stage an input is accounted to: the stage's targets widened by the   *)
(* early and the late window.                                               *)
InputStage(time) ==
    IF CalibrationStart - GoodWindow <= time /\ time < CalibrationTailEnd THEN "Calibration"
    ELSE IF ScoredStart - GoodWindow <= time /\ time < Finish THEN "Scored"
    ELSE "None"

-----------------------------------------------------------------------------
(* Notes.  NoNote stands for kNoNote, which is no note's id.                *)

NoNote == -1

Note == [id : Nat, lane : Nat, target : Nat, stage : Stage, consumed : BOOLEAN]

(* The charts the Engine constructor accepts; it throws on any other.  The  *)
(* code compares a note with the one before it and the one before it in its *)
(* lane, which for a sorted chart says the same of every pair.              *)
ValidChart(chart) ==
    /\ \A i \in DOMAIN chart :
          /\ chart[i].lane \in Lane
          /\ ~chart[i].consumed
          /\ TargetInStage(chart[i].target, chart[i].stage)
          /\ chart[i].id # NoNote
    /\ \A i, j \in DOMAIN chart : i < j =>
          /\ chart[i].target <= chart[j].target
          /\ chart[i].id # chart[j].id
          /\ chart[i].lane = chart[j].lane => chart[j].target - chart[i].target >= LaneLock
=============================================================================
