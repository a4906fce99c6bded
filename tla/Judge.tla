-------------------------------- MODULE Judge -------------------------------
(***************************************************************************)
(* What the judgement engine promises, without cursors: docs/ARCHITECTURE  *)
(* "matches the earliest eligible note".  A tap takes the earliest note of *)
(* its lane that is still free and within the good window, or is empty.    *)
(* Once the trial is spoiled nothing changes any more.                     *)
(***************************************************************************)
EXTENDS Timeline

CONSTANTS Charts,      \* the charts a run may be given
          Times,       \* the times a tap may carry
          MaxEvents    \* the capacity of the input log

VARIABLES chart,       \* the notes of the trial
          taken,       \* the positions in chart of the notes already hit
          log,         \* the judged taps, oldest first
          spoiled      \* no further tap counts

judgeVars == <<chart, taken, log, spoiled>>

(* The free notes a tap at this time in this lane may hit. *)
Eligible(time, lane) ==
    {i \in DOMAIN chart \ taken :
        /\ chart[i].lane = lane
        /\ time - GoodWindow <= chart[i].target
        /\ chart[i].target <= time + GoodWindow}

Verdict(delay) ==
    IF -PerfectWindow <= delay /\ delay <= PerfectWindow THEN "Perfect" ELSE "Good"

JudgeInit ==
    /\ chart \in Charts
    /\ taken = {}
    /\ log = <<>>
    /\ spoiled = FALSE

Take(time, lane) ==
    \E i \in Eligible(time, lane) :
        /\ \A j \in Eligible(time, lane) : chart[i].target <= chart[j].target
        /\ taken' = taken \cup {i}
        /\ log' = Append(log, [time |-> time, lane |-> lane, note |-> chart[i].id,
                               stage |-> chart[i].stage,
                               kind |-> Verdict(time - chart[i].target)])

Waste(time, lane) ==
    /\ Eligible(time, lane) = {}
    /\ taken' = taken
    /\ log' = Append(log, [time |-> time, lane |-> lane, note |-> NoNote,
                           stage |-> InputStage(time), kind |-> "Empty"])

Tap(time, lane) ==
    /\ ~spoiled
    /\ InputStage(time) # "None"
    /\ Len(log) < MaxEvents
    /\ \A i \in DOMAIN log : log[i].time <= time
    /\ Take(time, lane) \/ Waste(time, lane)
    /\ UNCHANGED <<chart, spoiled>>

Spoil ==
    /\ ~spoiled
    /\ spoiled' = TRUE
    /\ UNCHANGED <<chart, taken, log>>

JudgeNext == Spoil \/ \E time \in Times, lane \in Lane : Tap(time, lane)

JudgeSpec == JudgeInit /\ [][JudgeNext]_judgeVars
=============================================================================
