------------------------------ MODULE MCEngine ------------------------------
(* A small instance of Engine.  Perfect 1, good 2, lane lock 4: the targets *)
(* of calibration are 3..7, those of the scored stage 13..16, the input     *)
(* windows [1, 10) and [11, 19).                                            *)
EXTENDS Engine

N(lane, target, stage) ==
    [lane |-> lane, target |-> target, stage |-> stage, consumed |-> FALSE]

(* The notes get ids unlike their positions. *)
Numbered(s) == [i \in DOMAIN s |-> [id |-> 10 - i, lane |-> s[i].lane, target |-> s[i].target,
                                    stage |-> s[i].stage, consumed |-> s[i].consumed]]

C(lane, target) == N(lane, target, "Calibration")
S(lane, target) == N(lane, target, "Scored")

(* Two notes whose windows meet in one lane, two lanes interleaved, a note  *)
(* at each end of each stage, and charts the constructor must refuse.       *)
MCCharts ==
    {Numbered(s) : s \in
        { <<C(0, 3), C(0, 7), S(0, 13)>>,
          <<C(0, 3), C(1, 4), C(0, 7)>>,
          <<C(1, 7), S(0, 13), S(1, 16)>>,
          <<C(0, 5), C(1, 5)>>,
          <<C(0, 3), C(0, 6)>>,
          <<C(0, 7), C(1, 3)>>,
          <<S(0, 7)>>,
          <<C(0, 10)>> }}

MCTimes == {0, 1, 3, 4, 5, 7, 9, 10, 11, 13, 15, 18, 19}

MCHostReasons == {"", "run stopped"}
=============================================================================
