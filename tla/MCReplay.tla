------------------------------- MODULE MCReplay ------------------------------
(* A small instance of Replay, with the timing of MCEngine and charts whose *)
(* ids count from zero, as generate_chart numbers them.                     *)
EXTENDS Replay

N(lane, target, stage) ==
    [lane |-> lane, target |-> target, stage |-> stage, consumed |-> FALSE]

Numbered(s) == [i \in DOMAIN s |-> [id |-> i - 1, lane |-> s[i].lane, target |-> s[i].target,
                                    stage |-> s[i].stage, consumed |-> s[i].consumed]]

(* Two windows that meet in one lane and a stage end; two lanes. *)
MCCharts ==
    {Numbered(s) : s \in
        { <<N(0, 3, "Calibration"), N(0, 7, "Calibration"), N(0, 13, "Scored")>>,
          <<N(1, 4, "Calibration"), N(0, 7, "Calibration"), N(1, 16, "Scored")>> }}

MCTimes == {0, 3, 5, 9, 11, 15, 18, 19}

MCHostReasons == {"run stopped"}
=============================================================================
