------------------------------ MODULE MCCampaign ----------------------------
(***************************************************************************)
(* Campaign for TLC: two models; m2 may be missing from the catalog or be  *)
(* on a second page, m1 may have one effort only, which "low" and          *)
(* "maximum" then both mean, or lack the low one, as m2 does.              *)
(***************************************************************************)
EXTENDS Campaign

MCRequested == <<"m1", "m2">>
MCEfforts == <<"low", "maximum">>
MCCatalogs == { << [m \in {"m1"} |-> <<"low">>] >>,
                << [m \in {"m1"} |-> <<"low", "high">>] >>,
                << [m \in {"m1"} |-> <<"high">>], [m \in {"m1", "m2"} |-> <<"medium">>] >> }
=============================================================================
