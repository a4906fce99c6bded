------------------------------- MODULE MCReport -----------------------------
(* A small instance of Report: one model with two efforts; recordings with  *)
(* and without a gap over the limit, up to three samples.                   *)
EXTENDS Report

MCCatalog == <<[model |-> "a", efforts |-> <<"low", "max">>]>>

R(frames, polls) == [k \in Kind |-> IF k = "poll" THEN polls ELSE frames]

MCRecordings == {R(<<>>, <<>>), R(<<3, 1, 3>>, <<1, 2>>), R(<<1, 6>>, <<1>>)}
=============================================================================
