---------------------------- MODULE MCPixelAgent -----------------------------
(* Two lanes, two notes as near as a lane may have them, one between. *)
EXTENDS PixelAgent

MCNotes == {[lane |-> 1, at |-> 2], [lane |-> 1, at |-> 7], [lane |-> 2, at |-> 4]}
MCPhaseStart == [waiting |-> 2, scored |-> 3, finished |-> 6]
MCCorrections == {-4}
=============================================================================
