--------------------------- MODULE MCResyncTicker ---------------------------
(* Small instances of ResyncTicker: zero, too short, and two good intervals. *)
EXTENDS ResyncTicker, TLC

MCIntervals == {0, 1, 2, 3}
MCSymmetry == Permutations(Ids)
=============================================================================
