--------------------------- MODULE MCTelegramUpdates ---------------------------
(* Bounds for TLC: two requests, two runs, an update nobody can read.       *)
EXTENDS TelegramUpdates

CONSTANTS r1, r2, w1, w2

SecondIsMalformed == {2}
=============================================================================
