-------------------------- MODULE MCReplayPlayback --------------------------
(***************************************************************************)
(* Two processes, two playback requests and a two-candle dataset, with an   *)
(* operator who once moves the cursor back by hand.  One step limit ends    *)
(* before the data does and one after it.  The processes are alike, so that *)
(* the first request may as well go to the first one.                       *)
(***************************************************************************)
EXTENDS ReplayPlayback, TLC

CONSTANTS P1, P2

MCProcs == {P1, P2}
MCStepLimits == {1, 3}
MCServes(t) == IF t = 1 THEN {P1} ELSE MCProcs
MCMoves == {0}
=============================================================================
