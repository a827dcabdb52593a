----------------------------- MODULE FindingsLog -----------------------------
(***************************************************************************)
(* What an analysis of closed candles promises whoever acts on it: nothing   *)
(* it has said is taken back or changed, and what it says is dated at the    *)
(* close of the candle that let it be said, never before.                    *)
(***************************************************************************)
EXTENDS Naturals

VARIABLES
  clock,   \* candles closed
  log      \* findings, each with the candle at whose close it was "known"

LogInit == clock = 0 /\ log = {}

LogNext ==
  /\ clock' = clock + 1
  /\ log \subseteq log'
  /\ \A finding \in log' \ log : finding.known = clock'

LogSpec == LogInit /\ [][LogNext]_<<clock, log>>
=============================================================================
