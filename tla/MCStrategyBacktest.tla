-------------------------- MODULE MCStrategyBacktest --------------------------
(***************************************************************************)
(* Snapshots that let each strategy propose a trade at some of the closes,   *)
(* and that forbid it: an event, a closed session, a market without          *)
(* liquidity, a higher timeframe that disagrees, an opening range that is     *)
(* not complete, an average on the wrong side of the close.  The candles are *)
(* a calm one, one that touches every stop and target, a climb that touches  *)
(* neither of a long, and gaps beyond the stop and the target of either      *)
(* side, after which entries are refused or differently sized.               *)
(***************************************************************************)
EXTENDS StrategyBacktest

Candle(open, high, low, close) == [open |-> open, high |-> high, low |-> low, close |-> close]

MCCandles ==
  { Candle(300, 300, 300, 300), Candle(300, 600, 100, 400), Candle(300, 400, 300, 400),
    Candle(500, 600, 500, 500), Candle(200, 200, 100, 100) }

Bull ==
  [close |-> 0, emaFast |-> 250, emaSlow |-> 200, adx |-> 20, atrPercent |-> 33,
   relativeVolume |-> 120, spread |-> 10, eventRisk |-> FALSE, sessionAllowed |-> TRUE,
   atr |-> 100, vwap |-> 300, higherTimeframeTrend |-> "bull_trend",
   liquiditySweep |-> "none", structure |-> "none",
   openingRange |-> {[low |-> 200, high |-> 400]}, openingRangeComplete |-> TRUE,
   retestConfirmed |-> FALSE,
   fvg |-> {[direction |-> "LONG", bounds |-> [low |-> 300, high |-> 450]]}, zscore |-> {-3}]

Bear ==
  [Bull EXCEPT !.emaFast = 350, !.emaSlow = 450, !.higherTimeframeTrend = "bear_trend",
               !.fvg = {[direction |-> "SHORT", bounds |-> [low |-> 100, high |-> 300]]}]

Ranging ==
  [Bull EXCEPT !.adx = 19, !.liquiditySweep = "SHORT", !.structure = "SHORT", !.zscore = {-2},
               !.openingRangeComplete = FALSE]

MCSnapshots ==
  { Bull, Bear, Ranging,
    [Bull EXCEPT !.eventRisk = TRUE], [Bull EXCEPT !.higherTimeframeTrend = "bear_trend"],
    [Bear EXCEPT !.sessionAllowed = FALSE], [Ranging EXCEPT !.spread = 25] }

MCWeights == [name \in {"technical", "data_quality", "ml"} |-> IF name = "technical" THEN 60 ELSE 20]

MCScores ==
  { [name \in {"technical", "data_quality"} |-> IF name = "technical" THEN t ELSE 90] :
      t \in {40, 80} }

MCDecisions ==
  { Decide(ExitSignal, s) : s \in MCScores } \cup
  { Decide(Evaluate(name, SnapshotAt(m, c)), s) :
      name \in StrategyNames, m \in MCSnapshots, c \in MCCandles, s \in MCScores }
=============================================================================
