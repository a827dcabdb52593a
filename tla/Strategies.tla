------------------------------ MODULE Strategies ------------------------------
(***************************************************************************)
(* packages/strategies/engine.py: what the five initial strategies propose   *)
(* on a snapshot m.  What may be missing, the opening range, the fair value   *)
(* gap and the z-score, is a set of at most one element.                     *)
(***************************************************************************)
EXTENDS MarketRegime, DecisionEngine

CONSTANTS
  MinimumRelativeVolume,
  StopAtrMultiple,
  TargetRiskMultiple,
  MaximumRiskFraction,
  MeanReversionZscore,
  RequireOrbRetest

ASSUME StrategyAssumption ==
  /\ MinimumRelativeVolume \in Nat \ {0}
  /\ {StopAtrMultiple, TargetRiskMultiple, MeanReversionZscore} \subseteq Nat \ {0}
  /\ MaximumRiskFraction \in Nat \ {0}
  /\ RequireOrbRetest \in BOOLEAN

StrategyNames ==
  {"trend_continuation", "liquidity_sweep_reversal", "opening_range_breakout",
   "fvg_continuation", "range_mean_reversion"}

(* A snapshot: the features of the regime and the context of a strategy.     *)
Bounds == {r \in [low : Nat, high : Nat] : r.low < r.high}

Contexts ==
  [close : Nat, emaFast : Nat \ {0}, emaSlow : Nat, adx : Nat, atrPercent : Nat,
   relativeVolume : Nat, spread : Nat, eventRisk : BOOLEAN, sessionAllowed : BOOLEAN,
   atr : Nat \ {0}, vwap : Nat \ {0}, higherTimeframeTrend : Trends,
   liquiditySweep : Entries \cup {"none"}, structure : Entries \cup {"none"},
   openingRange : SUBSET Bounds, openingRangeComplete : BOOLEAN, retestConfirmed : BOOLEAN,
   fvg : SUBSET [direction : Entries, bounds : Bounds], zscore : SUBSET Int]

TrendOf(direction) == IF direction = "LONG" THEN "bull_trend" ELSE "bear_trend"

SupportedRegimes(name) ==
  CASE name \in {"trend_continuation", "fvg_continuation"} -> {"bull_trend", "bear_trend"}
    [] name = "range_mean_reversion" -> {"range"}
    [] OTHER -> Trends

(* A slip the checks must notice: the event lock is forgotten. *)
GateWithoutEvents(name, m) ==
  LET regime == ClassifyRegime(m)
  IN (IF m.sessionAllowed THEN {} ELSE {"OUTSIDE_TRADING_SESSION"}) \cup
     (IF regime.liquidity = "low_liquidity" THEN {"LOW_LIQUIDITY"} ELSE {}) \cup
     (IF regime.trend \in SupportedRegimes(name) THEN {} ELSE {"UNSUPPORTED_REGIME"})

(* The common entry locks. *)
Gate(name, m) ==
  LET regime == ClassifyRegime(m)
  IN (IF m.sessionAllowed THEN {} ELSE {"OUTSIDE_TRADING_SESSION"}) \cup
     (IF regime.entriesPermitted THEN {} ELSE {"EVENT_RISK_LOCK"}) \cup
     (IF regime.liquidity = "low_liquidity" THEN {"LOW_LIQUIDITY"} ELSE {}) \cup
     (IF regime.trend \in SupportedRegimes(name) THEN {} ELSE {"UNSUPPORTED_REGIME"})

-----------------------------------------------------------------------------
(* What the rules of each strategy ask for behind the gate, of a direction d. *)
Reaches(d, price, level) == IF d = "LONG" THEN price >= level ELSE price <= level

HasVolume(m) == m.relativeVolume >= MinimumRelativeVolume

FollowsTrends(d, m) == Trend(m) = TrendOf(d) /\ m.higherTimeframeTrend = TrendOf(d)

ContinuesTrend(d, m) ==
  /\ FollowsTrends(d, m)
  /\ Reaches(d, m.close, m.emaFast) /\ Reaches(d, m.close, m.vwap)
  /\ HasVolume(m)

ReversesSweep(d, m) == m.liquiditySweep = d /\ m.structure = d

BreaksOpeningRange(d, m) ==
  /\ m.openingRangeComplete
  /\ HasVolume(m)
  /\ RequireOrbRetest => m.retestConfirmed
  /\ \E r \in m.openingRange : IF d = "LONG" THEN m.close > r.high ELSE m.close < r.low

RetracesIntoGap(d, m) ==
  /\ FollowsTrends(d, m)
  /\ \E g \in m.fvg : g.direction = d /\ g.bounds.low <= m.close /\ m.close <= g.bounds.high

RevertsToMean(d, m) ==
  \E z \in m.zscore : IF d = "LONG" THEN z <= -MeanReversionZscore ELSE z >= MeanReversionZscore

Confirms(name, d, m) ==
  CASE name = "trend_continuation" -> ContinuesTrend(d, m)
    [] name = "liquidity_sweep_reversal" -> ReversesSweep(d, m)
    [] name = "opening_range_breakout" -> BreaksOpeningRange(d, m)
    [] name = "fvg_continuation" -> RetracesIntoGap(d, m)
    [] name = "range_mean_reversion" -> RevertsToMean(d, m)

-----------------------------------------------------------------------------
(* _levels: the stop is a multiple of the ATR away, the target a multiple of *)
(* that; only the mean reversion has a target of its own.                    *)
SignOf(d) == IF d = "LONG" THEN 1 ELSE -1
StopOf(d, m) == m.close - SignOf(d) * (m.atr * StopAtrMultiple)
TargetOf(name, d, m) ==
  IF name = "range_mean_reversion" THEN m.vwap
  ELSE m.close + SignOf(d) * (m.atr * StopAtrMultiple * TargetRiskMultiple)

Proposal(name, d, m) ==
  [action |-> d, entry |-> m.close, stop |-> StopOf(d, m), target |-> TargetOf(name, d, m),
   risk |-> MaximumRiskFraction, reasons |-> {}]

NoTrade(reasons) ==
  [action |-> "NO_TRADE", entry |-> NoPrice, stop |-> NoPrice, target |-> NoPrice, risk |-> 0,
   reasons |-> reasons]

(* The wording of what a strategy missed behind its gate is left out. *)
Evaluate(name, m) ==
  IF Gate(name, m) # {} THEN NoTrade(Gate(name, m))
  ELSE IF Confirms(name, "LONG", m) THEN Proposal(name, "LONG", m)
  ELSE IF Confirms(name, "SHORT", m) THEN Proposal(name, "SHORT", m)
  ELSE NoTrade({"NOT_CONFIRMED"})
=============================================================================
