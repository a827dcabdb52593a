---------------------------- MODULE MarketRegime ----------------------------
(***************************************************************************)
(* packages/strategies/regime.py: what kind of market a snapshot shows.  A   *)
(* snapshot m is a record of what is known at one close; prices, and ratios  *)
(* in one unit each, are integers.                                           *)
(***************************************************************************)
EXTENDS Integers

CONSTANTS
  AdxTrendThreshold,
  HighAtrPercent, LowAtrPercent,
  HighLiquidityVolume, LowLiquidityVolume,   \* relative volumes
  HighLiquiditySpread, LowLiquiditySpread    \* spreads in basis points

ASSUME RegimeAssumption ==
  /\ AdxTrendThreshold \in Nat
  /\ {LowAtrPercent, HighAtrPercent} \subseteq Nat /\ LowAtrPercent < HighAtrPercent
  /\ {LowLiquidityVolume, HighLiquidityVolume} \subseteq Nat
  /\ LowLiquidityVolume < HighLiquidityVolume
  /\ {HighLiquiditySpread, LowLiquiditySpread} \subseteq Nat
  /\ HighLiquiditySpread < LowLiquiditySpread

Trends == {"bull_trend", "bear_trend", "range"}

Trend(m) ==
  IF m.adx < AdxTrendThreshold THEN "range"
  ELSE IF m.close > m.emaFast /\ m.emaFast > m.emaSlow THEN "bull_trend"
  ELSE IF m.close < m.emaFast /\ m.emaFast < m.emaSlow THEN "bear_trend"
  ELSE "range"

Volatility(m) ==
  IF m.atrPercent >= HighAtrPercent THEN "high_volatility"
  ELSE IF m.atrPercent <= LowAtrPercent THEN "low_volatility"
  ELSE "normal_volatility"

Liquidity(m) ==
  IF m.relativeVolume >= HighLiquidityVolume /\ m.spread <= HighLiquiditySpread
  THEN "high_liquidity"
  ELSE IF m.relativeVolume <= LowLiquidityVolume \/ m.spread >= LowLiquiditySpread
  THEN "low_liquidity"
  ELSE "normal_liquidity"

(* Event risk locks entries; it does not change the other axes. *)
ClassifyRegime(m) ==
  [trend |-> Trend(m), volatility |-> Volatility(m), liquidity |-> Liquidity(m),
   entriesPermitted |-> ~m.eventRisk]
=============================================================================
