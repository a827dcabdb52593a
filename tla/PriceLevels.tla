----------------------------- MODULE PriceLevels -----------------------------
(***************************************************************************)
(* packages/smc_ict/engine.py: what the latest candles say now, and the next *)
(* may replace: the levels of the days and weeks of the Indian calendar, and  *)
(* the zones of the last confirmed dealing range.                                *)
(***************************************************************************)
EXTENDS Integers, Sequences, FiniteSetsExt

(* The periods of a sequence of candles are numbered in the order of time.   *)
CONSTANTS
  DayOf,    \* of the number of a candle, its local date
  WeekOf    \* ... and its ISO week

Current(cs, PeriodOf) == {i \in DOMAIN cs : PeriodOf[i] = PeriodOf[Len(cs)]}

(* A slip the runs must notice: the first period there is, not the last.     *)
FirstPeriod(cs, PeriodOf) ==
  LET earlier == DOMAIN cs \ Current(cs, PeriodOf)
  IN {i \in earlier : \A j \in earlier : PeriodOf[i] <= PeriodOf[j]}

(* The candles of the last period before that of the newest candle.          *)
Previous(cs, PeriodOf) ==
  LET earlier == DOMAIN cs \ Current(cs, PeriodOf)
  IN {i \in earlier : \A j \in earlier : PeriodOf[j] <= PeriodOf[i]}

(* A pair of levels is dated at the close of its last candle. *)
LevelsOf(cs, period, high, low) ==
  IF period = {} THEN {}
  ELSE {[kind |-> high, price |-> Max({cs[i].high : i \in period}), known |-> Max(period)],
        [kind |-> low, price |-> Min({cs[i].low : i \in period}), known |-> Max(period)]}

ReferenceLevels(cs) ==
  LevelsOf(cs, Previous(cs, DayOf), "previous day high", "previous day low")
  \cup LevelsOf(cs, Previous(cs, WeekOf), "previous week high", "previous week low")
  \cup LevelsOf(cs, Current(cs, DayOf), "session high", "session low")

-----------------------------------------------------------------------------
(* _price_zones, in hundredths of a price. *)
LastSwing(swings, direction) ==
  CHOOSE s \in swings : /\ s.direction = direction
                        /\ \A u \in swings : u.direction = direction => u.at <= s.at

PriceZones(swings) ==
  LET high == LastSwing(swings, "BEARISH")
      low == LastSwing(swings, "BULLISH")
      width == high.price - low.price
      Zone(kind, from, to) ==
        [kind |-> kind, lower |-> low.price * 100 + width * from,
         upper |-> low.price * 100 + width * to, known |-> Max({high.known, low.known})]
  IN IF {s.direction : s \in swings} # {"BULLISH", "BEARISH"} \/ width <= 0 THEN {}
     ELSE {Zone("discount", 0, 50), Zone("premium", 50, 100),
           Zone("bullish ote", 62, 79), Zone("bearish ote", 21, 38)}
=============================================================================
