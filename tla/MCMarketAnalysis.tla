--------------------------- MODULE MCMarketAnalysis ---------------------------
EXTENDS MarketAnalysis

Candle(open, high, low, close) == [open |-> open, high |-> high, low |-> low, close |-> close]

MCCandles ==
  { Candle(11, 11, 9, 10), Candle(10, 13, 10, 12), Candle(18, 24, 18, 24),
    Candle(23, 24, 17, 18), Candle(18, 21, 8, 15) }

MCDayOf == <<1, 1, 2, 2, 3, 3, 3>>
MCWeekOf == <<1, 1, 1, 1, 2, 2, 2>>
=============================================================================
