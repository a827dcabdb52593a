SPECIFICATION Spec
CONSTANTS
  SwingLeft = 1
  SwingRight = 1
  InternalLeft = 2
  InternalRight = 1
  MinimumGap = 500
  SweepTolerance = 500
  EqualTolerance = 500
  DisplacementLookback = 1
  BodyMultiple = 80
  CloseLocation = 75
  OrderBlockLookback = 2
  DayOf <- MCDayOf
  WeekOf <- MCWeekOf
  Candles <- MCCandles
  MaxCandles = 7
INVARIANTS OneBreakPerCandle
PROPERTIES NothingRepaints LevelsFollowSessions ChartsOnlyExtend
CHECK_DEADLOCK FALSE
