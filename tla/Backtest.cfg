SPECIFICATION SSpec
CONSTANTS
  NoPrice = NoPrice
  Weights <- MCWeights
  MinConfidence = 65
  MinQuality = 80
  MinRiskReward = 150
  Candles <- MCCandles
  Decisions <- MCDecisions
  MaxBars = 5
  InitialCapital = 3000
  Slippage = 10
  CostRate = 10
  FlatCost = 5
  RiskCap = 10
  NotionalCap = 100
  AdxTrendThreshold = 20
  HighAtrPercent = 200
  LowAtrPercent = 50
  HighLiquidityVolume = 120
  LowLiquidityVolume = 70
  HighLiquiditySpread = 10
  LowLiquiditySpread = 25
  MinimumRelativeVolume = 120
  StopAtrMultiple = 1
  TargetRiskMultiple = 2
  MaximumRiskFraction = 20
  MeanReversionZscore = 2
  RequireOrbRetest = FALSE
  Snapshots <- MCSnapshots
  Scores <- MCScores
INVARIANTS FillsComeLater FillsAreConservative BooksAddUp PositionsAreJustified
PROPERTIES DecisionsTakeEffect
CHECK_DEADLOCK FALSE
