SPECIFICATION Spec
CONSTANTS
  W1 = W1
  W2 = W2
  NoWorker = NoWorker
  Workers <- MCWorkers
  Intents <- MCIntents
  Prices <- MCPrices
  InitialCash = 20
  Slippage = 0
  Charge = 1
  CalmContext <- MCContext
  Limits <- MCLimits
INVARIANT CashAddsUp
