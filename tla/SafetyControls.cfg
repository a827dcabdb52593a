SPECIFICATION Spec
CONSTANTS
  W1 = W1
  W2 = W2
  D1 = D1
  D2 = D2
  Workers <- MCWorkers
  MaxCalls = 4
  LimitRows <- MCLimitRows
  SwitchRequests <- MCSwitchRequests
  Evaluations <- MCEvaluations
  Tokens <- MCTokens
  Unlimited = 9
  Deactivated = {"lost"}
  Revocations <- MCRevocations
  MaxTime = 1
  Registrations <- MCRegistrations
  Predictions <- MCPredictions
  Datasets <- MCDatasets
  SessionRequests <- MCSessionRequests
  ChainEvents <- MCChainEvents
  ChainQueries <- MCChainQueries
SYMMETRY Symmetry
INVARIANTS ControlsAreAudited OneChampionInTurn
PROPERTIES RecordsAreOnce NoEntryUnderKillInTurn
CHECK_DEADLOCK FALSE
