SPECIFICATION Spec
CONSTANTS
  W1 = W1
  W2 = W2
  Workers <- MCWorkers
  Batches <- MCBatches
  Imports <- MCImports
  Instants <- MCInstants
  AsOf <- MCAsOf
  Cuts <- MCCuts
  Targets <- MCTargets
  Drift = 1
  DayLength = 6
  RegularOpen = 2
  RegularClose = 5
SYMMETRY WorkerSymmetry
PROPERTY RetryIsNoConflict
