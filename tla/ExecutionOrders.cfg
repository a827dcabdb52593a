SPECIFICATION Spec
CONSTANTS
  None = None
  NoBroker = None
  W1 = W1
  W2 = W2
  NoWorker = NoWorker
  Quantity <- MCQuantity
  Workers <- MCWorkers
  Events <- MCEvents
SYMMETRY WorkerSymmetry
INVARIANTS FillsMatchStatus LogIsAHistory LogReplaysToRow
PROPERTIES LedgerSpec TerminalIsFinal
