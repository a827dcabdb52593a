SPECIFICATION FairSpec
CONSTANTS
  P1 = P1
  P2 = P2
  Procs <- MCProcs
  MaxTasks = 2
  Total = 2
  StepLimits <- MCStepLimits
  Serves <- MCServes
  MaxMoves = 1
  Moves <- MCMoves
  Operator = Operator
  Nobody = Nobody
  NoTask = NoTask
  NoVersion = NoVersion
INVARIANTS RunsAreUninterrupted OneTaskPerProcess RunsTellWhatHappened RowsFollowTasks StopIsPrompt
PROPERTIES RunsAreRecorded
CHECK_DEADLOCK FALSE
