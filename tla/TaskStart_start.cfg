SPECIFICATION MCSpec
CONSTANTS
  None = None
  w1 = w1
  w2 = w2
  m1 = m1
  m2 = m2
  e1 = e1
  e2 = e2
  Starts = {w1, w2, m1, m2}
  ByWrapper = {w1, w2}
  MaxConcurrency = 1
  MaxHistory = 2
  Crashes = TRUE
  AnswersLost = TRUE
  Configurations <- SomeTasks
  Bodies <- SomeBodies
  Executions = {e1, e2}
  Lookback = 2
  Startup = 1
  MaxRequired = 2
  MaxGap = 2
  MaxEvents = 2
  Horizon = 4
SYMMETRY Symmetric
INVARIANTS NoProcessWithoutRow StartedHasProcess LimitExceededOnlyTogether ProcessIsAsRowSays
PROPERTIES PurgeSparesTheLiving ReportsAreRight
CHECK_DEADLOCK FALSE
