SPECIFICATION MCSpec
CONSTANTS
  None = None
  Executions = {e1, e2, e3}
  MaxConcurrency = 2
  Horizon = 7
  MaxAge = 5
  MaxStoppingDuration = 3
  ManualStartAlertDelay = 1
  ManualStartAbandonDelay = 2
  HeartbeatInterval = 1
  TaskHeartbeatInterval = 1
  HeartbeatAlertLateness = 1
  HeartbeatAbandonLateness = 2
  SilentStatuses = {"SUCCEEDED"}
  CreateStatuses <- ClientCreates
  UpdateStatuses <- ClientUpdates
INVARIANTS TypeOK OpenAlertMeansLate
PROPERTIES EndedNeverRunsAgain EveryExecutionEnds ImplementsExecutionLife
