SPECIFICATION MCSpec
CONSTANTS
  None = None
  east = east
  west = west
  daily = daily
  x1 = x1
  x2 = x2
  x3 = x3
  e1 = e1
  free = free
  paid = paid
  r1 = r1
  r2 = r2
  Envs = {east, west}
  Schedules = {daily}
  Starts = {x1, x2, x3}
  ScheduledStarts = {x3}
  Edits = {e1}
  Concurrencies = {1, 2}
  SometimesRuns = TRUE
  Plans = {free, paid}
  PlanLimit <- PlanLimits
  DefaultLimit = 2
  MaxRenewals = 1
  MaxCrashes = 1
  CreditRequests = {r1, r2}
  MaxCredits <- PlanLimits
  DefaultCredits = 2
  FirstMonth = 10
  LastMonth = 12
  MaxPerMonth = 3
SYMMETRY Symmetric
INVARIANTS ScheduledFires NothingElseFires WorkflowRowIsCurrent 
