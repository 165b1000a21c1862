SPECIFICATION MCSpec
CONSTANTS
  silence = silence
  missed = missed
  ofTask = ofTask
  ofEnv = ofEnv
  pager = pager
  chat = chat
  mail = mail
  None = None
  Processes = {p, q}
  Severity <- Severities
  PostponeSeconds <- Delays
  PostponeCount <- PostponedCounts
  RequiredSuccesses = 1
  SameExecution = FALSE
  MaxSeverity = 500
  MaxRequests = 1
  Period = 1
  MaxEnds = 2
  MaxEdits = 1
  MaxCrashes = 1
  MaxAttempts = 2
  MaxSwitches = 1
  Silences = {silence}
  Misses = {missed}
  Profiles = {ofTask, ofEnv}
  OfTask = {ofTask}
  MethodsOf <- ProfileMethods
  Kind <- Kinds
  MaxEvents = 2
  MaxRows = 4
  MaxTroubles = 1
INVARIANTS  HeardOnce LimitHolds IncidentsFollowAlerts NotificationsAccount
 
CHECK_DEADLOCK FALSE
