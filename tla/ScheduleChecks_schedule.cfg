SPECIFICATION FairSpec
CONSTANTS
  None = None
  Schedules <- Schedulings
  Required = 2
  Early = 0
  Late = 3
  Grace = 1
  Busy = {2}
  Horizon = 4
  MaxStarts = 1
  MaxEvents = 2
  MaxUpdates = 1
INVARIANTS OneEventPerTime 
PROPERTIES EnoughResolves
CHECK_DEADLOCK FALSE
