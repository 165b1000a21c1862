SPECIFICATION MCSpec
CONSTANTS
  None = None
  u1 = u1
  u2 = u2
  g1 = g1
  g2 = g2
  i1 = i1
  k1 = k1
  k2 = k2
  k3 = k3
  r1 = r1
  r2 = r2
  Users = {u1, u2}
  Groups = {g1, g2}
  Invitations = {i1}
  Keys = {k1, k2, k3}
  Levels = {1, 1000}
  MaxKeys = 2
  GroupRequests = {r1, r2}
  Workers = {w1, w2}
  Checker = checker
  MaxRequests = 3
  Horizon = 3
  MaxAge = 1
  MaxStoppingDuration = 2
  ManualStartAlertDelay = None
  ManualStartAbandonDelay = None
  HeartbeatInterval = None
  TaskHeartbeatInterval = None
  HeartbeatAlertLateness = None
  HeartbeatAbandonLateness = None
  SilentStatuses = {"SUCCEEDED"}
  UpdateStatuses <- ClientUpdates
CHECK_DEADLOCK FALSE
PROPERTY EndedNeverRunsAgain
