SPECIFICATION MCSpec
CONSTANTS
  None = None
  Deleted = Deleted
  c1 = c1
  c2 = c2
  s1 = s1
  s2 = s2
  t1 = t1
  t2 = t2
  x1 = x1
  x2 = x2
  r1 = r1
  r2 = r2
  Schedules = {"daily"}
  Clusters = {c1, c2}
  Configs = {"v1", "v2"}
  MaxInstances = 2
  MaxSuffix = 1
  Requests <- Edits
  Subnets = {s1, s2}
  Options = {"FARGATE"}
  SettingsEdits <- SomeSettingsEdits
  Tasks = {t1}
  Uuids = {t1, t2}
  Names = {"reported", "renamed"}
  Reported = {"reported"}
  Executions = {x1, x2}
  Reporters = {r1, r2}
  MaxVersion = 2
  CallsFail = TRUE
  DescribeFails = FALSE
  RemovedByHand = TRUE
INVARIANTS AwsIsAsTheRowSays  DescriptionIsNewest
PROPERTIES  StartLeavesTask ChangedOptionReachesRule
CHECK_DEADLOCK FALSE
