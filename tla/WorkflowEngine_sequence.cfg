SPECIFICATION Spec
CONSTANTS
  None = None
  Nodes <- BrokenNodes
  Transitions <- BrokenTransitions
  Source <- From
  Target <- To
  Rule <- BrokenRules
  StartCondition <- AnyOf
  Threshold <- Unset
  FailureBehavior <- FailIfUnhandled
  TimeoutBehavior <- FailIfUnhandled
  AllowAfterFailure = {}
  ReEvaluated = {}
  MaxComplete <- One
  Refusable = {"extract", "load", "repair"}
  Unstartable = {"load"}
  TimeLimited = TRUE
  MaxRetries = 2
  Selections <- Singles
  MaxRestarts = 1
  UpdateStatuses <- Outcomes
  MaxCount = 1
   
PROPERTIES StoppedStartsNothing
