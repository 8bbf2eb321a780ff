SPECIFICATION FairSpec
CONSTANTS
  None = None
  Jobs = {j1, j2}
  Tasks = {t1, t2}
  Handler = {h1}
  Worker = {w1}
  Token = {"worker-default"}
  ClaimToken <- DefaultToken
  Faults = {"rpc"}
  Budget <- CalmBudget
PROPERTIES FollowsLifecycle AcceptedEnds FinishedLeaveQueue
CHECK_DEADLOCK FALSE
