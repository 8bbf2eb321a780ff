SPECIFICATION FairSpec
CONSTANTS
  None = None
  Jobs = {j1}
  Tasks = {t1, t2, t3}
  Handler = {h1}
  Worker = {w1}
  Token = {"worker-default"}
  ClaimToken <- DefaultToken
  Faults = {"crash"}
  Budget <- OneFault
PROPERTIES RunningEnds
CHECK_DEADLOCK FALSE
