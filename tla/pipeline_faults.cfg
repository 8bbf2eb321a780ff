SPECIFICATION Spec
CONSTANTS
  None = None
  Jobs = {j1}
  Tasks = {t1, t2, t3}
  Handler = {h1, h2}
  Worker = {w1, w2}
  Token = {w1, w2}
  ClaimToken <- OwnToken
  Faults = {"db", "rpc", "poll", "disconnect", "crash"}
  Budget <- FaultyBudget
SYMMETRY Symmetry
INVARIANTS TypeOK NoJobLost SucceededTask
PROPERTIES TaskIsKept KeepsPromise RowsLeaveFinished LeaseIsRespected
CHECK_DEADLOCK FALSE
