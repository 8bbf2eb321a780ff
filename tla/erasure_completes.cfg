SPECIFICATION FairErasure
CONSTANTS
  None = None
  Jobs = {r1, r2, j1}
  Tasks = {}
  Request = {r1, r2}
  DayOf <- OneDay
  Eraser = {e1}
  Dispatcher = d1
  Token = {e1, d1}
  FaultBudget = 2
INVARIANTS ErasureTypeOK RequestedIsAudited
PROPERTIES RequestRowsLeaveComplete EnqueuedCompletes
CHECK_DEADLOCK FALSE
