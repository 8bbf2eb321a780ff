SPECIFICATION ErasureSpec
CONSTANTS
  None = None
  Jobs = {r1, j1}
  Tasks = {}
  Request = {r1}
  DayOf <- OneDay
  Eraser = {e1}
  Dispatcher = d1
  Token = {e1, d1}
  FaultBudget = 0
PROPERTIES JobRowsLeaveEnded
CHECK_DEADLOCK FALSE
