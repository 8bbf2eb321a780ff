SPECIFICATION FairCapture
CONSTANTS
  e1 = e1
  e2 = e2
  e3 = e3
  NoEvent = NoEvent
  TaskEnd = TaskEnd
  Event = {e1, e2}
  Plan <- MixedPlan
  Threshold = 2
  Faults = {"record"}
  FaultBudget = 1
PROPERTIES ReadIsRecorded
CHECK_DEADLOCK FALSE
