SPECIFICATION FairCapture
CONSTANTS
  e1 = e1
  e2 = e2
  e3 = e3
  NoEvent = NoEvent
  TaskEnd = TaskEnd
  Event = {e1, e2, e3}
  Plan <- SkipPlan
  Threshold = 3
  Faults = {"refuse", "lost", "mark", "record", "crash"}
  FaultBudget = 2
INVARIANTS CaptureTypeOK CursorIsCovered FinishedIsCaptured
PROPERTIES FinishedIsCharged RecordedSettles BillableIsBilled
CHECK_DEADLOCK FALSE
