SPECIFICATION JobsListSpec
CONSTANTS
  JobId = {1, 2, 3}
  Limit = 1
  MaxClock = 3
INVARIANTS EveryJobIsListed
CHECK_DEADLOCK FALSE
