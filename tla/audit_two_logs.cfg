SPECIFICATION ScanSpec
CONSTANTS
  None = None
  api = api
  worker = worker
  e1 = e1
  e2 = e2
  e3 = e3
  e4 = e4
  Entry = {e1, e2, e3}
  Log = {api, worker}
  LogOf <- TwoLogs
  Streams = {api}
  Home = api
  BatchSize = 2
  Faults = {}
  FaultBudget = 0
INVARIANTS ChainIsLinear
CHECK_DEADLOCK FALSE
