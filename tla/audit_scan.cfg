SPECIFICATION ScanSpec
CONSTANTS
  None = None
  api = api
  worker = worker
  e1 = e1
  e2 = e2
  e3 = e3
  e4 = e4
  Entry = {e1, e2, e3, e4}
  Log = {api}
  LogOf <- OneLog
  Streams = {api}
  Home = api
  BatchSize = 2
  Faults = {"db", "put", "crash", "object", "row", "read"}
  FaultBudget = 1
INVARIANTS LogTypeOK ChainIsLinear ScanTypeOK NoFalseAlarm PassIsThorough
SYMMETRY Symmetry
CHECK_DEADLOCK FALSE
