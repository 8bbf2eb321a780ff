SPECIFICATION DriftSpec
CONSTANTS
  e1 = e1
  e2 = e2
  e3 = e3
  t1 = t1
  t2 = t2
  NoEvent = NoEvent
  Event = {e1, e2, e3}
  Plan <- MixedPlan
  Threshold = 2
  Faults = {"refuse", "lost", "mark", "record", "crash"}
  FaultBudget = 2
  Payer = {t1, t2}
  PayerOf <- TwoPayers
  Units <- OneUnit
  Window = {e1, e2, e3}
  Overlapping = {e1, e2, e3}
INVARIANTS ChargedOnce BilledIsCharged UnpaidIsTold BilledIsQuiet
PROPERTIES SettledIsFinal ChargesAsPromised
CHECK_DEADLOCK FALSE
