SPECIFICATION FairSpec
CONSTANTS
  t1 = t1
  t2 = t2
  create = create
  order = order
  o1 = o1
  o2 = o2
  NoFact = NoFact
  Worker = {w1, w2}
  Tenant = {t1}
  EventType = {create}
  Order = {o1}
  Tracked <- OneStream
  Kinds = {"valid", "broken"}
  BatchSize = 1
  Grace = 1
  StoreFaults = TRUE
  DlqFaults = FALSE
  Threshold = 1
  Recovery = 1
  MaxTime = 2
  MaxEvents = 2
  MaxRestarts = 0
PROPERTIES ImplementsLedger Drained
