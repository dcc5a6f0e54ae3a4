SPECIFICATION Spec
CONSTANTS
  t1 = t1
  t2 = t2
  create = create
  order = order
  o1 = o1
  o2 = o2
  NoFact = NoFact
  Worker = {w1}
  Tenant = {t1, t2}
  EventType = {create}
  Order = {o1}
  Tracked <- TwoTenants
  Kinds = {"valid", "unmapped", "malformed", "broken"}
  BatchSize = 2
  Grace = 2
  StoreFaults = TRUE
  DlqFaults = FALSE
  Threshold = 2
  Recovery = 1
  MaxTime = 3
  MaxEvents = 2
  MaxRestarts = 1
INVARIANTS WellFormed NoSilentGap SilverKeepsUp TenantIsolation
PROPERTIES NoStaleUpsert
