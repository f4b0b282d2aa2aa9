SPECIFICATION FairSpec
CONSTANTS
  Alerts = {"a", "b"}
  Batches <- MCBatches
  Requests = {q1}
  Workers = {w1, w2}
  Cooldown = 3
  Tolerance = 1
  Subjects = {s1, s2}
  Tenant = tenant
  Limit <- MCLimit
  Window = 2
  Ahead <- NoneAhead
  MaxFaults = 1
  MaxArrivals = 2
  Traffics <- OneKind
  None = None
INVARIANTS RequestStartsOnce LimitsHold
PROPERTIES OncePerCooldown KeepsInvestigating
