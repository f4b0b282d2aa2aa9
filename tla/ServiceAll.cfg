SPECIFICATION MCSpec
CONSTANTS
  People = {"alice", "bob", "carol"}
  Tenants = {"t1", "t2"}
  DefaultTenant = "t1"
  HomeOf <- MCHomeOf
  GroupRole <- MCGroupRole
  Fallback = None
  Offered = {"admin", "owner"}
  Handlers = {h1, h2, h3}
  Shells = {h3}
  Bindings <- MCBindings
  MaxChanges = 2
  MaxFaults = 1
  Ids = {1, 2}
  Limit = 1
  MaxRenders = 2
  Addresses = {a, m}
  Missing = {m}
  MaxPolls = 1
  MaxVisits = 3
  MaxBreaks = 3
  None = None
CHECK_DEADLOCK FALSE
INVARIANTS ShownIsTrue
PROPERTIES AuthorityHolds RetentionReaches Converges
