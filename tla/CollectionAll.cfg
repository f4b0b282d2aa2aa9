SPECIFICATION MCSpec
CONSTANTS
  Investigations = {warm, fresh}
  Refreshing = {fresh}
  Baseline = {"pods", "logs", "events"}
  Targeted = {"spec"}
  Reads = {"list", "log"}
  Applicable <- MCApplicable
  Requires <- MCRequires
  Optional <- MCOptional
  Requests <- MCRequests
  Size <- MCSize
  MaxBytes = 2
  Ttl = 1
  Concurrency = 1
  Timeout = 1
  Deadline = 1
  LastSubmit = 2
  MaxChanges = 1
  MaxFaults = 1
  Caps = {0, 2}
  Troubles = {"none", "denied", "namespaced", "partial", "refused", "dropped", "slow", "missing", "unconfigured", "silent", "gone", "unattributed"}
  MaxTurns = 1
  MaxPods = 2
  None = None
CHECK_DEADLOCK FALSE
INVARIANTS FreshInBounds VerdictIsTrue ToldAsItIs ListsAreWhole
PROPERTIES EndsAccountedFor
