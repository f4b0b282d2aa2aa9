SPECIFICATION Spec
CONSTANTS
  Pods = {p}
  Containers = {a}
  StableAfter = 2
  MaxRestarts = 2
  MaxClock = 2
  None = None
CHECK_DEADLOCK FALSE
INVARIANT PastIsRunning
