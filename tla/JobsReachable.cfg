SPECIFICATION Spec
CONSTANTS
  Jobs = {j1}
  Workers = {w1, w2}
  Tasks = {t1, t2}
  NoJob = NoJob
  Nobody = Nobody
  NoTask = NoTask
  Shared = Shared
  MaxConcurrent = 2
  MaxHandOffs = 1
  MaxFaults = 0
  MaxQueued = 2
CHECK_DEADLOCK FALSE
INVARIANT RunIsReachable
