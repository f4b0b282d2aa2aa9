SPECIFICATION FairSpec
CONSTANTS
  Jobs = {j1}
  Workers = {w1, w2}
  Tasks = {t1}
  NoJob = NoJob
  Nobody = Nobody
  NoTask = NoTask
  Shared = Shared
  MaxConcurrent = 1
  MaxHandOffs = 1
  MaxFaults = 1
  MaxQueued = 1
CHECK_DEADLOCK FALSE
PROPERTIES EventuallySettled CancelSettles
