SPECIFICATION MCSpec
CONSTANTS
  Collectors = {c1, c2}
  Finisher = Finisher
  Reaper = Reaper
  LocalCollectors = {c1}
  Callback = Callback
  Cancellers = {Callback}
  MayCancel = TRUE
  MayReap = TRUE
  MaxProgress = 2
  LocalProgress = 1
  MaxOthers = 1
  MaxLost = 1
  MaxConnections = 2
  QueueSize = 2
CHECK_DEADLOCK FALSE
INVARIANTS InOrder MissesNothing SeesAll
PROPERTIES TerminalIsLast StreamsEnd
