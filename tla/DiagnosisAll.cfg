SPECIFICATION MCSpec
CONSTANTS
  Deployment <- Web
  Pods <- Replicas
  Bystander <- Api1
  Service <- Svc
  Claim <- ClaimOf
  Class <- Standard
  Home <- HomeOf
  Objects <- AllObjects
  Faults = {"claim", "class", "capacity", "image", "config", "crash", "memory", "liveness", "readiness", "node", "pressure", "selector"}
  Unread <- OneMissing
  PodNames = {p}
  Containers = {a, b}
  StableAfter = 2
  MaxRestarts = 2
  MaxClock = 2
  MaxOthers = 1
  Keys = {"a", "b"}
  Worlds <- DeepWorlds
  MaxEvents = 2
  Degraded = {"timeout"}
  MaxTurns = 1
  None = None
CHECK_DEADLOCK FALSE
INVARIANTS SaysWhatIs JoinsLead CauseIsNamed RanksSoundly PlanHolds DiagnosisHolds DeepReadsHold
PROPERTY ReadsAgree
