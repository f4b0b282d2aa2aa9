SPECIFICATION MCSpec
CONSTANTS
  Third = 6
  Poll = 1
  Reaper = 3
  Backoff = 1
  Outages = {"refusing", "hanging"}
  Life = 9
  Backdate = 1
  Serials = {1, 2, 3, 4}
  Tokens = {t1}
  Kinds = {"secret", "file"}
  MaxRevoked = 1
  MaxFaults = 2
  None = None
  Gateways = {g1}
  Requests = {r1, r2}
  NoGateway = NoGateway
  MaxStreams = 2
  MaxCertificates = 2
  Workers = {w1, w2}
  Nobody = Nobody
  MaxMoves = 4
  MaxFailed = 2
  MaxTries = 1
SYMMETRY Symmetry
CHECK_DEADLOCK FALSE
INVARIANTS LiveJobsAreKept DeadJobsAreReaped
INVARIANTS IdentityHolds CallsEndWell RoutesSoundly
PROPERTY ExpiresOnlyInTrouble
