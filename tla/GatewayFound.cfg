SPECIFICATION MCSpec
CONSTANTS
  Gateways = {g1, g2}
  Requests = {}
  NoGateway = NoGateway
  MaxStreams = 2
  MaxCertificates = 2
  MaxRevoked = 1
  MaxFaults = 1
CHECK_DEADLOCK FALSE
PROPERTIES AgentIsFound RevokedSessionEnds
