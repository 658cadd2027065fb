SPECIFICATION Spec
CONSTANTS
  p1 = p1  p2 = p2  p3 = p3  s1 = s1  s2 = s2  s3 = s3  e1 = e1  e2 = e2
  Processes = {p1, p2, p3}
  Endpoints = {e1, e2}
  EndpointOf <- MCEndpointOf
  Launchers = {p3}
  MaxSessions = 1
  Sessions = {s1, s2}
  NoSession = NoSession
INVARIANTS OwnersKeepSessions RegistryComplete StaleSessionsEnded NoLeftovers
CHECK_DEADLOCK FALSE
SYMMETRY MCSymmetry
