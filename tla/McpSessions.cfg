SPECIFICATION FairSpec
CONSTANTS
  c1 = c1  c2 = c2  k1 = k1  k2 = k2  k3 = k3  b1 = b1  b2 = b2  b3 = b3
  Clients = {c1}
  Calls = {k1, k2, k3}
  BrowserSessions = {b1, b2}
  MaxRuntimes = 2
  Heartbeat = TRUE
  NoClient = NoClient
  NoBrowser = NoBrowser
INVARIANTS SessionClosedOnce ConnectionUsable NothingForgotten
CHECK_DEADLOCK FALSE
PROPERTIES SilentClientsLoseSession ShutdownReachesListener
