SPECIFICATION MCSpec
CONSTANTS
  c1 = c1
  c2 = c2
  Main = Main
  Children = {f1}
  Requests = {r1}
  MaxLoads = 2
  NoRequest = NoRequest
  Calls = {c1, c2}
  Kinds = {"goto", "reload", "history", "content", "wait"}
  Untils = {"commit", "load", "networkidle"}
  Urls = {u1, u2}
  NoCall = NoCall
INVARIANTS IdleMeansIdle
PROPERTIES LoadMeansLoaded NavigationsArrive CallsEnd
CHECK_DEADLOCK FALSE
