SPECIFICATION MCSpec
CONSTANTS
  p1 = p1  p2 = p2
  c1 = c1  c3 = c3
  Pages = {p1, p2}
  Contexts = {c1, c3}
  NewPages = {p1}
  Recorded = {p1, p2}
  HarContexts = {c1}
  Users = {u1}
  Waiters = {w1}
  Scopes = {p2, c1, c3}
  ContextOf <- MCContextOf
  None = None
INVARIANTS CloseInOrder VideoKept
PROPERTIES ClosesReturn WaitsEnd
CHECK_DEADLOCK FALSE
