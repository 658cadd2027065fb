SPECIFICATION MCSpec
CONSTANTS
  t1 = t1
  t3 = t3
  Targets = {t1, t3}
  OpenerOf <- MCOpenerOf
  Calls = {c1}
  Isolated = TRUE
  Adapters <- MCAdapters
  MaxPolls = 2
  NoTarget = NoTarget
  NoAdapter = NoAdapter
INVARIANTS AnnouncedOnce NoDeadPages
PROPERTIES TabsAnnounced CloseEnds
CHECK_DEADLOCK FALSE
