SPECIFICATION MCSpec
CONSTANTS
  t1 = t1
  t2 = t2
  Tabs = {t1, t2}
  Clients <- MCClients
  Routes = {g1}
  Requests = {r1}
  TabOf <- MCTabOf
  Matches <- MCMatches
  Clicks = {k1}
  Readers = {x1, x2}
  MaxWire = 2
  MaxHops = 2
  MaxStates = 2
  NoTab = NoTab
  NoClient = NoClient
INVARIANTS RoutesApplied HeldAreHandled OverMeansSettled NoEmptyAnswers
PROPERTIES ClickReturns
CHECK_DEADLOCK FALSE
