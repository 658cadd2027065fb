SPECIFICATION Spec
CONSTANTS
  p1 = p1  p2 = p2  c1 = c1  c2 = c2  h1 = h1  r1 = r1  r2 = r2
  PageRoutes = {p1}
  ContextRoutes = {c1}
  HarRoutes = {h1}
  Requests = {r1, r2}
  Urls = {"site", "icon"}
  FaviconUrls = {"icon"}
  Matches <- MCMatches
  HarAnswer <- MCHarAnswer
  MatcherOf <- MCMatcherOf
  HandlerOf <- MCHandlerOf
  Limit <- MCLimit
  RouteMethods = {"abort", "continue", "fallback"}
  Unlimited = Unlimited
  NoRoute = NoRoute
INVARIANTS TimesRespected
PROPERTIES UnrouteAllWaits
CHECK_DEADLOCK FALSE
SYMMETRY RequestSymmetry
