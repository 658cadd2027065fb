SPECIFICATION FairSpec
CONSTANTS
  p1 = p1  p2 = p2  c1 = c1  c2 = c2  h1 = h1  r1 = r1  r2 = r2
  PageRoutes = {p1, p2}
  ContextRoutes = {c1}
  HarRoutes = {}
  Requests = {r1}
  Urls <- MCUrls
  FaviconUrls <- MCFavicons
  Matches <- MCMatches
  HarAnswer <- MCHarAnswer
  MatcherOf <- MCMatcherOf
  HandlerOf <- MCHandlerOf
  Limit <- MCLimit
  RouteMethods = {"fallback", "fulfill"}
  Unlimited = Unlimited
  NoRoute = NoRoute
PROPERTIES NobodySkipped EveryRequestDecided UnrouteAllTerminates
CHECK_DEADLOCK FALSE
