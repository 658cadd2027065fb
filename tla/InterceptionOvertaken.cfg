SPECIFICATION InterceptionSpec
CONSTANTS
  p1 = p1  p2 = p2  c1 = c1  r1 = r1  r2 = r2
  PageRoutes = {p1, p2}
  ContextRoutes = {}
  HarRoutes = {}
  Requests = {r1}
  Urls = {"site"}
  FaviconUrls = {"icon"}
  Matches <- MCMatches
  HarAnswer <- MCHarAnswer
  MatcherOf <- MCMatcherOf
  HandlerOf <- MCHandlerOf
  Limit <- MCLimit
  FetchKinds <- MCFetchKinds
  MaxJobs = 2
  RouteMethods = {"continue"}
  Unlimited = Unlimited
  NoRoute = NoRoute
INVARIANTS InterceptorReached
CHECK_DEADLOCK FALSE
