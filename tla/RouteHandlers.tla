--------------------------- MODULE RouteHandlers ---------------------------
(***************************************************************************)
(* Routes of one page and of its browser context, and the dispatch of the  *)
(* requests they intercept: RoxyPage.route / unroute / unrouteAll /        *)
(* dispatchRoutedRequest (src/src/page.ts) and the same methods of         *)
(* RoxyBrowserContext (src/src/browserContext.ts).                         *)
(*                                                                         *)
(* Everything between two awaits of the code is one action.  The arrays    *)
(* routeHandlers and harRoutes, which are only pushed to, searched by      *)
(* identity and spliced, are the set `live' ordered by `stamp', the number *)
(* an entry got when it was pushed.  A dispatch iterates over a snapshot   *)
(* of the array; `todo' is the part of the snapshot it has not passed yet. *)
(***************************************************************************)
EXTENDS Naturals

CONSTANTS
  PageRoutes,     \* entries page.route() may push
  ContextRoutes,  \* entries context.route() may push
  HarRoutes,      \* entries page.routeFromHAR() may push
  Requests,       \* intercepted requests
  Urls,           \* URLs a request may have; fallback({url}) may change it
  FaviconUrls,    \* those whose path is /favicon.ico
  Matches,        \* the <<entry, url>> pairs for which the matcher accepts
  HarAnswer,      \* what a HAR entry answers for a url
  MatcherOf,      \* routeMatcherKey of an entry: what unroute(url) compares
  HandlerOf,      \* the handler function of an entry
  Limit,          \* options.times, or Unlimited
  RouteMethods,   \* the methods of Route that handlers call
  Unlimited,
  NoRoute

Routes == PageRoutes \cup ContextRoutes
Entries == Routes \cup HarRoutes
Scopes == {"page", "context"}
Behaviors == {"wait", "ignoreErrors", "default"}

ASSUME RoutesAssumption ==
  /\ PageRoutes \cap ContextRoutes = {}
  /\ HarRoutes \cap Routes = {}
  /\ NoRoute \notin Entries
  /\ Unlimited \notin Nat
  /\ Limit \in [Routes -> Nat \cup {Unlimited}]
  /\ HarAnswer \in [HarRoutes -> [Urls -> {"none", "fulfill", "abort", "error"}]]

Outcomes == {"fallback", "abort", "continue", "fulfill"}
Decisions == {"abort", "continue", "fulfill", "error"}

VARIABLES
  live,       \* entries now in routeHandlers / harRoutes
  stamp,      \* order in which entries were pushed; 0 = not yet
  clock,      \* number of pushes so far
  remaining,  \* entry.remainingTimes
  ignoring,   \* entries with ignoreExceptions set
  active,     \* <<entry, request>> pairs in entry.activeInvocations
  complete,   \* pairs whose invocation.complete promise has resolved
  dispatch,   \* per request, the locals of its dispatch
  waiting,    \* per scope, the invocations unrouteAll({wait}) awaits
  unrouting,  \* per scope, whether such an unrouteAll is pending
  calls       \* history: invocations of an entry so far

registryVars == <<live, stamp, clock, remaining>>
unrouteVars == <<ignoring, waiting, unrouting>>
vars == <<registryVars, unrouteVars, active, complete, dispatch, calls>>

Dispatch == [
  via: {"none", "page", "context"},           \* who dispatches
  stage: {"idle", "page", "context", "done"}, \* array being walked
  todo: SUBSET Routes,
  tried: SUBSET Routes,                       \* history: entries invoked
  known: SUBSET Routes,                       \* history: page routes at the start
  overridden: BOOLEAN,                        \* history: a fallback changed the url
  byDefault: BOOLEAN,                         \* history: no handler decided
  url: Urls,                                  \* requestState.url
  route: Routes \cup {NoRoute},               \* entry being invoked
  handled: BOOLEAN,                           \* routeHandled
  settled: Nat,                               \* history: reports made
  building: {"no", "yes", "ended"},           \* route.fulfill() in progress
  first: Outcomes \cup {"none"},              \* what routeHandledPromise holds
  outcome: Outcomes \cup {"none"},            \* routeOutcome
  handler: {"none", "running", "returned", "threw"},
  decision: Decisions \cup {"none"}]

TypeOK ==
  /\ live \subseteq Entries
  /\ stamp \in [Entries -> Nat]
  /\ clock \in Nat
  /\ remaining \in [Routes -> Nat \cup {Unlimited}]
  /\ ignoring \subseteq Routes
  /\ active \subseteq Routes \X Requests
  /\ complete \subseteq Routes \X Requests
  /\ dispatch \in [Requests -> Dispatch]
  /\ waiting \in [Scopes -> SUBSET (Routes \X Requests)]
  /\ unrouting \in [Scopes -> BOOLEAN]
  /\ calls \in [Routes -> Nat]

Init ==
  /\ live = {}
  /\ stamp = [g \in Entries |-> 0]
  /\ clock = 0
  /\ remaining = Limit
  /\ ignoring = {}
  /\ active = {}
  /\ complete = {}
  /\ \E u \in [Requests -> Urls] :
       dispatch = [r \in Requests |->
         [via |-> "none", stage |-> "idle", todo |-> {}, tried |-> {},
          known |-> {}, overridden |-> FALSE, byDefault |-> FALSE,
          url |-> u[r], route |-> NoRoute, handled |-> FALSE, settled |-> 0,
          building |-> "no", first |-> "none", outcome |-> "none",
          handler |-> "none", decision |-> "none"]]
  /\ waiting = [s \in Scopes |-> {}]
  /\ unrouting = [s \in Scopes |-> FALSE]
  /\ calls = [g \in Routes |-> 0]

-----------------------------------------------------------------------------
(* The registry: route, routeFromHAR, dispose, unroute, unrouteAll.        *)

RoutesOf(s) == IF s = "page" THEN PageRoutes ELSE ContextRoutes
ArraysOf(s) == IF s = "page" THEN PageRoutes \cup HarRoutes ELSE ContextRoutes

Route(g) ==
  /\ stamp[g] = 0
  /\ clock' = clock + 1
  /\ stamp' = [stamp EXCEPT ![g] = clock + 1]
  /\ live' = live \cup {g}
  /\ UNCHANGED <<remaining, unrouteVars, active, complete, dispatch, calls>>

Remove(S) ==
  /\ live' = live \ S
  /\ UNCHANGED <<stamp, clock, remaining, unrouteVars, active, complete,
                 dispatch, calls>>

\* page.ts searches the array for the entry itself, if it is still there.
DisposePageRoute(g) == stamp[g] # 0 /\ Remove({g})

\* browserContext.ts searches it for the first entry with the same matcher
\* and handler, which need not be the entry this disposable was made for.
Twins(g) == {h \in live \cap ContextRoutes :
               MatcherOf[h] = MatcherOf[g] /\ HandlerOf[h] = HandlerOf[g]}

DisposeContextRoute(g) ==
  stamp[g] # 0 /\ Remove({h \in Twins(g) : \A k \in Twins(g) : stamp[h] <= stamp[k]})

Matchers == {MatcherOf[g] : g \in Routes}
Handlers == {HandlerOf[g] : g \in Routes}

\* unroute(url) with `hs' all handlers, unroute(url, handler) with one.
Unroute(s, m, hs) ==
  Remove({g \in live \cap RoutesOf(s) : MatcherOf[g] = m /\ HandlerOf[g] \in hs})

\* Mutant of StopRouteHandlers: "wait" resolves the invocations it waits for.
StopRouteHandlersAtOnce(s, removed, behavior) ==
  /\ ignoring' = IF behavior = "ignoreErrors" THEN ignoring \cup removed ELSE ignoring
  /\ complete' = complete \cup (active \cap (removed \X Requests))
  /\ waiting' = IF behavior = "wait"
                THEN [waiting EXCEPT ![s] = active \cap (removed \X Requests)]
                ELSE waiting
  /\ unrouting' = IF behavior = "wait" THEN [unrouting EXCEPT ![s] = TRUE] ELSE unrouting

\* stopRouteHandlers(removed, "wait" | "ignoreErrors" | "default")
StopRouteHandlers(s, removed, behavior) ==
  /\ ignoring' = IF behavior = "ignoreErrors" THEN ignoring \cup removed ELSE ignoring
  /\ complete' = IF behavior = "ignoreErrors"
                 THEN complete \cup (active \cap (removed \X Requests))
                 ELSE complete
  /\ waiting' = IF behavior = "wait"
                THEN [waiting EXCEPT ![s] = active \cap (removed \X Requests)]
                ELSE waiting
  /\ unrouting' = IF behavior = "wait" THEN [unrouting EXCEPT ![s] = TRUE] ELSE unrouting

UnrouteAll(s, behavior) ==
  /\ behavior = "wait" => ~unrouting[s]   \* one waiting call per scope at a time
  /\ live' = live \ ArraysOf(s)
  /\ StopRouteHandlers(s, live \cap RoutesOf(s), behavior)
  /\ UNCHANGED <<stamp, clock, remaining, active, dispatch, calls>>

UnrouteAllReturns(s) ==
  /\ unrouting[s]
  /\ waiting[s] \subseteq complete
  /\ unrouting' = [unrouting EXCEPT ![s] = FALSE]
  /\ waiting' = [waiting EXCEPT ![s] = {}]
  /\ UNCHANGED <<registryVars, ignoring, active, complete, dispatch, calls>>

-----------------------------------------------------------------------------
(* The dispatch of one request.                                            *)

\* Mutant of IsNewest: oldest first.
IsOldest(g, S) == \A h \in S : stamp[h] >= stamp[g]

Eligible(S, u) == {g \in S \cap live : <<g, u>> \in Matches}
IsNewest(g, S) == \A h \in S : stamp[h] <= stamp[g]

\* Mutant of Leaving: a request that is in no invocation ends one.
LeavingAlways(r) == {<<dispatch[r].route, r>>}

\* The invocation the request is in, which its `finally' block ends.
Leaving(r) == IF dispatch[r].route = NoRoute THEN {} ELSE {<<dispatch[r].route, r>>}

\* Mutant of LastTime: the entry goes one invocation late.
LastTimeLate(g) == Limit[g] # Unlimited /\ remaining[g] <= 0

LastTime(g) == Limit[g] # Unlimited /\ remaining[g] <= 1

Consume(g) ==
  /\ live' = IF LastTime(g) THEN live \ {g} ELSE live
  /\ remaining' = IF Limit[g] = Unlimited \/ LastTime(g) THEN remaining
                  ELSE [remaining EXCEPT ![g] = @ - 1]

\* A new Route object for entry `g', and the loop index moved to it.
Calling(d, stage, snapshot, g) ==
  [d EXCEPT !.stage = stage, !.todo = {h \in snapshot : stamp[h] < stamp[g]},
            !.tried = @ \cup {g}, !.route = g, !.handled = FALSE, !.settled = 0,
            !.building = "no", !.first = "none", !.outcome = "none",
            !.handler = "running"]

Invoke(r, d, stage, snapshot, g) ==
  /\ Consume(g)
  /\ active' = (active \ Leaving(r)) \cup {<<g, r>>}
  /\ complete' = complete \cup Leaving(r)
  /\ calls' = [calls EXCEPT ![g] = @ + 1]
  /\ dispatch' = [dispatch EXCEPT ![r] = Calling(d, stage, snapshot, g)]
  /\ UNCHANGED <<stamp, clock, unrouteVars>>

Decided(d, decision) ==
  [d EXCEPT !.stage = "done", !.todo = {}, !.route = NoRoute,
            !.handler = "none", !.decision = decision]

\* Mutant of Decide: half of the `finally' block.
DecideNotComplete(r, d, decision) ==
  /\ active' = active \ Leaving(r)
  /\ dispatch' = [dispatch EXCEPT ![r] = Decided(d, decision)]
  /\ UNCHANGED <<registryVars, unrouteVars, calls, complete>>

Decide(r, d, decision) ==
  /\ active' = active \ Leaving(r)
  /\ complete' = complete \cup Leaving(r)
  /\ dispatch' = [dispatch EXCEPT ![r] = Decided(d, decision)]
  /\ UNCHANGED <<registryVars, unrouteVars, calls>>

\* dispatchHarRoute, then the final continue.  Only the page's dispatcher
\* looks at HAR routes; "error" is a redirect cycle in the HAR file.
HarsFor(d) == IF d.via = "page"
              THEN {h \in live \cap HarRoutes : HarAnswer[h][d.url] # "none"}
              ELSE {}

DecideByDefault(r, d) ==
  LET e == [d EXCEPT !.byDefault = TRUE]
  IN  \/ HarsFor(d) = {} /\ Decide(r, e, "continue")
      \/ \E h \in HarsFor(d) : /\ IsNewest(h, HarsFor(d))
                              /\ Decide(r, e, HarAnswer[h][d.url])

\* Walk on from where `d' stands: the rest of the page's snapshot, then a
\* snapshot of the context's array taken on arrival, then the default.
ContextSnapshot(d) == IF d.stage = "context" THEN d.todo ELSE live \cap ContextRoutes

Proceed(r, d) ==
  LET page == IF d.stage = "page" THEN Eligible(d.todo, d.url) ELSE {}
      context == Eligible(ContextSnapshot(d), d.url)
  IN  \/ \E g \in page : IsNewest(g, page) /\ Invoke(r, d, "page", d.todo, g)
      \/ /\ page = {}
         /\ \E g \in context : /\ IsNewest(g, context)
                               /\ Invoke(r, d, "context", ContextSnapshot(d), g)
      \/ page = {} /\ context = {} /\ DecideByDefault(r, d)

\* RoxyPage.dispatchRoutedRequest
DispatchByPage(r) ==
  LET d == [dispatch[r] EXCEPT !.via = "page", !.stage = "page",
              !.todo = live \cap PageRoutes, !.known = live \cap Routes]
  IN  /\ dispatch[r].stage = "idle"
      /\ \/ d.url \in FaviconUrls /\ Decide(r, d, "abort")
         \/ d.url \notin FaviconUrls /\ Proceed(r, d)

\* RoxyBrowserContext.dispatchContextRoutedRequest
DispatchByContext(r) ==
  LET d == [dispatch[r] EXCEPT !.via = "context", !.stage = "context",
              !.todo = live \cap ContextRoutes, !.known = live \cap ContextRoutes]
  IN  dispatch[r].stage = "idle" /\ Proceed(r, d)

-----------------------------------------------------------------------------
(* The Route object handed to a handler, and the handler itself.           *)

RouteCall(r, d) ==
  /\ dispatch' = [dispatch EXCEPT ![r] = d]
  /\ UNCHANGED <<registryVars, unrouteVars, active, complete, calls>>

\* reportRouteHandled.  In the context loop of page.ts a later report
\* overwrites routeOutcome; in the two other loops the first one stays.
LastReportStays(d) == d.via = "page" /\ d.stage = "context"

Report(d, what) ==
  [d EXCEPT !.handled = TRUE, !.settled = @ + 1,
            !.first = IF @ = "none" THEN what ELSE @,
            !.outcome = IF @ = "none" \/ LastReportStays(d) THEN what ELSE @]

Invoked(r) == dispatch[r].route # NoRoute

\* ensureRouteIsUnhandled
Calls(method, r) == method \in RouteMethods /\ Invoked(r) /\ ~dispatch[r].handled

Abort(r) == Calls("abort", r) /\ RouteCall(r, Report(dispatch[r], "abort"))

Continue(r) ==
  /\ Calls("continue", r)
  /\ \E u \in Urls :
       RouteCall(r, [Report(dispatch[r], "continue") EXCEPT !.url = u])

Fallback(r) ==
  /\ Calls("fallback", r)
  /\ \E u \in Urls :
       RouteCall(r, [Report(dispatch[r], "fallback") EXCEPT
                       !.url = u, !.overridden = @ \/ u # dispatch[r].url])

\* fulfill() checks routeHandled, awaits the body, and only then sets it.
FulfillStarts(r) ==
  /\ Calls("fulfill", r)
  /\ dispatch[r].building = "no"          \* one fulfill() per invocation
  /\ RouteCall(r, [dispatch[r] EXCEPT !.building = "yes"])

FulfillEnds(r) ==
  /\ Invoked(r)
  /\ dispatch[r].building = "yes"
  /\ RouteCall(r, [Report(dispatch[r], "fulfill") EXCEPT !.building = "ended"])

FulfillFails(r) ==
  /\ Invoked(r)
  /\ dispatch[r].building = "yes"
  /\ RouteCall(r, [dispatch[r] EXCEPT !.building = "ended"])

HandlerEnds(r, how) ==
  /\ dispatch[r].handler = "running"
  /\ RouteCall(r, [dispatch[r] EXCEPT !.handler = how])

\* Mutant of FinishInvocation: fallback() is taken for a decision to come.
FinishInvocationWithoutFallback(r) ==
  /\ dispatch[r].handler = "returned"
  /\ dispatch[r].first \notin {"none", "fallback"}
  /\ Decide(r, dispatch[r], dispatch[r].first)

\* Promise.all([routeHandledPromise, handler()]) resolves.
FinishInvocation(r) ==
  /\ dispatch[r].handler = "returned"
  /\ dispatch[r].first # "none"
  /\ \/ dispatch[r].first = "fallback" /\ Proceed(r, dispatch[r])
     \/ dispatch[r].first # "fallback" /\ Decide(r, dispatch[r], dispatch[r].first)

\* Promise.all rejects: the catch block looks at entry.ignoreExceptions.
FailInvocation(r) ==
  /\ dispatch[r].handler = "threw"
  /\ \/ dispatch[r].route \notin ignoring /\ Decide(r, dispatch[r], "error")
     \/ /\ dispatch[r].route \in ignoring
        /\ \/ dispatch[r].outcome \in {"none", "fallback"} /\ Proceed(r, dispatch[r])
           \/ /\ dispatch[r].outcome \notin {"none", "fallback"}
              /\ Decide(r, dispatch[r], dispatch[r].outcome)

-----------------------------------------------------------------------------

RegistryNext ==
  \/ \E g \in Entries : Route(g)
  \/ \E g \in PageRoutes : DisposePageRoute(g)
  \/ \E g \in ContextRoutes : DisposeContextRoute(g)
  \/ \E s \in Scopes, m \in Matchers :
       \E hs \in {Handlers} \cup {{h} : h \in Handlers} : Unroute(s, m, hs)
  \/ \E s \in Scopes, b \in Behaviors : UnrouteAll(s, b)
  \/ \E s \in Scopes : UnrouteAllReturns(s)

HandlerNext(r) ==
  \/ Abort(r) \/ Continue(r) \/ Fallback(r)
  \/ FulfillStarts(r) \/ FulfillEnds(r) \/ FulfillFails(r)
  \/ \E how \in {"returned", "threw"} : HandlerEnds(r, how)

DispatchNext(r) ==
  \/ DispatchByPage(r) \/ DispatchByContext(r)
  \/ FinishInvocation(r) \/ FailInvocation(r)

Next ==
  \/ RegistryNext
  \/ \E r \in Requests : HandlerNext(r) \/ DispatchNext(r)

Spec == Init /\ [][Next]_vars

\* The dispatch loop runs as long as the process does.  FairSpec also assumes
\* that every handler answers its route and ends, which user code owes; the
\* body of a fulfill() is built or fails.
FairSpec ==
  /\ Spec
  /\ \A r \in Requests :
       /\ WF_vars(FinishInvocation(r) \/ FailInvocation(r))
       /\ WF_vars(FulfillEnds(r) \/ FulfillFails(r))
       /\ WF_vars(Abort(r) \/ Continue(r) \/ Fallback(r))
       /\ WF_vars(\E how \in {"returned", "threw"} : HandlerEnds(r, how))
  /\ \A s \in Scopes : WF_vars(UnrouteAllReturns(s))

-----------------------------------------------------------------------------
(* Properties                                                              *)

\* However many requests are dispatched at the same time, an entry with
\* options.times = n is invoked at most n times (once for n = 0).
TimesRespected ==
  \A g \in Routes :
    Limit[g] # Unlimited => calls[g] <= (IF Limit[g] <= 1 THEN 1 ELSE Limit[g])

\* entry.activeInvocations, on which unrouteAll relies, holds exactly the
\* handler calls that dispatches are in the middle of.
InvocationsTracked ==
  \A g \in Routes, r \in Requests : <<g, r>> \in active <=> dispatch[r].route = g

\* When unrouteAll({behavior: "wait"}) returns, no handler it removed is
\* still running for any request, even if a second unrouteAll with
\* "ignoreErrors" resolved invocations in the meantime.
UnrouteAllWaits ==
  [][\A s \in Scopes :
       unrouting[s] /\ ~unrouting'[s] => waiting[s] \cap active = {}]_vars

\* A dispatch that took its snapshot before an unroute, unrouteAll or
\* dispose never calls a handler removed since, and calls a handler only
\* for the URL the request has by now.
OnlyLiveHandlersInvoked ==
  [][\A r \in Requests :
       LET g == dispatch'[r].route IN
       g # NoRoute /\ g # dispatch[r].route =>
         g \in live /\ <<g, dispatch[r].url>> \in Matches]_vars

\* Handlers run newest first and page before context, whatever is
\* registered or removed meanwhile: when a request reaches a handler, or the
\* default, every handler that precedes it, was there when the dispatch
\* began, still is, and matches, has been called before.
Precedes(h, g) ==
  \/ g = NoRoute
  \/ h \in PageRoutes /\ g \in ContextRoutes
  \/ stamp[h] > stamp[g] /\ (h \in PageRoutes <=> g \in PageRoutes)

NobodySkipped ==
  [][\A r \in Requests :
       LET d == dispatch[r]
           e == dispatch'[r]
           moved == e.route # NoRoute /\ e.route # d.route
       IN  (moved \/ (e.byDefault /\ ~d.byDefault)) /\ ~e.overridden =>
             \A h \in e.known \cap live :
               <<h, e.url>> \in Matches /\ Precedes(h, e.route) => h \in e.tried]_vars

\* Every dispatched request gets a decision, and every unrouteAll that waits
\* returns, provided handlers answer their routes and end.
EveryRequestDecided ==
  \A r \in Requests : dispatch[r].stage # "idle" ~> dispatch[r].stage = "done"

UnrouteAllTerminates == \A s \in Scopes : unrouting[s] ~> ~unrouting[s]

\* A Route is handled once: "Route is already handled!" (page.ts:6584,
\* tests/unit/page.test.ts:1594) is thrown to every further call.  Not so of
\* the code, whose fulfill() marks the route after an await: TLC finds it
\* violated, and no run is spent on it.
HandledOnce == \A r \in Requests : dispatch[r].settled <= 1

=============================================================================
