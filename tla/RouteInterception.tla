-------------------------- MODULE RouteInterception --------------------------
(***************************************************************************)
(* Routes over CDP: how the handlers of RouteHandlers reach the requests   *)
(* of a browser.  CdpPageAdapter (src/src/protocol/cdp/backend.ts) keeps   *)
(* one interceptor, which both RoxyPage and RoxyBrowserContext set, and    *)
(* turns the Fetch domain of the browser on and off with it.               *)
(*                                                                         *)
(* Commands travel to the browser in order.  A message on the wire is a    *)
(* sequence of commands, each sent when the reply to the one before has    *)
(* arrived.  Replies are in order too, so handling a command, its reply,   *)
(* and the sending of the next one are one step.                           *)
(***************************************************************************)
EXTENDS RouteHandlers, Sequences

CONSTANTS
  FetchKinds,  \* what a request can be to the browser
  MaxJobs      \* bound: jobs on the wire before another toggles interception

ASSUME FetchKindAssumption ==
  /\ FetchKinds \subseteq {"plain", "preflight", "redirect"}
  /\ MaxJobs \in Nat \ {0}

VARIABLES
  slot,        \* CdpPageAdapter.requestInterceptor: whose dispatcher it holds
  enabled,     \* requestInterceptionEnabled
  fetchOn,     \* the browser pauses requests
  wire,        \* commands sent to the browser
  browser,     \* what the browser has done with each request
  paused,      \* Fetch.requestPaused events not handled yet
  pausedIds,   \* pausedFetchRequestIds
  answered,    \* requests whose decision was sent
  syncing      \* scopes whose unroute has yet to call setRequestInterceptor

adapterVars == <<slot, enabled, wire>>
browserVars == <<fetchOn, browser, paused, pausedIds, answered>>
allVars == <<vars, adapterVars, browserVars, syncing>>

Command == [kind: {"cache", "enable", "disable", "release", "continue", "answer"},
            for: SUBSET Requests]

InterceptionTypeOK ==
  /\ TypeOK
  /\ slot \in {"none", "page", "context"}
  /\ enabled \in BOOLEAN
  /\ fetchOn \in BOOLEAN
  /\ wire \in Seq(Seq(Command))
  /\ browser \in [Requests -> {"unsent", "paused", "passed", "answered"}]
  /\ paused \subseteq Requests
  /\ pausedIds \subseteq Requests
  /\ answered \subseteq Requests
  /\ syncing \subseteq Scopes

InterceptionInit ==
  /\ Init
  /\ slot = "none"
  /\ enabled = FALSE
  /\ fetchOn = FALSE
  /\ wire = << >>
  /\ browser = [r \in Requests |-> "unsent"]
  /\ paused = {}
  /\ pausedIds = {}
  /\ answered = {}
  /\ syncing = {}

-----------------------------------------------------------------------------
(* The interceptor of the page.                                            *)

Cmd(kind, S) == [kind |-> kind, for |-> S]

\* Mutant of DisableJob: Fetch.disable is forgotten.
DisableJobKeepsFetch == <<Cmd("cache", {})>>

EnableJob == <<Cmd("cache", {}), Cmd("enable", {})>>
DisableJob == (IF pausedIds = {} THEN << >> ELSE <<Cmd("release", pausedIds)>>)
              \o <<Cmd("cache", {}), Cmd("disable", {})>>

\* CdpPageAdapter.setRequestInterceptor.  The context's adapter calls it for
\* each of its pages with the dispatcher of the context.
SetRequestInterceptor(dispatcher) ==
  /\ slot' = dispatcher
  /\ enabled' = (dispatcher # "none")
  /\ enabled' # enabled => Len(wire) < MaxJobs
  /\ wire' = IF enabled' = enabled THEN wire
             ELSE Append(wire, IF enabled' THEN EnableJob ELSE DisableJob)

\* syncRouteInterception of page.ts, syncRouteInterceptionOnPages of the
\* context, which look at the arrays as they are by now.
NeedsInterception(s, entries) ==
  IF s = "page" THEN entries # {} ELSE entries \cap ContextRoutes # {}

Sync(s, entries) ==
  SetRequestInterceptor(IF NeedsInterception(s, entries) THEN s ELSE "none")

Install(g) ==
  /\ Route(g)
  /\ SetRequestInterceptor(IF g \in ContextRoutes THEN "context" ELSE "page")
  /\ UNCHANGED <<browserVars, syncing>>

Dispose(g) ==
  /\ \/ g \in PageRoutes /\ DisposePageRoute(g) /\ Sync("page", live')
     \/ g \in ContextRoutes /\ DisposeContextRoute(g) /\ Sync("context", live')
  /\ UNCHANGED <<browserVars, syncing>>

\* unroute and unrouteAll await stopRouteHandlers before they sync.
UnrouteAndSync(s) ==
  /\ \/ \E m \in Matchers : \E hs \in {Handlers} \cup {{h} : h \in Handlers} :
          Unroute(s, m, hs)
     \/ \E b \in Behaviors \ {"wait"} : UnrouteAll(s, b)
     \/ UnrouteAllReturns(s)
  /\ syncing' = syncing \cup {s}
  /\ UNCHANGED <<adapterVars, browserVars>>

UnrouteAllStarts(s) ==
  /\ UnrouteAll(s, "wait")
  /\ UNCHANGED <<adapterVars, browserVars, syncing>>

SyncAfterUnroute(s) ==
  /\ s \in syncing
  /\ syncing' = syncing \ {s}
  /\ Sync(s, live)
  /\ UNCHANGED <<vars, browserVars>>

-----------------------------------------------------------------------------
(* Requests.                                                               *)

Send(kind, r) ==
  /\ wire' = Append(wire, <<Cmd(kind, {r})>>)
  /\ UNCHANGED <<slot, enabled>>

RequestSent(r) ==
  /\ browser[r] = "unsent"
  /\ browser' = [browser EXCEPT ![r] = IF fetchOn THEN "paused" ELSE "passed"]
  /\ paused' = IF fetchOn THEN paused \cup {r} ELSE paused
  /\ UNCHANGED <<vars, adapterVars, fetchOn, pausedIds, answered, syncing>>

\* handleFetchRequestPaused, up to its call of the interceptor.
HandlePaused(r) ==
  /\ r \in paused
  /\ paused' = paused \ {r}
  /\ \E kind \in FetchKinds :
       LET refused == dispatch[r].url \in FaviconUrls \/ kind = "preflight"
           let_go == slot = "none" \/ kind = "redirect"
       IN  \/ /\ refused /\ Send("answer", r)
              /\ UNCHANGED <<vars, pausedIds>>
           \/ /\ ~refused /\ let_go /\ Send("continue", r)
              /\ UNCHANGED <<vars, pausedIds>>
           \/ /\ ~refused /\ ~let_go
              /\ pausedIds' = pausedIds \cup {r}
              /\ \/ slot = "page" /\ DispatchByPage(r)
                 \/ slot = "context" /\ DispatchByContext(r)
              /\ UNCHANGED adapterVars
  /\ UNCHANGED <<fetchOn, browser, answered, syncing>>

\* Mutant of SendDecision: a dispatch that threw gets no command.
SendDecisionUnlessError(r) ==
  /\ r \in pausedIds \ answered
  /\ dispatch[r].stage = "done" /\ dispatch[r].decision # "error"
  /\ answered' = answered \cup {r}
  /\ Send(IF dispatch[r].decision = "continue" THEN "continue" ELSE "answer", r)
  /\ UNCHANGED <<vars, fetchOn, browser, paused, pausedIds, syncing>>

\* ... and from the decision on.  A rejected dispatch fails the request, after
\* its id has left pausedFetchRequestIds.
SendDecision(r) ==
  /\ r \in pausedIds \ answered
  /\ dispatch[r].stage = "done"
  /\ answered' = answered \cup {r}
  /\ Send(IF dispatch[r].decision = "continue" THEN "continue" ELSE "answer", r)
  /\ pausedIds' = IF dispatch[r].decision = "error" THEN pausedIds \ {r} ELSE pausedIds
  /\ UNCHANGED <<vars, fetchOn, browser, paused, syncing>>

\* The browser handles a command; a disabled Fetch domain lets go of requests.
Handled(c, r) ==
  IF browser[r] # "paused" THEN browser[r]
  ELSE IF c.kind = "disable" \/ (r \in c.for /\ c.kind \in {"release", "continue"})
       THEN "passed"
  ELSE IF r \in c.for /\ c.kind = "answer" THEN "answered"
  ELSE "paused"

Deliver ==
  LET job == Head(wire)
      c == Head(job)
  IN  /\ wire # << >>
      /\ wire' = Tail(wire) \o (IF Len(job) > 1 THEN <<Tail(job)>> ELSE << >>)
      /\ fetchOn' = (c.kind = "enable" \/ (fetchOn /\ c.kind # "disable"))
      /\ browser' = [r \in Requests |-> Handled(c, r)]
      /\ pausedIds' = IF c.kind \in {"continue", "answer"} THEN pausedIds \ c.for
                      ELSE pausedIds
      /\ UNCHANGED <<vars, slot, enabled, paused, answered, syncing>>

Inside(r) ==
  /\ HandlerNext(r) \/ FinishInvocation(r) \/ FailInvocation(r)
  /\ UNCHANGED <<adapterVars, browserVars, syncing>>

InterceptionNext ==
  \/ \E g \in Entries : Install(g)
  \/ \E g \in Routes : Dispose(g)
  \/ \E s \in Scopes : UnrouteAndSync(s) \/ UnrouteAllStarts(s) \/ SyncAfterUnroute(s)
  \/ \E r \in Requests : RequestSent(r) \/ HandlePaused(r) \/ SendDecision(r) \/ Inside(r)
  \/ Deliver

InterceptionSpec == InterceptionInit /\ [][InterceptionNext]_allVars

\* Besides what FairSpec assumes of handlers: events, replies and microtasks
\* come through.
FairInterceptionSpec ==
  /\ InterceptionSpec
  /\ \A r \in Requests :
       /\ WF_allVars(HandlePaused(r))
       /\ WF_allVars(SendDecision(r))
       /\ WF_allVars(Inside(r) /\ (FinishInvocation(r) \/ FailInvocation(r)))
       /\ WF_allVars(Inside(r) /\ (Abort(r) \/ Continue(r) \/ Fallback(r)))
       /\ WF_allVars(Inside(r) /\ (FulfillEnds(r) \/ FulfillFails(r)))
       /\ WF_allVars(Inside(r) /\ \E how \in {"returned", "threw"} : HandlerEnds(r, how))
  /\ WF_allVars(Deliver)
  /\ \A s \in Scopes : WF_allVars(SyncAfterUnroute(s))

-----------------------------------------------------------------------------
(* Properties.                                                             *)

\* Whatever is installed and removed while a request is on its way, the
\* browser does not hold it for ever, and no command is lost: it is answered,
\* or let go.
NoRequestHeldForEver == \A r \in Requests : browser[r] = "paused" ~> browser[r] # "paused"

Quiet == wire = << >> /\ syncing = {} /\ \A s \in Scopes : ~unrouting[s]

\* Once the last unroute has been carried out and no route is left, the
\* browser pauses requests no more, and holds none, whichever order jobs
\* overlapped in.
\* Entries that options.times used up are not synced for and do not count.
InterceptionEndsWithRoutes ==
  Quiet /\ ~enabled => ~fetchOn /\ \A r \in Requests : browser[r] # "paused"

\* tests/e2e/page/page-network-response.test.ts:532-553, "returns body for
\* fulfilled responses", routes again right after unrouteAll, in a loop, and
\* expects the new route to answer.
InterceptorReached == Quiet /\ enabled => fetchOn

=============================================================================
