# Verification of the RoxyBrowser automation library

TLA+ models of parts of `@roxybrowser/playwright`, the runs of TLC that check
them, and proofs of their main properties for TLAPS. `PROJECT.json` lists the
runs, the mutants that show each property can fail, the source lines behind
every definition, the hazards and the findings. Paths below are relative to
the repository, line numbers to the commit the models were written from.

## 1. The system

The library offers Playwright's API (Browser, BrowserContext, Page, Locator)
for Chromium over CDP and for Firefox over WebDriver BiDi, with humanized input,
and an MCP server whose tools drive a browser. All of it is TypeScript on one
event loop: nothing runs in parallel, and everything interleaves at `await`,
in event listeners and in timers. The other actors are the browser, other
processes on the machine, MCP clients, and the user's callbacks.

| Component | State it keeps | Operations | Talks to | What makes it correct |
|---|---|---|---|---|
| Routes (`src/page.ts`, `src/browserContext.ts`) | `routeHandlers`, `harRoutes`, per entry `remainingTimes`, `ignoreExceptions`, `activeInvocations` | `route`, `routeFromHAR`, `unroute`, `unrouteAll`, `dispose`; dispatch of a request; the `Route` methods | handlers of the user, the interceptor | the right handlers run, in order, each at most `times` often; every request is decided; `unrouteAll` waits for exactly what runs |
| Interception over CDP (`src/protocol/cdp/backend.ts`) | one interceptor per page, `requestInterceptionEnabled`, `pausedFetchRequestIds` | `setRequestInterceptor`, `handleFetchRequestPaused` | the Fetch domain, the two dispatchers | the browser pauses requests while routes exist and only then; nothing stays paused |
| BiDi client (`src/protocol/bidi/client.ts`) | `commandId`, `pendingCommands`, `eventListeners`, `closed` | `connect`, `sendCommand`, `on`, `close`; answers, events, close of the socket | WebSocket | every command is settled once, by its answer or by the end of the connection |
| MCP over HTTP (`src/mcp/transports/http.ts`, `server.ts`, `runtime.ts`) | `sessions` with a heartbeat, a runtime manager per session, the connection of a runtime | initialize, DELETE, heartbeat, shutdown; `roxy_browser_connect`, `browser_close` | MCP clients, connected browsers | a session ends once; every attached browser session is closed by somebody |
| BiDi session registry (`src/protocol/bidi/sessionRegistry.ts`) | a file in the temporary directory, one line per owned session | register, unregister, clean up at connect | other processes, Firefox | sessions of dead processes are ended, those of living ones are not |
| Contexts and pages, API layer (`src/browserContext.ts`) | `pageSet`, `pageByAdapter`, `pendingPageRegistrations`, `emittedPages`, `closed` | `newPage`, discovery, `close`, disconnect, `waitForEvent` | adapters, pages | one page per adapter, announced once; waiters end when the context closes |
| CDP targets (`src/protocol/cdp/backend.ts:1196-2193`) | `pages`, `pendingPages`, session ids, synthetic popups with timers | target discovery, `newPage`, popups, `close` | browser events, polling | one adapter per target; nothing survives `close` |
| CDP pages: navigation (`:2792-2977`, `:4198-4425`, `:8165-8529`, `:8894-9036`) | lifecycle flags, loading frames, request counters, idle timers, waiters, navigation captures | `goto`, `reload`, `goBack`, `setContent`, `waitForLoadState`; lifecycle and network events | Page and Network events | a navigation ends with its own outcome; loaded means loaded, idle means idle; every wait ends |
| CDP pages: requests (`:3519-3924`, `:8227-8301`, `:8531-8652`; `src/page.ts:5078-5613`) | request and response events held for extra infos, with timers; Request and Response objects, by id, by url and by redirect target | Network events; `request.response()`, `response.finished()`, `redirectedFrom()` | Network events, frames | one Request per request and hop, each answer and its headers where they belong, everything settles |
| Connected browser of the MCP server (`src/mcp/connectedBrowser.ts`) | tabs, page clients, dialogs and their waiters, file choosers, downloads, network collection, routes | the runtime's operations | CDP or BiDi, the browser's user | one client per tab; a dialog or chooser is offered once, and found if it is there |
| MCP runtime and tools (`src/mcp/runtime.ts`, `src/mcp/backend/`) | snapshot cache, `pendingFileUploadTarget`, `fileUploadPending`, tabs | one operation per tool | connected browser | refs of a stale snapshot are refused; a chooser is remembered as long as it is open |
| BiDi backend (`src/protocol/bidi/backend.ts`) | contexts, pages, network state | the page API over BiDi | BiDi client | as for CDP |
| Locators, frames, handles (`src/locator.ts`, `frame.ts`, ...) | next to none | calls with a selector | page adapter | data |
| Selector runtime, ARIA snapshots | none between calls | run in the page | DOM | data |
| Human input (`src/human/`) | pointer position | paths, delays | page adapter | numeric |
| Tracing, HAR, video, screencast | recordings under way | start, stop, frames | adapter, files | no frame after stop; files complete |
| API requests, assets, downloads, clock, workers, process cleanup | small | - | network, files, OS | see `PROJECT.json` |

Hard to test, and what the properties are for: a dispatch that walks a snapshot
while handlers add and remove routes; two requests at one `times: 1` route;
commands that are not awaited and overtake each other; state checked before an
`await` and set after it (`route.fulfill`, `McpRuntime.connect`,
`getActivePageClient`, `waitForEvent`); a socket, a session or a context that
ends in the middle of anything; a ping that times out while the answer is on its
way; a registry file that several processes rewrite. `PROJECT.json` has each at
its line.

## 2. Modules

    RouteHandlers          routes, dispatch of requests, unrouteAll
      RouteInterception    + one page's interceptor, the wire, the browser
        RoutingProofs        theorems about both
    CommandCalls           abstract: what a protocol client promises
    BidiClient             the BiDi client, which implements CommandCalls
    McpSessions            HTTP sessions, runtimes, connections
      McpSessionsProofs    theorems about McpSessions
    BidiSessions           the registry file and the processes that use it
      BidiProofs           theorems about BidiSessions and BidiClient
    CdpTargets             tabs and page adapters of a CDP context
      ContextPages         + the API layer: pages, openers, the page event
        ContextPagesProofs   theorems about ContextPages
    Teardown               how browser, contexts and pages end, and who waits for them
      TeardownProofs       theorems about Teardown
    PageLoading            flags, network idle and waiters of a CDP page
      PageNavigation       + the calls that navigate and wait
        PageNavigationProofs  theorems about both
    NetworkEvents          what a CDP page is told of requests, and when
      ObservedRequests     + the page's Request and Response objects
        NetworkProofs      theorems about both
    ConnectedTabs          tabs, clients, routes, dialogs of the MCP server
      TabRequests          + the requests its tools list and read
        TabRequestsProofs  theorems about TabRequests
    MC*                    instances: model values, symmetry, bounds

In every module an action is the code from one `await` to the next. Definitions
named "Mutant of ..." are wrong variants of the definition they precede; they
are used by no specification and show that a property would notice.

### RouteHandlers

The arrays `routeHandlers` and `harRoutes` are pushed to, searched by identity
and spliced. They are the set `live`, ordered by `stamp`. A dispatch keeps
in `todo` the part of its snapshot it has still to pass, so
`dispatchRoutedRequest` is `Proceed`: the newest live matching entry of the page,
then of a snapshot of the context's array taken on arrival there, then HAR
routes, then "continue". `DispatchByContext` is the dispatcher of the context,
which knows neither page routes nor HAR routes nor the favicon rule.

* A `Route` object: `handled` is `routeHandled`, `first` is the value
  `routeHandledPromise` resolved with, `outcome` is `routeOutcome`. They differ
  after a second report, and the three loops differ in what the second does
  (`Report`). `fulfill()` is two steps, for its await.
* `FinishInvocation` and `FailInvocation` are the two ways out of
  `Promise.all([routeHandledPromise, handler()])`, with the finally block and
  what the loop does next, up to the next handler it calls.
* `calls`, `tried`, `known`, `settled`, `overridden` and `byDefault` are history
  variables: no action looks at them.
* Matching, the key of a matcher and the answers of a HAR file are constants
  (`Matches`, `MatcherOf`, `HarAnswer`).

Abstracted: headers, bodies, `route.fetch()` (which decides nothing), the
response and failure the `Request` object reports. The microtask between
choosing an entry and calling its handler is part of the choice: nothing but
other microtasks can come between. Bounds: one waiting `unrouteAll` per scope
at a time, one `fulfill()` per invocation. What waits does not include
entries that `times` has used up, which are no longer in the array: the
code does not wait for them, and `UnrouteAllWaits` speaks of removed entries.

### RouteInterception

Extends RouteHandlers with `CdpPageAdapter`: its one interceptor (`slot`: the
dispatcher of the page, or of the context), the flag, and the jobs it sends to
the browser. A message on `wire` is a sequence of commands, each sent when the
reply to the one before has arrived: `EnableJob` and `DisableJob` are the
two branches of `setRequestInterceptor`, and jobs overlap as the code lets them.
`syncing` holds scopes whose `unroute` has removed its entries but has
still to call `setRequestInterceptor`. `HandlePaused` and `SendDecision` are
`handleFetchRequestPaused` before and after its await of the dispatcher.

One page, and a browser that pauses every request while Fetch is on, lets go of
paused ones on `Fetch.disable`, and rejects commands for requests that are not
paused (the code ignores those errors). `MaxJobs` bounds jobs on the wire before
a toggle. Several syncs pending in one scope are one: each looks at the
array as it is by then. The microtask that `Promise.all` of no requests takes (backend.ts:5371)
is not a step, and a decision that Chromium refuses as malformed (8809-8813, 3712-3717: the request is then
failed) ends the request as any other does. The redirect and preflight rules are
`FetchKinds`. The slot goes to whoever registered last, page or context, so
that a route of the context goes before those of the page, and removing the
last route of a context turns interception off on pages that have routes of
their own; tests/unit/browserContext.test.ts:583 ("prefers page request routes
over browser-context routes like Playwright") says otherwise. One step decides
it, so it is noted here and has no run.

### BidiClient and CommandCalls

`CommandCalls` says what callers may rely on: a command starts while the
connection is open, is settled at most once and only while it is open, and the
end of the connection fails everything that waits. `BidiClient` has the socket,
frames in order, `pendingCommands`, and listeners called one after the other
(`delivering`): a listener may call the client, also `close()`, before the next
one is called, and an exception in it ends the loop. The refinement maps `open`
to `~closed` and `call` to the promises `sendCommand` returned.

### McpSessions

Sessions, the heartbeat, shutdown and the manager of each session, and of the
runtime what `connect` and `close` do to `connection`. `CloseSessions` is
`closeSession` up to its first await, which includes `closeAll` and the part of
`McpRuntime.close` before its await: the connection is cleared and its browser
session starts to close. `BundleCloses` is the rest. A tool call passes
`Accept` (the HTTP request), `Dispatch` (`getRuntime` and the start of `close`),
`Closed`, and for connect `Attach` or `AttachFails`. A call accepted before the
session ends still runs, with a new runtime. `overlapped` is a history variable
with the clients that had two calls, or a call and the end of the session, at the
same time. `Calls` bounds tool calls, `MaxRuntimes` the runtimes of one manager
(a new one is made only after `closeAll`, so two are all that occur).

Left out: what connect does after it has attached (tabs, storage, init scripts,
a snapshot: it may fail, the connection stays), the other tools, the
listener after `httpServer.close()`, which lets nobody initialize.

### BidiSessions

A process starts sessions of its endpoint (`launchFirefoxBidi`, or a connection
to a running browser), appends each to the file, and takes it back at the end.
On connecting it reads the file, ends the sessions whose process is dead,
and writes the rest. Reading and appending are one step; writing is two, as
`writeFile` truncates first, and an append or a removal of the file may come in
between (`linked`). Processes crash anywhere, browsers exit. Of one user
(a process of another counts as dead, for `process.kill` fails with EPERM), pids
are not used twice, and a process makes one connection at a time.

The history variable `raced` holds sessions whose entry changed, or was read,
while another process was between its read and the end of its write. Without
it RegistryComplete, StaleSessionsEnded and NoLeftovers are violated: the file
has no lock.

### CdpTargets and ContextPages

An adapter is `<<target, number>>`. `getOrCreatePage` is the promise `stage`, which
`pages`, `pending` and `initializing` hold by turns; attachedToTarget events, polls
(`getTargets`) and `newPage` call it, the last with `manualPending`, `creatingIds`
and `manualIds`, by which polls know a tab that is somebody's. `targetDestroyed` is
`HandleGone`. ContextPages adds `pageSet`, `emittedPages`, the set-up of a page,
openers of popups, and `RoxyBrowserContext.close()`, which closes pages, then
the adapter, which waits for pages still being made.

Assumed of the browser: events and replies in order; a page fails to initialize only
when its tab is gone; a tab can reach its opener if it has one. Left out: loss of
the connection, synthetic popups, workers, other contexts, and what of the end of
pages and contexts is in Teardown. Seen
while modelling, and stated nowhere: a popup whose opener cannot be found gets
another page for opener (browserContext.ts:858); the opener of a popup
is registered again after it has closed (browserContext.ts:606, 619; cf.
tests/unit/browserContext.test.ts:388); when a page's set-up throws, the page
leaves the context (browserContext.ts:703) while its tab and adapter stay.

### Teardown

`browser` is `_connected` and how far `RoxyBrowser.close()` is, `contexts` its
`_contexts`. `ctx` tells how far the `close()` or `_didDisconnect()` of a context
is, `ended` what closed the adapter of a page, `video` its recording. `call` tells
how far a call of `page.close()` is, `joined` whose `closePromise` it found. The
calls a context makes to close its pages go by the names of the pages. `owned` is
the pages with an `ownedContext`, which `browser.newPage()` sets only after
`context.newPage()` has returned the page. An async function runs up to its first
await before its caller goes on, and that is one step: the context closes its
pages within the owner's `close()` before the owner has a `closePromise`, so the
inner call does not wait for the outer one; the mutant `PromiseFirst` has it the
other way, and they wait for each other.

Assumed: `closeTarget` and `disposeBrowserContext` do not fail, `runBeforeUnload`
is not used. The pages are there from the start, and contexts that come later have
none. History: `told` counts close events, `missed` has waiters that came after that
of their context. `VideoKept` and `WaitsEnd` name the cases they except, and TLC
violates them without any one of these; see Observations.

### PageLoading and PageNavigation

The adapter is one record, `page`. Handlers of events are functions of it under
the names of the events: `WillBeSent`, `Settled`, `Navigated`, `LoadFired`. The
browser is the frames with their documents (`phase`), the main document and the
load that is to replace it (`pending`), and the requests under way
(`page.sent`, which is `requestMetadata`). The idle timers, of the page and of
each frame, take the same 500 ms and fire in the order they were set: `page.timers` has
for each that runs those set before it and still to fire.

PageNavigation adds the calls. Each goes through the awaits of its method: `stopLoading`
if it interrupts others, the command, `document.readyState`, the waiter, the url.
A failure capture is a call past its first await (`Captured`); what rejects
or releases it ends the call if it is in a race with it (`Raced`), and has no
effect otherwise, as with `Promise.race`. Ending a call this way leaves its
waiter behind, as in the code.

Assumed of Chromium: an evaluation is answered when no main-frame load is
pending; `Page.navigate` answers when its load commits or fails,
`Page.reload` and `navigateToHistoryEntry` when it starts; `document.open` in the main
frame sends no frameStartedLoading; requests of a detached frame are heard of no
more. Every hop of a redirected request counts once more (`Redirect`), and a hop uses
up one of `Requests`; a redirected load keeps its url, so that the failure of a load
that was sent elsewhere, which rejects by the new url, is left out. Also left out:
responses and bodies, responses without a document, pages from the
back/forward cache, waits for one frame, `waitForNavigationResponse`, frames in
child frames, timeouts of commands, worker requests. `setContent` writes into a
document that has all come, and goto to a url of the document there is made
while nothing else loads.

`CallsEnd` says two things: `NoneLeftWaiting`, that a wait under way ends in the step
that closes the page or, for "load", loads the main document; and that every call ends when
the page has come to rest, but for those of `Hopeless`. Each of its cases is
in the comment of CallsEnd with the lines of the code, and TLC violates CallsEnd without any one
of them; see Observations. `LoadFired` takes the three events of a load in one step, as nothing
that happens between them is modelled.

History: `stale` and `miscounted` (requests from before a reset of the counters, and
whether one has ended since), `jumped` and `astray` (what may have set flags other
than the load of the main document), `refused`.

### ConnectedTabs and TabRequests

The browser session behind the MCP tools. A client is `<<tab, n>>`, the n-th
connection to a tab: `getActivePageClient` looks for one, connects, sets it
up and keeps it, and two tool calls may both do so. Tool calls run beside each
other. A browser event is handled in the step that sends it, but for the Fetch
commands (`wire`) and dialogs. TabRequests adds the network state of a tab, which
listeners capture when they are installed and `navigate()` replaces, the waits on
an entry, and `fetchResponseBody` with its shared `bodyRead`.

Each hazard that the properties run into is named by a set they exclude: `Muddled`
(tabs with two clients that listen, connectedBrowser.ts:3174, 3234), `late`
(routes changed during a set-up), `blind` (dialogs dropped), `hasty` (bodies asked
for before the end). After `navigate()` the listeners go on with the old state, so
the list shows only what the first listing adds from performance entries, while
tools/network.ts:14 says "Returns a numbered list of network requests since
loading the page.", and waits run into their timeout. A dialog opened
by the press of a click, not the release, holds it up. Left out: `close()` of the
session, init scripts, file choosers, downloads, console, entries added from
performance data. Tab ids are not used twice.

### NetworkEvents and ObservedRequests

The browser tells of a request over two channels: main events (one `sent` per hop, an
answer, an end, all under one id) and extra infos with the headers of the wire,
which are in order among themselves, in no order with the main events, and do
not say their hop. `story` is what will become of a request; it is chosen at the
start and the code does not see it, but for whether a response announces an extra info. What
`CdpPageAdapter` keeps of a request is one record, `adapter[r]`, with a field for
each of its maps, and handlers are functions of it that also return the raw events
they emit, under the names of the code: `QueueRequest`, `HandleResponse`, `Settled`. The page
gets these events in the same step, so ObservedRequests folds `Observe` over
them. A Request is an index into `page.requests`; `byId`, `byUrl` and `targets` are
the three maps. `RequestTimer` and `ResponseTimer` are the timers of 250 ms and may fire at
any time while something is held, so every order of theirs is there.

Assumed of Chromium: `framenavigated` comes after the answer to its navigation; of the
requests of a frame that has gone it may tell nothing more (`Gone`), or something that was
on its way. Left out:
data: URLs, preflights, favicons, requests of routes (continued elsewhere, or
fulfilled other than by the story `spared`), popups and workers, bodies, methods
(all requests have one). History: `oddities`, see the comment there; properties
name the one they exclude, and TLC violates them without. Two of these are wider than
the run needs: the proof failed for requests that are `crossed` or `abandoned` in
ways that take two chains which meet at a url, or two navigations. A request that
is asked for at a url another is being redirected to takes the other's place in
`targets`, but the other may then take the place of a third, or the first may itself be on
its way there; and a navigation that is told of, as well as one that commits, resolves
`response()` of one that waits. TLC found both on wider instances (two navigations, chains that
return to a url), and what the properties say now holds on these too.

## 3. What is checked

| Run | Properties | Instance | Result |
|---|---|---|---|
| RouteOrder | NobodySkipped, EveryRequestDecided, UnrouteAllTerminates | 1 request, 2 page routes (one with `times: 1`), 1 context route, two urls of which one route matches only one; handlers fall back or fulfill; FairSpec | hold |
| RouteConcurrency | TimesRespected, UnrouteAllWaits | 2 requests at once, a page route with `times: 1`, a context and a HAR route, favicons | hold |
| Interception | InterceptionTypeOK, InterceptionEndsWithRoutes, NoRequestHeldForEver | 1 request, plain, preflight or redirected, a page and a context route, up to 2 jobs on the wire before a toggle; FairInterceptionSpec | hold |
| InterceptionOvertaken | InterceptorReached | page routes only | violated |
| BidiClient | Implements, EveryCommandSettles | 3 commands, up to 3 frames under way, 2 listeners; FairSpec | hold |
| McpSessions | SessionClosedOnce, ConnectionUsable, NothingForgotten, SilentClientsLoseSession, ShutdownReachesListener | 1 client, 3 calls, 2 browser sessions; FairSpec | hold |
| BidiSessions | OwnersKeepSessions, RegistryComplete, StaleSessionsEnded, NoLeftovers | 3 processes, one of which launches its browser, 2 endpoints, 2 sessions, browsers that accept one | hold |
| ContextPages | AnnouncedOnce, NoDeadPages, TabsAnnounced, CloseEnds | a tab and a popup, a newPage call, 2 polls, a second adapter for the tab; Fairness | hold |
| PageNavigation | IdleMeansIdle, LoadMeansLoaded, NavigationsArrive, CallsEnd | 2 calls of every kind, 2 loads, a child frame, a request or a redirect; FairSpec | hold |
| Teardown | CloseInOrder, VideoKept, ClosesReturn, WaitsEnd | a page that comes to own its context and another in it, both recorded, a HAR that may fail, a context that comes late, a user's call, a waiter; Fairness | hold |
| NetworkEvents | OneObject, Linked, HeadersBelong, EverythingSettles | a navigation of up to 2 hops, redirected to the url of the second request, which a child frame makes; extra infos of any of the hops, cached and spared answers, a frame that goes; Fairness | hold |
| TabRequests | RoutesApplied, HeldAreHandled, OverMeansSettled, NoEmptyAnswers, ClickReturns | 2 tabs, 3 clients, a route, a click, a request of 2 hops, 2 readers; Fairness | hold |

The type invariants of RouteHandlers, BidiClient, McpSessions, BidiSessions,
ContextPages, PageNavigation, Teardown and TabRequests, and `PendingIsWaiting`, are proved (section 4)
and in no run. The `.cfg` files have the exact values. Why they are enough: a dispatch compares
entries pairwise within a scope and puts the page before the context, so two
entries of one scope and one of the other show every order; races between dispatches need two requests at one entry; jobs on
the wire race in pairs; a client's commands are independent but for the close,
so that three and one event show every interleaving; MCP sessions share nothing but
the map and the shutdown, which look at each entry on its own, and the races
inside one are between two calls, or between calls and an end; two processes
race for a file, and the third is a launcher; a second adapter of a tab, a
popup and a call are what the maps of a context race for; navigations interrupt
each other in pairs, and one more load than a call is the page's own; what is kept of
a request is its own, and requests meet only in the maps by url and in the navigations that
are given up, of which the run has two requests and one navigation; that more of them
change nothing is left to the proof (section 4). The safety
properties of McpSessions also hold with two clients, two calls and two
browser sessions (684636 states up to symmetry, `MCMcpSessions!AllSymmetry`).

Four instances are unions of parts, given by `MCBound` of the MC module, as
the whole would not finish: a popup or a newPage call (MCContextPages); dialogs, or two
clients with routes, or redirects and readers (MCTabRequests); one call with
frames, requests and timers, or two calls without, or a call that waits and a goto that is refused or
jumps (MCPageNavigation); a context that
comes while the browser closes, or a user who closes a page (MCTeardown). What
happens only across parts, such as two navigations with a child frame that
loads, is not checked. In MCTeardown the page also comes to own its context while
all is open and nobody waits, and only one of the two tabs goes by itself. A bound keeps no fair action from happening for good: a
call that has begun has a load left, and so on.

Each property has a mutant in `PROJECT.json` that TLC finds it violated by.

### Fairness

* `RouteHandlers!FairSpec`: promise reactions run (`FinishInvocation`,
  `FailInvocation`, `UnrouteAllReturns`), the body of a `fulfill()` is built or
  fails, and the user's handlers answer their route and end. The last one is an
  assumption on user code, and needed: a handler that never answers hangs its
  request, as the code has no timeout there.
* `RouteInterception`: the same, and the CDP connection delivers.
* `BidiClient!FairSpec`: the browser answers what it received, frames get
  through, listeners return, and a closing handshake ends. The answer is strongly
  fair because the bound on frames can disable it in between; nothing is
  assumed to close the connection.
* `McpSessions!FairSpec`: timers fire, a ping is answered or times out, the close
  of a browser session ends. No client is assumed to do anything.
* `ContextPages!Fairness`: events are handled, the first poll is made, promises and
  set-ups go on, a tab that was told to close goes. New tabs and polls need not come.
* `PageNavigation!FairSpec`: something that is due happens while there is something
  due: loads commit or fail, documents are parsed and load, requests end, timers
  fire, calls go on. All of these are finite in number, so none waits for ever. Pages
  need not navigate, and timeouts need not fire: CallsEnd is about ending
  without them.
* `Teardown!Fairness`: what has begun goes on: the browser answers, dialogs are
  dismissed, recordings stop or fail to, HARs are written or not, and the session ends
  or has had its five seconds. Nobody need call, come, answer or time out.
* `TabRequests!Fairness`: the browser tells of a dialog it opened, and answers
  the release of a mouse button when no dialog is in the way.
* `ObservedRequests!Fairness`: the browser tells of the end of every request whose frame is
  there, and timers fire. Extra infos need not come, nor does a frame go.

### Findings

`InterceptorReached` shows the code departing from what a test of the repository
expects; the quote is in `PROJECT.json`: `unroute` followed at once by `route` may leave
interception off, since the commands that turn it off are not awaited.

### Observations

`HandledOnce` of RouteHandlers does not hold: `route.fulfill()` marks the route as
handled only after its await (page.ts:6641), so a second call made meanwhile is
accepted, where tests/unit/page.test.ts:1594 wants "Route is already handled!" of
a call after it. TLC shows it in a few steps, as an invariant of a MCRouteHandlers
instance with "fulfill" among `RouteMethods`; no run repeats it.

The exceptions that properties of passing runs make are observations of the same
sort where no document of the repository speaks of the case plainly. Two connects of the MCP
runtime at once leave a browser session that nobody closes (runtime.ts:191;
tests/unit/mcp.test.ts:2703 has them one after the other). For requests:

* The end of a request whose event is still held is told before the request
  (backend.ts:3822, 3831; tests/e2e/page/page-events.contract.test.ts:1283 has the other
  order): there are two Request objects then, and `finished()` of the answer
  never resolves.
* The answer after a redirect gives the last Request the headers of the first hop, as
  a redirect takes none off the queue (8602; cf. page-network-request.contract.test.ts:130).
* When no extra info comes of a redirect's answer, that of the next answer is discarded in its place
  (8867), and the answer waits for its timer and has the headers announced.
* A request for the target of a redirect, made meanwhile, takes its `redirectedFrom()`
  (page.ts:5600).
* Of a request that is under way when its frame is removed nobody is told an end
  (`settleRequestsForDetachedFrame`, 8349): its `response()` stays pending if it is not answered, and
  `finished()` of its answer in any case (`Dropped`).
* `response()` of a navigation is null when its answer is held as the page commits, or
  when another navigation is told of before it is answered (page.ts:4841).

For the end of things:

* `close()` of a page that owns its context returns at once, with the page open, when
  the context is already closing, also for a second call once the inner one has
  cleared `closePromise`; the comment at page.ts:3356 has it await the teardown.
* Such a page is closed by the adapter of the context only, so its dialogs are
  not dismissed and its recording is given up (page.ts:3360).
* A recording that cannot be stopped makes `context.close()` go on without the other
  pages, whose recordings are then given up.
* A HAR that cannot be written ends `context.close()` with the adapter open and
  the close event unsent, and it cannot be called again (browserContext.ts:327); in
  `_didDisconnect` it leaves the connection of the browser open and "disconnected"
  unsent (browser.ts:174). Who waits there waits on.
* `context.waitForEvent` of a context that is closed waits for its timeout
  (browserContext.ts:535).
* A context that `newContext` makes while `browser.close()` tells the others is
  told by nobody (browser.ts:128, 222), and "disconnected" may come while a
  `context.close()` is under way.

For navigation:

* A page is taken for idle too early when a request from before a navigation ends
  after it (3721), and never again when there is a frame of which
  nothing was requested (8507), or when a request was redirected: each hop is counted
  (3554-3563) and the end taken off once (3720), so that a goto of a url that redirects
  runs into its timeout if it waits for network idle.
* Waiters for "load" go early when the page calls pushState while it loads (2820), when
  a child frame loads in a document written by `setContent` (2918), and when a load
  fails while the last document still loads (3807).
* A goto is rejected when another one for the same url is cancelled (9014).
* A goto that is refused at once has already reset the flags and counters, so that a wait
  for network idle runs into its timeout, and so does the wait of a `setContent` that
  begins when its document has loaded already. That `setContent` also waits in vain for "load"
  when a frame was removed while it loaded (2961), and any call that reads the readyState
  as the page closes, and begins to wait after `rejectWaiters` (2778).
* A reload or a step in the history that waits for "commit" succeeds when the
  browser has begun to load, also if the load then fails (4312, 8408), so that the page
  may still be on the document it was on.

## 4. What is proved

TLAPS checks these for all values of the constants that satisfy the named
assumptions of the modules: any number of routes, requests, commands, listeners,
clients, tool calls, processes, sessions, contexts, pages, frames, loads, tabs,
connections and readers. The assumptions say what the constants are made of (a page has a context, a
request a tab), that the names of none and nobody are not names of somebody, and that
bounds are positive. One says more: `SessionsAssumption` has a launcher alone on
its endpoint, as the code has it connect to the browser it has started.
`TargetsAssumption` has finitely many tabs and calls of newPage, since the code counts
the calls that wait (`manualPending`) and the answer of a poll is a list.
`RequestsAssumption` has finitely many requests, as the requests of a frame that goes are let
go one by one; their chains may be of any length, meet, and come back to a url.
`LoadingAssumption` has the ids of requests and loaders apart, and no frame by the name
of the page's own timer. No bound plays
a part in the invariants: they hold with any.

`RoutingProofs`, of RouteHandlers: `TypeCorrect`, `TimesLimit` (TimesRespected), `Tracking`
(InvocationsTracked: activeInvocations is what dispatches are in the middle of),
`WaitingIsEnough` (UnrouteAllWaits) and `OnlyLive` (OnlyLiveHandlersInvoked: a
dispatch calls only handlers registered by then). The inductive invariant `IInv` adds to TypeOK and
InvocationsTracked what they and the others rest on:

* `Registered`: what is in an array or is running has been pushed, so that
  a push never brings back an entry;
* `Budget`: as long as an entry is in its array, its calls and `remainingTimes`
  add up to `options.times`. It holds with any number of requests because
  the count goes down when the entry is chosen, before any await;
* `Forward`: a dispatch never meets again what it has tried, so no entry has two
  invocations for one request and the finally block removes the right one;
* `Completion`: an invocation that is complete while it runs belongs to an entry
  that was removed ("ignoreErrors");
* `Waiting`: what `unrouteAll({behavior: "wait"})` waits for is gone from
  the arrays and not complete while it runs; since `unrouteAll` resolves only
  invocations of entries it finds there, no later call can cut the wait short.
  That is what TypeOK and InvocationsTracked alone do not give.

`OnlyLive` needs no invariant but types: every action that invokes takes the entry
from `live`, in the state in which it does.

`Order` (NobodySkipped) rests on an invariant of its own, `WalkInv`: what was in an
array when a dispatch began, still is and matches is either behind the dispatch
or ahead of it (`Covered`), and its stamp is not used twice (`Numbered`). A step to
another entry takes the newest ahead, so that what precedes that entry is behind. The
url may change in between; `Reported` has that a dispatch whose handler has
called `continue()` with another does not walk on, for otherwise an entry that did
not match when it was passed would match now.

`RoutingProofs`, of RouteInterception: `Implements`, `InterceptionTypeCorrect` (InterceptionTypeOK) and
`InterceptionEnds` (InterceptionEndsWithRoutes). By the first every step of
the composition is one of RouteHandlers or leaves its variables alone, so that all
above holds in it. For the last, `Toggled` says of the jobs on the wire what the
end state depends on: where interception is off while the browser pauses
requests, or a job that will make it do so is on the wire, a job is there that turns
it off, has at least as many commands left and comes after those that have as
many. Jobs on the wire take turns, a command each, so that this one ends last. It
stays so since a disabling job is never shorter than an enabling one. The
converse is not true, and that is the finding `InterceptorReached`.

`BidiProofs`, of BidiClient: `ClientTypeCorrect`, `PendingCorrect` (PendingIsWaiting), `NobodyWaits`
(NobodyWaitsWhenClosed) and `ClientRefinement` (Implements). The invariant is their
conjunction: that pending entries are exactly the waiting commands gives that
clearing the map on close fails all of them, and that ids above `commandId` are
unused gives that a new command does not overwrite an old one. For the refinement,
`SendCommand` is Start or Refuse, an answer Settle, `Close` and the close of
the socket End, and every other action a stutter.

`McpSessionsProofs`: `TypeCorrect`, `ClosedOnce` (SessionClosedOnce), `Usable`
(ConnectionUsable) and `Forgotten` (NothingForgotten). To TypeOK and
NothingForgotten the invariant `IInv` adds

* `Ended`: a bundle has been closed once if its session is over, and else not
  at all, so that the early return of `closeSession` is what keeps the count;
* `Placed`: an accepted call has a client, a dispatched one a runtime;
* `Holding`: a connection is open, attached for the client of its runtime, and
  no other runtime's. Without the last, one runtime could close what another
  holds; it is kept because a session is unused until the factory returns it;
* `Orderly`: for a client with one call at a time, a call past `close()` works on
  the runtime of its session, which has no connection. That is why `Attach`
  overwrites nothing, and what two concurrent connects break.

`BidiProofs`, of BidiSessions: `TypeCorrect`, `OwnersSafe` (OwnersKeepSessions), `Registered`
(RegistryComplete), `StaleEnded` (StaleSessionsEnded) and `LeftoversAccounted`
(NoLeftovers), with one invariant of which the second and the third are conjuncts. The others:

* `Rewriting` and `Known`: when a process is reading or writing, and that what it
  has in hand was once in the file;
* `Owned`: who has a session has started it, and lives. That is why a cleanup, which
  looks only at sessions whose process it saw dead, ends none of a living one: the
  dead stay dead (`DeadLookedAt`), pids being not used twice;
* `Covered`: of what a process read, it writes back or has yet to look at all
  that is alive, so that only entries it did not read can be lost: those are `raced`;
* `EndedAccounted`: an entry of a session that is over has somebody who will take it
  out, or one of the excuses of NoLeftovers.

`ContextPagesProofs`: `TypeCorrect` (ContextTypeOK), `AnnouncedOnlyOnce` (AnnouncedOnce)
and `DeadPagesKnown` (NoDeadPages). The invariant follows a tab from the events under
way to the adapters made for it:

* `Queue`: that a tab is gone is told once, after all else that is told of it, and
  createTarget is answered once, so that a tab that has left does not come back;
* `Placed`: a tab that has not left has at most one adapter neither closed nor failed,
  and `pages` or `pendingPages` has it, where targetDestroyed finds it. Of a tab that has
  left (`Gone`), what is shown is closed or was missed. Both speak of a context that
  is not being closed, as NoDeadPages does;
* `Taken`: the replies that make an adapter of newPage's tab come after the one to
  createTarget, which makes the tab known as newPage's, so that no adapter of it is
  emitted and only newPage announces it;
* `Waiting`: `manualPending` is never more than the calls whose tab is not yet known,
  which bounds the count. The converse is not true: a blank tab of somebody else may be
  taken for one that newPage made;
* `Alone`: while an adapter that was made to be emitted can still turn out not to be,
  no other is made of its tab; `Single`: a tab that newPage did not make has one adapter
  but for those that failed;
* `Counted`: an adapter is announced when its promise is settled and when newPage
  returns it, once each, and of newPage's tabs by newPage only.

`PageNavigationProofs`: `TypeCorrect` (NavigationTypeOK), `PageIdle` (IdleMeansIdle), `LetGoWhenLoaded`
(LoadMeansLoaded) and `Arrival` (NavigationsArrive). The last two are action properties, and
`NavigationStep` shows of every step both that it keeps the invariant and that it lets
go and succeeds rightly. The invariant `NavigationInv` consists of

* `PageOK`, what each function of the adapter keeps by itself: timers run only
  where the count is zero (`Running`), frames that loads and counters speak of
  are there (`Framed`). NavigationTypeOK alone is not inductive: that `FailFrame`
  finds its request needs `DocsOK`, by which a frame that starts to load has it under way;
* `IdleOK`: the counter of the page, and of each frame, is at least the number of requests
  sent since the counters were reset (`CountsRight`; redirects make it more), and who has been quiet long enough has
  none. It speaks of pages where no older request has ended, since one that does is
  taken off all the same; counting down stops at zero, so that afterwards
  nothing can be said. IdleMeansIdle follows as the page is idle only when all
  its frames are, or its timer has fired;
* `LoadOK`: as long as nothing has led the flags `astray`, the document is as far as
  they say. A waiter that `flushWaiters` lets go is satisfied by a flag of then, so each
  function need only be shown to let nobody else go (`LetsGo`);
* `PendingOK`: the load that is not committed is the last one, under way, and of the main frame;
* `WaitersOK`: who waits is a call that does, for its own state, or one that has
  ended, since a capture that rejects leaves the waiter;
* `ArriveOK`: a call that the browser has answered with a load (`Stands`) sees
  another document than it began on, or its load is the one to be committed and
  the call can still be rejected. So it matters that whatever ends a load rejects the
  calls for its url in the same step (`CancelCalls`), and that the state is read, and the url
  asked for, only when no load is pending.

Some sixty lemmas say what each function of the adapter does to each field, and one
for each action what it does to the adapter and the browser, then to the calls.

`TeardownProofs`: `TypeCorrect`, `ClosedInOrder` (CloseInOrder) and `RecordingsKept`
(VideoKept). `ToldOnce` ties the count of close events to the states of pages and contexts,
`Emptied` has that a context that is about to send its event has no open page, and
`LeaversGone` that the browser has awaited the contexts it told. For recordings,
`StagesMean` says what the stage of a call of `close()` implies for its page, above all
that one call stops a recording; `CallsPlaced` that who joined a call waits for
one that is for its page; and `PagesTried` that a context which goes on to its HARs
leaves to its adapter only pages that own it, or those it did not come to since
another failed. That is what the exceptions of VideoKept are.

`TabRequestsProofs` has two invariants, the second on top of the first.
`ConnectedInv` is about tabs, clients and routes and gives `RoutesReach` (RoutesApplied) and
`PausedAreHeard` (HeldAreHandled):

* `Informed`: a client that is past applying the routes, and not `late`, has
  Fetch on just if there are routes, once the last of its commands is obeyed
  (`WillPause`). Every change of routes tells every kept client, and none is kept
  that has not applied them;
* `PausesHeard` and `ListenerThere`: Fetch is turned on only for a client that was
  given a listener, or for a second one of a tab that has one, for the
  listener is remembered by tab;
* `Gone`: a tab that is closed has no commands, no paused requests and does not return.

`RequestsInv` is about requests and gives `RequestsTypeCorrect`, `NobodyWaitsOn`
(OverMeansSettled) and `BodiesReachReaders` (NoEmptyAnswers, which is one of its
conjuncts). `NetStates` and `TouchedUsed`: states are numbered, a state is of one
tab, and what somebody has to do with was made for a client of its tab. `Following`:
an entry that is current (of the list its tab has now, the last of its request)
is as far as its request is. `Settling`: what is over has been settled, or the collector
is reading its body; it speaks of the entries of all lists, as those of an old list were settled
when the list was replaced. `Asking`: who has asked for a body was late enough, or is
noted as `hasty`. The proof takes the actions on tabs together (`TabsMove`)
by what they do to the variables of requests.

`NetworkProofs`: `OneObjectAlways` (OneObject), `LinkedAlways` (Linked) and
`HeadersBelongAlways` (HeadersBelong), from `NetworkInvariant`. A handler emits
a sequence of events, and the page observes them in the same step, so that between two of
them neither the adapter nor the page is in a state of the system. The proof goes through a view
of each request (`View`): the hop told of last, whether its answer has yet to be told
of, whether the request is over, and the hops whose headers on the wire were told of.
`NetworkInv` is

* `AdapterInv`, what the adapter keeps of a request, by how far the browser is with it: of the
  hops sent, all but the one held have been told of (`Held`), and what is held is one
  request event with the answer that waits for it, or one answer. `RequestInfosKept` has
  that headers wait for a request event only before its first hop, unless they came out
  of step. `ResponseInfosKept` counts: the infos of responses that were heard, and those that
  redirects have discarded in advance, are at least the redirects and what is queued, so that the
  k-th info in the queue is of the k-th hop still to be answered, or of a later one; and since the
  last hop is the only one whose answer is held, it is of that;
* `PageInv(page, View, oddities)`, what the page knows, by the view: the object found by the id
  is the one of the hop told of last, and it is unanswered just if the view says
  so (`Current`); a hop has one object, and all but the last are answered (`Objects`); a request
  that has been answered with a redirect waits once for the url it goes to
  (`Redirected`), so that the object made there is linked to it (`Predecessors`);
  `response()` of a navigation is pending until it is answered (`Promises`); `Headers`.

A handler is taken apart into the functions it is made of. Each of them, begun in a view, ends in
another, having told only of what leads from one to the other (`Good`): thus
`RequestReleased` has that a held event goes out and then its answer. `StepKeeps` and
`HandledKeeps` say that a step keeps the invariant if its handler ends in the view
of the next state, and there is one lemma for each main event, extra info, timer and for
the commit. The end of a frame lets go of many requests in one step, and
`DetachHandled` adds one after the other, in whatever order.

FoldLeft and FoldSet are recursive functions over sets. The induction theorems of the
library take an operator, which the provers cannot instantiate, but that a set of numbers
has a least element is a fact about sets (WFMin): `NatInductionOnSets` draws induction from it for
a set in place of an operator, and `ObservedOneMore` and `DetachHandled` use it.

Only model-checked: liveness everywhere, since fairness and ENABLED are out of the
prover's reach. Every other property of a passing run is proved.

## 5. What is not modelled, and the plan

Not planned: locators, selector runtime, ARIA snapshots, human input, conversions,
formatting and option parsing (data, or code that runs in the page), process
cleanup (the operating system).

Planned, most important first:

1. An abstract specification of a context, a set of tabs each announced once, and
   the refinement by ContextPages.
2. File choosers and downloads of the connected browser, and the runtime's use of
   them; the close and the loss of its connection.
3. The loss of the connection in ContextPages, and pages that come while their
   context ends; synthetic popups.
4. Redirects of a load to another url, waits for one frame and `waitForNavigationResponse` in PageNavigation.
5. The interceptor bridge of BiDi pages, as a second composition of RouteHandlers;
   screencast start and stop.
