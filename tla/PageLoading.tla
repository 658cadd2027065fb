---------------------------- MODULE PageLoading ----------------------------
(***************************************************************************)
(* What a CDP page knows of its loading: CdpPageAdapter of                 *)
(* src/src/protocol/cdp/backend.ts, its lifecycle flags, the frames that   *)
(* load, the requests under way and the timers that make quiet "network    *)
(* idle", and who waits for any of it.                                     *)
(*                                                                         *)
(* The adapter is the record `page`; a handler of an event is a function   *)
(* of it.  The browser is the frames and their documents.  Events of a     *)
(* connection are handled in the order sent, so a step of the browser and  *)
(* the handlers of its events are one step.                                *)
(***************************************************************************)
EXTENDS Naturals, FiniteSets

CONSTANTS
  Main,       \* the main frame
  Children,   \* child frames, all of the main one
  Requests,   \* requests but those for documents of the main frame, and hops of any
  MaxLoads,   \* bound: documents the main frame tries to load
  NoRequest

ASSUME LoadingAssumption ==
  /\ Main \notin Children
  /\ MaxLoads \in Nat
  /\ NoRequest \notin Requests
  /\ Requests \cap (0 .. MaxLoads) = {}
  /\ "page" \notin Children \cup {Main}

Frames == Children \cup {Main}
Loads == 1 .. MaxLoads      \* loader ids, and the requests for the documents
States == {"domcontentloaded", "load", "networkidle"}

VARIABLES
  page,         \* the adapter
  phase,        \* how far the document of each frame is
  doc,          \* the loader of the document of the main frame, 0 at first
  kid,          \* the request for the document a child frame loads, or loaded as it went
  spent,        \* requests sent so far
  stale,        \* history: requests under way when the counters were last reset
  miscounted,   \* history: one of them has ended since
  jumped,       \* history: a navigation within the document, and no request since
  astray        \* history: the flags may say that a document has loaded too early

loadingVars == <<page, phase, doc, kid, spent, stale, miscounted, jumped, astray>>

NoQuiet == [active |-> 0, reached |-> FALSE]

\* Maps, by frame or by request.
None == [x \in {} |-> x]
With(m, x, v) == [y \in DOMAIN m \cup {x} |-> IF y = x THEN v ELSE m[y]]
Without(m, S) == [x \in DOMAIN m \ S |-> m[x]]

PageFields ==
  {"domcontentloaded", "load", "networkidle", "same", "allow", "loading", "active", "timers",
   "quiet", "frames", "sent", "waiters", "closed"}

LoadingTypeOK ==
  /\ page = [x \in PageFields |-> page[x]]
  /\ {page.domcontentloaded, page.load, page.networkidle} \subseteq BOOLEAN
  /\ {page.same, page.allow, page.closed} \subseteq BOOLEAN
  /\ page.loading \subseteq Frames
  /\ page.active \in Nat
  /\ page.frames = {f \in Children : phase[f] \notin {"none", "gone"}}
  /\ page.quiet \in [DOMAIN page.quiet -> [active : Nat, reached : BOOLEAN]]
  /\ DOMAIN page.quiet \subseteq page.frames \cup {Main}
  /\ page.timers \in [DOMAIN page.timers -> SUBSET DOMAIN page.timers]
  /\ \A t \in DOMAIN page.timers :
        IF t = "page" THEN page.active = 0 /\ ~page.closed
        ELSE t \in DOMAIN page.quiet /\ page.quiet[t].active = 0
  /\ page.sent \in [DOMAIN page.sent -> page.frames \cup {Main}]
  /\ DOMAIN page.sent \subseteq spent \cup Loads
  /\ phase \in [Frames -> {"none", "gone", "blank", "starting", "parsing", "interactive", "ready", "loaded"}]
  /\ doc \in 0 .. MaxLoads
  /\ kid \in [Children -> Requests \cup {NoRequest}]
  /\ \A f \in Children : phase[f] = "starting" => kid[f] \in spent
  /\ spent \subseteq Requests
  /\ stale \subseteq spent \cup Loads
  /\ {miscounted, jumped, astray} \subseteq BOOLEAN

\* A page on its first document, about:blank, which is there.
LoadingInit ==
  /\ page = [domcontentloaded |-> TRUE, load |-> TRUE, networkidle |-> TRUE,
             same |-> FALSE, allow |-> FALSE, loading |-> {}, active |-> 0, timers |-> None,
             quiet |-> With(None, Main, [NoQuiet EXCEPT !.reached = TRUE]),
             frames |-> {}, sent |-> None, waiters |-> {}, closed |-> FALSE]
  /\ phase = [f \in Frames |-> IF f = Main THEN "loaded" ELSE "none"]
  /\ doc = 0
  /\ kid = [f \in Children |-> NoRequest]
  /\ spent = {} /\ stale = {}
  /\ miscounted = FALSE /\ jumped = FALSE /\ astray = FALSE

-----------------------------------------------------------------------------
(* The waiters.                                                            *)

\* isStateSatisfied of the page.
Satisfied(p, s) == (p.same /\ p.allow) \/ p[s]

\* flushWaiters
Flush(p) == [p EXCEPT !.waiters = {w \in @ : ~Satisfied(p, w.state)}]

\* The promise of waitForLoadState; who is satisfied does not wait.
Awaits(p, c, s) == Flush([p EXCEPT !.waiters = @ \cup {[call |-> c, state |-> s]}])

Less(n, m) == IF n <= m THEN 0 ELSE n - m

-----------------------------------------------------------------------------
(* Network idle: a counter and a timer of the page, and of each frame.     *)

\* The timers, "page" and one per frame, all take NETWORK_IDLE_MS: they fire in
\* the order they were set.  With each of those that run are kept the others that
\* were set before it.
Timed(p, t) ==
  IF t \in DOMAIN p.timers THEN p ELSE [p EXCEPT !.timers = With(@, t, DOMAIN @)]
Untimed(p, T) == [p EXCEPT !.timers = [t \in DOMAIN @ \ T |-> @[t] \ T]]

\* maybeArmNetworkIdleTimer
ArmTimer(p) == IF p.active = 0 THEN Timed(p, "page") ELSE p

\* ensureFrameNetworkIdleState
Quiet(p, f) == IF f \in DOMAIN p.quiet THEN p.quiet[f] ELSE NoQuiet
SetQuiet(p, f, q) == [p EXCEPT !.quiet = With(@, f, q)]

\* maybeArmFrameNetworkIdleTimer
ArmFrame(p, f) ==
  LET q == SetQuiet(p, f, Quiet(p, f)) IN IF q.quiet[f].active = 0 THEN Timed(q, f) ELSE q

\* Mutant of SubtreeIdle: child frames do not count.
SubtreeIdleAlone(p) == Main \in DOMAIN p.quiet /\ p.quiet[Main].reached

\* isFrameSubtreeNetworkIdle of the main frame
SubtreeIdle(p) == \A f \in {Main} \cup p.frames : f \in DOMAIN p.quiet /\ p.quiet[f].reached

\* recalculateNetworkIdle
Recalculate(p) == Flush([p EXCEPT !.networkidle = SubtreeIdle(p)])

\* requestWillBeSent, with markFrameNetworkBusy, of a request and of each redirect
WillBeSent(p, r, f) ==
  LET q == Untimed([p EXCEPT !.active = @ + 1, !.networkidle = FALSE, !.sent = With(@, r, f)],
                   {"page", f})
  IN Recalculate(SetQuiet(q, f, [NoQuiet EXCEPT !.active = Quiet(p, f).active + 1]))

\* onRequestSettled, with markFrameNetworkRequestSettled
Settled(p, r) ==
  LET f == p.sent[r]
      q == SetQuiet([p EXCEPT !.active = Less(@, 1), !.sent = Without(@, {r})],
                    f, [Quiet(p, f) EXCEPT !.active = Less(@, 1)])
  IN ArmTimer(ArmFrame(q, f))

\* frameDetached of the frames S: settleRequestsForDetachedFrame comes before
\* removeNativeFrame, so the page is not idle until its timer has fired.
Detached(p, S) ==
  LET theirs == {r \in DOMAIN p.sent : p.sent[r] \in S}
      q == Untimed([p EXCEPT !.loading = @ \ S, !.sent = Without(@, theirs),
                             !.quiet = Without(@, S), !.active = Less(@, Cardinality(theirs))], S)
  IN IF S = {} THEN p ELSE Flush([ArmTimer(Recalculate(q)) EXCEPT !.frames = @ \ S])

-----------------------------------------------------------------------------
(* Lifecycle events.                                                       *)

\* frameStartedLoading
StartedLoading(p, f) ==
  Untimed([p EXCEPT !.loading = @ \cup {f}, !.networkidle = FALSE], {"page"})

\* frameNavigated
Navigated(p, f) ==
  LET q == SetQuiet(Untimed([p EXCEPT !.loading = @ \cup {f}, !.load = FALSE], {f}),
                    f, [NoQuiet EXCEPT !.active = Quiet(p, f).active])
  IN IF f = Main
     THEN Untimed([q EXCEPT !.domcontentloaded = FALSE, !.networkidle = FALSE,
                            !.same = FALSE, !.allow = FALSE], {"page"})
     ELSE q

\* navigatedWithinDocument, of whichever frame.
WithinDocument(p) ==
  LET q == [p EXCEPT !.same = TRUE,
                     !.domcontentloaded = TRUE, !.load = TRUE, !.networkidle = TRUE]
  IN IF p.allow THEN Flush(q) ELSE q

\* domContentEventFired and lifecycleEvent DOMContentLoaded
ContentFired(p, f) == Flush([p EXCEPT !.domcontentloaded = @ \/ f = Main])

\* Mutant of DoneLoading: other frames may go on loading.
DoneLoadingAlone(p, f) == [p EXCEPT !.loading = @ \ {f}, !.load = TRUE]

\* A frame has loaded, or failed to: the page has if no other one loads.
DoneLoading(p, f) == [p EXCEPT !.loading = @ \ {f}, !.load = p.loading \subseteq {f}]

\* loadEventFired of the main frame, lifecycleEvent load and frameStoppedLoading,
\* which come in this order.
LoadFired(p, f) ==
  LET q == IF f = Main THEN Flush([p EXCEPT !.load = TRUE]) ELSE p
      l == Flush(ArmTimer(ArmFrame(DoneLoading(q, f), f)))
  IN Flush([l EXCEPT !.domcontentloaded = @ \/ f = Main])

\* loadingFailed of the request for a document.
DocumentFailed(p, r) ==
  LET f == p.sent[r]
  IN Flush(Settled([DoneLoading(p, f) EXCEPT !.domcontentloaded = @ \/ f = Main], r))

\* resetNavigationState
Reset(p) ==
  [p EXCEPT !.loading = {}, !.quiet = None, !.active = 0, !.timers = None, !.same = FALSE,
            !.allow = FALSE, !.domcontentloaded = FALSE, !.load = FALSE, !.networkidle = FALSE]

\* syncLifecycleStateFromDocument, with the readyState of a document that is
\* so far.  It is "interactive" before DOMContentLoaded.
Synced(p, at) ==
  Flush([p EXCEPT !.domcontentloaded = at # "parsing", !.load = at = "loaded"])

-----------------------------------------------------------------------------
(* The browser: requests, and documents once they are there.               *)

HasDocument(f) == phase[f] \notin {"none", "gone", "starting"}

\* A new document in the main frame: the child frames of the last one go.
Replaced == [f \in Frames |-> IF f = Main THEN "parsing"
                             ELSE IF f \in page.frames THEN "gone" ELSE phase[f]]

\* The main document has not loaded, and is not among the frames that load: it
\* was written, or the state was reset, or a load was lost.
Unmarked == phase[Main] # "loaded" /\ Main \notin page.loading

\* A document sends a request,
Send(r, f) ==
  /\ ~page.closed
  /\ r \notin spent
  /\ HasDocument(f)
  /\ page' = WillBeSent(page, r, f)
  /\ spent' = spent \cup {r}
  /\ jumped' = FALSE
  /\ UNCHANGED <<phase, doc, kid, stale, miscounted, astray>>

\* and is redirected before its answer has come: requestWillBeSent again, under the
\* same id, which counts it once more; it ends once.  A hop uses up one of Requests.
Redirect(r, hop) ==
  /\ ~page.closed
  /\ r \in DOMAIN page.sent \ {doc}
  /\ \A f \in Children : phase[f] = "parsing" => kid[f] # r
  /\ hop \notin spent
  /\ page' = WillBeSent(page, r, page.sent[r])
  /\ spent' = spent \cup {hop}
  /\ stale' = stale \ {r}
  /\ jumped' = FALSE
  /\ UNCHANGED <<phase, doc, kid, miscounted, astray>>

\* Requests S of the last count have ended.
Ended(S) ==
  /\ stale' = stale \ S
  /\ miscounted' = (miscounted \/ stale \cap S # {})

\* and the request ends: loadingFinished, or loadingFailed, which flushes.  One
\* for a document that is not there yet ends with its load.
Settle(r) ==
  /\ ~page.closed
  /\ r \in DOMAIN page.sent \cap (Requests \cup {doc})
  /\ \A f \in Children : phase[f] = "starting" => kid[f] # r
  /\ page' \in {Settled(page, r), Flush(Settled(page, r))}
  /\ Ended({r})
  /\ UNCHANGED <<phase, doc, kid, spent, jumped, astray>>

\* The main document is parsed when it has all come,
Parsed ==
  /\ ~page.closed
  /\ phase[Main] = "parsing"
  /\ doc \notin DOMAIN page.sent
  /\ phase' = [phase EXCEPT ![Main] = "interactive"]
  /\ UNCHANGED <<page, doc, kid, spent, stale, miscounted, jumped, astray>>

\* has its DOMContentLoaded,
ContentLoads ==
  /\ ~page.closed
  /\ phase[Main] = "interactive"
  /\ phase' = [phase EXCEPT ![Main] = "ready"]
  /\ page' = ContentFired(page, Main)
  /\ UNCHANGED <<doc, kid, spent, stale, miscounted, jumped, astray>>

\* and its load when no child frame loads.
PageLoads ==
  /\ ~page.closed
  /\ phase[Main] = "ready"
  /\ \A f \in Children : phase[f] \notin {"starting", "parsing"}
  /\ phase' = [phase EXCEPT ![Main] = "loaded"]
  /\ page' = LoadFired(page, Main)
  /\ UNCHANGED <<doc, kid, spent, stale, miscounted, jumped, astray>>

\* history.pushState, a link to a fragment
Jump ==
  /\ ~page.closed
  /\ page' = WithinDocument(page)
  /\ jumped' = TRUE
  /\ astray' = (astray \/ phase[Main] # "loaded")
  /\ UNCHANGED <<phase, doc, kid, spent, stale, miscounted>>

-----------------------------------------------------------------------------
(* The browser: child frames.                                              *)

\* A frame that goes does not come back.
AttachFrame(f) ==
  /\ ~page.closed
  /\ phase[f] = "none"
  /\ phase' = [phase EXCEPT ![f] = "blank"]
  /\ page' = [page EXCEPT !.frames = @ \cup {f}]
  /\ UNCHANGED <<doc, kid, spent, stale, miscounted, jumped, astray>>

StartFrame(f, r) ==
  /\ ~page.closed
  /\ phase[f] \in {"blank", "loaded"}
  /\ r \notin spent
  /\ phase' = [phase EXCEPT ![f] = "starting"]
  /\ page' = StartedLoading(WillBeSent(page, r, f), f)
  /\ kid' = [kid EXCEPT ![f] = r]
  /\ spent' = spent \cup {r}
  /\ jumped' = FALSE
  /\ UNCHANGED <<doc, stale, miscounted, astray>>

CommitFrame(f) ==
  /\ ~page.closed
  /\ phase[f] = "starting"
  /\ phase' = [phase EXCEPT ![f] = "parsing"]
  /\ page' = Navigated(page, f)
  /\ UNCHANGED <<doc, kid, spent, stale, miscounted, jumped, astray>>

FailFrame(f) ==
  /\ ~page.closed
  /\ phase[f] = "starting"
  /\ phase' = [phase EXCEPT ![f] = "loaded"]
  /\ page' = DocumentFailed(page, kid[f])
  /\ Ended({kid[f]})
  /\ kid' = [kid EXCEPT ![f] = NoRequest]
  /\ astray' = (astray \/ Unmarked)
  /\ UNCHANGED <<doc, spent, jumped>>

FrameLoads(f) ==
  /\ ~page.closed
  /\ phase[f] = "parsing"
  /\ kid[f] \notin DOMAIN page.sent
  /\ phase' = [phase EXCEPT ![f] = "loaded"]
  /\ page' = LoadFired(ContentFired(page, f), f)
  /\ kid' = [kid EXCEPT ![f] = NoRequest]
  /\ astray' = (astray \/ Unmarked)
  /\ UNCHANGED <<doc, spent, stale, miscounted, jumped>>

\* The requests of a frame that goes are heard of no more.
DetachFrame(f) ==
  /\ ~page.closed
  /\ phase[f] \notin {"none", "gone"}
  /\ phase' = [phase EXCEPT ![f] = "gone"]
  /\ page' = Detached(page, {f})
  /\ Ended({r \in DOMAIN page.sent : page.sent[r] = f})
  /\ UNCHANGED <<doc, kid, spent, jumped, astray>>

-----------------------------------------------------------------------------
(* Timers.                                                                 *)

Expires(t) == t \in DOMAIN page.timers /\ page.timers[t] = {}

IdleTimer ==
  /\ Expires("page")
  /\ page' = Flush(Untimed([page EXCEPT !.networkidle = TRUE], {"page"}))
  /\ UNCHANGED <<phase, doc, kid, spent, stale, miscounted, jumped, astray>>

FrameTimer(f) ==
  /\ Expires(f)
  /\ page' = Recalculate(Untimed([page EXCEPT !.quiet[f].reached = TRUE], {f}))
  /\ UNCHANGED <<phase, doc, kid, spent, stale, miscounted, jumped, astray>>

FrameEvents(f) ==
  \/ AttachFrame(f) \/ CommitFrame(f) \/ FailFrame(f) \/ FrameLoads(f) \/ DetachFrame(f)
  \/ \E r \in Requests : StartFrame(f, r)

LoadingNext ==
  \/ \E r \in Requests, f \in Frames : Send(r, f)
  \/ \E r \in Requests \cup Loads, hop \in Requests : Redirect(r, hop)
  \/ \E r \in Requests \cup Loads : Settle(r)
  \/ Parsed \/ ContentLoads \/ PageLoads \/ Jump
  \/ \E f \in Children : FrameEvents(f)
  \/ IdleTimer
  \/ \E f \in Frames : FrameTimer(f)
=============================================================================
