--------------------------- MODULE PageNavigation ---------------------------
(***************************************************************************)
(* Navigation of a CDP page: goto, reload, goBack and goForward,           *)
(* setContent and waitForLoadState of CdpPageAdapter, on top of            *)
(* PageLoading.  Calls overlap; each goes from await to await, races       *)
(* against its failure capture, and may be interrupted by a later one, by  *)
(* the page, or by the end of the page.                                    *)
(***************************************************************************)
EXTENDS PageLoading

CONSTANTS
  Calls,
  Kinds,      \* of "goto", "reload", "history", "content" and "wait"
  Untils,     \* values of waitUntil: States and "commit"
  Urls,       \* urls without their fragment
  NoCall

ASSUME NavigationAssumption ==
  /\ Kinds \subseteq {"goto", "reload", "history", "content", "wait"}
  /\ Untils \subseteq States \cup {"commit"}
  /\ Urls # {}
  /\ NoCall \notin Calls

VARIABLES
  calls,      \* the calls
  url,        \* the url of the main document
  pending,    \* the load of the main frame that is not committed yet
  loads,      \* loaders so far
  refused     \* history: a goto was refused at once

navigationVars == <<calls, url, pending, loads, refused>>
vars == <<loadingVars, navigationVars>>

NoLoad == 0
Nothing == [load |-> NoLoad, url |-> CHOOSE u \in Urls : TRUE, by |-> NoCall]
Unused == [kind |-> "wait", until |-> "load", url |-> CHOOSE u \in Urls : TRUE, at |-> "idle",
           answer |-> "none", came |-> NoLoad, loader |-> NoLoad, from |-> 0, end |-> "none"]

\* How far a call is: "stopping" awaits stopLoading, "asking" and "going" the
\* command that navigates, before and after it reached the browser, "reading"
\* the readyState, "waiting" a state, "leaving" the url.
CallStages == {"idle", "stopping", "asking", "going", "reading", "waiting", "leaving", "done"}

NavigationTypeOK ==
  /\ LoadingTypeOK
  /\ page.waiters \subseteq [call : Calls, state : States]
  /\ calls \in [Calls ->
       [kind : {"goto", "reload", "history", "content", "wait"}, until : States \cup {"commit"},
        url : Urls, at : CallStages, answer : {"none", "error", "same", "started", "committed"},
        came : 0 .. MaxLoads, loader : 0 .. MaxLoads, from : 0 .. MaxLoads,
        end : {"none", "ok", "failed", "interrupted", "timeout", "closed"}]]
  /\ \A c \in Calls : calls[c].at = "done" <=> calls[c].end # "none"
  /\ url \in Urls
  /\ pending \in [load : 0 .. MaxLoads, url : Urls, by : Calls \cup {NoCall}]
  /\ pending.load # NoLoad => pending.load = loads /\ page.sent[loads] = Main
  /\ loads \in 0 .. MaxLoads
  /\ refused \in BOOLEAN

Init ==
  /\ LoadingInit
  /\ calls = [c \in Calls |-> Unused]
  /\ url \in Urls
  /\ pending = Nothing
  /\ loads = 0
  /\ refused = FALSE

-----------------------------------------------------------------------------
(* Calls and their captures.                                               *)

Captured(c) == c.kind \in {"goto", "reload", "history"} /\ c.at \notin {"idle", "stopping", "done"}
HasWaiter(p, c) == \E w \in p.waiters : w.call = c

\* The calls that race against their failure capture and have not won yet.
Raced(cs, p) ==
  {c \in Calls : /\ Captured(cs[c]) /\ cs[c].at # "leaving"
                 /\ cs[c].at = "waiting" => HasWaiter(p, c)}

\* An interruption ends a committed navigation too, but not one that waits for
\* network idle (includeCommittedInterruption).
Interruptible(cs, p) ==
  {c \in Raced(cs, p) : cs[c].kind = "goto" /\ cs[c].until = "networkidle"
                          => cs[c].at \in {"asking", "going"}}

End(cs, S, how) ==
  [c \in Calls |-> IF c \in S
                   THEN [Unused EXCEPT !.at = "done", !.end = how] ELSE cs[c]]

\* Mutant of RejectFailed: calls whose command was not answered with a loader
\* are left alone.
RejectFailedLoaders(cs, p, u) ==
  End(cs, {c \in Raced(cs, p) : cs[c].url = u /\ cs[c].loader # NoLoad}, "failed")

\* rejectNavigationFailureCaptures: the load of a document with this url
\* failed, and every call for this url fails, whose load it was or not.
RejectFailed(cs, p, u) == End(cs, {c \in Raced(cs, p) : cs[c].url = u}, "failed")

\* rejectInterruptedNavigationFailureCapturesForCommittedNavigation
LetOvertakenGo(cs, p, l) ==
  End(cs, {c \in Interruptible(cs, p) : cs[c].loader \notin {NoLoad, l}}, "interrupted")

\* The captures there are, of calls for other urls,
Overtaken(u) == {c \in Calls : Captured(calls[c]) /\ calls[c].url # u}

\* are rejected, or let go: rejectInterruptedNavigationFailureCaptures.
Interrupt(u) ==
  LET early == {c \in Overtaken(u) : calls[c].loader = NoLoad}
  IN End(End(calls, early \cap Raced(calls, page), "failed"),
         (Overtaken(u) \ early) \cap Interruptible(calls, page), "interrupted")

-----------------------------------------------------------------------------
(* The browser: loads of the main frame.                                   *)

\* A new load takes the place of one that is not committed, whose request
\* fails.  It is announced by frameStartedLoading at once, or as it commits.
Cancelled == IF pending.load = NoLoad THEN page ELSE DocumentFailed(page, pending.load)
CallsCancelled ==
  IF pending.load = NoLoad THEN calls ELSE RejectFailed(calls, page, pending.url)

\* The request of a load fails while the document there is still loads.
LoadLost == pending.load # NoLoad /\ phase[Main] # "loaded"

StartLoad(u, c, cs) ==
  LET l == loads + 1
      p == WillBeSent(Cancelled, l, Main)
  IN /\ loads < MaxLoads
     /\ loads' = l
     /\ pending' = [load |-> l, url |-> u, by |-> c]
     /\ page' \in {p, StartedLoading(p, Main)}
     /\ calls' = cs
     /\ Ended({pending.load})
     /\ jumped' = FALSE
     /\ astray' = (astray \/ LoadLost)
     /\ UNCHANGED <<phase, doc, kid, spent, url, refused>>

\* A link or a script of the page
PageNavigates(u) == ~page.closed /\ StartLoad(u, NoCall, CallsCancelled)

\* Before the next document is there, the request for the last one fails if it
\* is still coming,
DropBody ==
  /\ ~page.closed
  /\ pending.load # NoLoad
  /\ doc \in DOMAIN page.sent
  /\ page' = DocumentFailed(page, doc)
  /\ calls' = RejectFailed(calls, page, url)
  /\ Ended({doc})
  /\ astray' = TRUE
  /\ UNCHANGED <<phase, doc, kid, spent, jumped, url, pending, loads, refused>>

\* and its frames go; then frameNavigated.
Commit ==
  LET l == pending.load
      p == Detached(page, page.frames)
      cs == LetOvertakenGo(calls, p, l)
  IN /\ ~page.closed
     /\ l # NoLoad /\ doc \notin DOMAIN page.sent
     /\ page' = Navigated(p, Main)
     /\ calls' = [c \in Calls |->
          IF c = pending.by /\ cs[c].kind = "goto" /\ cs[c].at = "going"
          THEN [cs[c] EXCEPT !.answer = "committed", !.came = l] ELSE cs[c]]
     /\ phase' = Replaced
     /\ doc' = l
     /\ url' = pending.url
     /\ pending' = Nothing
     /\ Ended({r \in DOMAIN page.sent : page.sent[r] \in Children})
     /\ jumped' = FALSE
     /\ astray' = FALSE
     /\ kid' = [f \in Children |-> NoRequest]
     /\ UNCHANGED <<spent, loads, refused>>

\* The load fails: no answer, a download, an answer without a document.
FailLoad ==
  /\ ~page.closed
  /\ pending.load # NoLoad
  /\ page' = Cancelled
  /\ calls' = CallsCancelled
  /\ pending' = Nothing
  /\ Ended({pending.load})
  /\ astray' = (astray \/ LoadLost)
  /\ UNCHANGED <<phase, doc, kid, spent, jumped, url, loads, refused>>

-----------------------------------------------------------------------------
(* Navigations.                                                            *)

\* The counters start anew.
Recount ==
  /\ stale' = DOMAIN page.sent
  /\ miscounted' = FALSE
  /\ jumped' = FALSE
  /\ astray' = FALSE

\* Captures begin, the state is reset, and the command is sent.  goto and the
\* history let a navigation within the document end their waits.
Begin(c, cs) ==
  /\ page' = [Reset(page) EXCEPT !.allow = cs[c].kind # "reload"]
  /\ calls' = [cs EXCEPT ![c].at = "asking", ![c].from = doc,
                         ![c].url = IF cs[c].kind = "reload" THEN url ELSE @]
  /\ Recount

\* goto, reload and navigateHistory: what goes on is interrupted first.
Navigate(c, kind, until, u) ==
  /\ ~page.closed
  /\ calls[c].at = "idle"
  /\ kind \in Kinds \cap {"goto", "reload", "history"}
  /\ kind = "reload" => u = url
  /\ LET cs == [Interrupt(u) EXCEPT ![c] =
                  [Unused EXCEPT !.kind = kind, !.until = until, !.url = u, !.at = "stopping"]]
     IN IF Overtaken(u) = {}
        THEN Begin(c, cs)
        ELSE calls' = cs /\ UNCHANGED <<page, stale, miscounted, jumped, astray>>
  /\ UNCHANGED <<phase, doc, kid, spent, url, pending, loads, refused>>

\* stopLoading, which ends a load that is not committed, and its answer.
StopLoading(c) ==
  /\ ~page.closed
  /\ calls[c].at = "stopping"
  /\ pending.load # NoLoad
  /\ page' = Cancelled
  /\ calls' = CallsCancelled
  /\ pending' = Nothing
  /\ Ended({pending.load})
  /\ astray' = (astray \/ LoadLost)
  /\ UNCHANGED <<phase, doc, kid, spent, jumped, url, loads, refused>>

Stopped(c) ==
  /\ ~page.closed
  /\ calls[c].at = "stopping"
  /\ pending.load = NoLoad
  /\ Begin(c, calls)
  /\ UNCHANGED <<phase, doc, kid, spent, url, pending, loads, refused>>

\* The browser gets the command.  It answers a reload and a step in the history
\* as it starts to load, a goto as the load commits or fails.
Loading(c) ==
  /\ ~page.closed
  /\ calls[c].at = "asking" /\ Captured(calls[c])
  /\ LET cs == CallsCancelled IN
       StartLoad(calls[c].url, c,
         IF cs[c].at = "done" THEN cs
         ELSE [cs EXCEPT ![c].at = "going",
                         ![c].answer = IF cs[c].kind = "goto" THEN "none" ELSE "started"])

\* The url differs in its fragment only, or the entry is of this document.
Jumping(c) ==
  /\ ~page.closed
  /\ calls[c].at = "asking" /\ calls[c].kind \in {"goto", "history"}
  /\ calls[c].url = url
  /\ pending.load = NoLoad
  /\ page' = WithinDocument(page)
  /\ jumped' = TRUE
  /\ calls' = [calls EXCEPT ![c].at = "going", ![c].answer = "same"]
  /\ astray' = (astray \/ phase[Main] # "loaded")
  /\ UNCHANGED <<phase, doc, kid, spent, stale, miscounted, url, pending, loads, refused>>

\* The url is invalid.
Refusing(c) ==
  /\ ~page.closed
  /\ calls[c].at = "asking" /\ calls[c].kind = "goto"
  /\ calls' = [calls EXCEPT ![c].at = "going", ![c].answer = "error"]
  /\ refused' = TRUE
  /\ UNCHANGED <<loadingVars, url, pending, loads>>

\* The call goes on after its command.
Answered(c) ==
  /\ ~page.closed
  /\ calls[c].at = "going" /\ calls[c].answer # "none"
  /\ calls' = IF calls[c].answer = "error" THEN End(calls, {c}, "failed")
              ELSE [calls EXCEPT ![c].loader = calls[c].came,
                                 ![c].at = IF calls[c].until = "commit" THEN "leaving" ELSE "reading"]
  /\ UNCHANGED <<loadingVars, url, pending, loads, refused>>

-----------------------------------------------------------------------------
(* Waiting.                                                                *)

\* waitForLoadState
Wait(c, until) ==
  /\ ~page.closed
  /\ calls[c].at = "idle" /\ "wait" \in Kinds
  /\ until # "commit"
  /\ calls' = [calls EXCEPT ![c] = [Unused EXCEPT !.kind = "wait", !.until = until, !.at = "reading"]]
  /\ UNCHANGED <<loadingVars, url, pending, loads, refused>>

\* syncLifecycleStateFromDocument, which fails once the page has closed.  The
\* browser keeps an evaluation until the main frame has no load to commit.
ReadyState == IF page.closed THEN page ELSE Synced(page, phase[Main])

Read(c) ==
  /\ calls[c].at = "reading"
  /\ page.closed \/ pending.load = NoLoad
  /\ page' = Awaits(ReadyState, c, calls[c].until)
  /\ calls' = [calls EXCEPT ![c].at = "waiting"]
  /\ UNCHANGED <<phase, doc, kid, spent, stale, miscounted, jumped, url, pending, loads, refused, astray>>

\* The state is there: a call that navigated asks for the url, setContent for
\* the shadow roots, and then ends.
Leave(c) ==
  /\ \/ calls[c].at = "leaving"
     \/ calls[c].at = "waiting" /\ ~HasWaiter(page, c)
  /\ page.closed \/ pending.load = NoLoad \/ calls[c].kind = "wait"
  /\ calls' = End(calls, {c}, IF page.closed /\ calls[c].kind = "content" THEN "closed" ELSE "ok")
  /\ UNCHANGED <<loadingVars, url, pending, loads, refused>>

TimeOut(c) ==
  /\ calls[c].at = "waiting" /\ HasWaiter(page, c)
  /\ page' = [page EXCEPT !.waiters = {w \in @ : w.call # c}]
  /\ calls' = End(calls, {c}, "timeout")
  /\ UNCHANGED <<phase, doc, kid, spent, stale, miscounted, jumped, url, pending, loads, refused, astray>>

-----------------------------------------------------------------------------
(* setContent.                                                             *)

SetContent(c, until) ==
  /\ ~page.closed
  /\ calls[c].at = "idle" /\ "content" \in Kinds
  /\ page' = Reset(page)
  /\ calls' = [calls EXCEPT ![c] = [Unused EXCEPT !.kind = "content", !.until = until, !.at = "asking"]]
  /\ Recount
  /\ UNCHANGED <<phase, doc, kid, spent, url, pending, loads, refused>>

\* document.open, write and close, in a document that has all come.  Its frames
\* go; the main frame is not announced to load again.
Write(c) ==
  /\ ~page.closed
  /\ calls[c].at = "asking" /\ calls[c].kind = "content"
  /\ pending.load = NoLoad /\ doc \notin DOMAIN page.sent
  /\ page' = Detached(page, page.frames)
  /\ phase' = Replaced
  /\ calls' = [calls EXCEPT ![c].at = "going"]
  /\ Ended({r \in DOMAIN page.sent : page.sent[r] \in Children})
  /\ astray' = (astray \/ page.load \/ page.domcontentloaded)
  /\ kid' = [f \in Children |-> NoRequest]
  /\ UNCHANGED <<doc, spent, jumped, url, pending, loads, refused>>

\* The wait begins with what the adapter knows (skipDocumentReadyStateSync).
Written(c) ==
  /\ ~page.closed
  /\ calls[c].at = "going" /\ calls[c].kind = "content"
  /\ IF calls[c].until = "commit"
     THEN calls' = [calls EXCEPT ![c].at = "leaving"] /\ UNCHANGED page
     ELSE /\ page' = Awaits(page, c, calls[c].until)
          /\ calls' = [calls EXCEPT ![c].at = "waiting"]
  /\ UNCHANGED <<phase, doc, kid, spent, stale, miscounted, jumped, url, pending, loads, refused, astray>>

-----------------------------------------------------------------------------
(* The end, and the specification.                                         *)

\* Mutant of Close: who waits for a state is not rejected.
CloseUnheard ==
  /\ ~page.closed
  /\ page' = Untimed([page EXCEPT !.closed = TRUE], {"page"})
  /\ calls' = End(calls, {c \in Calls : calls[c].at \in {"stopping", "asking", "going"}}, "closed")
  /\ UNCHANGED <<phase, doc, kid, spent, stale, miscounted, jumped, url, pending, loads, refused, astray>>

\* close, or the target is gone: rejectWaiters, and commands fail.  A call that
\* reads the state is not rejected.
Close ==
  /\ ~page.closed
  /\ page' = Untimed([page EXCEPT !.closed = TRUE, !.waiters = {}], {"page"})
  /\ calls' = End(calls, {c \in Calls : \/ calls[c].at \in {"stopping", "asking", "going"}
                                        \/ calls[c].at = "waiting" /\ HasWaiter(page, c)}, "closed")
  /\ UNCHANGED <<phase, doc, kid, spent, stale, miscounted, jumped, url, pending, loads, refused, astray>>

Starts(c, until) ==
  \/ \E kind \in Kinds, u \in Urls : Navigate(c, kind, until, u)
  \/ Wait(c, until)
  \/ SetContent(c, until)

Goes(c) ==
  \/ StopLoading(c) \/ Stopped(c)
  \/ Loading(c) \/ Jumping(c) \/ Refusing(c) \/ Answered(c)
  \/ Read(c) \/ Leave(c)
  \/ Write(c) \/ Written(c)

Next ==
  \/ LoadingNext /\ UNCHANGED navigationVars
  \/ \E u \in Urls : PageNavigates(u)
  \/ DropBody \/ Commit \/ FailLoad
  \/ \E c \in Calls : (\E until \in Untils : Starts(c, until)) \/ Goes(c) \/ TimeOut(c)
  \/ Close

Spec == Init /\ [][Next]_vars

\* What must come: loads end, documents are parsed and load, requests end, the
\* timer fires, and calls go on.  There are finitely many loads and requests,
\* so it is enough that one of these steps happens while there is one.
Due ==
  \/ \E r \in Requests \cup Loads : Settle(r) /\ UNCHANGED navigationVars
  \/ (Parsed \/ ContentLoads \/ PageLoads \/ IdleTimer) /\ UNCHANGED navigationVars
  \/ \E f \in Frames : FrameTimer(f) /\ UNCHANGED navigationVars
  \/ \E f \in Children : (CommitFrame(f) \/ FailFrame(f) \/ FrameLoads(f)) /\ UNCHANGED navigationVars
  \/ Commit \/ FailLoad
  \/ \E c \in Calls : Goes(c)

FairSpec == Spec /\ WF_vars(Due)

-----------------------------------------------------------------------------
(* Properties.                                                             *)

LetGo(c) == calls[c].at = "waiting" /\ ~HasWaiter(page, c)

Reached(until) ==
  CASE until = "domcontentloaded" -> phase[Main] \in {"interactive", "ready", "loaded"}
    [] until = "load" -> phase[Main] = "loaded"
    [] OTHER -> TRUE

\* Whoever waits for the main document to load is let go when it has, through
\* overlapping calls, child frames and lost loads.  Not after a navigation
\* within the document (2820-2822); nor if the load of a child frame ends while
\* the main one is not among those that load, as after a reset or setContent
\* (2918); nor when a load of the main frame fails before the document there
\* has loaded (3807); nor if setContent finds that the flags it had reset were
\* set by the document it replaces.
LoadMeansLoaded ==
  [][\A c \in Calls :
       ~LetGo(c) /\ LetGo(c)' =>
         Reached(calls[c].until) \/ Reached(calls[c].until)' \/ astray \/ astray']_vars

\* goto, reload, goBack and goForward succeed only with another document than
\* they began on, or if their target is in this one.  Not a reload or a step in
\* the history that waits for "commit": the browser has answered as the load
\* starts, and the call does not wait for what becomes of it (4312, 8408).
NavigationsArrive ==
  [][\A c \in Calls :
       ~page.closed /\ Captured(calls[c]) /\ calls'[c].end = "ok" =>
         \/ doc # calls[c].from \/ calls[c].answer = "same"
         \/ calls[c].kind # "goto" /\ calls[c].until = "commit"]_vars

\* A page is idle when no request is under way that was sent since the counters
\* were reset.  Not if one from before has ended since, which is taken off all
\* the same, nor after a navigation within the document (2823).
IdleMeansIdle ==
  page.networkidle /\ ~miscounted /\ ~jumped => DOMAIN page.sent \subseteq stale

\* No idle state is kept of a frame: nothing of it was requested since the counters
\* were reset, and it has not loaded.
Unseen(f) == f \notin DOMAIN page.quiet

SentFrom(F) == {r \in DOMAIN page.sent : page.sent[r] \in F}

\* More requests are counted than are under way.
Overcounted ==
  \/ page.active > Cardinality(DOMAIN page.sent)
  \/ \E f \in DOMAIN page.quiet : page.quiet[f].active > Cardinality(SentFrom({f}))

\* A frame went while it loaded.
LostFrame == \E f \in Children : phase[f] = "gone" /\ kid[f] # NoRequest

Waits(c) == calls[c].at = "waiting" /\ HasWaiter(page, c)

\* A wait that nothing ends any more, see CallsEnd.
Hopeless(c) ==
  \/ page.closed /\ Waits(c)
  \/ /\ calls[c].kind = "content" /\ Waits(c) /\ phase[Main] = "loaded"
     /\ \/ LostFrame /\ calls[c].until = "load"
        \/ refused /\ calls[c].until # "networkidle"
  \/ /\ calls[c].until = "networkidle" /\ Waits(c)
     /\ \/ refused /\ Unseen(Main)
        \/ \E f \in page.frames : Unseen(f)
        \/ Overcounted

\* A wait that is under way ends as the page closes, and a wait for "load" as the main
\* document has loaded;
NoneLeftWaiting ==
  [][\A c \in Calls : Waits(c) /\ Waits(c)' =>
       /\ page.closed' => page.closed
       /\ calls[c].until = "load" /\ phase'[Main] = "loaded" => phase[Main] = "loaded"]_vars

\* and a call that waits for a page that loads and comes to rest ends without its
\* timeout.  Not
\*  - a wait that begins after the page has closed, and after rejectWaiters, as the
\*    call was reading the state (2778, 4904);
\*  - the wait of a setContent that begins after its document has loaded, if the
\*    flags were taken back by a goto that was refused or, for "load", by a frame that
\*    went as it loaded: neither sets them again (4207, 2965);
\*  - a wait for network idle in a page with a frame of which nothing was requested,
\*    or whose state was reset by a goto that was refused: there is no idle state of
\*    it, so the page is not idle any more when the timer of the main frame fires last
\*    (8507-8529);
\*  - a wait for network idle if a request was redirected since the counters were
\*    reset: each hop is counted, and the end is taken off once (3554-3563, 3720).
CallsEnd ==
  /\ NoneLeftWaiting
  /\ \A c \in Calls : []<>(calls[c].at \in {"idle", "done"} \/ Hopeless(c))
=============================================================================
