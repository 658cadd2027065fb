------------------------------ MODULE Teardown ------------------------------
(***************************************************************************)
(* How a browser, its contexts and their pages end: close() of each, the   *)
(* disconnection that browser.close() tells its contexts of, tabs that go  *)
(* by themselves, and those who wait for an event of a page or a context.  *)
(*                                                                         *)
(* page.close() and context.close() call each other: a context closes its  *)
(* pages, and the page of browser.newPage() owns its context, so that to   *)
(* close it is to close the context.  An async function runs up to its     *)
(* first await before its caller goes on; such a run is one step here.     *)
(*                                                                         *)
(* The pages are there from the start, each in its context; contexts may   *)
(* come later, without pages.  closeTarget and disposeBrowserContext do    *)
(* not fail (to be told that a target is gone or the connection closed is  *)
(* not to fail), and runBeforeUnload is not used.                          *)
(***************************************************************************)
EXTENDS Naturals

CONSTANTS
  Contexts, Pages,
  ContextOf,    \* the context of a page
  NewPages,     \* the pages of browser.newPage()
  Recorded,     \* pages with a video
  HarContexts,  \* contexts with a HAR, whose export may fail
  Users,        \* calls of page.close() by users
  Waiters,      \* calls of waitForEvent()
  Scopes,       \* the pages and contexts waiters may wait at
  None

ASSUME TeardownAssumption ==
  /\ ContextOf \in [Pages -> Contexts]
  /\ NewPages \subseteq Pages /\ Recorded \subseteq Pages /\ HarContexts \subseteq Contexts
  /\ Scopes \subseteq Pages \cup Contexts
  /\ Pages \cap Contexts = {} /\ Pages \cap Users = {} /\ None \notin Pages \cup Contexts \cup Users

\* The call of page.close() that the context makes goes by the page's name.
Calls == Users \cup Pages

VARIABLES
  browser,       \* "open", or how far browser.close() is
  contexts,      \* _contexts of the browser
  leavers,       \* the contexts whose _didDisconnect() browser.close() awaits
  ctx,           \* a context: open, or how far its close() or _didDisconnect() is
  ended,         \* a page: open, or what closed its adapter
  video,         \* the recording of a page, by its stopPageVideoRecording and its end
  call,          \* how far a call of page.close() is
  pageOf,        \* the page of a call
  joined,        \* the closePromise a call awaits that found one
  closePromise,  \* of a page: the call that made it
  owned,         \* the pages with an ownedContext
  wait,          \* how far a waiter is
  scopeOf,       \* the page or context it waits at
  told,          \* history: the close events of pages and contexts
  missed         \* history: waiters that came after the close event of their context

vars == <<browser, contexts, leavers, ctx, ended, video, call, pageOf, joined, closePromise,
          owned, wait, scopeOf, told, missed>>
browserVars == <<browser, contexts, leavers>>
callVars == <<call, pageOf, joined, closePromise, owned>>

Open == {p \in Pages : ended[p] = "open"}
PagesOf(c) == {p \in Pages : ContextOf[p] = c}

TypeOK ==
  /\ browser \in {"open", "session", "contexts", "adapter", "closed", "failed"}
  /\ contexts \subseteq Contexts /\ leavers \subseteq Contexts
  /\ ctx \in [Contexts -> {"none", "creating", "refused", "open", "pages", "hars", "adapter",
                           "emptied", "leaving", "left", "closed", "failed"}]
  /\ ended \in [Pages -> {"open", "close", "context", "tab", "disconnect"}]
  /\ video \in [Pages -> {"none", "on", "stopping", "saved", "failed", "lost"}]
  /\ call \in [Calls -> {"idle", "joined", "owner", "late", "dialogs", "video", "adapter",
                         "done", "failed"}]
  /\ pageOf \in [Calls -> Pages \cup {None}]
  /\ joined \in [Calls -> Calls \cup {None}]
  /\ closePromise \in [Pages -> Calls \cup {None}]
  /\ owned \subseteq NewPages
  /\ wait \in [Waiters -> {"idle", "waiting", "asking", "answered", "rejected"}]
  /\ scopeOf \in [Waiters -> Scopes \cup {None}]
  /\ told \in [Pages \cup Contexts -> 0..2]
  /\ missed \subseteq Waiters

\* Contexts with pages are there; the others come.
Init ==
  /\ browser = "open"
  /\ contexts = {ContextOf[p] : p \in Pages}
  /\ leavers = {}
  /\ ctx = [c \in Contexts |-> IF c \in contexts THEN "open" ELSE "none"]
  /\ ended = [p \in Pages |-> "open"]
  /\ video = [p \in Pages |-> IF p \in Recorded THEN "on" ELSE "none"]
  /\ call = [k \in Calls |-> "idle"]
  /\ pageOf = [k \in Calls |-> IF k \in Pages THEN k ELSE None]
  /\ joined = [k \in Calls |-> None]
  /\ closePromise = [p \in Pages |-> None]
  /\ owned = {}
  /\ wait = [w \in Waiters |-> "idle"]
  /\ scopeOf = [w \in Waiters |-> None]
  /\ told = [s \in Pages \cup Contexts |-> 0]
  /\ missed = {}

-----------------------------------------------------------------------------
(* The end of a page.                                                      *)

\* The close event of a page or a context rejects those who wait there, a
\* predicate that is being asked notwithstanding.
Reject(ss) ==
  wait' = [w \in Waiters |->
             IF scopeOf[w] \in ss /\ wait[w] \in {"waiting", "asking"} THEN "rejected"
             ELSE wait[w]]

Tell(ss) == told' = [s \in DOMAIN told |-> IF s \in ss THEN told[s] + 1 ELSE told[s]]

\* handleAdapterClosed(), for those that are open.  A recording nobody has
\* stopped yet is rejected, then stopped.
PagesEnd(ps, why, recordings) ==
  LET fresh == ps \cap Open
  IN  /\ ended' = [p \in Pages |-> IF p \in fresh THEN why ELSE ended[p]]
      /\ video' = [p \in Pages |-> IF p \in fresh /\ recordings[p] = "on" THEN "lost"
                                   ELSE recordings[p]]
      /\ Tell(fresh)
      /\ Reject(fresh)

TabGoes(p) ==
  /\ browser # "closed"
  /\ p \in Open
  /\ PagesEnd({p}, "tab", video)
  /\ UNCHANGED <<browserVars, ctx, callVars, scopeOf, missed>>

-----------------------------------------------------------------------------
(* page.close().                                                           *)

\* What a call for an open page does before it first waits, when the context
\* does not close for it.
FirstStage(p) ==
  IF closePromise[p] # None THEN "joined" ELSE IF p \in owned THEN "late" ELSE "dialogs"

\* The pages a context closes, and with them the calls it makes.
ToClose(c) == PagesOf(c) \cap Open

\* Mutant of CallsOfContext: the closePromise of the owner is made first.
PromiseFirst(c, own, k) ==
  LET ps == ToClose(c)
      promise == IF own = None THEN closePromise ELSE [closePromise EXCEPT ![own] = k]
  IN  /\ call' = [i \in Calls |->
                    IF i \in ps THEN (IF promise[i] # None THEN "joined" ELSE FirstStage(i))
                    ELSE IF i = k THEN "owner" ELSE call[i]]
      /\ joined' = [i \in Calls |-> IF i \in ps THEN promise[i] ELSE joined[i]]
      /\ closePromise' = [p \in Pages |-> IF p \in ps /\ promise[p] = None THEN p
                                          ELSE promise[p]]
      /\ ctx' = [ctx EXCEPT ![c] = "pages"]

\* The call k of the owner makes its closePromise after the context has made
\* another, by its own call of close().
CallsOfContext(c, own, k) ==
  LET ps == ToClose(c)
  IN  /\ call' = [i \in Calls |-> IF i \in ps THEN FirstStage(i)
                                  ELSE IF i = k THEN "owner" ELSE call[i]]
      /\ joined' = [i \in Calls |-> IF i \in ps THEN closePromise[i] ELSE joined[i]]
      /\ closePromise' = [p \in Pages |->
                            IF p = own THEN k
                            ELSE IF p \in ps /\ closePromise[p] = None THEN p
                            ELSE closePromise[p]]
      /\ ctx' = [ctx EXCEPT ![c] = "pages"]

\* browser.newPage() goes on, once context.newPage() has returned the page;
\* the listeners to the context have had it by then.
SetOwnedContext(p) ==
  /\ owned' = owned \cup {p}
  /\ UNCHANGED <<browserVars, ctx, ended, video, call, pageOf, joined, closePromise, wait,
                 scopeOf, told, missed>>

PageClose(k, p) ==
  LET c == ContextOf[p]
  IN  /\ call[k] = "idle"
      /\ pageOf' = [pageOf EXCEPT ![k] = p]
      /\ p \in Open \/ closePromise[p] # None
      /\ \/ /\ closePromise[p] = None /\ p \in owned /\ ctx[c] = "open"
            /\ CallsOfContext(c, p, k)
         \/ /\ closePromise[p] # None \/ p \notin owned \/ ctx[c] # "open"
            /\ call' = [call EXCEPT ![k] = FirstStage(p)]
            /\ joined' = [joined EXCEPT ![k] = closePromise[p]]
            /\ closePromise' = [closePromise EXCEPT ![p] = IF @ = None THEN k ELSE @]
            /\ UNCHANGED ctx
      /\ UNCHANGED <<browserVars, ended, video, owned, wait, scopeOf, told, missed>>

\* A call that made a closePromise takes it away, whosever it is by now.
EndCall(k, result) ==
  /\ call' = [call EXCEPT ![k] = result]
  /\ closePromise' = IF call[k] = "joined" THEN closePromise
                     ELSE [closePromise EXCEPT ![pageOf[k]] = None]
  /\ UNCHANGED <<pageOf, joined>>

JoinedEnds(k) ==
  /\ call[k] = "joined"
  /\ call[joined[k]] \in {"done", "failed"}
  /\ EndCall(k, call[joined[k]])
  /\ UNCHANGED <<browserVars, ctx, ended, video, owned, wait, scopeOf, told, missed>>

\* The close() of the context has returned, or thrown, which is ignored; for
\* another than the first it returns at once.
OwnerEnds(k) ==
  /\ \/ call[k] = "owner" /\ ctx[ContextOf[pageOf[k]]] \in {"closed", "failed"}
     \/ call[k] = "late"
  /\ EndCall(k, "done")
  /\ UNCHANGED <<browserVars, ctx, ended, video, owned, wait, scopeOf, told, missed>>

CloseAdapter(k, recordings) ==
  /\ call' = [call EXCEPT ![k] = "adapter"]
  /\ PagesEnd({pageOf[k]}, "close", recordings)
  /\ UNCHANGED <<pageOf, joined, closePromise>>

\* Mutant of DialogsDismissed: the recording is left to the end of the page.
StopsLater(k) ==
  /\ call[k] = "dialogs"
  /\ CloseAdapter(k, video)
  /\ UNCHANGED <<browserVars, ctx, owned, scopeOf, missed>>

\* finalizeVideoRecording() comes before the adapter is closed.
DialogsDismissed(k) ==
  LET p == pageOf[k]
  IN  /\ call[k] = "dialogs"
      /\ \/ /\ video[p] = "on"
            /\ video' = [video EXCEPT ![p] = "stopping"]
            /\ call' = [call EXCEPT ![k] = "video"]
            /\ UNCHANGED <<ended, wait, told, pageOf, joined, closePromise>>
         \/ /\ video[p] # "on"
            /\ CloseAdapter(k, video)
      /\ UNCHANGED <<browserVars, ctx, owned, scopeOf, missed>>

\* A recording that cannot be stopped ends the call: the page stays open.
VideoStops(k) ==
  LET p == pageOf[k]
  IN  /\ call[k] = "video"
      /\ \/ CloseAdapter(k, [video EXCEPT ![p] = "saved"])
         \/ /\ video' = [video EXCEPT ![p] = "failed"]
            /\ EndCall(k, "failed")
            /\ UNCHANGED <<ended, wait, told>>
      /\ UNCHANGED <<browserVars, ctx, owned, scopeOf, missed>>

AdapterClosed(k) ==
  /\ call[k] = "adapter"
  /\ EndCall(k, "done")
  /\ UNCHANGED <<browserVars, ctx, ended, video, owned, wait, scopeOf, told, missed>>

-----------------------------------------------------------------------------
(* RoxyBrowserContext.close() and _didDisconnect().                        *)

ContextClose(c) ==
  /\ ctx[c] = "open"
  /\ CallsOfContext(c, None, None)
  /\ UNCHANGED <<browserVars, ended, video, pageOf, owned, wait, told, scopeOf, missed>>

\* Promise.all: every call has returned, or one has thrown.
PagesClosed(c) ==
  LET calls == {p \in PagesOf(c) : call[p] # "idle"}
  IN  /\ ctx[c] = "pages"
      /\ (\A p \in calls : call[p] = "done") \/ (\E p \in calls : call[p] = "failed")
      /\ ctx' = [ctx EXCEPT ![c] = "hars"]
      /\ UNCHANGED <<browserVars, ended, video, callVars, wait, told, scopeOf, missed>>

\* exportAllHars() and the dispose() of the API requests, which exports too.
HarsExported(c) ==
  /\ ctx[c] = "hars"
  /\ \/ ctx' = [ctx EXCEPT ![c] = "adapter"]
     \/ c \in HarContexts /\ ctx' = [ctx EXCEPT ![c] = "failed"]
  /\ UNCHANGED <<browserVars, ended, video, callVars, wait, told, scopeOf, missed>>

\* CdpBrowserContextAdapter.close() closes the pages there still are.
AdapterEmpties(c) ==
  /\ ctx[c] = "adapter"
  /\ ctx' = [ctx EXCEPT ![c] = "emptied"]
  /\ PagesEnd(PagesOf(c), "context", video)
  /\ UNCHANGED <<browserVars, callVars, scopeOf, missed>>

\* The close event, which the browser listens to.
EmitClose(c) ==
  /\ ctx' = [ctx EXCEPT ![c] = "closed"]
  /\ contexts' = contexts \ {c}
  /\ Tell({c})
  /\ Reject({c})
  /\ UNCHANGED <<browser, leavers, ended, video, callVars, scopeOf, missed>>

\* Mutant of ContextClosed: the event does not wait for the adapter.
ClosedEarly(c) == ctx[c] \in {"adapter", "emptied"} /\ EmitClose(c)

ContextClosed(c) == ctx[c] = "emptied" /\ EmitClose(c)

\* _didDisconnect() of the pages, one after another.
PageLeaves(c) ==
  /\ ctx[c] = "leaving"
  /\ \/ /\ ToClose(c) = {}
        /\ ctx' = [ctx EXCEPT ![c] = "left"]
        /\ UNCHANGED <<ended, video, wait, told>>
     \/ \E p \in ToClose(c) : PagesEnd({p}, "disconnect", video) /\ UNCHANGED ctx
  /\ UNCHANGED <<browserVars, callVars, scopeOf, missed>>

\* dispose() of the API requests, and the close event.
ContextLeft(c) ==
  /\ ctx[c] = "left"
  /\ \/ EmitClose(c)
     \/ /\ c \in HarContexts
        /\ ctx' = [ctx EXCEPT ![c] = "failed"]
        /\ UNCHANGED <<browserVars, ended, video, callVars, wait, told, scopeOf, missed>>

-----------------------------------------------------------------------------
(* RoxyBrowser.                                                            *)

\* newContext() does not ask whether the browser is connected.
NewContext(c) ==
  /\ ctx[c] = "none"
  /\ ctx' = [ctx EXCEPT ![c] = "creating"]
  /\ UNCHANGED <<browserVars, ended, video, callVars, wait, told, scopeOf, missed>>

ContextCreated(c) ==
  /\ ctx[c] = "creating"
  /\ \/ /\ browser # "closed"
        /\ ctx' = [ctx EXCEPT ![c] = "open"]
        /\ contexts' = contexts \cup {c}
     \/ /\ browser = "closed"
        /\ ctx' = [ctx EXCEPT ![c] = "refused"]
        /\ UNCHANGED contexts
  /\ UNCHANGED <<browser, leavers, ended, video, callVars, wait, told, scopeOf, missed>>

BrowserClose ==
  /\ browser = "open"
  /\ browser' = "session"
  /\ UNCHANGED <<contexts, leavers, ctx, ended, video, callVars, wait, told, scopeOf, missed>>

\* Those whose _didDisconnect() does not return at once.
Disconnected(c) == c \in contexts /\ ctx[c] = "open"

\* The session is closed, fails to, or has had five seconds.
SessionEnds ==
  /\ browser = "session"
  /\ browser' = "contexts"
  /\ leavers' = {c \in Contexts : Disconnected(c)}
  /\ ctx' = [c \in Contexts |-> IF c \in leavers' THEN "leaving" ELSE ctx[c]]
  /\ UNCHANGED <<contexts, ended, video, callVars, wait, told, scopeOf, missed>>

\* One that fails leaves the connection as it is.
ContextsLeft ==
  /\ browser = "contexts"
  /\ \/ /\ \A c \in leavers : ctx[c] = "closed"
        /\ browser' = "adapter"
        /\ contexts' = {}
     \/ /\ \E c \in leavers : ctx[c] = "failed"
        /\ browser' = "failed"
        /\ UNCHANGED contexts
  /\ UNCHANGED <<leavers, ctx, ended, video, callVars, wait, told, scopeOf, missed>>

\* adapter.close(), and the disconnected event.
BrowserClosed ==
  /\ browser = "adapter"
  /\ browser' = "closed"
  /\ UNCHANGED <<contexts, leavers, ctx, ended, video, callVars, wait, told, scopeOf, missed>>

-----------------------------------------------------------------------------
(* waitForEvent() of pages and contexts.                                   *)

\* Mutant of WaitForEvent: nobody looks.
WaitAnyway(w, s) ==
  /\ wait[w] = "idle"
  /\ s \in Contexts => ctx[s] \notin {"none", "creating", "refused"}
  /\ wait' = [wait EXCEPT ![w] = "waiting"]
  /\ scopeOf' = [scopeOf EXCEPT ![w] = s]
  /\ missed' = IF s \in Contexts /\ told[s] > 0 THEN missed \cup {w} ELSE missed
  /\ UNCHANGED <<browserVars, ctx, ended, video, callVars, told>>

\* A page that is closed says so; a context does not look.
WaitForEvent(w, s) ==
  /\ wait[w] = "idle"
  /\ s \in Contexts => ctx[s] \notin {"none", "creating", "refused"}
  /\ wait' = [wait EXCEPT ![w] = IF s \in Pages \ Open THEN "rejected" ELSE "waiting"]
  /\ scopeOf' = [scopeOf EXCEPT ![w] = s]
  /\ missed' = IF s \in Contexts /\ told[s] > 0 THEN missed \cup {w} ELSE missed
  /\ UNCHANGED <<browserVars, ctx, ended, video, callVars, told>>

\* An event comes, and its predicate is asked.
EventComes(w) ==
  LET s == scopeOf[w]
  IN  /\ wait[w] = "waiting"
      /\ IF s \in Pages THEN s \in Open ELSE told[s] = 0
      /\ wait' = [wait EXCEPT ![w] = "asking"]
      /\ UNCHANGED <<browserVars, ctx, ended, video, callVars, told, scopeOf, missed>>

\* The predicate answers; or it throws, the waiter times out or is aborted.
WaitGoesOn(w) ==
  /\ \/ wait[w] = "asking" /\ \E a \in {"waiting", "answered"} : wait' = [wait EXCEPT ![w] = a]
     \/ wait[w] \in {"waiting", "asking"} /\ wait' = [wait EXCEPT ![w] = "rejected"]
  /\ UNCHANGED <<browserVars, ctx, ended, video, callVars, told, scopeOf, missed>>

-----------------------------------------------------------------------------
CallStep(k) ==
  JoinedEnds(k) \/ OwnerEnds(k) \/ DialogsDismissed(k) \/ VideoStops(k) \/ AdapterClosed(k)

ContextStep(c) ==
  \/ PagesClosed(c) \/ HarsExported(c) \/ AdapterEmpties(c) \/ ContextClosed(c)
  \/ PageLeaves(c) \/ ContextLeft(c) \/ ContextCreated(c)

BrowserStep == SessionEnds \/ ContextsLeft \/ BrowserClosed

Next ==
  \/ \E k \in Calls : CallStep(k)
  \/ \E c \in Contexts : ContextStep(c) \/ ContextClose(c) \/ NewContext(c)
  \/ BrowserStep \/ BrowserClose
  \/ \E k \in Users, p \in Pages : PageClose(k, p)
  \/ \E p \in Pages : TabGoes(p)
  \/ \E p \in NewPages \ owned : SetOwnedContext(p)
  \/ \E w \in Waiters :
       EventComes(w) \/ WaitGoesOn(w) \/ \E s \in Scopes : WaitForEvent(w, s)

Spec == Init /\ [][Next]_vars

\* What is begun goes on: the browser answers, dialogs are dismissed,
\* recordings stop, HARs are written.  Nobody need call, answer or time out.
Fairness ==
  /\ \A k \in Calls : WF_vars(CallStep(k))
  /\ \A c \in Contexts : WF_vars(ContextStep(c))
  /\ WF_vars(BrowserStep)

FairSpec == Spec /\ Fairness

-----------------------------------------------------------------------------
(* Properties.                                                             *)

\* The close event of a context is sent once and last: by then each page of
\* it has sent its own, once; and disconnected comes after all of those of
\* the contexts it was about.
CloseInOrder ==
  /\ \A s \in DOMAIN told : told[s] <= 1
  /\ \A p \in Pages : told[ContextOf[p]] = 1 => told[p] = 1
  /\ browser = "closed" => \A c \in leavers : told[c] = 1

\* Every close() returns or throws, though pages and contexts close each
\* other, also while the browser disconnects.
ClosesReturn ==
  /\ \A k \in Calls : call[k] # "idle" ~> call[k] \in {"done", "failed"}
  /\ \A c \in Contexts :
       ctx[c] \in {"pages", "leaving"} ~> ctx[c] \in {"closed", "failed"}
  /\ browser = "session" ~> browser \in {"closed", "failed"}

\* A recording is given up only when its tab goes, the browser disconnects,
\* the recording of another page of the context cannot be stopped, or a page
\* owns its context: nobody closes that page but the context's adapter.
VideoKept ==
  \A p \in Pages :
    video[p] = "lost" =>
      \/ p \in owned
      \/ ended[p] \in {"tab", "disconnect"}
      \/ \E q \in PagesOf(ContextOf[p]) : video[q] = "failed"

\* Who waits at a page or a context that is closed, or whose browser is, does
\* not wait for ever, but for four cases: the page could not be closed; a HAR
\* could not be written; who came after the close event of the context; and
\* the context came when those there were had been told.
Ending(s) ==
  \/ browser # "open"
  \/ s \in Pages /\ (s \notin Open \/ \E k \in Calls : pageOf[k] = s /\ call[k] # "idle")
  \/ ctx[IF s \in Pages THEN ContextOf[s] ELSE s] # "open"

Excused(w) ==
  LET s == scopeOf[w]
  IN  \/ s \in Open /\ \E k \in Calls : pageOf[k] = s /\ call[k] = "failed"
      \/ ctx[IF s \in Pages THEN ContextOf[s] ELSE s] = "failed"
      \/ w \in missed
      \/ s \in Contexts /\ ctx[s] = "open" /\ browser \notin {"open", "session"}

WaitsEnd ==
  \A w \in Waiters :
    wait[w] = "waiting" /\ Ending(scopeOf[w]) ~> (wait[w] # "waiting" \/ Excused(w))
=============================================================================
