---------------------------- MODULE ContextPages ----------------------------
(***************************************************************************)
(* The pages of a browser context: RoxyBrowserContext of                   *)
(* src/src/browserContext.ts over the adapters of CdpTargets.  An adapter  *)
(* is emitted to the context, which registers a page for it and announces  *)
(* the page, with its opener when it is a popup; newPage() registers and   *)
(* announces its page itself.                                              *)
(*                                                                         *)
(* A page goes by the name of its adapter.  The browser says a tab can     *)
(* reach its opener just when it has one.  Pages are closed by             *)
(* page.close(), context.close() and the browser's events; the connection  *)
(* does not break and runBeforeUnload is not used.                         *)
(***************************************************************************)
EXTENDS CdpTargets

VARIABLES
  ready,      \* targetDiscoveryReady is resolved
  ctx,        \* how far RoxyBrowserContext.close() is
  pageSet,    \* its pages(), and the keys of pageByAdapter
  settingUp,  \* createPage calls under way
  emitted,    \* emittedPages
  opener,     \* the opener attachDiscoveredPage found
  toClose,    \* pages whose close() is awaited by a close()
  announced   \* history: how often the page event was sent

apiVars == <<ready, ctx, pageSet, settingUp, emitted, opener, toClose, announced>>
vars == <<targetVars, apiVars>>

ContextTypeOK ==
  /\ TargetsTypeOK
  /\ ready \in BOOLEAN
  /\ ctx \in {"open", "pages", "adapter"}
  /\ pageSet \subseteq Adapters
  /\ settingUp \subseteq Adapters
  /\ emitted \subseteq Adapters
  /\ opener \in [Adapters -> Adapters \cup {NoAdapter}]
  /\ toClose \subseteq Adapters
  /\ announced \in [Adapters -> 0..2]

Init ==
  /\ TargetsInit
  /\ ready = FALSE
  /\ ctx = "open"
  /\ pageSet = {} /\ settingUp = {} /\ emitted = {}
  /\ opener = [a \in Adapters |-> NoAdapter]
  /\ toClose = {}
  /\ announced = [a \in Adapters |-> 0]

-----------------------------------------------------------------------------
\* The first poll is over; newContext() and newPage() wait for this.
DiscoveryEnds ==
  /\ ~ready
  /\ polls > 0
  /\ \A i \in 1..Len(events) : events[i].kind # "targets"
  /\ \A a \in Adapters : stage[a] \in {"unused", "settled", "failed"}
  /\ ready' = TRUE
  /\ UNCHANGED <<targetVars, ctx, pageSet, settingUp, emitted, opener, toClose, announced>>

\* The close event of an adapter takes its page out of the set.
Detach == pageSet' = pageSet \ (closed' \ closed)

EventHandled ==
  /\ HandleEvent
  /\ Detach
  /\ UNCHANGED <<ready, ctx, settingUp, emitted, opener, toClose, announced>>

\* registerPage: a page there is stays, another is created and set up.
Register(a) ==
  /\ pageSet' = pageSet \cup {a}
  /\ settingUp' = IF a \in pageSet THEN settingUp ELSE settingUp \cup {a}
  /\ emitted' = IF a \in pageSet THEN emitted ELSE emitted \ {a}

\* emitPageEventOnce.
Announce(a) ==
  /\ emitted' = emitted \cup {a}
  /\ announced' = IF a \in emitted THEN announced ELSE [announced EXCEPT ![a] = @ + 1]

\* Mutant of OpenerDecided: it looks until there is a page.
OpenerFound(a) == OpenerOf[a[1]] # NoTarget => pages[OpenerOf[a[1]]] # NoAdapter

\* resolveKnownPage has looked for 100 ms, and waited for a pending page.
OpenerDecided(a) ==
  LET o == OpenerOf[a[1]]
  IN  o # NoTarget => (pages[o] # NoAdapter \/ pending[o] = NoAdapter)

\* emitPage.
Emit(a) ==
  LET o == OpenerOf[a[1]]
      page == IF o = NoTarget THEN NoAdapter ELSE pages[o]
  IN  /\ stage[a] = "emitting"
      /\ OpenerDecided(a)
      /\ \/ /\ ctx = "open"
            /\ Register(a)
            /\ Goto(a, "announcing")
            /\ opener' = [opener EXCEPT ![a] = page]
            /\ UNCHANGED <<pending, creatingIds>>
         \/ /\ ctx # "open"
            /\ Settle(a)
            /\ UNCHANGED <<opener, pageSet, settingUp, emitted>>
      /\ UNCHANGED <<browserVars, emits, closed, closingPages, pages, initializing,
                     manualPending, manualIds, call, callTab, callPage, closeVars, historyVars,
                     ready, ctx, toClose, announced>>

\* createPage returns.
SetUpEnds(a) ==
  /\ a \in settingUp
  /\ settingUp' = settingUp \ {a}
  /\ UNCHANGED <<targetVars, ready, ctx, pageSet, emitted, opener, toClose, announced>>

\* createPage throws, as a script of the context does: all that wait fail.
WaitsFor(a, b) ==
  \/ a = b /\ stage[a] = "announcing"
  \/ opener[a] = b /\ stage[a] = "introducing"

SetUpFails(b) ==
  /\ b \in settingUp
  /\ b \notin closed
  /\ settingUp' = settingUp \ {b}
  /\ pageSet' = pageSet \ {b}
  /\ stage' = [a \in Adapters |-> IF WaitsFor(a, b) THEN "failed" ELSE stage[a]]
  /\ pending' = [t \in Targets |->
                   IF pending[t] # NoAdapter /\ WaitsFor(pending[t], b) THEN NoAdapter
                   ELSE pending[t]]
  /\ call' = [c \in Calls |->
                IF call[c] = "registering" /\ callPage[c] = b THEN "failed" ELSE call[c]]
  /\ UNCHANGED <<browserVars, emits, closed, closingPages, pages, initializing, manualPending,
                 creatingIds, manualIds, callTab, callPage, closeVars, historyVars, ready, ctx,
                 emitted, opener, toClose, announced>>

\* The opener of attachDiscoveredPage: the adapter's, one looked up by the
\* opener's target, or the only other page there is.
OpenerPages(a) ==
  LET o == OpenerOf[a[1]]
      ofTab == {b \in pageSet : b[1] = o}
      others == pageSet \ {a}
  IN  IF opener[a] # NoAdapter THEN {opener[a]}
      ELSE IF o = NoTarget THEN {}
      ELSE IF ofTab # {} THEN ofTab
      ELSE IF Cardinality(others) = 1 THEN others ELSE {}

AnnouncePage(a) ==
  /\ stage[a] = "announcing"
  /\ a \notin settingUp
  /\ \/ /\ OpenerPages(a) = {}
        /\ Announce(a)
        /\ Settle(a)
        /\ UNCHANGED <<pageSet, settingUp, opener>>
     \/ \E b \in OpenerPages(a) :
          /\ Register(b)
          /\ opener' = [opener EXCEPT ![a] = b]
          /\ Goto(a, "introducing")
          /\ UNCHANGED <<pending, creatingIds, announced>>
  /\ UNCHANGED <<browserVars, emits, closed, closingPages, pages, initializing, manualPending,
                 manualIds, call, callTab, callPage, closeVars, historyVars, ready, ctx,
                 toClose>>

\* The page event, then the popup event on the opener.
IntroducePopup(a) ==
  /\ stage[a] = "introducing"
  /\ opener[a] \notin settingUp
  /\ Announce(a)
  /\ Settle(a)
  /\ UNCHANGED <<browserVars, emits, closed, closingPages, pages, initializing, manualPending,
                 manualIds, call, callTab, callPage, closeVars, historyVars, ready, ctx,
                 pageSet, settingUp, opener, toClose>>

-----------------------------------------------------------------------------
(* newPage() of the context, once the adapter's promise is settled.        *)

NewPageRegisters(c) ==
  LET a == callPage[c]
  IN  /\ call[c] = "awaiting"
      /\ \/ /\ stage[a] = "settled"
            /\ Register(a)
            /\ call' = [call EXCEPT ![c] = "registering"]
         \/ /\ stage[a] = "failed"
            /\ call' = [call EXCEPT ![c] = "failed"]
            /\ UNCHANGED <<pageSet, settingUp, emitted>>
      /\ UNCHANGED <<browserVars, pageVars, manualPending, creatingIds, manualIds, callTab,
                     callPage, closeVars, historyVars, ready, ctx, opener, toClose, announced>>

NewPageReturns(c) ==
  /\ call[c] = "registering"
  /\ callPage[c] \notin settingUp
  /\ Announce(callPage[c])
  /\ call' = [call EXCEPT ![c] = "done"]
  /\ UNCHANGED <<browserVars, pageVars, manualPending, creatingIds, manualIds, callTab,
                 callPage, closeVars, historyVars, ready, ctx, pageSet, settingUp, opener,
                 toClose>>

-----------------------------------------------------------------------------
(* Closing.                                                                *)

\* CdpPageAdapter.close() of several pages, up to the closeTarget it sends.
StartClosing(as) ==
  /\ closed' = closed \cup as
  /\ closingPages' = closingPages \cup as
  /\ closedHere' = closedHere \cup {a[1] : a \in as}

PageClose(a) ==
  /\ a \in pageSet \ closed
  /\ StartClosing({a})
  /\ Detach
  /\ UNCHANGED <<browserVars, stage, emits, pages, pending, initializing, manualVars,
                 closeVars, mistaken, missed, ready, ctx, settingUp, emitted, opener, toClose,
                 announced>>

\* The reply to closeTarget; the tab may be there a little longer.
PageCloseEnds(a) ==
  /\ a \in closingPages
  /\ closingPages' = closingPages \ {a}
  /\ tab' = IF tab[a[1]] = "open" THEN [tab EXCEPT ![a[1]] = "closing"] ELSE tab
  /\ OnClosed(a[1])
  /\ UNCHANGED <<events, polls, stage, emits, closed, manualPending, call, callTab, callPage,
                 closeVars, historyVars, apiVars>>

\* RoxyBrowserContext.close(): the pages of the set first.
ContextClose ==
  /\ ready
  /\ ctx = "open"
  /\ ctx' = "pages"
  /\ toClose' = pageSet \ closed
  /\ StartClosing(pageSet \ closed)
  /\ Detach
  /\ UNCHANGED <<browserVars, stage, emits, pages, pending, initializing, manualVars,
                 closeVars, mistaken, missed, ready, settingUp, emitted, opener, announced>>

\* CdpBrowserContextAdapter.close(): the pages it still knows.
AdapterClose ==
  /\ ctx = "pages"
  /\ toClose \cap closingPages = {}
  /\ ctx' = "adapter"
  /\ closing' = "pages"
  /\ awaited' = {pending[t] : t \in Targets} \ {NoAdapter}
  /\ toClose' = ({pages[t] : t \in Targets} \ {NoAdapter}) \ closed
  /\ StartClosing(toClose')
  /\ Detach
  /\ UNCHANGED <<browserVars, stage, emits, pages, pending, initializing, manualVars, mistaken,
                 missed, ready, settingUp, emitted, opener, announced>>

\* disposeBrowserContext closes every tab of a context of its own.
ContextDisposed ==
  /\ closing = "pages"
  /\ toClose \cap closingPages = {}
  /\ closing' = "pending"
  /\ pages' = [t \in Targets |-> NoAdapter]
  /\ tab' = IF Isolated THEN [t \in Targets |-> IF tab[t] = "open" THEN "closing" ELSE tab[t]]
            ELSE tab
  /\ UNCHANGED <<events, polls, stage, emits, closed, closingPages, pending, initializing,
                 manualVars, awaited, historyVars, apiVars>>

\* Mutant of Finished: pages that failed are waited for as well.
FinishedWell(a) == stage[a] = "settled"

Finished(a) == stage[a] \in {"settled", "failed"}

CloseReturns ==
  /\ closing = "pending"
  /\ \A a \in awaited : Finished(a)
  /\ closing' = "done"
  /\ pending' = [t \in Targets |-> NoAdapter]
  /\ initializing' = [t \in Targets |-> NoAdapter]
  /\ UNCHANGED <<browserVars, stage, emits, closed, closingPages, pages, manualVars, awaited,
                 historyVars, apiVars>>

-----------------------------------------------------------------------------
Promise(a) ==
  \/ (Created(a) \/ CreateFails(a) \/ Installed(a) \/ InstallFails(a)) /\ UNCHANGED apiVars
  \/ Emit(a) \/ AnnouncePage(a) \/ IntroducePopup(a)

CallStep(c) ==
  \/ NewPageLooks(c) /\ UNCHANGED apiVars
  \/ NewPageRegisters(c) \/ NewPageReturns(c)

Closing ==
  \/ \E a \in Adapters : PageCloseEnds(a)
  \/ AdapterClose \/ ContextDisposed \/ CloseReturns

Next ==
  \/ BrowserNext /\ (polls' > 1 => ready) /\ UNCHANGED apiVars
  \/ EventHandled
  \/ DiscoveryEnds
  \/ \E a \in Adapters : Promise(a) \/ SetUpEnds(a) \/ SetUpFails(a) \/ PageClose(a)
  \/ \E c \in Calls :
       \/ CallStep(c)
       \/ NewPage(c) /\ ready /\ UNCHANGED apiVars
  \/ ContextClose
  \/ Closing

Spec == Init /\ [][Next]_vars

\* Events are handled, promises go on, closeTarget is answered, and tabs that
\* are asked to go do.
FirstPoll == TabsListed /\ polls = 0 /\ UNCHANGED apiVars

ClosingTabGoes(t) == tab[t] = "closing" /\ TabGoes(t) /\ UNCHANGED apiVars

Fairness ==
  /\ WF_vars(EventHandled) /\ WF_vars(FirstPoll) /\ WF_vars(DiscoveryEnds)
  /\ \A a \in Adapters : WF_vars(Promise(a)) /\ WF_vars(SetUpEnds(a))
  /\ \A c \in Calls : WF_vars(CallStep(c))
  /\ \A t \in Targets : WF_vars(ClosingTabGoes(t))
  /\ WF_vars(Closing)

FairSpec == Spec /\ Fairness

-----------------------------------------------------------------------------
(* Properties.                                                             *)

\* The context sends one page event for a tab, however the discovery of the
\* tab, newPage() and its popups overlap.  A tab that page.close() was asked
\* to close may be found again by a poll before it goes, and is left out.
AnnouncedOnce ==
  \A t \in Targets \ closedHere :
    \A a, b \in Adapters :
      a[1] = t /\ b[1] = t /\ announced[a] > 0 /\ announced[b] > 0 =>
        a = b /\ announced[a] = 1

\* Once the browser has told that a tab is gone, the pages of it know that,
\* and pages() has none of it that is open, unless the event came while the
\* adapter was in neither map.
NoDeadPages ==
  \A a \in Adapters :
    /\ closing = "no" /\ tab[a[1]] = "gone" /\ ~InFlight(Event("gone", a[1]))
    /\ stage[a] = "settled" \/ a \in pageSet
    => a \in closed \cup missed

\* The page event of a tab that stays open is sent, popups of openers that
\* close or fail included, unless the context closes, newPage() took the tab
\* for its own, or the page's set-up throws.
TabsAnnounced ==
  \A t \in Targets :
    tab[t] = "open" ~>
      \/ \E a \in Adapters : a[1] = t /\ announced[a] > 0
      \/ tab[t] # "open" \/ ctx # "open"
      \/ t \in mistaken
      \/ \E a \in Adapters : pages[t] = a /\ stage[a] = "failed"
      \/ \E c \in Calls : callTab[c] = t /\ call[c] = "failed"

\* close() returns, also with pages being made, closed or lost at that time.
CloseEnds == ctx # "open" ~> closing = "done"
=============================================================================
