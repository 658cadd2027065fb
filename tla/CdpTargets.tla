----------------------------- MODULE CdpTargets -----------------------------
(***************************************************************************)
(* Tabs and their page adapters: CdpBrowserContextAdapter of               *)
(* src/src/protocol/cdp/backend.ts.  Tabs come from attachedToTarget       *)
(* events, from a poll with getTargets, and from newPage(); all of them    *)
(* ask getOrCreatePage for the adapter of a target.                        *)
(*                                                                         *)
(* An adapter is a pair of its target and a number, as a target may get a  *)
(* second one.  Browser events and replies come in order.  The reply to    *)
(* attachToTarget and the event it brings are one.  Initializing a page    *)
(* fails only when its tab is gone.  Other contexts, service workers and   *)
(* the popups made up by a timer are left out.                             *)
(***************************************************************************)
EXTENDS Naturals, Sequences, FiniteSets

CONSTANTS
  Targets,
  OpenerOf,     \* the tab that opened a tab, or NoTarget
  Calls,        \* calls of newPage
  Isolated,     \* a context of its own, not the default one
  Adapters,     \* bound: the adapters each target may get, numbered
  MaxPolls,     \* bound: polls
  NoTarget, NoAdapter

ASSUME TargetsAssumption ==
  /\ IsFiniteSet(Targets) /\ IsFiniteSet(Calls)
  /\ NoTarget \notin Targets
  /\ OpenerOf \in [Targets -> Targets \cup {NoTarget}]
  /\ Isolated \in BOOLEAN
  /\ Adapters \subseteq Targets \X Nat
  /\ NoAdapter \notin Adapters
  /\ MaxPolls \in Nat

VARIABLES
  tab,            \* the tabs of the browser
  events,         \* its events and replies on their way
  polls,          \* getTargets sent
  stage,          \* how far the promise in getOrCreatePage is
  emits,          \* options.emitPage
  closed,         \* CdpPageAdapter.closed
  closingPages,   \* adapters that wait for the reply to closeTarget
  pages, pending, initializing,
  manualPending,  \* pendingManualPageCreations
  creatingIds,    \* creatingPageTargetIds
  manualIds,      \* manuallyCreatedTargetIds
  call,           \* newPage calls
  callTab,        \* the target createTarget returned
  callPage,       \* the adapter whose promise newPage awaits
  closing,        \* how far close() is
  awaited,        \* pendingPages at the start of close()
  \* History: tabs taken for newPage's; adapters whose tab went while they
  \* were in no map; tabs closed with page.close().
  mistaken, missed, closedHere

browserVars == <<tab, events, polls>>
pageVars == <<stage, emits, closed, closingPages, pages, pending, initializing>>
manualVars == <<manualPending, creatingIds, manualIds, call, callTab, callPage>>
closeVars == <<closing, awaited>>
historyVars == <<mistaken, missed, closedHere>>
targetVars == <<browserVars, pageVars, manualVars, closeVars, historyVars>>

Stages == {"unused", "creating", "installing", "emitting", "announcing", "introducing",
           "settled", "failed"}
Events ==
  [kind: {"attached", "gone"}, tab: Targets] \cup
  [kind: {"created"}, call: Calls, tab: Targets] \cup
  [kind: {"refused"}, call: Calls] \cup [kind: {"targets"}, tabs: SUBSET Targets]

TargetsTypeOK ==
  /\ tab \in [Targets -> {"none", "open", "closing", "gone"}]
  /\ events \in Seq(Events)
  /\ polls \in 0..MaxPolls
  /\ stage \in [Adapters -> Stages]
  /\ emits \subseteq Adapters
  /\ closed \subseteq Adapters
  /\ closingPages \subseteq closed
  /\ pages \in [Targets -> Adapters \cup {NoAdapter}]
  /\ pending \in [Targets -> Adapters \cup {NoAdapter}]
  /\ initializing \in [Targets -> Adapters \cup {NoAdapter}]
  /\ manualPending \in 0..Cardinality(Calls)
  /\ creatingIds \subseteq Targets
  /\ manualIds \subseteq Targets
  /\ call \in [Calls -> {"idle", "asked", "looking", "awaiting", "registering",
                         "done", "failed"}]
  /\ callTab \in [Calls -> Targets \cup {NoTarget}]
  /\ callPage \in [Calls -> Adapters \cup {NoAdapter}]
  /\ closing \in {"no", "pages", "pending", "done"}
  /\ awaited \subseteq Adapters
  /\ mistaken \subseteq Targets
  /\ missed \subseteq Adapters
  /\ closedHere \subseteq Targets

\* Tabs without opener may be there from the start.
TargetsInit ==
  /\ tab \in [Targets -> {"none", "open"}]
  /\ \A t \in Targets : OpenerOf[t] # NoTarget => tab[t] = "none"
  /\ events = << >>
  /\ polls = 0
  /\ stage = [a \in Adapters |-> "unused"]
  /\ emits = {} /\ closed = {} /\ closingPages = {}
  /\ pages = [t \in Targets |-> NoAdapter]
  /\ pending = [t \in Targets |-> NoAdapter]
  /\ initializing = [t \in Targets |-> NoAdapter]
  /\ manualPending = 0
  /\ creatingIds = {} /\ manualIds = {}
  /\ call = [c \in Calls |-> "idle"]
  /\ callTab = [c \in Calls |-> NoTarget]
  /\ callPage = [c \in Calls |-> NoAdapter]
  /\ closing = "no"
  /\ awaited = {}
  /\ mistaken = {} /\ missed = {} /\ closedHere = {}

-----------------------------------------------------------------------------
(* The browser.                                                            *)

Event(kind, t) == [kind |-> kind, tab |-> t]
InFlight(e) == \E i \in 1..Len(events) : events[i] = e

Opens(t) ==
  /\ tab[t] = "none"
  /\ OpenerOf[t] # NoTarget => tab[OpenerOf[t]] = "open"
  /\ tab' = [tab EXCEPT ![t] = "open"]

TabOpens(t) ==
  /\ Opens(t)
  /\ events' = Append(events, Event("attached", t))
  /\ UNCHANGED <<polls, pageVars, manualVars, closeVars, historyVars>>

\* The tab is closed by its user, or what page.close() and close() asked for
\* gets done.
TabGoes(t) ==
  /\ tab[t] \in {"open", "closing"}
  /\ tab' = [tab EXCEPT ![t] = "gone"]
  /\ events' = Append(events, Event("gone", t))
  /\ UNCHANGED <<polls, pageVars, manualVars, closeVars, historyVars>>

\* createTarget: the tab's event comes before the reply.
TabCreated(c) ==
  /\ call[c] = "asked"
  /\ callTab[c] = NoTarget
  /\ ~InFlight([kind |-> "refused", call |-> c])
  /\ \/ \E t \in Targets :
          /\ OpenerOf[t] = NoTarget
          /\ Opens(t)
          /\ callTab' = [callTab EXCEPT ![c] = t]
          /\ events' = events \o <<Event("attached", t),
                                   [kind |-> "created", call |-> c, tab |-> t]>>
     \/ /\ events' = Append(events, [kind |-> "refused", call |-> c])
        /\ UNCHANGED <<tab, callTab>>
  /\ UNCHANGED <<polls, pageVars, manualPending, creatingIds, manualIds, call, callPage,
                 closeVars, historyVars>>

\* The poll timer, and the answer to getTargets.
Unused(t) == {a \in Adapters : a[1] = t /\ stage[a] = "unused"}

TabsListed ==
  /\ closing = "no"
  /\ polls < MaxPolls
  /\ polls' = polls + 1
  /\ LET found == {t \in Targets : tab[t] \in {"open", "closing"} /\ Unused(t) # {}}
     IN  events' = Append(events, [kind |-> "targets", tabs |-> found])
  /\ UNCHANGED <<tab, pageVars, manualVars, closeVars, historyVars>>

BrowserNext ==
  \/ \E t \in Targets : TabOpens(t) \/ TabGoes(t)
  \/ \E c \in Calls : TabCreated(c)
  \/ TabsListed

-----------------------------------------------------------------------------
(* Adapters.                                                               *)

Drop(map, a) == IF map[a[1]] = a THEN [map EXCEPT ![a[1]] = NoAdapter] ELSE map
Clear(map, t) == [map EXCEPT ![t] = NoAdapter]

\* getOrCreatePage for a target that has neither a page nor a pending one.
Create(t, emit) ==
  /\ \E a \in Unused(t) :
       /\ \A b \in Unused(t) : a[2] <= b[2]
       /\ stage' = [stage EXCEPT ![a] = "creating"]
       /\ emits' = IF emit THEN emits \cup {a} ELSE emits
       /\ pending' = [pending EXCEPT ![t] = a]
       /\ initializing' = [initializing EXCEPT ![t] = a]
  /\ UNCHANGED <<closed, closingPages, pages>>

\* Mutant of Known: only the map of adapters being made is looked at.
KnownPending(t) == pending[t] # NoAdapter

Known(t) == pages[t] # NoAdapter \/ pending[t] # NoAdapter

\* A tab without opener, at about:blank, is newPage's if it waits for one.
TakenForManual(t, blank) == manualPending > 0 /\ OpenerOf[t] = NoTarget /\ blank

\* handleTargetAttached.  Tabs made by newPage are blank, others may be.
HandleAttached(t) ==
  \/ (closing # "no" \/ Known(t)) /\ UNCHANGED <<pageVars, manualVars, mistaken>>
  \/ /\ closing = "no" /\ ~Known(t)
     /\ \E blank \in BOOLEAN :
          /\ (\E c \in Calls : callTab[c] = t) => blank
          /\ LET manual == TakenForManual(t, blank)
             IN  /\ manualPending' = IF manual THEN manualPending - 1 ELSE manualPending
                 /\ creatingIds' = IF manual THEN creatingIds \cup {t} ELSE creatingIds
                 /\ manualIds' = IF manual THEN manualIds \cup {t} ELSE manualIds
                 /\ mistaken' = IF manual /\ \A c \in Calls : callTab[c] # t
                                THEN mistaken \cup {t} ELSE mistaken
                 /\ Create(t, t \notin manualIds')
     /\ UNCHANGED <<call, callTab, callPage>>

\* onClosed: all that is known of the target goes.
OnClosed(t) ==
  /\ pages' = Clear(pages, t)
  /\ pending' = Clear(pending, t)
  /\ initializing' = Clear(initializing, t)
  /\ manualIds' = manualIds \ {t}
  /\ creatingIds' = creatingIds \ {t}

\* Mutant of PageOf: only pages being initialized are looked for.
PageOfNew(t) == initializing[t]

PageOf(t) == IF pages[t] # NoAdapter THEN pages[t] ELSE initializing[t]

\* handleTargetDetached and didClose.
HandleGone(t) ==
  LET a == PageOf(t)
  IN  /\ \/ /\ a = NoAdapter \/ a \in closed
            /\ UNCHANGED <<closed, pages, pending, initializing, manualIds, creatingIds>>
         \/ /\ a # NoAdapter /\ a \notin closed
            /\ closed' = closed \cup {a}
            /\ OnClosed(t)
      /\ missed' = missed \cup {b \in Adapters : b[1] = t /\ b # a /\ stage[b] = "installing"}
      /\ UNCHANGED <<stage, emits, closingPages, manualPending, call, callTab, callPage>>

\* The reply to createTarget in newPage.
HandleCreated(c, t) ==
  /\ manualPending' = IF t \notin creatingIds /\ manualPending > 0
                      THEN manualPending - 1 ELSE manualPending
  /\ creatingIds' = creatingIds \cup {t}
  /\ manualIds' = manualIds \cup {t}
  /\ call' = [call EXCEPT ![c] = "looking"]
  /\ UNCHANGED <<callTab, callPage>>

HandleRefused(c) ==
  /\ manualPending' = IF manualPending > 0 THEN manualPending - 1 ELSE 0
  /\ call' = [call EXCEPT ![c] = "failed"]
  /\ UNCHANGED <<creatingIds, manualIds, callTab, callPage>>

\* discoverTargets, for the tabs that are unknown when the answer comes.
HandleTargets(tabs) ==
  LET unattached == {t \in tabs : ~Known(t) /\ tab[t] \in {"open", "closing"}}
      order == CHOOSE s \in [1..Cardinality(unattached) -> unattached] :
                 \A t \in unattached : \E i \in DOMAIN s : s[i] = t
  IN  events' = Tail(events) \o [i \in DOMAIN order |-> Event("attached", order[i])]

\* The head of the events is handled.
HandleEvent ==
  LET e == Head(events)
  IN  /\ events # << >>
      /\ \/ /\ e.kind = "targets"
            /\ HandleTargets(e.tabs)
            /\ UNCHANGED <<pageVars, manualVars, mistaken, missed>>
         \/ /\ e.kind # "targets"
            /\ events' = Tail(events)
            /\ \/ e.kind = "attached" /\ HandleAttached(e.tab) /\ UNCHANGED missed
               \/ e.kind = "gone" /\ HandleGone(e.tab) /\ UNCHANGED mistaken
               \/ /\ e.kind = "created" /\ HandleCreated(e.call, e.tab)
                  /\ UNCHANGED <<pageVars, mistaken, missed>>
               \/ /\ e.kind = "refused" /\ HandleRefused(e.call)
                  /\ UNCHANGED <<pageVars, mistaken, missed>>
      /\ UNCHANGED <<tab, polls, closeVars, closedHere>>

-----------------------------------------------------------------------------
(* The promise in getOrCreatePage.                                         *)

Goto(a, s) == stage' = [stage EXCEPT ![a] = s]

\* A tab's replies come after the one to createTarget, until it is said to be
\* gone.
Answers(t) ==
  /\ tab[t] # "gone" \/ InFlight(Event("gone", t))
  /\ \A c \in Calls : ~InFlight([kind |-> "created", call |-> c, tab |-> t])

\* CdpPageAdapter.create() returns.
Created(a) ==
  /\ stage[a] = "creating"
  /\ a \notin closed
  /\ Answers(a[1])
  /\ Goto(a, "installing")
  /\ initializing' = Clear(initializing, a[1])
  /\ UNCHANGED <<browserVars, emits, closed, closingPages, pages, pending, manualVars,
                 closeVars, historyVars>>

Fails(a) ==
  /\ Goto(a, "failed")
  /\ pending' = Drop(pending, a)

\* It throws, as the tab is gone.  A popup is announced as a closed page.
CreateFails(a) ==
  /\ stage[a] = "creating"
  /\ a \in closed \/ tab[a[1]] = "gone"
  /\ \/ /\ a \in emits /\ OpenerOf[a[1]] # NoTarget
        /\ Goto(a, "installing")
        /\ closed' = closed \cup {a}
        /\ initializing' = Clear(initializing, a[1])
        /\ UNCHANGED pending
     \/ /\ ~(a \in emits /\ OpenerOf[a[1]] # NoTarget)
        /\ Fails(a)
        /\ UNCHANGED <<closed, initializing>>
  /\ UNCHANGED <<browserVars, emits, closingPages, pages, manualVars, closeVars, historyVars>>

\* Interceptor and init scripts that were added meanwhile are installed, and
\* the page is there.  Whether to emit it is looked up only now.
Installed(a) ==
  /\ stage[a] = "installing"
  /\ pages' = [pages EXCEPT ![a[1]] = a]
  /\ \/ /\ a \in emits /\ a[1] \notin creatingIds
        /\ Goto(a, "emitting")
        /\ UNCHANGED <<pending, creatingIds>>
     \/ /\ ~(a \in emits /\ a[1] \notin creatingIds)
        /\ Goto(a, "settled")
        /\ pending' = Drop(pending, a)
        /\ creatingIds' = creatingIds \ {a[1]}
  /\ UNCHANGED <<browserVars, emits, closed, closingPages, initializing, manualPending,
                 manualIds, call, callTab, callPage, closeVars, historyVars>>

InstallFails(a) ==
  /\ stage[a] = "installing"
  /\ tab[a[1]] = "gone"
  /\ a \notin closed
  /\ Fails(a)
  /\ UNCHANGED <<browserVars, emits, closed, closingPages, pages, initializing, manualVars,
                 closeVars, historyVars>>

\* The listeners have returned; the promise resolves.
Settle(a) ==
  /\ Goto(a, "settled")
  /\ pending' = Drop(pending, a)
  /\ creatingIds' = creatingIds \ {a[1]}

-----------------------------------------------------------------------------
(* newPage().                                                              *)

NewPage(c) ==
  /\ polls > 0
  /\ call[c] = "idle"
  /\ call' = [call EXCEPT ![c] = "asked"]
  /\ manualPending' = manualPending + 1
  /\ UNCHANGED <<browserVars, pageVars, creatingIds, manualIds, callTab, callPage, closeVars,
                 historyVars>>

\* A pending page first, then a finished one; after two seconds a new one.
NewPageLooks(c) ==
  LET t == callTab[c]
  IN  /\ call[c] = "looking"
      /\ \/ /\ Known(t)
            /\ callPage' = [callPage EXCEPT ![c] =
                              IF pending[t] # NoAdapter THEN pending[t] ELSE pages[t]]
            /\ UNCHANGED pageVars
         \/ /\ ~Known(t)
            /\ Create(t, FALSE)
            /\ callPage' = [callPage EXCEPT ![c] = pending'[t]]
      /\ call' = [call EXCEPT ![c] = "awaiting"]
      /\ UNCHANGED <<browserVars, manualPending, creatingIds, manualIds, callTab, closeVars,
                     historyVars>>
=============================================================================
