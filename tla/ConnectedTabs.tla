--------------------------- MODULE ConnectedTabs ---------------------------
(***************************************************************************)
(* The browser session behind the MCP tools: CdpBrowserSession of          *)
(* src/src/mcp/connectedBrowser.ts.  Tool calls, each of which may run     *)
(* beside others, ask for the client of the active tab, which the first    *)
(* of them connects and sets up; routes are applied to the clients there   *)
(* are; a click that opens a dialog returns without its mouse release.     *)
(*                                                                         *)
(* A client is <<tab, n>>: the n-th connection to the tab.  A message of   *)
(* a connection overtakes no other of it, so an event is handled in the    *)
(* step in which the browser sends it, unless it is named here.            *)
(***************************************************************************)
EXTENDS Naturals, Sequences

CONSTANTS
  Tabs,
  Clients,    \* bound: the connections that can be made, of Tabs \X Nat
  Routes,     \* routes a user can add
  Requests,   \* requests of the pages
  TabOf,      \* the tab each request is of
  Matches,    \* << route, request >>: the pattern matches the url
  Clicks,     \* mouse clicks
  MaxWire,    \* bound: Fetch commands on their way per client
  NoTab, NoClient

ASSUME TabsAssumption ==
  /\ Clients \subseteq Tabs \X Nat
  /\ TabOf \in [Requests -> Tabs]
  /\ Matches \subseteq Routes \X Requests
  /\ MaxWire \in Nat \ {0}
  /\ NoTab \notin Tabs
  /\ NoClient \notin Clients

VARIABLES
  open,         \* tabs of the browser
  closing,      \* how far closeTab is with each tab
  activeTab,    \* activeTabId
  stage,        \* how far getActivePageClient is with each client
  pageClients,  \* pageClients
  routesList,   \* routesList
  listener,     \* routeInterceptionListenerInstalledByTabId
  handled,      \* clients with a requestPaused listener
  wire,         \* Fetch commands sent on each client
  fetchOn,      \* clients for which the browser pauses requests
  pausedAt,     \* the clients at which a request is paused
  dialog,       \* the dialog of a tab, its event to come ("opened", "gone") or there
  dialogs,      \* keys of pageDialogStates
  click,        \* each click, with the tab it waits on and the one it is in
  late,         \* history: clients whose routes changed after they were applied
  blind         \* history: tabs whose dialog was dropped while they show it

tabVars == <<open, closing, activeTab>>
clientVars == <<stage, pageClients>>
routeVars == <<routesList, listener, handled, wire, fetchOn, pausedAt, late>>
dialogVars == <<dialog, dialogs, click, blind>>
connectedVars == <<tabVars, clientVars, routeVars, dialogVars>>

Stages == {"none", "connecting", "enabling", "routing", "kept", "failed", "closed"}

ConnectedTypeOK ==
  /\ open \subseteq Tabs
  /\ closing \in [Tabs -> {"no", "state", "tab"}]
  /\ activeTab \in Tabs \cup {NoTab}
  /\ stage \in [Clients -> Stages]
  /\ pageClients \in [Tabs -> Clients \cup {NoClient}]
  /\ routesList \subseteq Routes
  /\ listener \subseteq Tabs
  /\ handled \subseteq Clients
  /\ wire \in [Clients -> Seq({"enable", "disable"})]
  /\ fetchOn \subseteq Clients
  /\ pausedAt \in [Requests -> SUBSET Clients]
  /\ dialog \in [Tabs -> {"none", "opened", "told", "gone"}]
  /\ dialogs \subseteq Tabs
  /\ click \in [Clicks -> [at: {"idle", "located", "pressing", "holding", "releasing", "done"},
                           tab: Tabs \cup {NoTab}, on: Tabs \cup {NoTab}]]
  /\ late \subseteq Clients
  /\ blind \subseteq Tabs
  /\ \A t \in Tabs : pageClients[t] # NoClient =>
        pageClients[t][1] = t /\ stage[pageClients[t]] = "kept"

ConnectedInit ==
  /\ open \in SUBSET Tabs
  /\ closing = [t \in Tabs |-> "no"]
  /\ activeTab \in IF open = {} THEN {NoTab} ELSE open
  /\ stage = [c \in Clients |-> "none"]
  /\ pageClients = [t \in Tabs |-> NoClient]
  /\ routesList = {} /\ listener = {} /\ handled = {}
  /\ wire = [c \in Clients |-> << >>]
  /\ fetchOn = {}
  /\ pausedAt = [r \in Requests |-> {}]
  /\ dialog = [t \in Tabs |-> "none"]
  /\ dialogs = {}
  /\ click = [k \in Clicks |-> [at |-> "idle", tab |-> NoTab, on |-> NoTab]]
  /\ late = {} /\ blind = {}

\* Console, dialog and network listeners are on; the connection is open.
Listening(c) == stage[c] \in {"enabling", "routing", "kept", "failed"}

\* Several clients of one tab have got so far: set-ups overlapped, or one
\* failed.  What each of them does then is no longer what one would do.
Muddled(t) == \E c, d \in Clients :
  c # d /\ c[1] = t /\ d[1] = t /\ Listening(c) /\ Listening(d)

-----------------------------------------------------------------------------
(* Tabs.                                                                   *)

\* newTab; a user opens tabs too.  Ids are not used again.
NewTab(t) ==
  /\ t \notin open
  /\ closing[t] = "no" /\ activeTab # t
  /\ \A c \in Clients : c[1] = t => stage[c] = "none"
  /\ open' = open \cup {t}
  /\ activeTab' \in {activeTab, t}
  /\ UNCHANGED <<closing, clientVars, routeVars, dialogVars>>

SelectTab(t) ==
  /\ t \in open
  /\ activeTab' = t
  /\ UNCHANGED <<open, closing, clientVars, routeVars, dialogVars>>

\* The tab goes, by closeTarget of closeTab or by its user.
TabGoes(t) ==
  /\ t \in open
  /\ open' = open \ {t}
  /\ closing' \in {closing, [closing EXCEPT ![t] = "state"]}
  /\ wire' = [c \in Clients |-> IF c[1] = t THEN << >> ELSE wire[c]]
  /\ fetchOn' = {c \in fetchOn : c[1] # t}
  /\ pausedAt' = [r \in Requests |-> IF TabOf[r] = t THEN {} ELSE pausedAt[r]]
  /\ dialog' = [dialog EXCEPT ![t] = "none"]
  /\ blind' = blind \ {t}
  /\ UNCHANGED <<activeTab, clientVars, routesList, listener, handled, late, dialogs, click>>

\* The client of a tab goes with what belongs to it,
Drop(t) ==
  /\ pageClients' = [pageClients EXCEPT ![t] = NoClient]
  /\ stage' = [stage EXCEPT ![pageClients[t]] = "closed"]
  /\ listener' = listener \ {t}
  /\ dialogs' = dialogs \ {t}

\* when closeTab goes on;
CloseTab(t) ==
  /\ closing[t] = "state"
  /\ closing' = [closing EXCEPT ![t] = "tab"]
  /\ \/ /\ pageClients[t] = NoClient
        /\ UNCHANGED <<clientVars, listener, dialogs>>
     \/ /\ pageClients[t] # NoClient
        /\ Drop(t)
  /\ UNCHANGED <<open, activeTab, routesList, handled, wire, fetchOn, pausedAt, late,
                 dialog, click, blind>>

\* it makes a neighbour the active tab, also when another tab was.
FallBack(t) ==
  /\ closing[t] = "tab"
  /\ closing' = [closing EXCEPT ![t] = "no"]
  /\ activeTab' \in IF open = {} THEN {NoTab} ELSE open
  /\ UNCHANGED <<open, clientVars, routeVars, dialogVars>>

\* refreshTabs chooses a tab when there is no active one.  An active tab
\* that its user has closed stays active.
ChooseTab ==
  /\ activeTab = NoTab
  /\ \E t \in open : activeTab' = t
  /\ UNCHANGED <<open, closing, clientVars, routeVars, dialogVars>>

-----------------------------------------------------------------------------
(* The client of the active tab.                                           *)

\* No client is kept: another connection is made.
Connect(c) ==
  /\ stage[c] = "none"
  /\ \A n \in 1..(c[2] - 1) : stage[<<c[1], n>>] # "none"
  /\ c[1] = activeTab /\ c[1] \in open
  /\ pageClients[c[1]] = NoClient
  /\ stage' = [stage EXCEPT ![c] = "connecting"]
  /\ UNCHANGED <<tabVars, pageClients, routeVars, dialogVars>>

\* The listeners of the client are installed, and its domains enabled.
Listen(c) ==
  /\ stage[c] = "connecting"
  /\ c[1] \in open
  /\ stage' = [stage EXCEPT ![c] = "enabling"]
  /\ UNCHANGED <<tabVars, pageClients, routeVars, dialogVars>>

\* Mutant of Fresh: only addRoute installs the listener.
FreshIfKept(S) == {c \in S : c[1] \notin listener /\ stage[c] = "kept"}

\* Mutant of Fresh: it is not remembered that there is one.
FreshAlways(S) == S

\* Clients of tabs that had no requestPaused listener yet.
Fresh(S) == {c \in S : c[1] \notin listener}

Sent(S, command) ==
  wire' = [c \in Clients |-> IF c \in S THEN Append(wire[c], command) ELSE wire[c]]

\* What applyRouteInterception(tabId, client) does for each of the clients.
ApplyRoutes(S, list) ==
  IF list # {}
  THEN /\ handled' = handled \cup Fresh(S)
       /\ listener' = listener \cup {c[1] : c \in S}
       /\ Sent(S, "enable")
  ELSE /\ Sent(S \ Fresh(S), "disable")
       /\ UNCHANGED <<handled, listener>>

ApplyNetworkState(c) ==
  /\ stage[c] = "enabling"
  /\ c[1] \in open
  /\ stage' = [stage EXCEPT ![c] = "routing"]
  /\ ApplyRoutes({c}, routesList)
  /\ UNCHANGED <<tabVars, pageClients, routesList, fetchOn, pausedAt, late, dialogVars>>

\* The cursor is installed, by scripts that need the page to answer.
Keep(c) ==
  /\ stage[c] = "routing"
  /\ wire[c] = << >>
  /\ c[1] \in open /\ dialog[c[1]] \in {"none", "gone"}
  /\ stage' = [stage EXCEPT ![c] = "kept"]
  /\ pageClients' = [pageClients EXCEPT ![c[1]] = c]
  /\ UNCHANGED <<tabVars, routeVars, dialogVars>>

\* A step of the set-up throws: no connection is made, or it stays open.
SetUpFails(c) ==
  /\ stage[c] \in {"connecting", "enabling", "routing"}
  /\ stage' = [stage EXCEPT ![c] = IF @ = "connecting" THEN "closed" ELSE "failed"]
  /\ UNCHANGED <<tabVars, pageClients, routeVars, dialogVars>>

-----------------------------------------------------------------------------
(* Routes.                                                                 *)

Kept == {c \in Clients : \E t \in Tabs : pageClients[t] = c}

\* refreshRouteInterception asks the clients of pageClients that still answer.
ClientsToRefresh == {c \in Kept : c[1] \in open}

\* addRoute, and removeRoute of one pattern or of all.
ChangeRoutes(list) ==
  /\ \A c \in Clients : Len(wire[c]) < MaxWire
  /\ routesList' = list
  /\ ApplyRoutes(ClientsToRefresh, list)
  /\ late' = (late \ ClientsToRefresh) \cup {c \in Clients : stage[c] = "routing"}
  /\ UNCHANGED <<tabVars, clientVars, fetchOn, pausedAt, dialogVars>>

AddRoute(g) == g \notin routesList /\ ChangeRoutes(routesList \cup {g})
RemoveRoute(S) == S # {} /\ S \subseteq routesList /\ ChangeRoutes(routesList \ S)

\* The browser does what it is told; a disable lets go of paused requests.
FetchCommand(c) ==
  /\ wire[c] # << >>
  /\ wire' = [wire EXCEPT ![c] = Tail(@)]
  /\ \/ /\ Head(wire[c]) = "enable"
        /\ fetchOn' = fetchOn \cup {c}
        /\ UNCHANGED pausedAt
     \/ /\ Head(wire[c]) = "disable"
        /\ fetchOn' = fetchOn \ {c}
        /\ pausedAt' = [r \in Requests |-> pausedAt[r] \ {c}]
  /\ UNCHANGED <<tabVars, clientVars, routesList, listener, handled, late, dialogVars>>

\* A request comes to the browser; every client with Fetch on pauses it.
Pause(r) == pausedAt' = [pausedAt EXCEPT ![r] = {c \in fetchOn : c[1] = TabOf[r]}]

\* handleRouteRequestPaused: a route that matches may answer by itself.
HandlePaused(r, c) ==
  /\ c \in pausedAt[r]
  /\ c \in handled
  /\ \/ pausedAt' = [pausedAt EXCEPT ![r] = @ \ {c}]
     \/ /\ \E g \in routesList : <<g, r>> \in Matches
        /\ pausedAt' = [pausedAt EXCEPT ![r] = {}]
  /\ UNCHANGED <<tabVars, clientVars, routesList, listener, handled, wire, fetchOn, late, dialogVars>>

-----------------------------------------------------------------------------
(* Dialogs and the clicks that open them.                                  *)

OpenDialog(t) ==
  /\ t \in open
  /\ dialog[t] = "none"
  /\ \E c \in Clients : c[1] = t /\ stage[c] \in {"routing", "kept", "failed"}
  /\ dialog' = [dialog EXCEPT ![t] = "opened"]
  /\ UNCHANGED <<tabVars, clientVars, routeVars, dialogs, click, blind>>

ClickEnds(k) == [click EXCEPT ![k].at = "done"]

ResolveDialogWaiters(t) ==
  click' = [k \in Clicks |-> IF click[k].at = "releasing" /\ click[k].tab = t
                              THEN ClickEnds(k)[k] ELSE click[k]]

\* javascriptDialogOpening.
DialogOpening(t) ==
  /\ dialog[t] \in {"opened", "gone"}
  /\ dialog' = [dialog EXCEPT ![t] = IF @ = "opened" THEN "told" ELSE "none"]
  /\ dialogs' = dialogs \cup {t}
  /\ ResolveDialogWaiters(t)
  /\ UNCHANGED <<tabVars, clientVars, routeVars, blind>>

Shut(t) ==
  /\ dialog' = [dialog EXCEPT ![t] = CASE @ = "opened" -> "gone" [] @ = "told" -> "none" [] OTHER -> @]

\* The user closes it in the browser, which the session does not listen to.
UserClosesDialog(t) ==
  /\ dialog[t] \in {"opened", "told"}
  /\ Shut(t)
  /\ blind' = blind \ {t}
  /\ UNCHANGED <<tabVars, clientVars, routeVars, dialogs, click>>

\* dialogTabId: the active tab if it has a dialog, or else a tab that has.
DialogTab(t) == t \in dialogs /\ (activeTab \in dialogs => t = activeTab)

\* handleDialog tells the client of the tab, or else that of the active tab.
HandleDialog(t) ==
  LET told == IF pageClients[t] # NoClient THEN t ELSE activeTab
  IN  /\ DialogTab(t)
      /\ told # NoTab /\ pageClients[told] # NoClient
      /\ dialogs' = dialogs \ {t}
      /\ Shut(told)
      /\ blind' = (blind \cup {t}) \cap {u \in Tabs : dialog'[u] = "told"}
      /\ UNCHANGED <<tabVars, clientVars, routeVars, click>>

\* click: the tab it waits on, then the client, with an await between.
ClickTab(k) ==
  /\ click[k].at = "idle"
  /\ activeTab \in open
  /\ click' = [click EXCEPT ![k].at = "located", ![k].tab = activeTab]
  /\ UNCHANGED <<tabVars, clientVars, routeVars, dialog, dialogs, blind>>

ClickPresses(k) ==
  /\ click[k].at = "located"
  /\ activeTab \in open
  /\ pageClients[activeTab] # NoClient
  /\ click' = [click EXCEPT ![k].at = "pressing", ![k].on = activeTab]
  /\ UNCHANGED <<tabVars, clientVars, routeVars, dialog, dialogs, blind>>

\* The browser answers input when no dialog is in the way.
Answered(k) == click[k].on \in open => dialog[click[k].on] \in {"none", "gone"}

\* The press is answered; the button is held for a while.
PressAnswered(k) ==
  /\ click[k].at = "pressing"
  /\ Answered(k)
  /\ click' = IF click[k].on \in open THEN [click EXCEPT ![k].at = "holding"] ELSE ClickEnds(k)
  /\ UNCHANGED <<tabVars, clientVars, routeVars, dialog, dialogs, blind>>

\* Mutant of WaitForDialog: it waits though there is a dialog.
WaitForNextDialog(k) == click' = [click EXCEPT ![k].at = "releasing"]

\* waitForDialog, raced with the release.
WaitForDialog(k) ==
  click' = IF click[k].tab \in dialogs THEN ClickEnds(k) ELSE [click EXCEPT ![k].at = "releasing"]

ClickReleases(k) ==
  /\ click[k].at = "holding"
  /\ WaitForDialog(k)
  /\ UNCHANGED <<tabVars, clientVars, routeVars, dialog, dialogs, blind>>

ReleaseAnswered(k) ==
  /\ click[k].at = "releasing"
  /\ Answered(k)
  /\ click' = ClickEnds(k)
  /\ UNCHANGED <<tabVars, clientVars, routeVars, dialog, dialogs, blind>>

=============================================================================
