---------------------------- MODULE TabRequests ----------------------------
(***************************************************************************)
(* The requests of a tab as the MCP tools see them: BrowserNetworkState of *)
(* src/src/mcp/connectedBrowser.ts.  The listeners of a client keep the    *)
(* state they found when they were installed; navigate() puts a new one in *)
(* its place, and tools look into that.  Tools wait on an entry until its  *)
(* response is there, it is finished, or its body can be read; three such  *)
(* waits are settled by events, by a reset and by closeTab.                *)
(*                                                                         *)
(* An entry is << request, hop >>; state 0 means in no list.  The browser  *)
(* tells of a response before it tells of the end, and keeps bodies.       *)
(* Requests are not followed once set-ups of their tab have overlapped.    *)
(***************************************************************************)
EXTENDS ConnectedTabs

CONSTANTS
  Readers,    \* calls of fetchResponseBody
  MaxHops,    \* bound: entries of one request
  MaxStates   \* bound: network states made

ASSUME RequestsAssumption ==
  /\ MaxHops \in Nat \ {0}
  /\ MaxStates \in Nat \ {0}
  /\ "collector" \notin Readers

Entries == Requests \X (1..MaxHops)

VARIABLES
  net,        \* pageNetworkStates: the state a tab has now, or 0
  bound,      \* the state that the listeners of a client captured
  lastState,  \* states made so far
  browser,    \* how far each request is
  hop,        \* how many entries it has
  entry,      \* the tracked requests with their waits, and their bodyRead
  asked,      \* Network.getResponseBody calls under way
  reader,     \* fetchResponseBody calls
  hasty       \* history: entries whose body was asked for before the end

netVars == <<net, bound, lastState>>
requestVars == <<browser, hop, entry, asked, reader, hasty>>
vars == <<connectedVars, netVars, requestVars>>

Entry == [state: Nat, response: {"none", "body", "empty", "failed"},
          available: BOOLEAN, finished: BOOLEAN, loaded: {"no", "done", "failed"},
          bodyRead: BOOLEAN, body: BOOLEAN]

\* Every variable holds what its place in the code can hold.
RequestsTypeOK ==
  /\ ConnectedTypeOK
  /\ net \in [Tabs -> 0..MaxStates]
  /\ bound \in [Clients -> 0..MaxStates]
  /\ lastState \in 0..MaxStates
  /\ browser \in [Requests -> {"unsent", "sent", "responded", "over", "failed"}]
  /\ hop \in [Requests -> 0..MaxHops]
  /\ entry \in [Entries -> Entry]
  /\ asked \subseteq Entries \X (Readers \cup {"collector"})
  /\ reader \in [Readers -> [at: {"idle", "waiting", "reading", "got", "nothing"},
                             key: Entries \cup {<< >>}, late: BOOLEAN]]
  /\ hasty \subseteq Entries
  /\ \A k \in Entries : k[2] > hop[k[1]] => entry[k].state = 0

New(s) == [state |-> s, response |-> "none", available |-> FALSE, finished |-> FALSE,
           loaded |-> "no", bodyRead |-> FALSE, body |-> FALSE]

Init ==
  /\ ConnectedInit
  /\ net = [t \in Tabs |-> 0]
  /\ bound = [c \in Clients |-> 0]
  /\ lastState = 0
  /\ browser = [r \in Requests |-> "unsent"]
  /\ hop = [r \in Requests |-> 0]
  /\ entry = [k \in Entries |-> New(0)]
  /\ asked = {}
  /\ reader = [x \in Readers |-> [at |-> "idle", key |-> << >>, late |-> FALSE]]
  /\ hasty = {}

-----------------------------------------------------------------------------
(* Waits.                                                                  *)

Listed(k) == k \in Entries /\ entry[k].state # 0

\* resolveRequestFinished and resolveLoadingDone(state, key, success).
Finished(e, how) ==
  [e EXCEPT !.finished = TRUE, !.loaded = IF @ = "no" THEN how ELSE @]

\* settleOutstandingNetworkWaits.
Settled(s) ==
  [k \in Entries |-> IF entry[k].state = s
                     THEN [Finished(entry[k], "failed") EXCEPT !.available = TRUE]
                     ELSE entry[k]]

-----------------------------------------------------------------------------
(* What a tool does to the whole list.                                     *)

\* installNetworkCollection, when a client is set up.
ListenToNetwork(c) ==
  /\ Listen(c)
  /\ net[c[1]] = 0 => lastState < MaxStates
  /\ net' = [net EXCEPT ![c[1]] = IF @ = 0 THEN lastState + 1 ELSE @]
  /\ lastState' = IF net[c[1]] = 0 THEN lastState + 1 ELSE lastState
  /\ bound' = [bound EXCEPT ![c] = net'[c[1]]]
  /\ UNCHANGED requestVars

\* navigate(): it has a client, and then resets the tab active by now.
Navigate(t) ==
  /\ t = activeTab /\ t \in open
  /\ \E u \in Tabs : pageClients[u] # NoClient
  /\ lastState < MaxStates
  /\ entry' = IF net[t] = 0 THEN entry ELSE Settled(net[t])
  /\ net' = [net EXCEPT ![t] = lastState + 1]
  /\ lastState' = lastState + 1
  /\ dialogs' = dialogs \ {t}
  /\ blind' = blind \cup {u \in {t} : dialog[u] = "told"}
  /\ UNCHANGED <<tabVars, clientVars, routeVars, dialog, click, bound,
                 browser, hop, asked, reader, hasty>>

\* clearRequests empties the list and settles nothing.
ClearRequests(t) ==
  /\ t = activeTab /\ t \in open
  /\ net[t] # 0
  /\ entry' = [k \in Entries |-> IF entry[k].state = net[t]
                                 THEN [entry[k] EXCEPT !.state = 0, !.bodyRead = FALSE]
                                 ELSE entry[k]]
  /\ UNCHANGED <<connectedVars, netVars, browser, hop, asked, reader, hasty>>

CloseTabRequests(t) ==
  /\ CloseTab(t)
  /\ IF pageClients[t] # NoClient /\ net[t] # 0
     THEN /\ entry' = Settled(net[t])
          /\ net' = [net EXCEPT ![t] = 0]
     ELSE UNCHANGED <<entry, net>>
  /\ UNCHANGED <<bound, lastState, browser, hop, asked, reader, hasty>>

-----------------------------------------------------------------------------
(* Events of the network.                                                  *)

Followed(r) == TabOf[r] \in open /\ ~Muddled(TabOf[r])

Last(r) == <<r, hop[r]>>

\* The state that hears of a request; 0 when no client listens.
Hears(r) ==
  LET L == {c \in Clients : c[1] = TabOf[r] /\ Listening(c)}
  IN  IF L = {} THEN 0 ELSE bound[CHOOSE c \in L : TRUE]

\* requestWillBeSent, of a request that is new.
Send(r) ==
  /\ Followed(r)
  /\ browser[r] = "unsent"
  /\ browser' = [browser EXCEPT ![r] = "sent"]
  /\ hop' = [hop EXCEPT ![r] = 1]
  /\ entry' = [entry EXCEPT ![<<r, 1>>] = New(Hears(r))]
  /\ Pause(r)
  /\ UNCHANGED <<tabVars, clientVars, routesList, listener, handled, wire, fetchOn, late,
                 dialogVars, netVars, asked, reader, hasty>>

\* Mutant of Hopped: only the response is settled.
HoppedUnfinished(e) == [e EXCEPT !.response = "body", !.available = TRUE]

\* The entry that a redirect leaves.
Hopped(e) == Finished([e EXCEPT !.response = "body", !.available = TRUE], "done")

\* requestWillBeSent with a redirect: an entry that a reset has settled is
\* used again, any other gets a successor.
Redirect(r) ==
  LET k == Last(r)
      next == <<r, hop[r] + 1>>
      again == Listed(k) /\ entry[k].finished
  IN  /\ Followed(r)
      /\ browser[r] = "sent" /\ pausedAt[r] = {}
      /\ ~again => hop[r] < MaxHops
      /\ hop' = IF again THEN hop ELSE [hop EXCEPT ![r] = @ + 1]
      /\ entry' = [q \in Entries |-> IF q = k /\ Listed(k) THEN Hopped(entry[k])
                                     ELSE IF q = next /\ ~again THEN New(Hears(r))
                                     ELSE entry[q]]
      /\ Pause(r)
      /\ UNCHANGED <<tabVars, clientVars, routesList, listener, handled, wire, fetchOn, late,
                     dialogVars, netVars, browser, asked, reader, hasty>>

\* responseReceived, of a response with a body that can be read, or without.
Respond(r) ==
  LET k == Last(r)
  IN  /\ Followed(r)
      /\ browser[r] = "sent" /\ pausedAt[r] = {}
      /\ browser' = [browser EXCEPT ![r] = "responded"]
      /\ \E response \in {"body", "empty"} :
           entry' = IF Listed(k)
                    THEN [entry EXCEPT ![k].response = response, ![k].available = TRUE]
                    ELSE entry
      /\ UNCHANGED <<connectedVars, netVars, hop, asked, reader, hasty>>

Readable(k) == entry[k].response = "body" /\ ~entry[k].bodyRead

\* Mutant of Ask: the waits are settled before the body has come.
AskSettled(k, who) ==
  /\ asked' = asked \cup {<<k, who>>}
  /\ hasty' = IF browser'[k[1]] = "over" THEN hasty ELSE hasty \cup {k}
  /\ entry' = [entry EXCEPT ![k] = Finished([@ EXCEPT !.bodyRead = TRUE], "done")]

\* bodyRead is set, then Network.getResponseBody is sent.
Ask(k, who) ==
  /\ asked' = asked \cup {<<k, who>>}
  /\ hasty' = IF browser'[k[1]] = "over" THEN hasty ELSE hasty \cup {k}
  /\ entry' = [entry EXCEPT ![k].bodyRead = TRUE]

\* loadingFinished: the body is read first, unless somebody has read it.
LoadingFinished(r) ==
  LET k == Last(r)
  IN  /\ Followed(r)
      /\ browser[r] = "responded"
      /\ browser' = [browser EXCEPT ![r] = "over"]
      /\ IF Listed(k) /\ Readable(k)
         THEN Ask(k, "collector")
         ELSE /\ entry' = IF Listed(k) THEN [entry EXCEPT ![k] = Finished(@, "done")] ELSE entry
              /\ UNCHANGED <<asked, hasty>>
      /\ UNCHANGED <<connectedVars, netVars, hop, reader>>

\* loadingFailed.
LoadingFailed(r) ==
  LET k == Last(r)
  IN  /\ Followed(r)
      /\ browser[r] \in {"sent", "responded"}
      /\ browser' = [browser EXCEPT ![r] = "failed"]
      /\ pausedAt' = [pausedAt EXCEPT ![r] = {}]
      /\ entry' = IF Listed(k)
                  THEN [entry EXCEPT ![k] = [Finished(@, "failed") EXCEPT
                          !.response = "failed", !.available = TRUE]]
                  ELSE entry
      /\ UNCHANGED <<tabVars, clientVars, routesList, listener, handled, wire, fetchOn, late,
                     dialogVars, netVars, hop, asked, reader, hasty>>

-----------------------------------------------------------------------------
(* Bodies.                                                                 *)

\* fetchResponseBody of an entry in the list the tab has now.
FetchBody(x, k) ==
  /\ reader[x].at = "idle"
  /\ activeTab \in open
  /\ Listed(k) /\ entry[k].state = net[activeTab]
  /\ entry[k].response = "body"
  /\ reader' = [reader EXCEPT ![x].key = k, ![x].at = IF entry[k].body THEN "got" ELSE "waiting"]
  /\ UNCHANGED <<connectedVars, netVars, browser, hop, entry, asked, hasty>>

\* waitForLoadingDone is over, settled or after its five seconds.
ReaderGoes(x) ==
  LET k == reader[x].key
      goes(at) == reader' = [reader EXCEPT ![x].at = at, ![x].late = (entry[k].loaded = "no")]
  IN  /\ reader[x].at = "waiting"
      /\ UNCHANGED <<connectedVars, netVars, browser, hop>>
      /\ \/ /\ ~entry[k].body /\ ~entry[k].bodyRead
            /\ goes("reading")
            /\ Ask(k, x)
         \/ /\ entry[k].body \/ entry[k].bodyRead
            /\ goes(IF entry[k].body THEN "got" ELSE "nothing")
            /\ UNCHANGED <<entry, asked, hasty>>

\* The browser has a body when the request is over.  Asked about a redirect
\* it gives that of the last response.
HasBody(k) == browser[k[1]] = "over" /\ TabOf[k[1]] \in open

\* getResponseBody returns or throws.
BodyComes(k, who) ==
  LET e == [entry[k] EXCEPT !.body = @ \/ HasBody(k)]
  IN  /\ <<k, who>> \in asked
      /\ asked' = asked \ {<<k, who>>}
      /\ entry' = [entry EXCEPT ![k] = IF who = "collector" /\ Listed(k)
                                        THEN Finished(e, "done") ELSE e]
      /\ reader' = IF who = "collector" THEN reader
                   ELSE [reader EXCEPT ![who].at = IF e.body THEN "got" ELSE "nothing"]
      /\ UNCHANGED <<connectedVars, netVars, browser, hop, hasty>>

-----------------------------------------------------------------------------
Elsewhere == UNCHANGED <<netVars, requestVars>>

ClientStep(c) == Connect(c) \/ ApplyNetworkState(c) \/ Keep(c) \/ SetUpFails(c) \/ FetchCommand(c)

ClickStep(k) ==
  ClickTab(k) \/ ClickPresses(k) \/ PressAnswered(k) \/ ClickReleases(k) \/ ReleaseAnswered(k)

TabStep(t) ==
  \/ NewTab(t) \/ SelectTab(t) \/ TabGoes(t) \/ FallBack(t)
  \/ OpenDialog(t) \/ DialogOpening(t) \/ UserClosesDialog(t) \/ HandleDialog(t)

Next ==
  \/ Elsewhere /\ \/ ChooseTab
                  \/ \E t \in Tabs : TabStep(t)
                  \/ \E c \in Clients : ClientStep(c)
                  \/ \E k \in Clicks : ClickStep(k)
                  \/ \E g \in Routes : AddRoute(g)
                  \/ \E S \in SUBSET Routes : RemoveRoute(S)
                  \/ \E r \in Requests, c \in Clients : HandlePaused(r, c)
  \/ \E c \in Clients : ListenToNetwork(c)
  \/ \E t \in Tabs : Navigate(t) \/ ClearRequests(t) \/ CloseTabRequests(t)
  \/ \E r \in Requests :
       Send(r) \/ Redirect(r) \/ Respond(r) \/ LoadingFinished(r) \/ LoadingFailed(r)
  \/ \E x \in Readers : ReaderGoes(x) \/ \E k \in Entries : FetchBody(x, k)
  \/ \E k \in Entries, who \in Readers \cup {"collector"} : BodyComes(k, who)

Spec == Init /\ [][Next]_vars

\* Events of the browser come, and its answers.
Fairness ==
  /\ \A t \in Tabs : WF_vars(Elsewhere /\ DialogOpening(t))
  /\ \A k \in Clicks : WF_vars(Elsewhere /\ ReleaseAnswered(k))

FairSpec == Spec /\ Fairness

-----------------------------------------------------------------------------
(* Properties: clients and routes.                                         *)

\* A tab whose Fetch commands have all been obeyed has its requests paused
\* just when there are routes, whatever set-ups and route changes met.  Not
\* if the routes changed between the time a set-up applied them and the end
\* of that set-up (3193-3196).
RoutesApplied ==
  \A t \in open : LET c == pageClients[t] IN
    c # NoClient /\ wire[c] = << >> /\ c \notin late
      => (c \in fetchOn <=> routesList # {})

\* A request is paused only for a client that hears of it.  The listener is
\* remembered per tab (3234), so with a second client this does not hold.
HeldAreHandled ==
  \A r \in Requests : ~Muddled(TabOf[r]) => pausedAt[r] \subseteq handled

-----------------------------------------------------------------------------
(* Properties: dialogs.                                                    *)

\* A click whose release the browser does not answer, since it opened a
\* dialog, returns; so does one whose release finds a dialog open.  Unless the
\* dialog was dropped, or selectTab came between the two looks at the tab.
ClickReturns ==
  \A k \in Clicks :
    (click[k].at = "releasing" /\ click[k].tab = click[k].on)
      ~> (click[k].at = "done" \/ click[k].tab \in blind)

-----------------------------------------------------------------------------
(* Properties: requests.                                                   *)

\* A request that is over lets go of everyone who waits on it, redirects and
\* resets included; a wait runs to its timeout only while its request does
\* (or while the body is on its way).
OverMeansSettled ==
  \A k \in Entries :
    (Listed(k) /\ (k[2] < hop[k[1]] \/ browser[k[1]] \in {"over", "failed"}))
    => /\ entry[k].available
       /\ \/ entry[k].finished /\ entry[k].loaded # "no"
          \/ <<k, "collector">> \in asked

\* A tool that waited its turn gets the body, though others ask for the same
\* one: it comes away empty only if it, or one before it, was too early, or
\* the list was replaced meanwhile.  Not so for a redirect, which settles the
\* wait and reads no body: there a second tool does come away empty.
NoEmptyAnswers ==
  \A x \in Readers : LET k == reader[x].key IN
    (reader[x].at = "nothing" /\ ~reader[x].late)
    => \/ k \in hasty
       \/ k # Last(k[1])
       \/ TabOf[k[1]] \notin open
       \/ entry[k].state # net[TabOf[k[1]]]
       \/ entry[k].response # "body"

=============================================================================
