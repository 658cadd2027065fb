------------------------- MODULE TabRequestsProofs -------------------------
(***************************************************************************)
(* Proofs about TabRequests and the tabs, clients and routes it is made    *)
(* of, for any tabs, connections, routes, requests and readers.            *)
(***************************************************************************)
EXTENDS TabRequests, TLAPS

-----------------------------------------------------------------------------
(* The inductive invariant of tabs, clients and routes.                    *)

\* A tab that is gone has no Fetch commands, no paused requests, and stays so.
Gone ==
  /\ \A t \in Tabs : closing[t] # "no" => t \notin open
  /\ \A c \in Clients : c[1] \notin open => wire[c] = << >> /\ c \notin fetchOn
  /\ \A r \in Requests : \A c \in pausedAt[r] : c[1] = TabOf[r] /\ TabOf[r] \in open

\* A client may pause requests: it has Fetch on, or will, or has paused one.
Pauses(c) ==
  \/ c \in fetchOn
  \/ \E i \in 1..Len(wire[c]) : wire[c][i] = "enable"
  \/ \E r \in Requests : c \in pausedAt[r]

\* The listener a tab is remembered to have is that of a client it still has.
ListenerThere ==
  \A t \in listener : \E d \in Clients : d[1] = t /\ d \in handled /\ Listening(d)

\* Fetch is turned on only for a client that hears of paused requests, or for
\* a second one; the tab is then remembered to have a listener.
PausesHeard ==
  \A c \in Clients : Pauses(c) =>
    /\ c[1] \in listener
    /\ c \in handled \/ Muddled(c[1])
    /\ stage[c] \in {"routing", "kept", "failed"}

\* What Fetch will be once the commands under way are obeyed.
WillPause(c) == IF wire[c] = << >> THEN c \in fetchOn ELSE wire[c][Len(wire[c])] = "enable"

\* The client has the routes there are now, or will have been told.
Informed(c) ==
  (c[1] \in open /\ c \notin late /\ (stage[c] = "routing" \/ pageClients[c[1]] = c))
    => (WillPause(c) <=> routesList # {})

ConnectedInv ==
  /\ ConnectedTypeOK
  /\ Gone
  /\ ListenerThere
  /\ PausesHeard
  /\ \A c \in Clients : Informed(c)

-----------------------------------------------------------------------------
(* The inductive invariant of the requests.                                *)

Used(t) == \E c \in Clients : c[1] = t /\ stage[c] # "none"

\* Network states are numbered, and each is of one tab.
NetStates ==
  /\ \A t \in Tabs : net[t] <= lastState
  /\ \A c \in Clients : bound[c] <= lastState
  /\ \A k \in Entries : entry[k].state <= lastState
  /\ \A t, u \in Tabs : net[t] = net[u] /\ net[t] # 0 => t = u
  /\ \A c \in Clients : Listening(c) /\ c[1] \in open => net[c[1]] # 0

\* Somebody has to do with an entry.
Touched(k) ==
  \/ entry[k].state # 0
  \/ \E who \in Readers \cup {"collector"} : <<k, who>> \in asked
  \/ \E x \in Readers : reader[x].key = k

\* Then it was made for a client of its tab, which is not opened again.
TouchedUsed ==
  \A k \in Entries : Touched(k) =>
    /\ k[2] <= hop[k[1]]
    /\ Used(TabOf[k[1]])
    /\ TabOf[k[1]] \in open => net[TabOf[k[1]]] # 0

Asking ==
  /\ \A k \in Entries : <<k, "collector">> \in asked => browser[k[1]] = "over"
  /\ \A k \in Entries, x \in Readers :
       <<k, x>> \in asked => reader[x].key = k /\ reader[x].at # "idle"
  /\ \A k \in Entries, who \in Readers \cup {"collector"} :
       <<k, who>> \in asked => k \in hasty \/ browser[k[1]] = "over"
  /\ \A x \in Readers :
       /\ reader[x].at # "idle" => reader[x].key \in Entries
       /\ reader[x].key \in Entries => entry[reader[x].key].response # "none"

\* The entry a request has now, in the list its tab has now.
Current(k) ==
  /\ k = Last(k[1])
  /\ TabOf[k[1]] \in open
  /\ entry[k].state = net[TabOf[k[1]]]
  /\ entry[k].state # 0

\* How such an entry follows its request.
Following ==
  /\ \A r \in Requests : browser[r] = "unsent" <=> hop[r] = 0
  /\ \A k \in Entries : Current(k) =>
       /\ browser[k[1]] = "sent" => entry[k].response = "none" /\ ~entry[k].finished
       /\ browser[k[1]] \in {"sent", "responded"} =>
            /\ entry[k].loaded = "no"
            /\ entry[k].bodyRead => k \in hasty
       /\ browser[k[1]] = "over" /\ entry[k].response = "body" /\ entry[k].loaded # "no"
            => entry[k].body \/ k \in hasty
       /\ browser[k[1]] = "failed" => entry[k].response = "failed"

\* Answers are available before the end, and at the end all is settled.
Settling ==
  \A k \in Entries : entry[k].state # 0 =>
    /\ (k[2] < hop[k[1]] \/ browser[k[1]] \in {"responded", "over", "failed"})
         => entry[k].available
    /\ (k[2] < hop[k[1]] \/ browser[k[1]] \in {"over", "failed"})
         => \/ entry[k].finished /\ entry[k].loaded # "no"
            \/ <<k, "collector">> \in asked

RequestsInv ==
  /\ RequestsTypeOK
  /\ NetStates
  /\ TouchedUsed
  /\ Asking
  /\ Following
  /\ Settling
  /\ NoEmptyAnswers

-----------------------------------------------------------------------------
(* Queues of commands.                                                     *)

Commands == {"enable", "disable"}

LEMMA AppendFacts ==
  ASSUME NEW w \in Seq(Commands), NEW x \in Commands
  PROVE  /\ Append(w, x) \in Seq(Commands) /\ Append(w, x) # << >>
         /\ Len(Append(w, x)) = Len(w) + 1 /\ Append(w, x)[Len(w) + 1] = x
         /\ \A i \in 1..Len(w) : Append(w, x)[i] = w[i]
OBVIOUS

LEMMA TailFacts ==
  ASSUME NEW w \in Seq(Commands), w # << >>
  PROVE  /\ Tail(w) \in Seq(Commands) /\ Head(w) = w[1] /\ Len(w) \in Nat \ {0}
         /\ Tail(w) = << >> <=> Len(w) = 1
         /\ Len(Tail(w)) = Len(w) - 1
         /\ \A i \in 1..(Len(w) - 1) : Tail(w)[i] = w[i + 1]
<1>1. Head(w) = w[1] /\ Len(w) \in Nat \ {0}
  OBVIOUS
<1>2. Tail(w) \in Seq(Commands) /\ Len(Tail(w)) = Len(w) - 1
  OBVIOUS
<1>3. \A i \in 1..(Len(w) - 1) : Tail(w)[i] = w[i + 1]
  OBVIOUS
<1>4. PICK v : v = Tail(w)
  OBVIOUS
<1>5. v = << >> <=> Len(v) = 0
  <2>1. v \in Seq(Commands)
    BY <1>2, <1>4
  <2>2. CASE v = << >>
    BY <2>2
  <2>3. CASE v # << >>
    <3>1. Len(v) \in Nat \ {0}
      BY <2>1, <2>3
    <3>2. QED
      BY <2>3, <3>1
  <2>4. QED
    BY <2>2, <2>3
<1>6. Tail(w) = << >> <=> Len(w) = 1
  BY <1>1, <1>2, <1>4, <1>5
<1>7. QED
  BY <1>1, <1>2, <1>3, <1>6

-----------------------------------------------------------------------------
(* Tabs, clients and routes: initially, and what the steps have in common. *)

LEMMA InitConnected == ConnectedInit => ConnectedInv
<1> SUFFICES ASSUME ConnectedInit PROVE ConnectedInv
  OBVIOUS
<1> USE TabsAssumption
<1>1. ConnectedTypeOK
  BY DEF ConnectedInit, ConnectedTypeOK, Stages
<1>2. \A c \in Clients : ~Pauses(c)
  BY DEF ConnectedInit, Pauses
<1>3. Gone /\ ListenerThere /\ PausesHeard
  BY <1>2 DEF ConnectedInit, Gone, ListenerThere, PausesHeard
<1>4. \A c \in Clients : Informed(c)
  BY DEF ConnectedInit, Informed, WillPause
<1>5. QED
  BY <1>1, <1>3, <1>4 DEF ConnectedInv

LEMMA ClientTab == ASSUME NEW c \in Clients PROVE c[1] \in Tabs
BY TabsAssumption

\* Only clients of tabs that are there pause requests.
LEMMA PausesOpen ==
  ASSUME ConnectedInv, NEW c \in Clients, Pauses(c)
  PROVE  c[1] \in open
<1>1. c[1] \notin open => c \notin fetchOn /\ ~(\E i \in 1..Len(wire[c]) : wire[c][i] = "enable")
  BY DEF ConnectedInv, Gone
<1>2. (\E r \in Requests : c \in pausedAt[r]) => c[1] \in open
  BY DEF ConnectedInv, Gone
<1>3. QED
  BY <1>1, <1>2 DEF Pauses

\* A client without an enabling command that is not enabled will not pause.
LEMMA WillPausePauses ==
  ASSUME ConnectedTypeOK, NEW c \in Clients, WillPause(c)
  PROVE  Pauses(c)
<1>1. CASE wire[c] = << >>
  BY <1>1 DEF WillPause, Pauses
<1>2. CASE wire[c] # << >>
  <2>1. wire[c] \in Seq(Commands)
    BY DEF ConnectedTypeOK, Commands
  <2>2. Len(wire[c]) \in 1..Len(wire[c])
    BY <1>2, <2>1
  <2>3. QED
    BY <1>2, <2>2 DEF WillPause, Pauses
<1>3. QED
  BY <1>1, <1>2

\* As long as listening clients of tabs that are there go on listening and
\* nobody starts to pause requests, those who pause them are heard.
LEMMA HeardStays ==
  ASSUME ConnectedInv,
         \A c \in Clients : Pauses(c)' => Pauses(c) /\ c[1] \in listener'
                              /\ stage'[c] \in {"routing", "kept", "failed"},
         \A c \in Clients : Listening(c) /\ c[1] \in open => Listening(c)',
         handled \subseteq handled'
  PROVE  PausesHeard'
<1> SUFFICES ASSUME NEW c \in Clients, Pauses(c)'
             PROVE  c \in handled' \/ Muddled(c[1])'
  BY DEF PausesHeard
<1>1. Pauses(c) /\ c[1] \in open
  BY PausesOpen
<1>2. CASE c \in handled
  BY <1>2
<1>3. CASE Muddled(c[1])
  <2>1. PICK d, e \in Clients : d # e /\ d[1] = c[1] /\ e[1] = c[1]
                                 /\ Listening(d) /\ Listening(e)
    BY <1>3 DEF Muddled
  <2>2. Listening(d)' /\ Listening(e)'
    BY <1>1, <2>1
  <2>3. QED
    BY <2>1, <2>2 DEF Muddled
<1>4. QED
  BY <1>1, <1>2, <1>3 DEF ConnectedInv, PausesHeard

\* Tool calls about dialogs and clicks have nothing to do with clients.
LEMMA ElsewhereKeeps ==
  ASSUME ConnectedInv, ConnectedTypeOK', UNCHANGED <<open, closing, clientVars, routeVars>>
  PROVE  ConnectedInv'
<1> USE DEF clientVars, routeVars
<1>1. Gone' /\ ListenerThere'
  BY DEF ConnectedInv, Gone, ListenerThere, Listening
<1>2. PausesHeard'
  BY DEF ConnectedInv, PausesHeard, Pauses, Muddled, Listening
<1>3. \A c \in Clients : Informed(c)'
  BY DEF ConnectedInv, Informed, WillPause
<1>4. QED
  BY <1>1, <1>2, <1>3 DEF ConnectedInv

-----------------------------------------------------------------------------
(* Tabs open, close and become active.                                     *)

LEMMA NewTabConnected ==
  ASSUME ConnectedInv, NEW t \in Tabs, NewTab(t)
  PROVE  ConnectedInv'
<1> USE TabsAssumption DEF clientVars, routeVars, dialogVars
<1>1. /\ open' = open \cup {t} /\ closing[t] = "no" /\ activeTab' \in {activeTab, t}
      /\ \A c \in Clients : c[1] = t => stage[c] = "none"
      /\ UNCHANGED <<closing, clientVars, routeVars, dialogVars>>
  BY DEF NewTab
<1> HIDE TabsAssumption
<1>2. ConnectedTypeOK'
  <2>1. open' \subseteq Tabs /\ activeTab' \in Tabs \cup {NoTab}
    BY <1>1 DEF ConnectedInv, ConnectedTypeOK
  <2>2. QED
    BY <1>1, <2>1 DEF ConnectedInv, ConnectedTypeOK
<1>3. Gone' /\ ListenerThere'
  BY <1>1 DEF ConnectedInv, Gone, ListenerThere, Listening
<1>4. PausesHeard'
  BY <1>1 DEF ConnectedInv, PausesHeard, Pauses, Muddled, Listening
<1>5. ASSUME NEW c \in Clients PROVE Informed(c)'
  <2>1. WillPause(c)' <=> WillPause(c)
    BY <1>1 DEF WillPause
  <2>2. c[1] = t => stage[c] = "none" /\ pageClients[c[1]] # c
    BY <1>1, TabsAssumption DEF ConnectedInv, ConnectedTypeOK
  <2>3. QED
    BY <1>1, <2>1, <2>2 DEF ConnectedInv, Informed
<1>6. QED
  BY <1>2, <1>3, <1>4, <1>5 DEF ConnectedInv

LEMMA TabGoesConnected ==
  ASSUME ConnectedInv, NEW t \in Tabs, TabGoes(t)
  PROVE  ConnectedInv'
<1>1. /\ t \in open /\ open' = open \ {t}
      /\ closing' \in {closing, [closing EXCEPT ![t] = "state"]}
      /\ wire' = [c \in Clients |-> IF c[1] = t THEN << >> ELSE wire[c]]
      /\ fetchOn' = {c \in fetchOn : c[1] # t}
      /\ pausedAt' = [r \in Requests |-> IF TabOf[r] = t THEN {} ELSE pausedAt[r]]
      /\ dialog' = [dialog EXCEPT ![t] = "none"] /\ blind' = blind \ {t}
      /\ UNCHANGED <<activeTab, stage, pageClients, routesList, listener, handled, late,
                     dialogs, click>>
  BY DEF TabGoes, clientVars
<1>2. ConnectedTypeOK'
  <2>1. closing' \in [Tabs -> {"no", "state", "tab"}]
    BY <1>1 DEF ConnectedInv, ConnectedTypeOK
  <2>2. wire' \in [Clients -> Seq({"enable", "disable"})]
    BY <1>1 DEF ConnectedInv, ConnectedTypeOK
  <2>3. open' \subseteq Tabs /\ fetchOn' \subseteq Clients
        /\ pausedAt' \in [Requests -> SUBSET Clients]
    BY <1>1 DEF ConnectedInv, ConnectedTypeOK
  <2>4. dialog' \in [Tabs -> {"none", "opened", "told", "gone"}] /\ blind' \subseteq Tabs
    BY <1>1 DEF ConnectedInv, ConnectedTypeOK
  <2>5. QED
    BY <1>1, <2>1, <2>2, <2>3, <2>4 DEF ConnectedInv, ConnectedTypeOK
<1>3. Gone'
  <2>1. \A u \in Tabs : closing'[u] # "no" => u \notin open'
    BY <1>1 DEF ConnectedInv, ConnectedTypeOK, Gone
  <2>2. \A c \in Clients : c[1] \notin open' => wire'[c] = << >> /\ c \notin fetchOn'
    BY <1>1 DEF ConnectedInv, Gone
  <2>3. \A r \in Requests : \A c \in pausedAt'[r] : c[1] = TabOf[r] /\ TabOf[r] \in open'
    BY <1>1 DEF ConnectedInv, Gone
  <2>4. QED
    BY <2>1, <2>2, <2>3 DEF Gone
<1>4. ListenerThere'
  BY <1>1 DEF ConnectedInv, ListenerThere, Listening
<1>5. ASSUME NEW c \in Clients
      PROVE  Pauses(c)' => Pauses(c) /\ c[1] \in listener'
                             /\ stage'[c] \in {"routing", "kept", "failed"}
  <2>1. Pauses(c)' => Pauses(c)
    BY <1>1 DEF Pauses
  <2>2. QED
    BY <1>1, <2>1 DEF ConnectedInv, PausesHeard
<1>6. PausesHeard'
  BY <1>1, <1>5, HeardStays DEF Listening
<1>7. ASSUME NEW c \in Clients PROVE Informed(c)'
  BY <1>1 DEF ConnectedInv, Informed, WillPause
<1>8. QED
  BY <1>2, <1>3, <1>4, <1>6, <1>7 DEF ConnectedInv

LEMMA CloseTabConnected ==
  ASSUME ConnectedInv, NEW t \in Tabs, CloseTab(t)
  PROVE  ConnectedInv'
<1>1. /\ closing[t] = "state" /\ closing' = [closing EXCEPT ![t] = "tab"]
      /\ UNCHANGED <<open, activeTab, routesList, handled, wire, fetchOn, pausedAt, late,
                     dialog, click, blind>>
  BY DEF CloseTab
<1>2. t \notin open
  BY <1>1 DEF ConnectedInv, Gone
<1>3. \A u \in Tabs : closing'[u] # "no" => closing[u] # "no"
  BY <1>1 DEF ConnectedInv, ConnectedTypeOK
<1>4. Gone'
  BY <1>1, <1>3 DEF ConnectedInv, Gone
<1>5. closing' \in [Tabs -> {"no", "state", "tab"}]
  BY <1>1 DEF ConnectedInv, ConnectedTypeOK
<1>6. CASE pageClients[t] = NoClient /\ UNCHANGED <<clientVars, listener, dialogs>>
  <2> USE DEF clientVars
  <2>1. ConnectedTypeOK'
    BY <1>1, <1>5, <1>6 DEF ConnectedInv, ConnectedTypeOK
  <2>2. ListenerThere' /\ PausesHeard'
    BY <1>1, <1>6 DEF ConnectedInv, ListenerThere, PausesHeard, Pauses, Muddled, Listening
  <2>3. \A c \in Clients : Informed(c)'
    BY <1>1, <1>6 DEF ConnectedInv, Informed, WillPause
  <2>4. QED
    BY <1>4, <2>1, <2>2, <2>3 DEF ConnectedInv
<1>7. CASE pageClients[t] # NoClient /\ Drop(t)
  <2>1. PICK d : d = pageClients[t]
    OBVIOUS
  <2>2. d \in Clients /\ d[1] = t
    BY <1>7, <2>1 DEF ConnectedInv, ConnectedTypeOK
  <2>3. /\ stage' = [stage EXCEPT ![d] = "closed"]
        /\ pageClients' = [pageClients EXCEPT ![t] = NoClient]
        /\ listener' = listener \ {t} /\ dialogs' = dialogs \ {t}
    BY <1>7, <2>1 DEF Drop
  <2>4. /\ stage' \in [Clients -> Stages]
        /\ \A c \in Clients : c[1] # t => stage'[c] = stage[c]
    BY <2>2, <2>3 DEF ConnectedInv, ConnectedTypeOK, Stages
  <2>5. /\ pageClients' \in [Tabs -> Clients \cup {NoClient}] /\ pageClients'[t] = NoClient
        /\ \A u \in Tabs : u # t => pageClients'[u] = pageClients[u]
    BY <2>3 DEF ConnectedInv, ConnectedTypeOK
  <2>6. \A u \in Tabs : pageClients'[u] # NoClient =>
          pageClients'[u][1] = u /\ stage'[pageClients'[u]] = "kept"
    <3> SUFFICES ASSUME NEW u \in Tabs, pageClients'[u] # NoClient
                 PROVE  pageClients'[u][1] = u /\ stage'[pageClients'[u]] = "kept"
      OBVIOUS
    <3>1. u # t /\ pageClients'[u] = pageClients[u]
      BY <2>5
    <3>2. /\ pageClients[u] \in Clients /\ pageClients[u][1] = u
          /\ stage[pageClients[u]] = "kept"
      BY <3>1 DEF ConnectedInv, ConnectedTypeOK
    <3>3. QED
      BY <2>4, <3>1, <3>2
  <2>7. ConnectedTypeOK'
    BY <1>1, <1>5, <2>3, <2>4, <2>5, <2>6 DEF ConnectedInv, ConnectedTypeOK
  <2>8. ListenerThere'
    BY <1>1, <2>3, <2>4 DEF ConnectedInv, ListenerThere, Listening
  <2>9. ASSUME NEW c \in Clients
        PROVE  Pauses(c)' => Pauses(c) /\ c[1] \in listener'
                               /\ stage'[c] \in {"routing", "kept", "failed"}
    <3>1. Pauses(c)' => Pauses(c)
      BY <1>1 DEF Pauses
    <3>2. Pauses(c) => c[1] # t
      BY <1>2, PausesOpen
    <3>3. QED
      BY <2>3, <2>4, <3>1, <3>2 DEF ConnectedInv, PausesHeard
  <2>10. \A c \in Clients : Listening(c) /\ c[1] \in open => Listening(c)'
    BY <1>2, <2>4 DEF Listening
  <2>11. PausesHeard'
    BY <1>1, <2>9, <2>10, HeardStays
  <2>12. ASSUME NEW c \in Clients PROVE Informed(c)'
    <3>1. c[1] \in open' => /\ c[1] # t /\ stage'[c] = stage[c]
                            /\ pageClients'[c[1]] = pageClients[c[1]]
      BY <1>1, <1>2, <2>4, <2>5, ClientTab
    <3>2. WillPause(c)' <=> WillPause(c)
      BY <1>1 DEF WillPause
    <3>3. QED
      BY <1>1, <3>1, <3>2 DEF ConnectedInv, Informed
  <2>13. QED
    BY <1>4, <2>7, <2>8, <2>11, <2>12 DEF ConnectedInv
<1>8. QED
  BY <1>6, <1>7 DEF CloseTab

\* Which tab is active does not matter to clients and routes.
LEMMA ActiveTabConnected ==
  ASSUME ConnectedInv,
         \/ \E t \in Tabs : SelectTab(t) \/ FallBack(t)
         \/ ChooseTab
  PROVE  ConnectedInv'
<1> USE DEF clientVars, routeVars, dialogVars
<1>1. /\ activeTab' \in Tabs \cup {NoTab}
      /\ UNCHANGED <<open, clientVars, routeVars, dialogVars>>
      /\ closing' \in [Tabs -> {"no", "state", "tab"}]
      /\ \A u \in Tabs : closing'[u] # "no" => closing[u] # "no"
  BY DEF SelectTab, FallBack, ChooseTab, ConnectedInv, ConnectedTypeOK
<1>2. ConnectedTypeOK'
  BY <1>1 DEF ConnectedInv, ConnectedTypeOK
<1>3. Gone' /\ ListenerThere'
  BY <1>1 DEF ConnectedInv, Gone, ListenerThere, Listening
<1>4. PausesHeard'
  BY <1>1 DEF ConnectedInv, PausesHeard, Pauses, Muddled, Listening
<1>5. \A c \in Clients : Informed(c)'
  BY <1>1 DEF ConnectedInv, Informed, WillPause
<1>6. QED
  BY <1>2, <1>3, <1>4, <1>5 DEF ConnectedInv

-----------------------------------------------------------------------------
(* Clients are set up.                                                     *)

\* A client gets from one stage of its set-up to the next, or it fails.
LEMMA StageConnected ==
  ASSUME ConnectedInv, NEW c \in Clients, NEW next \in Stages,
         stage' = [stage EXCEPT ![c] = next],
         \/ stage[c] = "none" /\ next = "connecting"
         \/ stage[c] = "connecting" /\ next \in {"enabling", "closed"}
         \/ stage[c] \in {"enabling", "routing"} /\ next = "failed",
         UNCHANGED <<tabVars, pageClients, routeVars, dialogVars>>
  PROVE  ConnectedInv'
<1> USE DEF tabVars, routeVars, dialogVars
<1>1. /\ stage' \in [Clients -> Stages] /\ stage'[c] = next
      /\ \A d \in Clients : d # c => stage'[d] = stage[d]
  BY DEF ConnectedInv, ConnectedTypeOK
<1>2. ConnectedTypeOK'
  <2>1. ASSUME NEW t \in Tabs, pageClients[t] # NoClient
        PROVE  pageClients[t][1] = t /\ stage'[pageClients[t]] = "kept"
    <3>1. /\ pageClients[t] \in Clients /\ pageClients[t][1] = t
          /\ stage[pageClients[t]] = "kept"
      BY <2>1 DEF ConnectedInv, ConnectedTypeOK
    <3>2. QED
      BY <1>1, <3>1
  <2>2. QED
    BY <1>1, <2>1 DEF ConnectedInv, ConnectedTypeOK
<1>3. Gone'
  BY DEF ConnectedInv, Gone
<1>4. \A d \in Clients : Listening(d) => Listening(d)'
  BY <1>1 DEF Listening
<1>5. ListenerThere'
  BY <1>4 DEF ConnectedInv, ListenerThere
<1>6. ASSUME NEW d \in Clients
      PROVE  Pauses(d)' => Pauses(d) /\ d[1] \in listener'
                             /\ stage'[d] \in {"routing", "kept", "failed"}
  <2>1. Pauses(d)' => Pauses(d)
    BY DEF Pauses
  <2>2. Pauses(d) => d[1] \in listener /\ stage[d] \in {"routing", "kept", "failed"}
    BY DEF ConnectedInv, PausesHeard
  <2>3. QED
    BY <1>1, <2>1, <2>2
<1>7. PausesHeard'
  BY <1>4, <1>6, HeardStays
<1>8. ASSUME NEW d \in Clients PROVE Informed(d)'
  <2>1. (WillPause(d)' <=> WillPause(d)) /\ (stage'[d] = "routing" => stage[d] = "routing")
    BY <1>1 DEF WillPause
  <2>2. QED
    BY <2>1 DEF ConnectedInv, Informed
<1>9. QED
  BY <1>2, <1>3, <1>5, <1>7, <1>8 DEF ConnectedInv

LEMMA SetUpConnected ==
  ASSUME ConnectedInv, NEW c \in Clients, Connect(c) \/ Listen(c) \/ SetUpFails(c)
  PROVE  ConnectedInv'
<1>1. CASE Connect(c)
  BY <1>1, StageConnected DEF Connect, Stages
<1>2. CASE Listen(c)
  BY <1>2, StageConnected DEF Listen, Stages
<1>3. CASE SetUpFails(c)
  <2>1. PICK next : next = (IF stage[c] = "connecting" THEN "closed" ELSE "failed")
    OBVIOUS
  <2>2. stage' = [stage EXCEPT ![c] = next]
    BY <1>3, <2>1 DEF SetUpFails
  <2>3. CASE stage[c] = "connecting"
    BY <1>3, <2>1, <2>2, <2>3, StageConnected DEF SetUpFails, Stages
  <2>4. CASE stage[c] \in {"enabling", "routing"}
    BY <1>3, <2>1, <2>2, <2>4, StageConnected DEF SetUpFails, Stages
  <2>5. QED
    BY <1>3, <2>3, <2>4 DEF SetUpFails
<1>4. QED
  BY <1>1, <1>2, <1>3

LEMMA KeepConnected ==
  ASSUME ConnectedInv, NEW c \in Clients, Keep(c)
  PROVE  ConnectedInv'
<1> USE DEF tabVars, routeVars, dialogVars
<1>0. c[1] \in Tabs /\ c # NoClient
  BY ClientTab, TabsAssumption
<1>1. /\ stage[c] = "routing" /\ wire[c] = << >> /\ c[1] \in open
      /\ stage' = [stage EXCEPT ![c] = "kept"]
      /\ pageClients' = [pageClients EXCEPT ![c[1]] = c]
      /\ UNCHANGED <<tabVars, routeVars, dialogVars>>
  BY DEF Keep
<1>2. /\ stage' \in [Clients -> Stages] /\ stage'[c] = "kept"
      /\ \A d \in Clients : d # c => stage'[d] = stage[d]
  BY <1>1 DEF ConnectedInv, ConnectedTypeOK, Stages
<1>3. /\ pageClients' \in [Tabs -> Clients \cup {NoClient}] /\ pageClients'[c[1]] = c
      /\ \A t \in Tabs : t # c[1] => pageClients'[t] = pageClients[t]
  BY <1>0, <1>1 DEF ConnectedInv, ConnectedTypeOK
<1>4. ConnectedTypeOK'
  <2>1. ASSUME NEW t \in Tabs, pageClients'[t] # NoClient
        PROVE  pageClients'[t][1] = t /\ stage'[pageClients'[t]] = "kept"
    <3>1. CASE t = c[1]
      BY <1>2, <1>3, <3>1
    <3>2. CASE t # c[1]
      <4>1. /\ pageClients[t] \in Clients /\ pageClients[t][1] = t
            /\ stage[pageClients[t]] = "kept"
        BY <1>3, <2>1, <3>2 DEF ConnectedInv, ConnectedTypeOK
      <4>2. QED
        BY <1>2, <1>3, <3>2, <4>1
    <3>3. QED
      BY <3>1, <3>2
  <2>2. QED
    BY <1>1, <1>2, <1>3, <2>1 DEF ConnectedInv, ConnectedTypeOK
<1>5. Gone'
  BY <1>1 DEF ConnectedInv, Gone
<1>6. \A d \in Clients : Listening(d) => Listening(d)'
  BY <1>2 DEF Listening
<1>7. ListenerThere'
  BY <1>1, <1>6 DEF ConnectedInv, ListenerThere
<1>8. ASSUME NEW d \in Clients
      PROVE  Pauses(d)' => Pauses(d) /\ d[1] \in listener'
                             /\ stage'[d] \in {"routing", "kept", "failed"}
  <2>1. Pauses(d)' => Pauses(d)
    BY <1>1 DEF Pauses
  <2>2. Pauses(d) => d[1] \in listener /\ stage[d] \in {"routing", "kept", "failed"}
    BY DEF ConnectedInv, PausesHeard
  <2>3. QED
    BY <1>1, <1>2, <2>1, <2>2
<1>9. PausesHeard'
  BY <1>1, <1>6, <1>8, HeardStays
<1>10. ASSUME NEW d \in Clients PROVE Informed(d)'
  <2>1. WillPause(d)' <=> WillPause(d)
    BY <1>1 DEF WillPause
  <2>2. pageClients'[d[1]] = d => d = c \/ pageClients[d[1]] = d
    BY <1>3, ClientTab
  <2>3. stage'[d] = "routing" => stage[d] = "routing"
    BY <1>2
  <2>4. QED
    BY <1>1, <2>1, <2>2, <2>3 DEF ConnectedInv, Informed
<1>11. QED
  BY <1>4, <1>5, <1>7, <1>9, <1>10 DEF ConnectedInv

-----------------------------------------------------------------------------
(* Routes are applied to clients.                                          *)

LEMMA SentFacts ==
  ASSUME ConnectedTypeOK, NEW S \in SUBSET Clients, NEW x \in Commands, Sent(S, x)
  PROVE  /\ wire' \in [Clients -> Seq(Commands)]
         /\ \A c \in Clients \ S : wire'[c] = wire[c]
         /\ \A c \in S : /\ wire'[c] # << >> /\ wire'[c][Len(wire'[c])] = x
                         /\ \A i \in 1..Len(wire'[c]) :
                              wire'[c][i] = x
                                \/ (i \in 1..Len(wire[c]) /\ wire'[c][i] = wire[c][i])
<1>1. wire \in [Clients -> Seq(Commands)]
  BY DEF ConnectedTypeOK, Commands
<1>2. \A c \in Clients : wire'[c] = IF c \in S THEN Append(wire[c], x) ELSE wire[c]
  BY DEF Sent
<1>3. wire' \in [Clients -> Seq(Commands)]
  BY <1>1 DEF Sent
<1>4. ASSUME NEW c \in S
      PROVE  /\ wire'[c] # << >> /\ wire'[c][Len(wire'[c])] = x
             /\ \A i \in 1..Len(wire'[c]) :
                  wire'[c][i] = x
                    \/ (i \in 1..Len(wire[c]) /\ wire'[c][i] = wire[c][i])
  <2>1. PICK w \in Seq(Commands) : w = wire[c]
    BY <1>1
  <2>2. PICK v : v = Append(w, x)
    OBVIOUS
  <2>3. /\ v # << >> /\ Len(v) = Len(w) + 1 /\ v[Len(w) + 1] = x /\ Len(w) \in Nat
        /\ \A i \in 1..Len(w) : v[i] = w[i]
    BY <2>2, AppendFacts
  <2>4. \A i \in 1..Len(v) : v[i] = x \/ (i \in 1..Len(w) /\ v[i] = w[i])
    BY <2>3
  <2>5. wire'[c] = v
    BY <1>2, <2>1, <2>2
  <2>6. QED
    BY <2>1, <2>3, <2>4, <2>5
<1>5. QED
  BY <1>2, <1>3, <1>4

\* What applyRouteInterception does to what is remembered of clients.
Applied(S, list) ==
  /\ Gone' /\ ListenerThere' /\ PausesHeard'
  /\ wire' \in [Clients -> Seq(Commands)] /\ handled' \subseteq Clients
  /\ listener' \subseteq Tabs
  /\ \A c \in S : WillPause(c)' <=> list # {}
  /\ \A c \in Clients \ S : WillPause(c)' <=> WillPause(c)

LEMMA RoutesAppliedToClients ==
  ASSUME ConnectedInv, NEW S \in SUBSET Clients, NEW list, ApplyRoutes(S, list),
         \A c \in S : c[1] \in open /\ stage'[c] \in {"routing", "kept"},
         \A c \in Clients : Listening(c) => Listening(c)',
         \A c \in Clients : stage[c] \in {"routing", "kept", "failed"}
                              => stage'[c] \in {"routing", "kept", "failed"},
         UNCHANGED <<open, closing, fetchOn, pausedAt>>
  PROVE  Applied(S, list)
<1> DEFINE sent == IF list # {} THEN S ELSE S \ Fresh(S)
           x == IF list # {} THEN "enable" ELSE "disable"
<1>1. /\ ConnectedTypeOK /\ sent \in SUBSET Clients /\ x \in Commands /\ Sent(sent, x)
      /\ sent \subseteq S
  BY DEF ConnectedInv, ApplyRoutes, Commands
<1>2. /\ wire' \in [Clients -> Seq(Commands)]
      /\ \A c \in Clients \ sent : wire'[c] = wire[c]
      /\ \A c \in sent : /\ wire'[c] # << >> /\ wire'[c][Len(wire'[c])] = x
                         /\ \A i \in 1..Len(wire'[c]) :
                              wire'[c][i] = x
                                \/ (i \in 1..Len(wire[c]) /\ wire'[c][i] = wire[c][i])
  <2> HIDE DEF sent, x
  <2>1. QED
    BY <1>1, SentFacts
<1>3. /\ handled \subseteq handled' /\ handled' \subseteq Clients
      /\ listener \subseteq listener' /\ listener' \subseteq Tabs
      /\ list # {} => /\ \A c \in S : c[1] \in listener'
                      /\ \A c \in S : c[1] \notin listener => c \in handled'
      /\ \A t \in listener' : t \in listener \/ \E c \in S : c[1] = t /\ c \in handled'
  <2>0. handled \subseteq Clients /\ listener \subseteq Tabs
    BY <1>1 DEF ConnectedTypeOK
  <2>1. CASE list = {}
    BY <2>0, <2>1 DEF ApplyRoutes
  <2>2. CASE list # {}
    <3>1. handled' = handled \cup Fresh(S) /\ listener' = listener \cup {c[1] : c \in S}
      BY <2>2 DEF ApplyRoutes
    <3>2. /\ Fresh(S) \subseteq S
          /\ \A c \in S : c \in Fresh(S) <=> c[1] \notin listener
      BY DEF Fresh
    <3> HIDE DEF sent, x
    <3>3. handled \subseteq handled' /\ handled' \subseteq Clients /\ listener \subseteq listener'
      BY <2>0, <3>1, <3>2
    <3>4. listener' \subseteq Tabs
      BY <2>0, <3>1, ClientTab
    <3>5. /\ \A c \in S : c[1] \in listener'
          /\ \A c \in S : c[1] \notin listener => c \in handled'
      BY <3>1, <3>2
    <3>6. \A t \in listener' : t \in listener \/ \E c \in S : c[1] = t /\ c \in handled'
      BY <3>1, <3>5
    <3>7. QED
      BY <3>3, <3>4, <3>5, <3>6
  <2>3. QED
    BY <2>1, <2>2
<1>4. Gone'
  BY <1>1, <1>2 DEF ConnectedInv, Gone
<1>5. \A c \in S : Listening(c)'
  BY DEF Listening
<1>6. ListenerThere'
  BY <1>3, <1>5 DEF ConnectedInv, ListenerThere
<1>7. ASSUME NEW c \in Clients, Pauses(c)'
      PROVE  Pauses(c) \/ (c \in S /\ list # {})
  BY <1>2, <1>7 DEF Pauses
<1>8. PausesHeard'
  <2> SUFFICES ASSUME NEW c \in Clients, Pauses(c)'
               PROVE  /\ c[1] \in listener'
                      /\ c \in handled' \/ Muddled(c[1])'
                      /\ stage'[c] \in {"routing", "kept", "failed"}
    BY DEF PausesHeard
  <2> HIDE DEF sent, x
  <2>1. CASE Pauses(c)
    <3>1. /\ c[1] \in listener /\ stage[c] \in {"routing", "kept", "failed"}
          /\ c \in handled \/ Muddled(c[1])
      BY <2>1 DEF ConnectedInv, PausesHeard
    <3>2. Muddled(c[1]) => Muddled(c[1])'
      BY DEF Muddled
    <3>3. QED
      BY <1>3, <3>1, <3>2
  <2>2. CASE c \in S /\ list # {}
    <3>1. CASE c[1] \notin listener
      BY <1>3, <2>2, <3>1
    <3>2. CASE c[1] \in listener
      <4>1. PICK d \in Clients : d[1] = c[1] /\ d \in handled /\ Listening(d)
        BY <3>2 DEF ConnectedInv, ListenerThere
      <4>2. d # c => Muddled(c[1])'
        BY <1>5, <2>2, <4>1 DEF Muddled
      <4>3. QED
        BY <1>3, <2>2, <4>1, <4>2
    <3>3. QED
      BY <3>1, <3>2
  <2>3. QED
    BY <1>7, <2>1, <2>2
<1>9. ASSUME NEW c \in S PROVE WillPause(c)' <=> list # {}
  <2>1. CASE c \in sent
    BY <1>2, <2>1 DEF WillPause
  <2>2. CASE c \notin sent
    <3>1. list = {} /\ c[1] \notin listener /\ WillPause(c)' = WillPause(c)
      BY <1>2, <2>2 DEF Fresh, WillPause
    <3>2. ~Pauses(c)
      BY <3>1 DEF ConnectedInv, PausesHeard
    <3>3. ~WillPause(c)
      BY <1>1, <3>2, WillPausePauses
    <3>4. QED
      BY <3>1, <3>3
  <2>3. QED
    BY <2>1, <2>2
<1>10. ASSUME NEW c \in Clients \ S PROVE WillPause(c)' <=> WillPause(c)
  BY <1>1, <1>2 DEF WillPause
<1>11. QED
  BY <1>2, <1>3, <1>4, <1>6, <1>8, <1>9, <1>10 DEF Applied

LEMMA ApplyNetworkStateConnected ==
  ASSUME ConnectedInv, NEW c \in Clients, ApplyNetworkState(c)
  PROVE  ConnectedInv'
<1>1. /\ stage[c] = "enabling" /\ c[1] \in open
      /\ stage' = [stage EXCEPT ![c] = "routing"] /\ ApplyRoutes({c}, routesList)
      /\ UNCHANGED <<open, closing, activeTab, pageClients, routesList, fetchOn, pausedAt,
                     late, dialog, dialogs, click, blind>>
  BY DEF ApplyNetworkState, tabVars, dialogVars
<1>2. /\ stage' \in [Clients -> Stages] /\ stage'[c] = "routing"
      /\ \A d \in Clients : d # c => stage'[d] = stage[d]
  BY <1>1 DEF ConnectedInv, ConnectedTypeOK, Stages
<1>3. \A d \in Clients :
        /\ Listening(d) => Listening(d)'
        /\ stage[d] \in {"routing", "kept", "failed"}
             => stage'[d] \in {"routing", "kept", "failed"}
  BY <1>1, <1>2 DEF Listening
<1>4. Applied({c}, routesList)
  <2>1. {c} \in SUBSET Clients /\ \A d \in {c} : d[1] \in open /\ stage'[d] \in {"routing", "kept"}
    BY <1>1, <1>2
  <2>2. QED
    BY <1>1, <1>3, <2>1, RoutesAppliedToClients
<1>5. ConnectedTypeOK'
  <2>1. ASSUME NEW t \in Tabs, pageClients[t] # NoClient
        PROVE  pageClients[t][1] = t /\ stage'[pageClients[t]] = "kept"
    <3>1. /\ pageClients[t] \in Clients /\ pageClients[t][1] = t
          /\ stage[pageClients[t]] = "kept"
      BY <2>1 DEF ConnectedInv, ConnectedTypeOK
    <3>2. QED
      BY <1>1, <1>2, <3>1
  <2>2. QED
    BY <1>1, <1>2, <1>4, <2>1 DEF ConnectedInv, ConnectedTypeOK, Applied, Commands
<1>6. ASSUME NEW d \in Clients PROVE Informed(d)'
  <2>1. CASE d = c
    BY <1>1, <1>4, <2>1 DEF Applied, Informed
  <2>2. CASE d # c
    <3>1. (WillPause(d)' <=> WillPause(d)) /\ stage'[d] = stage[d]
      BY <1>2, <1>4, <2>2 DEF Applied
    <3>2. QED
      BY <1>1, <3>1 DEF ConnectedInv, Informed
  <2>3. QED
    BY <2>1, <2>2
<1>7. QED
  BY <1>4, <1>5, <1>6 DEF ConnectedInv, Applied

LEMMA ChangeRoutesConnected ==
  ASSUME ConnectedInv, NEW list \in SUBSET Routes, ChangeRoutes(list)
  PROVE  ConnectedInv'
<1>1. /\ routesList' = list /\ ApplyRoutes(ClientsToRefresh, list)
      /\ late' = (late \ ClientsToRefresh) \cup {c \in Clients : stage[c] = "routing"}
      /\ UNCHANGED <<open, closing, activeTab, stage, pageClients, fetchOn, pausedAt,
                     dialog, dialogs, click, blind>>
  BY DEF ChangeRoutes, tabVars, clientVars, dialogVars
<1>2. /\ ClientsToRefresh \in SUBSET Clients
      /\ \A c \in ClientsToRefresh : c[1] \in open /\ stage'[c] \in {"routing", "kept"}
  <2>1. ASSUME NEW c \in ClientsToRefresh
        PROVE  c \in Clients /\ c[1] \in open /\ stage[c] = "kept"
    <3>1. c \in Clients /\ c[1] \in open /\ \E t \in Tabs : pageClients[t] = c
      BY DEF ClientsToRefresh, Kept
    <3>2. QED
      BY <3>1, TabsAssumption DEF ConnectedInv, ConnectedTypeOK
  <2>2. QED
    BY <1>1, <2>1
<1>3. PICK S : S = ClientsToRefresh
  OBVIOUS
<1>4. Applied(S, list)
  BY <1>1, <1>2, <1>3, RoutesAppliedToClients DEF Listening
<1>5. ConnectedTypeOK'
  BY <1>1, <1>4 DEF ConnectedInv, ConnectedTypeOK, Applied, Commands
<1>6. ASSUME NEW c \in Clients PROVE Informed(c)'
  <2>1. c[1] \in open' /\ c \notin late' /\ (stage'[c] = "routing" \/ pageClients'[c[1]] = c)
          => c \in S
    BY <1>1, <1>3, ClientTab DEF ClientsToRefresh, Kept
  <2>2. QED
    BY <1>1, <1>4, <2>1 DEF Applied, Informed
<1>7. QED
  BY <1>4, <1>5, <1>6 DEF ConnectedInv, Applied

-----------------------------------------------------------------------------
(* The browser obeys, and requests are paused and let go.                  *)

LEMMA FetchCommandConnected ==
  ASSUME ConnectedInv, NEW c \in Clients, FetchCommand(c)
  PROVE  ConnectedInv'
<1> USE DEF tabVars, clientVars, dialogVars
<1>1. /\ wire[c] # << >> /\ wire' = [wire EXCEPT ![c] = Tail(@)]
      /\ \/ /\ Head(wire[c]) = "enable" /\ fetchOn' = fetchOn \cup {c} /\ pausedAt' = pausedAt
         \/ /\ Head(wire[c]) = "disable" /\ fetchOn' = fetchOn \ {c}
            /\ pausedAt' = [r \in Requests |-> pausedAt[r] \ {c}]
      /\ UNCHANGED <<tabVars, clientVars, routesList, listener, handled, late, dialogVars>>
  BY DEF FetchCommand
<1>2. PICK w \in Seq(Commands) : w = wire[c]
  BY DEF ConnectedInv, ConnectedTypeOK, Commands
<1>3. PICK v : v = Tail(w)
  OBVIOUS
<1>4. /\ v \in Seq(Commands) /\ Head(w) = w[1] /\ Len(w) \in Nat \ {0}
      /\ v = << >> <=> Len(w) = 1
      /\ Len(v) = Len(w) - 1
      /\ \A i \in 1..(Len(w) - 1) : v[i] = w[i + 1]
  BY <1>1, <1>2, <1>3, TailFacts
<1>5. /\ wire' \in [Clients -> Seq(Commands)] /\ wire'[c] = v
      /\ \A d \in Clients : d # c => wire'[d] = wire[d]
  BY <1>1, <1>2, <1>3, <1>4 DEF ConnectedInv, ConnectedTypeOK, Commands
<1>6. /\ fetchOn' \subseteq Clients /\ pausedAt' \in [Requests -> SUBSET Clients]
      /\ \A r \in Requests : pausedAt'[r] \subseteq pausedAt[r]
      /\ \A d \in Clients : d # c => (d \in fetchOn' <=> d \in fetchOn)
      /\ c \in fetchOn' <=> w[1] = "enable"
  BY <1>1, <1>2, <1>4 DEF ConnectedInv, ConnectedTypeOK
<1>7. ConnectedTypeOK'
  BY <1>1, <1>5, <1>6 DEF ConnectedInv, ConnectedTypeOK, Commands
<1>8. c[1] \in open
  BY <1>1 DEF ConnectedInv, Gone
<1>9. Gone'
  BY <1>1, <1>5, <1>6, <1>8 DEF ConnectedInv, Gone
<1>10. ListenerThere'
  BY <1>1 DEF ConnectedInv, ListenerThere, Listening
<1>11. ASSUME NEW d \in Clients, Pauses(d)' PROVE Pauses(d)
  <2>1. CASE d # c
    BY <1>5, <1>6, <1>11, <2>1 DEF Pauses
  <2>2. CASE d = c
    <3>1. CASE w[1] = "enable"
      <4>1. 1 \in 1..Len(w)
        BY <1>4
      <4>2. QED
        BY <1>2, <2>2, <3>1, <4>1 DEF Pauses
    <3>2. CASE \E i \in 1..Len(v) : v[i] = "enable"
      <4>1. PICK i \in 1..Len(v) : v[i] = "enable"
        BY <3>2
      <4>2. i + 1 \in 1..Len(w) /\ w[i + 1] = "enable"
        BY <1>4, <4>1
      <4>3. QED
        BY <1>2, <2>2, <4>2 DEF Pauses
    <3>3. CASE \E r \in Requests : c \in pausedAt'[r]
      BY <1>6, <2>2, <3>3 DEF Pauses
    <3>4. QED
      BY <1>5, <1>6, <1>11, <2>2, <3>1, <3>2, <3>3 DEF Pauses
  <2>3. QED
    BY <2>1, <2>2
<1>12. PausesHeard'
  <2>1. \A d \in Clients : Pauses(d)' => Pauses(d) /\ d[1] \in listener'
                              /\ stage'[d] \in {"routing", "kept", "failed"}
    BY <1>1, <1>11 DEF ConnectedInv, PausesHeard
  <2>2. QED
    BY <1>1, <2>1, HeardStays DEF Listening
<1>13. ASSUME NEW d \in Clients PROVE WillPause(d)' <=> WillPause(d)
  <2>1. CASE d # c
    BY <1>5, <1>6, <2>1 DEF WillPause
  <2>2. CASE d = c
    <3>1. CASE v = << >>
      BY <1>1, <1>2, <1>4, <1>5, <1>6, <2>2, <3>1 DEF WillPause
    <3>2. CASE v # << >>
      <4>1. Len(v) \in 1..(Len(w) - 1) /\ Len(v) + 1 = Len(w)
        BY <1>4, <3>2
      <4>2. v[Len(v)] = w[Len(w)]
        BY <1>4, <4>1
      <4>3. QED
        BY <1>1, <1>2, <1>5, <2>2, <3>2, <4>2 DEF WillPause
    <3>3. QED
      BY <3>1, <3>2
  <2>3. QED
    BY <2>1, <2>2
<1>14. \A d \in Clients : Informed(d)'
  BY <1>1, <1>13 DEF ConnectedInv, Informed
<1>15. QED
  BY <1>7, <1>9, <1>10, <1>12, <1>14 DEF ConnectedInv

\* A request of a tab is paused at most for clients of it that have Fetch on.
LEMMA PauseConnected ==
  ASSUME ConnectedInv, NEW r \in Requests, NEW S \in SUBSET Clients,
         S \subseteq pausedAt[r] \/ (TabOf[r] \in open /\ S = {c \in fetchOn : c[1] = TabOf[r]}),
         pausedAt' = [pausedAt EXCEPT ![r] = S],
         UNCHANGED <<tabVars, clientVars, routesList, listener, handled, wire, fetchOn, late,
                     dialogVars>>
  PROVE  ConnectedInv'
<1> USE DEF tabVars, clientVars, dialogVars
<1>1. /\ pausedAt' \in [Requests -> SUBSET Clients] /\ pausedAt'[r] = S
      /\ \A q \in Requests : q # r => pausedAt'[q] = pausedAt[q]
  BY DEF ConnectedInv, ConnectedTypeOK
<1>2. ConnectedTypeOK'
  BY <1>1 DEF ConnectedInv, ConnectedTypeOK
<1>3. Gone'
  BY <1>1 DEF ConnectedInv, Gone
<1>4. ListenerThere'
  BY DEF ConnectedInv, ListenerThere, Listening
<1>5. ASSUME NEW c \in Clients, Pauses(c)' PROVE Pauses(c)
  BY <1>1, <1>5 DEF Pauses
<1>6. \A d \in Clients : Pauses(d)' => Pauses(d) /\ d[1] \in listener'
                            /\ stage'[d] \in {"routing", "kept", "failed"}
  BY <1>5 DEF ConnectedInv, PausesHeard
<1>7. PausesHeard'
  BY <1>6, HeardStays DEF Listening
<1>8. \A c \in Clients : Informed(c)'
  BY DEF ConnectedInv, Informed, WillPause
<1>9. QED
  BY <1>2, <1>3, <1>4, <1>7, <1>8 DEF ConnectedInv

LEMMA HandlePausedConnected ==
  ASSUME ConnectedInv, NEW r \in Requests, NEW c \in Clients, HandlePaused(r, c)
  PROVE  ConnectedInv'
<1>1. pausedAt \in [Requests -> SUBSET Clients]
  BY DEF ConnectedInv, ConnectedTypeOK
<1>2. PICK S \in {pausedAt[r] \ {c}, {}} : pausedAt' = [pausedAt EXCEPT ![r] = S]
  BY DEF HandlePaused
<1>3. S \in SUBSET Clients /\ S \subseteq pausedAt[r]
  BY <1>1, <1>2
<1>4. QED
  BY <1>2, <1>3, PauseConnected DEF HandlePaused

-----------------------------------------------------------------------------
(* Dialogs and clicks.                                                     *)

LEMMA DialogConnected ==
  ASSUME ConnectedInv, NEW t \in Tabs,
         OpenDialog(t) \/ DialogOpening(t) \/ UserClosesDialog(t) \/ HandleDialog(t)
  PROVE  ConnectedInv'
<1>1. UNCHANGED <<tabVars, clientVars, routeVars>>
  BY DEF OpenDialog, DialogOpening, UserClosesDialog, HandleDialog
<1>2. dialog' \in [Tabs -> {"none", "opened", "told", "gone"}]
  BY DEF OpenDialog, DialogOpening, UserClosesDialog, HandleDialog, Shut,
         ConnectedInv, ConnectedTypeOK
<1>3. dialogs' \subseteq Tabs /\ blind' \subseteq Tabs
  BY DEF OpenDialog, DialogOpening, UserClosesDialog, HandleDialog,
         ConnectedInv, ConnectedTypeOK
<1>4. click' \in [Clicks -> [at: {"idle", "located", "pressing", "holding", "releasing", "done"},
                           tab: Tabs \cup {NoTab}, on: Tabs \cup {NoTab}]]
  BY DEF OpenDialog, DialogOpening, UserClosesDialog, HandleDialog, ResolveDialogWaiters,
         ClickEnds, ConnectedInv, ConnectedTypeOK
<1>5. ConnectedTypeOK'
  BY <1>1, <1>2, <1>3, <1>4
  DEF ConnectedInv, ConnectedTypeOK, tabVars, clientVars, routeVars
<1>6. QED
  BY <1>1, <1>5, ElsewhereKeeps DEF tabVars

LEMMA ClickConnected ==
  ASSUME ConnectedInv, NEW k \in Clicks, ClickStep(k)
  PROVE  ConnectedInv'
<1>1. UNCHANGED <<tabVars, clientVars, routeVars, dialog, dialogs, blind>>
  BY DEF ClickStep, ClickTab, ClickPresses, PressAnswered, ClickReleases, ReleaseAnswered
<1>2. click' \in [Clicks -> [at: {"idle", "located", "pressing", "holding", "releasing", "done"},
                           tab: Tabs \cup {NoTab}, on: Tabs \cup {NoTab}]]
  BY DEF ClickStep, ClickTab, ClickPresses, PressAnswered, ClickReleases, ReleaseAnswered,
         WaitForDialog, ClickEnds, ConnectedInv, ConnectedTypeOK
<1>3. ConnectedTypeOK'
  BY <1>1, <1>2 DEF ConnectedInv, ConnectedTypeOK, tabVars, clientVars, routeVars
<1>4. QED
  BY <1>1, <1>3, ElsewhereKeeps DEF tabVars

-----------------------------------------------------------------------------
(* The two properties of clients and routes.                               *)

LEMMA StutterConnected == ConnectedInv /\ UNCHANGED connectedVars => ConnectedInv'
<1> SUFFICES ASSUME ConnectedInv, UNCHANGED connectedVars PROVE ConnectedInv'
  OBVIOUS
<1>1. UNCHANGED <<open, closing, clientVars, routeVars>>
  BY DEF connectedVars, tabVars
<1>2. ConnectedTypeOK'
  BY DEF connectedVars, tabVars, clientVars, routeVars, dialogVars, ConnectedInv, ConnectedTypeOK
<1>3. QED
  BY <1>1, <1>2, ElsewhereKeeps

LEMMA RequestConnected ==
  ASSUME ConnectedInv, NEW r \in Requests,
         Send(r) \/ Redirect(r) \/ Respond(r) \/ LoadingFinished(r) \/ LoadingFailed(r)
  PROVE  ConnectedInv'
<1>0. fetchOn \subseteq Clients
  BY DEF ConnectedInv, ConnectedTypeOK
<1>1. CASE Send(r) \/ Redirect(r)
  <2>1. /\ TabOf[r] \in open /\ Pause(r)
        /\ UNCHANGED <<tabVars, clientVars, routesList, listener, handled, wire, fetchOn, late,
                     dialogVars>>
    BY <1>1 DEF Send, Redirect, Followed
  <2>2. PICK S : S = {c \in fetchOn : c[1] = TabOf[r]}
    OBVIOUS
  <2>3. S \in SUBSET Clients /\ pausedAt' = [pausedAt EXCEPT ![r] = S]
    BY <1>0, <2>1, <2>2 DEF Pause
  <2>4. QED
    BY <2>1, <2>2, <2>3, PauseConnected
<1>2. CASE LoadingFailed(r)
  <2>1. {} \in SUBSET Clients /\ {} \subseteq pausedAt[r]
    OBVIOUS
  <2>2. QED
    BY <1>2, <2>1, PauseConnected DEF LoadingFailed
<1>3. CASE Respond(r) \/ LoadingFinished(r)
  BY <1>3, StutterConnected DEF Respond, LoadingFinished
<1>4. QED
  BY <1>1, <1>2, <1>3

LEMMA NavigateConnected ==
  ASSUME ConnectedInv, NEW t \in Tabs, Navigate(t)
  PROVE  ConnectedInv'
<1>1. /\ UNCHANGED <<tabVars, clientVars, routeVars, dialog, click>>
      /\ dialogs' = dialogs \ {t}
      /\ blind' = blind \cup {u \in {t} : dialog[u] = "told"}
  BY DEF Navigate
<1>2. ConnectedTypeOK'
  BY <1>1 DEF ConnectedInv, ConnectedTypeOK, tabVars, clientVars, routeVars
<1>3. QED
  BY <1>1, <1>2, ElsewhereKeeps DEF tabVars

LEMMA NextConnected == ConnectedInv /\ [Next]_vars => ConnectedInv'
<1> SUFFICES ASSUME ConnectedInv, [Next]_vars PROVE ConnectedInv'
  OBVIOUS
<1>1. CASE ChooseTab \/ \E t \in Tabs : TabStep(t)
  BY <1>1, ActiveTabConnected, NewTabConnected, TabGoesConnected, DialogConnected DEF TabStep
<1>2. CASE \E c \in Clients : ClientStep(c)
  BY <1>2, SetUpConnected, ApplyNetworkStateConnected, KeepConnected, FetchCommandConnected
  DEF ClientStep
<1>3. CASE \E k \in Clicks : ClickStep(k)
  BY <1>3, ClickConnected
<1>4. CASE (\E g \in Routes : AddRoute(g)) \/ (\E S \in SUBSET Routes : RemoveRoute(S))
  <2>1. routesList \subseteq Routes
    BY DEF ConnectedInv, ConnectedTypeOK
  <2>2. PICK list \in SUBSET Routes : ChangeRoutes(list)
    BY <1>4, <2>1 DEF AddRoute, RemoveRoute
  <2>3. QED
    BY <2>2, ChangeRoutesConnected
<1>5. CASE \E r \in Requests, c \in Clients : HandlePaused(r, c)
  BY <1>5, HandlePausedConnected
<1>6. CASE \E c \in Clients : ListenToNetwork(c)
  BY <1>6, SetUpConnected DEF ListenToNetwork
<1>7. CASE \E t \in Tabs : Navigate(t) \/ ClearRequests(t) \/ CloseTabRequests(t)
  BY <1>7, NavigateConnected, StutterConnected, CloseTabConnected
  DEF ClearRequests, CloseTabRequests
<1>8. CASE \E r \in Requests :
       Send(r) \/ Redirect(r) \/ Respond(r) \/ LoadingFinished(r) \/ LoadingFailed(r)
  BY <1>8, RequestConnected
<1>9. CASE \/ \E x \in Readers : ReaderGoes(x) \/ \E k \in Entries : FetchBody(x, k)
           \/ \E k \in Entries, who \in Readers \cup {"collector"} : BodyComes(k, who)
  <2>1. UNCHANGED connectedVars
    BY <1>9 DEF ReaderGoes, FetchBody, BodyComes
  <2>2. QED
    BY <2>1, StutterConnected
<1>10. CASE UNCHANGED vars
  BY <1>10, StutterConnected DEF vars
<1>11. QED
  BY <1>1, <1>2, <1>3, <1>4, <1>5, <1>6, <1>7, <1>8, <1>9, <1>10 DEF Next

\* The invariant of tabs, clients and routes is inductive, whatever requests do.
THEOREM ConnectedInductive == Spec => []ConnectedInv
<1>1. Init => ConnectedInv
  BY InitConnected DEF Init
<1>2. QED
  BY <1>1, NextConnected, PTL DEF Spec

\* However set-ups, route changes and failures of several connections to a tab
\* meet, a client whose Fetch commands were obeyed pauses requests just when
\* there are routes.
THEOREM RoutesReach == Spec => []RoutesApplied
<1>1. ConnectedInv => RoutesApplied
  <2> SUFFICES ASSUME ConnectedInv, NEW t \in open, NEW c, c = pageClients[t],
                      c # NoClient, wire[c] = << >>, c \notin late
               PROVE  c \in fetchOn <=> routesList # {}
    BY DEF RoutesApplied
  <2>1. t \in Tabs
    BY DEF ConnectedInv, ConnectedTypeOK
  <2>2. c \in Clients /\ c[1] = t
    BY <2>1 DEF ConnectedInv, ConnectedTypeOK
  <2>3. Informed(c)
    BY <2>2 DEF ConnectedInv
  <2>4. QED
    BY <2>2, <2>3 DEF Informed, WillPause
<1>2. QED
  BY <1>1, ConnectedInductive, PTL

\* No request is paused for a client that does not listen, unless a tab has
\* several: it would never be let go.
THEOREM PausedAreHeard == Spec => []HeldAreHandled
<1>1. ConnectedInv => HeldAreHandled
  <2> SUFFICES ASSUME ConnectedInv, NEW r \in Requests, ~Muddled(TabOf[r]),
                      NEW c \in pausedAt[r]
               PROVE  c \in handled
    BY DEF HeldAreHandled
  <2>1. c \in Clients /\ c[1] = TabOf[r]
    BY DEF ConnectedInv, ConnectedTypeOK, Gone
  <2>2. Pauses(c)
    BY DEF Pauses
  <2>3. QED
    BY <2>1, <2>2 DEF ConnectedInv, PausesHeard
<1>2. QED
  BY <1>1, ConnectedInductive, PTL

-----------------------------------------------------------------------------
(* Requests: keys and entries.                                             *)

LEMMA KeyFacts ==
  ASSUME NEW k \in Entries
  PROVE  /\ k[1] \in Requests /\ k[2] \in 1..MaxHops /\ k = <<k[1], k[2]>>
         /\ TabOf[k[1]] \in Tabs
BY TabsAssumption DEF Entries

LEMMA LastFacts ==
  ASSUME RequestsTypeOK, NEW r \in Requests
  PROVE  /\ hop[r] # 0 => Last(r) \in Entries
         /\ hop[r] < MaxHops => <<r, hop[r] + 1>> \in Entries
         /\ \A k \in Entries : k = Last(r) <=> k[1] = r /\ k[2] = hop[r]
         /\ Last(r)[1] = r /\ Last(r)[2] = hop[r]
<1>1. hop[r] \in 0..MaxHops /\ MaxHops \in Nat
  BY RequestsAssumption DEF RequestsTypeOK
<1>2. (hop[r] # 0 => hop[r] \in 1..MaxHops) /\ (hop[r] < MaxHops => hop[r] + 1 \in 1..MaxHops)
  BY <1>1
<1>3. \A k \in Entries : k = Last(r) <=> k[1] = r /\ k[2] = hop[r]
  BY KeyFacts DEF Last
<1>4. QED
  BY <1>2, <1>3 DEF Entries, Last

LEMMA NewFields ==
  ASSUME NEW s \in Nat, NEW e, e = New(s)
  PROVE  /\ e \in Entry /\ e.state = s /\ e.response = "none" /\ ~e.available
         /\ ~e.finished /\ e.loaded = "no" /\ ~e.bodyRead /\ ~e.body
BY DEF New, Entry

LEMMA FinishedFields ==
  ASSUME NEW e \in Entry, NEW how \in {"done", "failed"}, NEW f, f = Finished(e, how)
  PROVE  /\ f \in Entry /\ f.state = e.state /\ f.response = e.response
         /\ f.available = e.available /\ f.bodyRead = e.bodyRead /\ f.body = e.body
         /\ f.finished /\ f.loaded # "no"
<1>1. PICK l : l = (IF e.loaded = "no" THEN how ELSE e.loaded)
  OBVIOUS
<1>2. l \in {"done", "failed"}
  BY <1>1 DEF Entry
<1>3. f = [e EXCEPT !.finished = TRUE, !.loaded = l]
  BY <1>1 DEF Finished, Entry
<1>4. QED
  BY <1>2, <1>3 DEF Entry

\* An entry whose waits were settled, and the response available.
Over(e, f) ==
  /\ f \in Entry /\ f.state = e.state /\ f.response = e.response
  /\ f.bodyRead = e.bodyRead /\ f.body = e.body
  /\ f.available /\ f.finished /\ f.loaded # "no"

LEMMA SettledFields ==
  ASSUME RequestsTypeOK, NEW s, NEW k \in Entries
  PROVE  /\ entry[k].state = s => Over(entry[k], Settled(s)[k])
         /\ entry[k].state # s => Settled(s)[k] = entry[k]
<1>1. entry[k] \in Entry
  BY DEF RequestsTypeOK
<1>2. CASE entry[k].state = s
  <2>1. PICK f : f = Finished(entry[k], "failed")
    OBVIOUS
  <2>2. /\ f \in Entry /\ f.state = entry[k].state /\ f.response = entry[k].response
        /\ f.bodyRead = entry[k].bodyRead /\ f.body = entry[k].body
        /\ f.finished /\ f.loaded # "no"
    BY <1>1, <2>1, FinishedFields
  <2>3. Settled(s)[k] = [f EXCEPT !.available = TRUE]
    BY <1>2, <2>1 DEF Settled
  <2>4. Over(entry[k], [f EXCEPT !.available = TRUE])
    BY <2>2 DEF Entry, Over
  <2>5. QED
    BY <1>2, <2>3, <2>4
<1>3. CASE entry[k].state # s
  BY <1>3 DEF Settled
<1>4. QED
  BY <1>2, <1>3

LEMMA HoppedFields ==
  ASSUME NEW e \in Entry, NEW f, f = Hopped(e)
  PROVE  /\ f \in Entry /\ f.state = e.state /\ f.response = "body"
         /\ f.bodyRead = e.bodyRead /\ f.body = e.body
         /\ f.available /\ f.finished /\ f.loaded # "no"
<1>1. PICK d : d = [e EXCEPT !.response = "body", !.available = TRUE]
  OBVIOUS
<1>2. /\ d \in Entry /\ d.state = e.state /\ d.response = "body" /\ d.available
      /\ d.bodyRead = e.bodyRead /\ d.body = e.body
  BY <1>1 DEF Entry
<1>3. f = Finished(d, "done")
  BY <1>1 DEF Hopped
<1>4. QED
  BY <1>2, <1>3, FinishedFields

-----------------------------------------------------------------------------
(* Requests: initially, and while other things go on.                      *)

LEMMA InitRequests == Init => RequestsInv
<1> SUFFICES ASSUME Init PROVE RequestsInv
  OBVIOUS
<1> USE RequestsAssumption DEF Init
<1>0. ConnectedInv
  BY InitConnected
<1>1. New(0) \in Entry /\ New(0).state = 0 /\ \A k \in Entries : entry[k] = New(0)
  BY NewFields
<1>2. RequestsTypeOK
  <2>1. hop \in [Requests -> 0..MaxHops] /\ lastState \in 0..MaxStates
        /\ net \in [Tabs -> 0..MaxStates] /\ bound \in [Clients -> 0..MaxStates]
    OBVIOUS
  <2>2. entry \in [Entries -> Entry]
    BY <1>1
  <2>3. reader \in [Readers -> [at: {"idle", "waiting", "reading", "got", "nothing"},
                             key: Entries \cup {<< >>}, late: BOOLEAN]]
    OBVIOUS
  <2>4. QED
    BY <1>0, <1>1, <2>1, <2>2, <2>3 DEF RequestsTypeOK, ConnectedInv
<1>3. << >> \notin Entries
  BY DEF Entries
<1>4. \A c \in Clients : ~Listening(c)
  BY DEF ConnectedInit, Listening
<1>5. NetStates
  BY <1>1, <1>4 DEF NetStates
<1>6. \A k \in Entries : ~Touched(k)
  BY <1>1, <1>3 DEF Touched
<1>7. TouchedUsed
  BY <1>6 DEF TouchedUsed
<1>8. Asking
  BY <1>3 DEF Asking
<1>9. Following /\ Settling
  BY <1>1, KeyFacts DEF Following, Settling, Current
<1>10. NoEmptyAnswers
  BY DEF NoEmptyAnswers
<1>11. QED
  BY <1>2, <1>5, <1>7, <1>8, <1>9, <1>10 DEF RequestsInv

\* What the life of tabs and clients means to requests: a tab that clients
\* were made for is not opened again.
TabsMove ==
  /\ \A t \in open' : t \in open \/ \A c \in Clients : c[1] = t => stage[c] = "none"
  /\ \A c \in Clients : stage[c] # "none" => stage'[c] # "none"
  /\ \A c \in Clients : Listening(c)' => Listening(c)

LEMMA StillOpen ==
  ASSUME TabsMove, NEW t, Used(t)
  PROVE  Used(t)' /\ (t \in open' => t \in open)
BY DEF TabsMove, Used

LEMMA TabsMoveRequests ==
  ASSUME RequestsInv, ConnectedTypeOK', TabsMove, UNCHANGED <<netVars, requestVars>>
  PROVE  RequestsInv'
<1> USE DEF netVars, requestVars
<1>1. RequestsTypeOK'
  BY DEF RequestsInv, RequestsTypeOK
<1>2. ASSUME NEW k \in Entries, Touched(k)
      PROVE  Used(TabOf[k[1]]) /\ Used(TabOf[k[1]])'
             /\ (TabOf[k[1]] \in open' => TabOf[k[1]] \in open)
  BY <1>2, StillOpen DEF RequestsInv, TouchedUsed
<1>3. NetStates'
  <2>1. ASSUME NEW c \in Clients, Listening(c)', c[1] \in open' PROVE net[c[1]] # 0
    <3>1. Listening(c) /\ stage[c] # "none"
      BY <2>1 DEF TabsMove, Listening
    <3>2. c[1] \in open
      BY <2>1, <3>1 DEF TabsMove
    <3>3. QED
      BY <3>1, <3>2 DEF RequestsInv, NetStates
  <2>2. QED
    BY <2>1 DEF RequestsInv, NetStates
<1>4. TouchedUsed'
  BY <1>2 DEF RequestsInv, TouchedUsed, Touched
<1>5. Asking' /\ Settling'
  BY DEF RequestsInv, Asking, Settling
<1>6. ASSUME NEW k \in Entries, Current(k)' PROVE Current(k)
  BY <1>2, <1>6 DEF Current, Touched, Last
<1>7. Following'
  BY <1>6 DEF RequestsInv, Following
<1>8. NoEmptyAnswers'
  <2> SUFFICES ASSUME NEW x \in Readers, NEW k, k = reader[x].key,
                      reader[x].at = "nothing", ~reader[x].late
               PROVE  \/ k \in hasty \/ k # Last(k[1]) \/ TabOf[k[1]] \notin open'
                      \/ entry[k].state # net[TabOf[k[1]]] \/ entry[k].response # "body"
    BY DEF NoEmptyAnswers, Last
  <2>1. k \in Entries /\ Touched(k)
    BY DEF RequestsInv, Asking, Touched
  <2>2. QED
    BY <1>2, <2>1 DEF RequestsInv, NoEmptyAnswers
<1>9. QED
  BY <1>1, <1>3, <1>4, <1>5, <1>7, <1>8 DEF RequestsInv

LEMMA StageMove ==
  ASSUME ConnectedTypeOK, NEW c \in Clients, NEW next \in Stages, open' \subseteq open,
         stage' = [stage EXCEPT ![c] = next],
         \/ next \in {"connecting", "closed"}
         \/ stage[c] \in {"enabling", "routing"} /\ next \in {"routing", "kept", "failed"}
  PROVE  TabsMove
<1>1. stage'[c] = next /\ \A d \in Clients : d # c => stage'[d] = stage[d]
  BY DEF ConnectedTypeOK
<1>2. QED
  BY <1>1 DEF TabsMove, Listening

LEMMA ClientMove ==
  ASSUME ConnectedTypeOK, NEW c \in Clients, ClientStep(c)
  PROVE  TabsMove
<1>1. CASE Connect(c)
  BY <1>1, StageMove DEF Connect, Stages, tabVars
<1>2. CASE ApplyNetworkState(c)
  BY <1>2, StageMove DEF ApplyNetworkState, Stages, tabVars
<1>3. CASE Keep(c)
  BY <1>3, StageMove DEF Keep, Stages, tabVars
<1>4. CASE SetUpFails(c)
  <2>1. PICK next : next = (IF stage[c] = "connecting" THEN "closed" ELSE "failed")
    OBVIOUS
  <2>2. stage' = [stage EXCEPT ![c] = next]
    BY <1>4, <2>1 DEF SetUpFails
  <2>3. QED
    BY <1>4, <2>1, <2>2, StageMove DEF SetUpFails, Stages, tabVars
<1>5. CASE FetchCommand(c)
  BY <1>5 DEF FetchCommand, TabsMove, Listening, tabVars, clientVars
<1>6. QED
  BY <1>1, <1>2, <1>3, <1>4, <1>5 DEF ClientStep

LEMMA CloseTabMove ==
  ASSUME ConnectedTypeOK, NEW t \in Tabs, CloseTab(t)
  PROVE  TabsMove
<1>1. CASE UNCHANGED <<open, stage>>
  BY <1>1 DEF TabsMove, Listening
<1>2. CASE pageClients[t] # NoClient /\ Drop(t)
  <2>1. PICK c : c = pageClients[t]
    OBVIOUS
  <2>2. c \in Clients /\ stage' = [stage EXCEPT ![c] = "closed"]
    BY <1>2, <2>1 DEF ConnectedTypeOK, Drop
  <2>3. QED
    BY <2>2, StageMove DEF CloseTab, Stages
<1>3. QED
  BY <1>1, <1>2 DEF CloseTab, clientVars

\* Every step in which requests are not looked at.
ConnectedStep ==
  \/ ChooseTab
  \/ \E t \in Tabs : TabStep(t)
  \/ \E c \in Clients : ClientStep(c)
  \/ \E k \in Clicks : ClickStep(k)
  \/ \E g \in Routes : AddRoute(g)
  \/ \E S \in SUBSET Routes : RemoveRoute(S)
  \/ \E r \in Requests, c \in Clients : HandlePaused(r, c)

LEMMA ConnectedMove == ConnectedTypeOK /\ ConnectedStep => TabsMove
<1> SUFFICES ASSUME ConnectedTypeOK, ConnectedStep PROVE TabsMove
  OBVIOUS
<1>1. CASE open' \subseteq open /\ stage' = stage
  BY <1>1 DEF TabsMove, Listening
<1>2. ASSUME NEW t \in Tabs, NewTab(t) PROVE TabsMove
  BY <1>2 DEF NewTab, TabsMove, Listening, clientVars
<1>3. ASSUME NEW c \in Clients, ClientStep(c) PROVE TabsMove
  BY <1>3, ClientMove
<1>4. ChooseTab => open' = open /\ stage' = stage
  BY DEF ChooseTab, clientVars
<1>5. ASSUME NEW t \in Tabs, TabStep(t), ~NewTab(t)
      PROVE  open' \subseteq open /\ stage' = stage
  BY <1>5 DEF TabStep, SelectTab, TabGoes, FallBack, OpenDialog, DialogOpening,
              UserClosesDialog, HandleDialog, tabVars, clientVars
<1>6. ASSUME NEW k \in Clicks, ClickStep(k) PROVE open' = open /\ stage' = stage
  BY <1>6 DEF ClickStep, ClickTab, ClickPresses, PressAnswered, ClickReleases,
              ReleaseAnswered, tabVars, clientVars
<1>7. ASSUME NEW list, ChangeRoutes(list) PROVE open' = open /\ stage' = stage
  BY <1>7 DEF ChangeRoutes, tabVars, clientVars
<1>8. ASSUME NEW r, NEW c, HandlePaused(r, c) PROVE open' = open /\ stage' = stage
  BY <1>8 DEF HandlePaused, tabVars, clientVars
<1>9. QED
  BY <1>1, <1>2, <1>3, <1>4, <1>5, <1>6, <1>7, <1>8
  DEF ConnectedStep, AddRoute, RemoveRoute

-----------------------------------------------------------------------------
(* A client listens, and what a tool does to the whole list.               *)

LEMMA ListenRequests ==
  ASSUME RequestsInv, ConnectedTypeOK', NEW c \in Clients, ListenToNetwork(c)
  PROVE  RequestsInv'
<1> USE RequestsAssumption
<1>0. PICK t \in Tabs : t = c[1]
  BY ClientTab
<1>1. /\ stage[c] = "connecting" /\ stage' = [stage EXCEPT ![c] = "enabling"]
      /\ t \in open /\ open' = open
      /\ UNCHANGED <<browser, hop, entry, asked, reader, hasty>>
  BY <1>0 DEF ListenToNetwork, Listen, tabVars, requestVars
<1>2. /\ RequestsTypeOK /\ lastState \in 0..MaxStates /\ net \in [Tabs -> 0..MaxStates]
      /\ bound \in [Clients -> 0..MaxStates] /\ MaxStates \in Nat
      /\ entry \in [Entries -> Entry] /\ ConnectedTypeOK
  BY DEF RequestsInv, RequestsTypeOK
<1>3. PICK n : n = (IF net[t] = 0 THEN lastState + 1 ELSE net[t])
  OBVIOUS
<1>4. /\ net' = [net EXCEPT ![t] = n] /\ bound' = [bound EXCEPT ![c] = n]
      /\ lastState' = (IF net[t] = 0 THEN lastState + 1 ELSE lastState)
      /\ net[t] = 0 => lastState < MaxStates
  BY <1>0, <1>2, <1>3 DEF ListenToNetwork
<1>5. /\ n \in 1..MaxStates /\ lastState' \in 0..MaxStates
      /\ n <= lastState' /\ lastState <= lastState'
      /\ n = net[t] \/ (net[t] = 0 /\ n > lastState)
  BY <1>2, <1>3, <1>4 DEF RequestsInv, NetStates
<1>6. /\ net' \in [Tabs -> 0..MaxStates] /\ net'[t] = n
      /\ \A u \in Tabs : u # t => net'[u] = net[u]
      /\ bound' \in [Clients -> 0..MaxStates] /\ bound'[c] = n
      /\ \A d \in Clients : d # c => bound'[d] = bound[d]
  BY <1>2, <1>4, <1>5
<1>7. /\ stage'[c] = "enabling" /\ \A d \in Clients : d # c => stage'[d] = stage[d]
      /\ \A d \in Clients : stage[d] # "none" => stage'[d] # "none"
      /\ \A d \in Clients : Listening(d)' => d = c \/ Listening(d)
  BY <1>1, <1>2 DEF ConnectedTypeOK, Listening
<1>8. RequestsTypeOK'
  BY <1>1, <1>2, <1>5, <1>6 DEF RequestsTypeOK
<1>9. NetStates'
  <2>1. \A u \in Tabs : net'[u] <= lastState'
    BY <1>2, <1>5, <1>6 DEF RequestsInv, NetStates
  <2>2. \A d \in Clients : bound'[d] <= lastState'
    BY <1>2, <1>5, <1>6 DEF RequestsInv, NetStates
  <2>3. \A k \in Entries : entry'[k].state <= lastState'
    BY <1>1, <1>2, <1>5 DEF RequestsInv, NetStates, Entry
  <2>4. \A u, v \in Tabs : net'[u] = net'[v] /\ net'[u] # 0 => u = v
    <3>1. \A u \in Tabs : u # t => net[u] # n
      BY <1>2, <1>5 DEF RequestsInv, NetStates
    <3>2. QED
      BY <1>6, <3>1 DEF RequestsInv, NetStates
  <2>5. \A d \in Clients : Listening(d)' /\ d[1] \in open' => net'[d[1]] # 0
    <3> SUFFICES ASSUME NEW d \in Clients, Listening(d)', d[1] \in open'
                 PROVE  net'[d[1]] # 0
      OBVIOUS
    <3>1. CASE d[1] = t
      BY <1>5, <1>6, <3>1
    <3>2. CASE d[1] # t
      BY <1>0, <1>1, <1>6, <1>7, <3>2, ClientTab DEF RequestsInv, NetStates
    <3>3. QED
      BY <3>1, <3>2
  <2>6. QED
    BY <2>1, <2>2, <2>3, <2>4, <2>5 DEF NetStates
<1>10. \A u \in Tabs : net[u] # 0 => net'[u] = net[u]
  BY <1>5, <1>6
<1>11. ASSUME NEW k \in Entries, Touched(k)
       PROVE  /\ Used(TabOf[k[1]])'
              /\ TabOf[k[1]] \in open =>
                   net[TabOf[k[1]]] # 0 /\ net'[TabOf[k[1]]] = net[TabOf[k[1]]]
  BY <1>7, <1>10, <1>11, KeyFacts DEF RequestsInv, TouchedUsed, Used
<1>12. TouchedUsed'
  BY <1>1, <1>11 DEF RequestsInv, TouchedUsed, Touched
<1>13. Asking' /\ Settling'
  BY <1>1 DEF RequestsInv, Asking, Settling
<1>14. ASSUME NEW k \in Entries, Current(k)' PROVE Current(k)
  BY <1>1, <1>11, <1>14 DEF Current, Touched, Last
<1>15. Following'
  BY <1>1, <1>14 DEF RequestsInv, Following
<1>16. NoEmptyAnswers'
  <2> SUFFICES ASSUME NEW x \in Readers, NEW k, k = reader[x].key,
                      reader[x].at = "nothing", ~reader[x].late
               PROVE  \/ k \in hasty \/ k # Last(k[1]) \/ TabOf[k[1]] \notin open
                      \/ entry[k].state # net'[TabOf[k[1]]] \/ entry[k].response # "body"
    BY <1>1 DEF NoEmptyAnswers, Last
  <2>1. k \in Entries /\ Touched(k)
    BY DEF RequestsInv, Asking, Touched
  <2>2. QED
    BY <1>11, <2>1 DEF RequestsInv, NoEmptyAnswers
<1>17. QED
  BY <1>8, <1>9, <1>12, <1>13, <1>15, <1>16 DEF RequestsInv

\* The list of a tab is settled and replaced, or dropped with its tab.
LEMMA ResetRequests ==
  ASSUME RequestsInv, ConnectedTypeOK', TabsMove, NEW t \in Tabs, NEW n \in Nat,
         entry' = IF net[t] = 0 THEN entry ELSE Settled(net[t]),
         net' = [net EXCEPT ![t] = n], lastState' \in 0..MaxStates,
         \/ n = lastState + 1 /\ lastState' = lastState + 1
         \/ n = 0 /\ lastState' = lastState /\ t \notin open',
         UNCHANGED <<bound, browser, hop, asked, reader, hasty>>
  PROVE  RequestsInv'
<1> USE RequestsAssumption
<1>1. /\ RequestsTypeOK /\ lastState \in 0..MaxStates /\ net \in [Tabs -> 0..MaxStates]
      /\ bound \in [Clients -> 0..MaxStates] /\ MaxStates \in Nat
      /\ entry \in [Entries -> Entry]
  BY DEF RequestsInv, RequestsTypeOK
<1>2. /\ net' \in [Tabs -> 0..MaxStates] /\ net'[t] = n
      /\ \A u \in Tabs : u # t => net'[u] = net[u]
  BY <1>1
<1>3. ASSUME NEW k \in Entries
      PROVE  /\ entry'[k] \in Entry /\ entry'[k].state = entry[k].state
             /\ entry'[k].response = entry[k].response
             /\ entry[k].available => entry'[k].available
             /\ entry[k].finished => entry'[k].finished
             /\ entry[k].loaded # "no" => entry'[k].loaded # "no"
             /\ entry'[k] = entry[k] \/ (entry[k].state = net[t] /\ net[t] # 0)
  <2>1. CASE net[t] = 0
    BY <1>1, <2>1
  <2>2. CASE net[t] # 0
    <3>1. entry'[k] = Settled(net[t])[k]
      BY <2>2
    <3>2. /\ entry[k].state = net[t] => Over(entry[k], Settled(net[t])[k])
          /\ entry[k].state # net[t] => Settled(net[t])[k] = entry[k]
      BY <1>1, SettledFields
    <3>3. QED
      BY <1>1, <2>2, <3>1, <3>2 DEF Over
  <2>3. QED
    BY <2>1, <2>2
<1>4. entry' \in [Entries -> Entry]
  <2>1. DOMAIN entry' = Entries /\ entry' = [k \in Entries |-> entry'[k]]
    BY <1>1 DEF Settled
  <2>2. QED
    BY <1>3, <2>1
<1>5. RequestsTypeOK'
  BY <1>1, <1>2, <1>3, <1>4 DEF RequestsTypeOK
<1>6. NetStates'
  <2>1. \A u \in Tabs : net'[u] <= lastState'
    BY <1>1, <1>2 DEF RequestsInv, NetStates
  <2>2. \A d \in Clients : bound'[d] <= lastState'
    BY <1>1 DEF RequestsInv, NetStates
  <2>3. \A k \in Entries : entry'[k].state <= lastState'
    BY <1>1, <1>3 DEF RequestsInv, NetStates, Entry
  <2>4. \A u, v \in Tabs : net'[u] = net'[v] /\ net'[u] # 0 => u = v
    <3>1. \A u \in Tabs : u # t /\ net[u] # 0 => net[u] # n
      BY <1>1 DEF RequestsInv, NetStates
    <3>2. QED
      BY <1>2, <3>1 DEF RequestsInv, NetStates
  <2>5. \A d \in Clients : Listening(d)' /\ d[1] \in open' => net'[d[1]] # 0
    <3> SUFFICES ASSUME NEW d \in Clients, Listening(d)', d[1] \in open'
                 PROVE  net'[d[1]] # 0
      OBVIOUS
    <3>1. CASE d[1] = t
      BY <1>1, <1>2, <3>1
    <3>2. CASE d[1] # t
      <4>1. Listening(d) /\ stage[d] # "none"
        BY DEF TabsMove, Listening
      <4>2. d[1] \in open
        BY <4>1 DEF TabsMove
      <4>3. QED
        BY <1>2, <3>2, <4>1, <4>2, ClientTab DEF RequestsInv, NetStates
    <3>3. QED
      BY <3>1, <3>2
  <2>6. QED
    BY <2>1, <2>2, <2>3, <2>4, <2>5 DEF NetStates
<1>7. ASSUME NEW k \in Entries, Touched(k), NEW u, u = TabOf[k[1]]
      PROVE  /\ Used(u) /\ Used(u)' /\ (u \in open' => u \in open)
             /\ u \in open' => net[u] # 0 /\ net'[u] # 0
             /\ u \in open' => net'[u] = net[u] \/ net'[u] > lastState
  <2>1. Used(u) /\ (u \in open => net[u] # 0) /\ u \in Tabs
    BY <1>7, KeyFacts DEF RequestsInv, TouchedUsed
  <2>2. Used(u)' /\ (u \in open' => u \in open)
    BY <2>1, StillOpen
  <2>3. QED
    BY <1>1, <1>2, <2>1, <2>2
<1>8. \A k \in Entries : Touched(k)' => Touched(k)
  BY <1>3 DEF Touched
<1>9. TouchedUsed'
  BY <1>7, <1>8 DEF RequestsInv, TouchedUsed
<1>10. Asking'
  BY <1>3 DEF RequestsInv, Asking
<1>11. Settling'
  BY <1>3 DEF RequestsInv, Settling
<1>12. ASSUME NEW k \in Entries, Current(k)' PROVE Current(k) /\ entry'[k] = entry[k]
  <2>1. PICK u \in Tabs : u = TabOf[k[1]]
    BY KeyFacts
  <2>2. /\ k = Last(k[1]) /\ u \in open' /\ entry[k].state = net'[u] /\ entry[k].state # 0
    BY <1>3, <1>12, <2>1 DEF Current, Last
  <2>3. u \in open /\ net'[u] = net[u]
    <3>1. entry[k].state <= lastState /\ entry[k].state \in Nat
      BY <1>1 DEF RequestsInv, NetStates, Entry
    <3>2. QED
      BY <1>1, <1>7, <2>1, <2>2, <3>1 DEF Touched
  <2>4. u # t
    <3>1. entry[k].state <= lastState /\ entry[k].state \in Nat
      BY <1>1 DEF RequestsInv, NetStates, Entry
    <3>2. QED
      BY <1>1, <1>2, <2>2, <3>1
  <2>5. net[t] # 0 => net[u] # net[t]
    BY <2>4 DEF RequestsInv, NetStates
  <2>6. QED
    BY <1>3, <2>1, <2>2, <2>3, <2>5 DEF Current
<1>13. Following'
  BY <1>12 DEF RequestsInv, Following
<1>14. NoEmptyAnswers'
  <2> SUFFICES ASSUME NEW x \in Readers, NEW k, k = reader[x].key,
                      reader[x].at = "nothing", ~reader[x].late
               PROVE  \/ k \in hasty \/ k # Last(k[1]) \/ TabOf[k[1]] \notin open'
                      \/ entry'[k].state # net'[TabOf[k[1]]] \/ entry'[k].response # "body"
    BY DEF NoEmptyAnswers, Last
  <2>1. k \in Entries /\ Touched(k)
    BY DEF RequestsInv, Asking, Touched
  <2>2. entry[k].state <= lastState /\ entry[k].state \in Nat
    BY <1>1, <2>1 DEF RequestsInv, NetStates, Entry
  <2>3. PICK u : u = TabOf[k[1]]
    OBVIOUS
  <2>4. u \in open' => u \in open /\ (net'[u] = net[u] \/ net'[u] > lastState)
    BY <1>7, <2>1, <2>3
  <2>5. entry'[k].state = entry[k].state /\ entry'[k].response = entry[k].response
    BY <1>3, <2>1
  <2>6. \/ k \in hasty \/ k # Last(k[1]) \/ u \notin open
        \/ entry[k].state # net[u] \/ entry[k].response # "body"
    BY <2>3 DEF RequestsInv, NoEmptyAnswers
  <2>7. net'[u] > lastState => entry[k].state # net'[u]
    BY <1>1, <2>2
  <2>8. QED
    BY <2>3, <2>4, <2>5, <2>6, <2>7
<1>15. QED
  BY <1>5, <1>6, <1>9, <1>10, <1>11, <1>13, <1>14 DEF RequestsInv

LEMMA NavigateRequests ==
  ASSUME RequestsInv, ConnectedTypeOK', NEW t \in Tabs, Navigate(t)
  PROVE  RequestsInv'
<1>1. TabsMove
  BY DEF Navigate, TabsMove, Listening, tabVars, clientVars
<1>2. lastState \in 0..MaxStates /\ MaxStates \in Nat /\ lastState < MaxStates
  BY RequestsAssumption DEF RequestsInv, RequestsTypeOK, Navigate
<1>3. PICK n \in Nat : n = lastState + 1 /\ n \in 0..MaxStates
  BY <1>2
<1>4. QED
  BY <1>1, <1>3, ResetRequests DEF Navigate

LEMMA CloseTabRequestsKeeps ==
  ASSUME RequestsInv, ConnectedInv, ConnectedTypeOK', NEW t \in Tabs, CloseTabRequests(t)
  PROVE  RequestsInv'
<1>1. TabsMove
  BY CloseTabMove DEF CloseTabRequests, ConnectedInv
<1>2. t \notin open' /\ lastState \in 0..MaxStates
  BY DEF CloseTabRequests, CloseTab, ConnectedInv, Gone, RequestsInv, RequestsTypeOK
<1>3. CASE net[t] # 0 /\ entry' = Settled(net[t]) /\ net' = [net EXCEPT ![t] = 0]
  BY <1>1, <1>2, <1>3, ResetRequests DEF CloseTabRequests
<1>4. CASE UNCHANGED <<entry, net>>
  BY <1>1, <1>4, TabsMoveRequests DEF CloseTabRequests, netVars, requestVars
<1>5. QED
  BY <1>3, <1>4 DEF CloseTabRequests

LEMMA NetStatesKept ==
  ASSUME NetStates, UNCHANGED <<open, stage, net, bound, lastState>>,
         \A k \in Entries : entry'[k].state = entry[k].state \/ entry'[k].state <= lastState
  PROVE  NetStates'
BY DEF NetStates, Listening

LEMMA ClearRequestsKeeps ==
  ASSUME RequestsInv, ConnectedTypeOK', NEW t \in Tabs, ClearRequests(t)
  PROVE  RequestsInv'
<1>1. /\ RequestsTypeOK /\ entry \in [Entries -> Entry] /\ lastState \in Nat
      /\ net \in [Tabs -> 0..MaxStates]
  BY RequestsAssumption DEF RequestsInv, RequestsTypeOK
<1>2. /\ net[t] # 0
      /\ UNCHANGED <<open, stage, net, bound, lastState, browser, hop, asked, reader, hasty>>
  BY DEF ClearRequests, connectedVars, tabVars, clientVars, netVars
<1>3. entry' = [k \in Entries |-> IF entry[k].state = net[t]
                                 THEN [entry[k] EXCEPT !.state = 0, !.bodyRead = FALSE]
                                 ELSE entry[k]]
  BY DEF ClearRequests
<1>4. ASSUME NEW k \in Entries
      PROVE  /\ entry'[k] \in Entry /\ entry'[k].response = entry[k].response
             /\ entry'[k] = entry[k] \/ (entry'[k].state = 0 /\ entry[k].state = net[t])
  <2>1. entry[k] \in Entry
    BY <1>1
  <2>2. CASE entry[k].state = net[t]
    <3>1. PICK d : d = [entry[k] EXCEPT !.state = 0]
      OBVIOUS
    <3>2. d \in Entry /\ d.state = 0 /\ d.response = entry[k].response
      BY <2>1, <3>1 DEF Entry
    <3>3. entry'[k] = [d EXCEPT !.bodyRead = FALSE]
      BY <1>3, <2>1, <2>2, <3>1 DEF Entry
    <3>4. QED
      BY <2>2, <3>2, <3>3 DEF Entry
  <2>3. CASE entry[k].state # net[t]
    BY <1>3, <2>1, <2>3
  <2>4. QED
    BY <2>2, <2>3
<1>5. entry' \in [Entries -> Entry]
  <2>1. DOMAIN entry' = Entries /\ entry' = [k \in Entries |-> entry'[k]]
    BY <1>3
  <2>2. QED
    BY <1>4, <2>1
<1>6. RequestsTypeOK'
  BY <1>1, <1>2, <1>4, <1>5 DEF RequestsTypeOK
<1>7. NetStates'
  BY <1>1, <1>2, <1>4, NetStatesKept DEF RequestsInv
<1>8. \A k \in Entries : (Touched(k)' => Touched(k)) /\ (Current(k)' => Current(k) /\ entry'[k] = entry[k])
  BY <1>2, <1>4 DEF Touched, Current, Last
<1>9. TouchedUsed'
  BY <1>2, <1>8 DEF RequestsInv, TouchedUsed, Used
<1>10. Asking' /\ Settling'
  BY <1>2, <1>4 DEF RequestsInv, Asking, Settling
<1>11. Following'
  BY <1>2, <1>8 DEF RequestsInv, Following
<1>12. NoEmptyAnswers'
  <2> SUFFICES ASSUME NEW x \in Readers, NEW k, k = reader[x].key,
                      reader[x].at = "nothing", ~reader[x].late
               PROVE  \/ k \in hasty \/ k # Last(k[1]) \/ TabOf[k[1]] \notin open
                      \/ entry'[k].state # net[TabOf[k[1]]] \/ entry'[k].response # "body"
    BY <1>2 DEF NoEmptyAnswers, Last
  <2>1. k \in Entries /\ Touched(k)
    BY DEF RequestsInv, Asking, Touched
  <2>2. TabOf[k[1]] \in open => net[TabOf[k[1]]] # 0
    BY <2>1 DEF RequestsInv, TouchedUsed
  <2>3. \/ k \in hasty \/ k # Last(k[1]) \/ TabOf[k[1]] \notin open
        \/ entry[k].state # net[TabOf[k[1]]] \/ entry[k].response # "body"
    BY DEF RequestsInv, NoEmptyAnswers
  <2>4. QED
    BY <1>4, <2>1, <2>2, <2>3
<1>13. QED
  BY <1>6, <1>7, <1>9, <1>10, <1>11, <1>12 DEF RequestsInv

-----------------------------------------------------------------------------
(* Events of the network.                                                  *)

LEMMA HearsFacts ==
  ASSUME RequestsInv, NEW r \in Requests
  PROVE  /\ Hears(r) \in 0..MaxStates /\ Hears(r) <= lastState
         /\ Hears(r) # 0 => /\ Used(TabOf[r])
                            /\ TabOf[r] \in open => net[TabOf[r]] # 0
<1> DEFINE L == {c \in Clients : c[1] = TabOf[r] /\ Listening(c)}
<1>0. /\ lastState \in 0..MaxStates /\ MaxStates \in Nat
      /\ bound \in [Clients -> 0..MaxStates]
  BY RequestsAssumption DEF RequestsInv, RequestsTypeOK
<1>1. CASE L = {}
  BY <1>0, <1>1 DEF Hears
<1>2. CASE L # {}
  <2>1. PICK c : c = (CHOOSE d \in L : TRUE)
    OBVIOUS
  <2>2. c \in L
    BY <1>2, <2>1
  <2>3. Hears(r) = bound[c]
    BY <1>2, <2>1 DEF Hears
  <2>4. bound[c] \in 0..MaxStates /\ bound[c] <= lastState
    BY <1>0, <2>2 DEF RequestsInv, NetStates
  <2>5. Used(TabOf[r]) /\ (TabOf[r] \in open => net[TabOf[r]] # 0)
    BY <2>2 DEF Used, Listening, RequestsInv, NetStates
  <2>6. QED
    BY <2>3, <2>4, <2>5
<1>3. QED
  BY <1>1, <1>2

LEMMA SendRequests ==
  ASSUME RequestsInv, ConnectedTypeOK', NEW r \in Requests, Send(r)
  PROVE  RequestsInv'
<1> USE RequestsAssumption
<1>1. /\ browser[r] = "unsent" /\ browser' = [browser EXCEPT ![r] = "sent"]
      /\ hop' = [hop EXCEPT ![r] = 1]
      /\ entry' = [entry EXCEPT ![<<r, 1>>] = New(Hears(r))]
      /\ UNCHANGED <<open, stage, net, bound, lastState, asked, reader, hasty>>
  BY DEF Send, tabVars, clientVars, netVars
<1>2. /\ RequestsTypeOK /\ entry \in [Entries -> Entry] /\ lastState \in Nat
      /\ hop \in [Requests -> 0..MaxHops]
      /\ browser \in [Requests -> {"unsent", "sent", "responded", "over", "failed"}]
  BY DEF RequestsInv, RequestsTypeOK
<1>3. /\ hop[r] = 0 /\ hop'[r] = 1 /\ browser'[r] = "sent"
      /\ \A q \in Requests : q # r => hop'[q] = hop[q] /\ browser'[q] = browser[q]
  BY <1>1, <1>2 DEF RequestsInv, Following
<1>4. PICK a \in Entries : a = <<r, 1>> /\ a[1] = r /\ a[2] = 1
  <2>1. 1 \in 1..MaxHops
    OBVIOUS
  <2>2. <<r, 1>> \in Entries
    BY <2>1 DEF Entries
  <2>3. QED
    BY <2>2
<1>5. PICK e : e = New(Hears(r))
  OBVIOUS
<1>6. /\ Hears(r) \in Nat /\ Hears(r) <= lastState
      /\ Hears(r) # 0 => Used(TabOf[r]) /\ (TabOf[r] \in open => net[TabOf[r]] # 0)
  BY HearsFacts
<1>7. /\ e \in Entry /\ e.state = Hears(r) /\ e.response = "none" /\ ~e.available
      /\ ~e.finished /\ e.loaded = "no" /\ ~e.bodyRead /\ ~e.body
  BY <1>5, <1>6, NewFields
<1>8. /\ entry' \in [Entries -> Entry] /\ entry'[a] = e
      /\ \A k \in Entries : k # a => entry'[k] = entry[k]
  BY <1>1, <1>2, <1>4, <1>5, <1>7
<1>9. \A k \in Entries : k[1] = r => ~Touched(k)
  <2>1. \A k \in Entries : k[1] = r => ~(k[2] <= hop[r])
    BY <1>3, KeyFacts
  <2>2. QED
    BY <2>1 DEF RequestsInv, TouchedUsed
<1>10. RequestsTypeOK'
  <2>1. hop' \in [Requests -> 0..MaxHops]
        /\ browser' \in [Requests -> {"unsent", "sent", "responded", "over", "failed"}]
    BY <1>1, <1>2
  <2>2. \A k \in Entries : k[2] > hop'[k[1]] => entry'[k].state = 0
    BY <1>2, <1>3, <1>4, <1>8, KeyFacts DEF RequestsTypeOK
  <2>3. QED
    BY <1>1, <1>2, <1>8, <2>1, <2>2 DEF RequestsTypeOK
<1>11. NetStates'
  BY <1>1, <1>6, <1>7, <1>8, NetStatesKept DEF RequestsInv
<1>12. \A k \in Entries : Touched(k)' => Touched(k) \/ (k = a /\ e.state # 0)
  BY <1>1, <1>8 DEF Touched
<1>13. TouchedUsed'
  <2> SUFFICES ASSUME NEW k \in Entries, Touched(k)'
               PROVE  /\ k[2] <= hop'[k[1]]
                      /\ Used(TabOf[k[1]])
                      /\ TabOf[k[1]] \in open => net[TabOf[k[1]]] # 0
    BY <1>1 DEF TouchedUsed, Used
  <2>1. CASE Touched(k)
    BY <1>3, <1>9, <2>1, KeyFacts DEF RequestsInv, TouchedUsed
  <2>2. CASE k = a /\ e.state # 0
    BY <1>3, <1>4, <1>6, <1>7, <2>2
  <2>3. QED
    BY <1>12, <2>1, <2>2
<1>14. Asking'
  <2>1. \A k \in Entries, who \in Readers \cup {"collector"} : <<k, who>> \in asked => k[1] # r
    BY <1>9 DEF Touched
  <2>2. \A x \in Readers : reader[x].key \in Entries => reader[x].key # a
    BY <1>4, <1>9 DEF Touched
  <2>3. QED
    BY <1>1, <1>3, <1>8, <2>1, <2>2, KeyFacts DEF RequestsInv, Asking
<1>15. ASSUME NEW k \in Entries, Current(k)'
       PROVE  k = a \/ (k[1] # r /\ k # a /\ Current(k))
  BY <1>1, <1>3, <1>4, <1>8, <1>15, KeyFacts DEF Current, Last
<1>16. Following'
  <2>1. \A q \in Requests : browser'[q] = "unsent" <=> hop'[q] = 0
    BY <1>3 DEF RequestsInv, Following
  <2>2. \A k \in Entries : k[1] # r => browser'[k[1]] = browser[k[1]]
    BY <1>3, KeyFacts
  <2>3. browser'[a[1]] = "sent"
    BY <1>3, <1>4
  <2>4. QED
    BY <1>1, <1>7, <1>8, <1>15, <2>1, <2>2, <2>3 DEF RequestsInv, Following
<1>17. Settling'
  <2> SUFFICES ASSUME NEW k \in Entries, entry'[k].state # 0
               PROVE  /\ (k[2] < hop'[k[1]] \/ browser'[k[1]] \in {"responded", "over", "failed"})
                           => entry'[k].available
                      /\ (k[2] < hop'[k[1]] \/ browser'[k[1]] \in {"over", "failed"})
                           => \/ entry'[k].finished /\ entry'[k].loaded # "no"
                              \/ <<k, "collector">> \in asked
    BY <1>1 DEF Settling
  <2>1. CASE k[1] = r
    BY <1>3, <2>1, KeyFacts
  <2>2. CASE k[1] # r
    BY <1>3, <1>4, <1>8, <2>2, KeyFacts DEF RequestsInv, Settling
  <2>3. QED
    BY <2>1, <2>2
<1>18. NoEmptyAnswers'
  <2> SUFFICES ASSUME NEW x \in Readers, NEW k, k = reader[x].key,
                      reader[x].at = "nothing", ~reader[x].late
               PROVE  \/ k \in hasty \/ k # <<k[1], hop'[k[1]]>> \/ TabOf[k[1]] \notin open
                      \/ entry'[k].state # net[TabOf[k[1]]] \/ entry'[k].response # "body"
    BY <1>1 DEF NoEmptyAnswers, Last
  <2>1. k \in Entries /\ k[1] # r
    BY <1>9 DEF RequestsInv, Asking, Touched
  <2>2. entry'[k] = entry[k] /\ hop'[k[1]] = hop[k[1]]
    BY <1>3, <1>4, <1>8, <2>1, KeyFacts
  <2>3. QED
    BY <2>2 DEF RequestsInv, NoEmptyAnswers, Last
<1>19. QED
  BY <1>10, <1>11, <1>13, <1>14, <1>16, <1>17, <1>18 DEF RequestsInv

LEMMA RedirectRequests ==
  ASSUME RequestsInv, ConnectedTypeOK', NEW r \in Requests, Redirect(r)
  PROVE  RequestsInv'
<1> USE RequestsAssumption
<1>1. PICK a : a = Last(r)
  OBVIOUS
<1>2. PICK next : next = <<r, hop[r] + 1>>
  OBVIOUS
<1>3. PICK again \in BOOLEAN : again <=> Listed(a) /\ entry[a].finished
  OBVIOUS
<1>4. /\ TabOf[r] \in open /\ browser[r] = "sent" /\ (~again => hop[r] < MaxHops)
      /\ hop' = (IF again THEN hop ELSE [hop EXCEPT ![r] = @ + 1])
      /\ entry' = [q \in Entries |-> IF q = a /\ Listed(a) THEN Hopped(entry[a])
                                     ELSE IF q = next /\ ~again THEN New(Hears(r))
                                     ELSE entry[q]]
      /\ UNCHANGED <<open, stage, net, bound, lastState, browser, asked, reader, hasty>>
  BY <1>1, <1>2, <1>3 DEF Redirect, Followed, tabVars, clientVars, netVars
<1>5. /\ RequestsTypeOK /\ entry \in [Entries -> Entry] /\ lastState \in Nat
      /\ hop \in [Requests -> 0..MaxHops] /\ hop[r] # 0
  BY <1>4 DEF RequestsInv, RequestsTypeOK, Following
<1>6. /\ a \in Entries /\ a[1] = r /\ a[2] = hop[r]
      /\ ~again => next \in Entries /\ next[1] = r /\ next[2] = hop[r] + 1 /\ next # a
  BY <1>1, <1>2, <1>4, <1>5, LastFacts
<1>7. /\ again => hop' = hop
      /\ ~again => hop'[r] = hop[r] + 1
      /\ \A q \in Requests : q # r => hop'[q] = hop[q]
      /\ \A q \in Requests : hop'[q] \in 0..MaxHops /\ hop[q] <= hop'[q]
      /\ hop' \in [Requests -> 0..MaxHops]
  BY <1>4, <1>5
<1>8. PICK e : e = New(Hears(r))
  OBVIOUS
<1>9. /\ Hears(r) \in Nat /\ Hears(r) <= lastState
      /\ Hears(r) # 0 => Used(TabOf[r]) /\ net[TabOf[r]] # 0
  BY <1>4, HearsFacts
<1>10. /\ e \in Entry /\ e.state = Hears(r) /\ e.response = "none" /\ ~e.available
       /\ ~e.finished /\ e.loaded = "no" /\ ~e.bodyRead /\ ~e.body
  BY <1>8, <1>9, NewFields
<1>11. PICK f : f = Hopped(entry[a])
  OBVIOUS
<1>12. /\ f \in Entry /\ f.state = entry[a].state /\ f.response = "body"
       /\ f.available /\ f.finished /\ f.loaded # "no"
  <2>1. entry[a] \in Entry
    BY <1>5, <1>6
  <2>2. QED
    BY <1>11, <2>1, HoppedFields
<1>13. \A k \in Entries :
         \/ k = a /\ entry[a].state # 0 /\ entry'[k] = f
         \/ k = next /\ ~again /\ entry'[k] = e
         \/ (k = next => again) /\ (k = a => entry[a].state = 0) /\ entry'[k] = entry[k]
  BY <1>4, <1>6, <1>8, <1>11 DEF Listed
<1>14. entry' \in [Entries -> Entry]
  <2>1. DOMAIN entry' = Entries /\ entry' = [k \in Entries |-> entry'[k]]
    BY <1>4
  <2>2. \A k \in Entries : entry'[k] \in Entry
    BY <1>5, <1>10, <1>12, <1>13
  <2>3. QED
    BY <2>1, <2>2
<1>15. ~again => ~Touched(next)
  BY <1>5, <1>6 DEF RequestsInv, TouchedUsed
<1>16. \A k \in Entries : k[1] \in Requests /\ k[2] \in Nat /\ hop[k[1]] \in Nat /\ hop'[k[1]] \in Nat
  BY <1>5, <1>7, KeyFacts
<1>17. RequestsTypeOK'
  <2>1. ASSUME NEW k \in Entries, k[2] > hop'[k[1]] PROVE entry'[k].state = 0
    <3>1. k[2] > hop[k[1]] /\ k # a /\ (k = next => again)
      BY <1>6, <1>7, <1>16, <2>1
    <3>2. QED
      BY <1>5, <1>13, <3>1 DEF RequestsTypeOK
  <2>2. QED
    BY <1>4, <1>5, <1>7, <1>14, <2>1 DEF RequestsTypeOK
<1>18. NetStates'
  <2>1. \A k \in Entries : entry'[k].state = entry[k].state \/ entry'[k].state <= lastState
    BY <1>9, <1>10, <1>12, <1>13
  <2>2. QED
    BY <1>4, <2>1, NetStatesKept DEF RequestsInv
<1>19. \A k \in Entries : Touched(k)' => Touched(k) \/ (k = next /\ ~again /\ e.state # 0)
  BY <1>4, <1>12, <1>13 DEF Touched
<1>20. TouchedUsed'
  <2> SUFFICES ASSUME NEW k \in Entries, Touched(k)'
               PROVE  /\ k[2] <= hop'[k[1]]
                      /\ Used(TabOf[k[1]])
                      /\ TabOf[k[1]] \in open => net[TabOf[k[1]]] # 0
    BY <1>4 DEF TouchedUsed, Used
  <2>1. CASE Touched(k)
    <3>1. k[2] <= hop[k[1]] /\ hop[k[1]] <= hop'[k[1]]
      BY <1>7, <1>16, <2>1 DEF RequestsInv, TouchedUsed
    <3>2. k[2] <= hop'[k[1]]
      BY <1>16, <3>1
    <3>3. QED
      BY <2>1, <3>2 DEF RequestsInv, TouchedUsed
  <2>2. CASE k = next /\ ~again /\ e.state # 0
    BY <1>5, <1>6, <1>7, <1>9, <1>10, <2>2
  <2>3. QED
    BY <1>19, <2>1, <2>2
<1>21. Asking'
  <2>1. ASSUME NEW x \in Readers, reader[x].key \in Entries
        PROVE  entry'[reader[x].key].response # "none"
    <3>1. reader[x].key = next => again
      BY <1>15, <2>1 DEF Touched
    <3>2. QED
      BY <1>12, <1>13, <2>1, <3>1 DEF RequestsInv, Asking
  <2>2. QED
    BY <1>4, <2>1 DEF RequestsInv, Asking
<1>22. again => ~Current(a)
  BY <1>3, <1>4, <1>6 DEF RequestsInv, Following
<1>23. ASSUME NEW k \in Entries, Current(k)'
       PROVE  \/ k = next /\ ~again /\ entry'[k] = e
              \/ Current(k) /\ entry'[k] = entry[k]
  <2>1. /\ k[2] = hop'[k[1]] /\ TabOf[k[1]] \in open /\ entry'[k].state = net[TabOf[k[1]]]
        /\ entry'[k].state # 0
    <3>1. k = <<k[1], hop'[k[1]]>>
      BY <1>23 DEF Current, Last
    <3>2. k = <<k[1], k[2]>>
      BY KeyFacts
    <3>3. QED
      BY <1>4, <1>23, <3>1, <3>2 DEF Current
  <2>2. CASE k[1] # r
    <3>1. k # a /\ (k = next => again) /\ k[2] = hop[k[1]]
      BY <1>6, <1>7, <1>16, <2>1, <2>2
    <3>2. entry'[k] = entry[k] /\ k = Last(k[1])
      BY <1>5, <1>13, <1>16, <3>1, LastFacts
    <3>3. QED
      BY <2>1, <3>2 DEF Current
  <2>3. CASE k[1] = r /\ again
    <3>1. k[2] = hop[r] /\ k = a
      <4>1. k[2] = hop[r]
        BY <1>7, <2>1, <2>3
      <4>2. \A q \in Entries : q = Last(r) <=> q[1] = r /\ q[2] = hop[r]
        BY <1>5, LastFacts
      <4>3. QED
        BY <1>1, <2>3, <4>1, <4>2
    <3>2. entry'[k].state = entry[k].state
      BY <1>12, <1>13, <2>3, <3>1
    <3>3. Current(k)
      BY <1>1, <1>6, <2>1, <3>1, <3>2 DEF Current
    <3>4. QED
      BY <1>22, <2>3, <3>1, <3>3
  <2>4. CASE k[1] = r /\ ~again
    <3>1. k[2] = hop[r] + 1
      BY <1>7, <2>1, <2>4
    <3>2. k = next
      BY <1>2, <2>4, <3>1, KeyFacts
    <3>3. QED
      BY <1>6, <1>13, <2>4, <3>2
  <2>5. QED
    BY <2>2, <2>3, <2>4
<1>24. Following'
  <2>1. \A q \in Requests : hop'[q] = 0 <=> hop[q] = 0
    BY <1>5, <1>7
  <2>2. ~again => browser[next[1]] = "sent"
    BY <1>4, <1>6
  <2>3. QED
    BY <1>4, <1>10, <1>23, <2>1, <2>2 DEF RequestsInv, Following
<1>25. Settling'
  <2> SUFFICES ASSUME NEW k \in Entries, entry'[k].state # 0
               PROVE  /\ (k[2] < hop'[k[1]] \/ browser[k[1]] \in {"responded", "over", "failed"})
                           => entry'[k].available
                      /\ (k[2] < hop'[k[1]] \/ browser[k[1]] \in {"over", "failed"})
                           => \/ entry'[k].finished /\ entry'[k].loaded # "no"
                              \/ <<k, "collector">> \in asked
    BY <1>4 DEF Settling
  <2>1. CASE k = a /\ entry'[k] = f
    BY <1>12, <2>1
  <2>2. CASE k = next /\ ~again
    BY <1>4, <1>5, <1>6, <1>7, <2>2
  <2>3. CASE entry'[k] = entry[k] /\ (k = a => entry[a].state = 0)
    <3>1. k[2] < hop'[k[1]] => k[2] < hop[k[1]]
      <4>1. k # a
        BY <2>3
      <4>2. k[1] = r => k[2] # hop[r]
        BY <1>1, <1>5, <4>1, LastFacts
      <4>3. k[1] = r /\ k[2] > hop[r] => entry[k].state = 0
        BY <1>5 DEF RequestsTypeOK
      <4>4. QED
        BY <1>7, <1>16, <2>3, <4>2, <4>3
    <3>2. QED
      BY <2>3, <3>1 DEF RequestsInv, Settling
  <2>4. QED
    BY <1>13, <2>1, <2>2, <2>3
<1>26. NoEmptyAnswers'
  <2> SUFFICES ASSUME NEW x \in Readers, NEW k, k = reader[x].key,
                      reader[x].at = "nothing", ~reader[x].late, k = <<k[1], hop'[k[1]]>>
               PROVE  \/ k \in hasty \/ TabOf[k[1]] \notin open
                      \/ entry'[k].state # net[TabOf[k[1]]] \/ entry'[k].response # "body"
    BY <1>4 DEF NoEmptyAnswers, Last
  <2>1. k \in Entries /\ Touched(k)
    BY DEF RequestsInv, Asking, Touched
  <2>2. k[2] <= hop[k[1]] /\ k[2] = hop'[k[1]]
    <3>1. k[2] = hop'[k[1]]
      OBVIOUS
    <3>2. QED
      BY <2>1, <3>1 DEF RequestsInv, TouchedUsed
  <2>3. k[2] = hop[k[1]] /\ (k[1] = r => again)
    BY <1>5, <1>7, <1>16, <2>1, <2>2
  <2>4. k = Last(k[1])
    BY <1>5, <1>16, <2>1, <2>3, LastFacts
  <2>5. CASE k = a
    <3>1. again /\ entry[k].state # 0
      BY <1>3, <1>6, <2>3, <2>5 DEF Listed
    <3>2. entry[k].state # net[TabOf[k[1]]] \/ TabOf[k[1]] \notin open
      BY <1>22, <2>4, <2>5, <3>1 DEF Current
    <3>3. entry'[k].state = entry[k].state
      BY <1>12, <1>13, <2>1, <2>5, <3>1
    <3>4. QED
      BY <3>2, <3>3
  <2>6. CASE k # a
    <3>1. ~(k = next /\ ~again)
      BY <1>6, <2>3
    <3>2. entry'[k] = entry[k]
      BY <1>13, <2>1, <2>6, <3>1
    <3>3. QED
      BY <2>4, <3>2 DEF RequestsInv, NoEmptyAnswers
  <2>7. QED
    BY <2>5, <2>6
<1>27. QED
  BY <1>17, <1>18, <1>20, <1>21, <1>24, <1>25, <1>26 DEF RequestsInv

\* An event that changes at most one entry, and does not move it to a list.
LEMMA OneEntry ==
  ASSUME RequestsInv, NEW a \in Entries, NEW f \in Entry, f.state = entry[a].state,
         entry' = [entry EXCEPT ![a] = f],
         UNCHANGED <<open, stage, net, bound, lastState, hop>>
  PROVE  /\ entry' \in [Entries -> Entry] /\ entry'[a] = f
         /\ \A k \in Entries : k # a => entry'[k] = entry[k]
         /\ \A k \in Entries : entry'[k].state = entry[k].state
         /\ \A k \in Entries : Current(k)' <=> Current(k)
         /\ \A k \in Entries : k[2] > hop[k[1]] => entry'[k].state = 0
         /\ NetStates'
<1>1. entry \in [Entries -> Entry]
  BY DEF RequestsInv, RequestsTypeOK
<1>2. /\ entry' \in [Entries -> Entry] /\ entry'[a] = f
      /\ \A k \in Entries : k # a => entry'[k] = entry[k]
  BY <1>1
<1>3. \A k \in Entries : entry'[k].state = entry[k].state
  BY <1>2
<1>4. \A k \in Entries : Current(k)' <=> Current(k)
  BY <1>3 DEF Current, Last
<1>5. \A k \in Entries : k[2] > hop[k[1]] => entry'[k].state = 0
  BY <1>3 DEF RequestsInv, RequestsTypeOK
<1>6. NetStates'
  BY <1>3, NetStatesKept DEF RequestsInv
<1>7. QED
  BY <1>2, <1>3, <1>4, <1>5, <1>6

\* The entry of a request in whose answer the browser gets further.
LEMMA LastEntry ==
  ASSUME RequestsInv, NEW r \in Requests, browser[r] # "unsent"
  PROVE  /\ Last(r) \in Entries /\ Last(r)[1] = r /\ Last(r)[2] = hop[r]
         /\ hop[r] \in Nat
         /\ \A k \in Entries : k[1] = r /\ Current(k) => k = Last(r)
         /\ \A k \in Entries : k[1] = r /\ k # Last(r) /\ entry[k].state # 0 => k[2] < hop[r]
         /\ entry[Last(r)] \in Entry
<1>1. RequestsTypeOK /\ hop[r] # 0 /\ hop[r] \in 0..MaxHops
  BY DEF RequestsInv, RequestsTypeOK, Following
<1>2. /\ Last(r) \in Entries /\ Last(r)[1] = r /\ Last(r)[2] = hop[r]
      /\ \A k \in Entries : k = Last(r) <=> k[1] = r /\ k[2] = hop[r]
  BY <1>1, LastFacts
<1>3. \A k \in Entries : k[1] = r /\ k # Last(r) /\ entry[k].state # 0 => k[2] < hop[r]
  <2>1. \A k \in Entries : entry[k].state # 0 => ~(k[2] > hop[k[1]])
    BY <1>1 DEF RequestsTypeOK
  <2>2. \A k \in Entries : k[2] \in Nat
    BY KeyFacts
  <2>3. QED
    BY <1>1, <1>2, <2>1, <2>2
<1>4. QED
  BY <1>1, <1>2, <1>3 DEF Current, RequestsTypeOK

LEMMA RespondRequests ==
  ASSUME RequestsInv, ConnectedTypeOK', NEW r \in Requests, Respond(r)
  PROVE  RequestsInv'
<1>1. PICK a : a = Last(r)
  OBVIOUS
<1>2. /\ TabOf[r] \in open /\ browser[r] = "sent"
      /\ browser' = [browser EXCEPT ![r] = "responded"]
      /\ UNCHANGED <<open, stage, net, bound, lastState, hop, asked, reader, hasty>>
  BY DEF Respond, Followed, connectedVars, tabVars, clientVars, netVars
<1>3. /\ a \in Entries /\ a[1] = r /\ a[2] = hop[r] /\ hop[r] \in Nat
      /\ \A k \in Entries : k[1] = r /\ Current(k) => k = a
      /\ \A k \in Entries : k[1] = r /\ k # a /\ entry[k].state # 0 => k[2] < hop[r]
      /\ entry[a] \in Entry
  BY <1>1, <1>2, LastEntry
<1>4. PICK f \in Entry :
        /\ entry' = [entry EXCEPT ![a] = f] /\ f.state = entry[a].state
        /\ f.loaded = entry[a].loaded /\ f.bodyRead = entry[a].bodyRead
        /\ f.finished = entry[a].finished
        /\ entry[a].state # 0 => f.available /\ f.response \in {"body", "empty"}
        /\ entry[a].state = 0 => f = entry[a]
  <2>1. PICK response \in {"body", "empty"} :
           entry' = IF entry[a].state # 0
                    THEN [entry EXCEPT ![a].response = response, ![a].available = TRUE]
                    ELSE entry
    BY <1>1, <1>3 DEF Respond, Listed
  <2>2. CASE entry[a].state = 0
    <3>1. entry' = [entry EXCEPT ![a] = entry[a]]
      BY <2>1, <2>2 DEF RequestsInv, RequestsTypeOK
    <3>2. QED
      BY <1>3, <2>2, <3>1
  <2>3. CASE entry[a].state # 0
    <3>1. PICK f : f = [entry[a] EXCEPT !.response = response, !.available = TRUE]
      OBVIOUS
    <3>2. /\ f \in Entry /\ f.state = entry[a].state
          /\ f.loaded = entry[a].loaded /\ f.bodyRead = entry[a].bodyRead
          /\ f.finished = entry[a].finished
          /\ f.available /\ f.response = response
      BY <1>3, <3>1 DEF Entry
    <3>3. entry \in [Entries -> Entry]
      BY DEF RequestsInv, RequestsTypeOK
    <3>4. entry' = [entry EXCEPT ![a] = f]
      BY <1>3, <2>1, <2>3, <3>1, <3>3
    <3>5. QED
      BY <2>3, <3>2, <3>4
  <2>4. QED
    BY <2>2, <2>3
<1>5. /\ entry' \in [Entries -> Entry] /\ entry'[a] = f
      /\ \A k \in Entries : k # a => entry'[k] = entry[k]
      /\ \A k \in Entries : entry'[k].state = entry[k].state
      /\ \A k \in Entries : Current(k)' <=> Current(k)
      /\ \A k \in Entries : k[2] > hop[k[1]] => entry'[k].state = 0
      /\ NetStates'
  BY <1>2, <1>3, <1>4, OneEntry
<1>6. /\ browser' \in [Requests -> {"unsent", "sent", "responded", "over", "failed"}]
      /\ browser'[r] = "responded"
      /\ \A q \in Requests : q # r => browser'[q] = browser[q]
  BY <1>2 DEF RequestsInv, RequestsTypeOK
<1>7. RequestsTypeOK'
  BY <1>2, <1>5, <1>6 DEF RequestsInv, RequestsTypeOK
<1>8. \A k \in Entries : Touched(k)' <=> Touched(k)
  BY <1>2, <1>5 DEF Touched
<1>9. TouchedUsed'
  BY <1>2, <1>8 DEF RequestsInv, TouchedUsed, Used
<1>10. Asking'
  <2>1. \A k \in Entries : k[1] = r =>
          /\ <<k, "collector">> \notin asked
          /\ \A who \in Readers \cup {"collector"} : <<k, who>> \in asked => k \in hasty
    BY <1>2 DEF RequestsInv, Asking
  <2>2. \A k \in Entries : k[1] # r => browser'[k[1]] = browser[k[1]]
    BY <1>6, KeyFacts
  <2>3. \A x \in Readers : reader[x].key \in Entries => entry'[reader[x].key].response # "none"
    <3>1. entry[a].response # "none" => entry'[a].response # "none"
      BY <1>4, <1>5
    <3>2. QED
      BY <1>5, <3>1 DEF RequestsInv, Asking
  <2>4. QED
    BY <1>2, <2>1, <2>2, <2>3 DEF RequestsInv, Asking
<1>11. Following'
  <2>1. \A q \in Requests : browser'[q] = "unsent" <=> hop[q] = 0
    BY <1>2, <1>6 DEF RequestsInv, Following
  <2>2. ASSUME NEW k \in Entries, Current(k)
        PROVE  /\ browser'[k[1]] = "sent" => entry'[k].response = "none" /\ ~entry'[k].finished
               /\ browser'[k[1]] \in {"sent", "responded"} =>
                    /\ entry'[k].loaded = "no"
                    /\ entry'[k].bodyRead => k \in hasty
               /\ browser'[k[1]] = "over" /\ entry'[k].response = "body" /\ entry'[k].loaded # "no"
                    => entry'[k].body \/ k \in hasty
               /\ browser'[k[1]] = "failed" => entry'[k].response = "failed"
    <3>1. CASE k[1] = r
      BY <1>2, <1>3, <1>4, <1>5, <1>6, <2>2, <3>1 DEF RequestsInv, Following
    <3>2. CASE k[1] # r
      <4>1. browser'[k[1]] = browser[k[1]] /\ entry'[k] = entry[k]
        BY <1>3, <1>5, <1>6, <3>2, KeyFacts
      <4>2. QED
        BY <2>2, <4>1 DEF RequestsInv, Following
    <3>3. QED
      BY <3>1, <3>2
  <2>3. QED
    BY <1>2, <1>5, <2>1, <2>2 DEF Following
<1>12. Settling'
  <2> SUFFICES ASSUME NEW k \in Entries, entry[k].state # 0
               PROVE  /\ (k[2] < hop[k[1]] \/ browser'[k[1]] \in {"responded", "over", "failed"})
                           => entry'[k].available
                      /\ (k[2] < hop[k[1]] \/ browser'[k[1]] \in {"over", "failed"})
                           => \/ entry'[k].finished /\ entry'[k].loaded # "no"
                              \/ <<k, "collector">> \in asked
    BY <1>2, <1>5 DEF Settling
  <2>1. CASE k = a
    BY <1>3, <1>4, <1>5, <1>6, <2>1
  <2>2. CASE k[1] = r /\ k # a
    BY <1>3, <1>5, <1>6, <2>2 DEF RequestsInv, Settling
  <2>3. CASE k[1] # r
    <3>1. browser'[k[1]] = browser[k[1]] /\ entry'[k] = entry[k]
      BY <1>3, <1>5, <1>6, <2>3, KeyFacts
    <3>2. QED
      BY <3>1 DEF RequestsInv, Settling
  <2>4. QED
    BY <2>1, <2>2, <2>3
<1>13. NoEmptyAnswers'
  <2> SUFFICES ASSUME NEW x \in Readers, NEW k, k = reader[x].key,
                      reader[x].at = "nothing", ~reader[x].late
               PROVE  \/ k \in hasty \/ k # Last(k[1]) \/ TabOf[k[1]] \notin open
                      \/ entry'[k].state # net[TabOf[k[1]]] \/ entry'[k].response # "body"
    BY <1>2 DEF NoEmptyAnswers, Last
  <2>1. k \in Entries /\ Touched(k) /\ entry[k].response # "none"
    BY DEF RequestsInv, Asking, Touched
  <2>2. CASE k # a
    BY <1>5, <2>1, <2>2 DEF RequestsInv, NoEmptyAnswers
  <2>3. CASE k = a
    <3>1. ~Current(a)
      BY <1>2, <1>3, <2>1, <2>3 DEF RequestsInv, Following
    <3>2. TabOf[a[1]] \in open => net[TabOf[a[1]]] # 0
      BY <2>1, <2>3 DEF RequestsInv, TouchedUsed
    <3>3. entry[a].state # net[TabOf[a[1]]] \/ TabOf[a[1]] \notin open
      BY <1>1, <1>3, <3>1, <3>2 DEF Current
    <3>4. QED
      BY <1>3, <1>5, <2>3, <3>3
  <2>4. QED
    BY <2>2, <2>3
<1>14. QED
  BY <1>5, <1>7, <1>9, <1>10, <1>11, <1>12, <1>13 DEF RequestsInv

\* loadingFinished settles the entry, or asks for its body.
LEMMA FinishedCases ==
  ASSUME RequestsInv, NEW r \in Requests, LoadingFinished(r), NEW a, a = Last(r)
  PROVE  \E f \in Entry, A \in {{}, {<<a, "collector">>}} :
           /\ entry' = [entry EXCEPT ![a] = f] /\ asked' = asked \cup A /\ hasty' = hasty
           /\ f.state = entry[a].state /\ f.response = entry[a].response
           /\ f.available = entry[a].available /\ f.body = entry[a].body
           /\ entry[a].state = 0 => f = entry[a] /\ A = {}
           /\ A # {} => f.loaded = entry[a].loaded
           /\ A = {} /\ entry[a].state # 0 =>
                /\ f.finished /\ f.loaded # "no"
                /\ entry[a].response = "body" => entry[a].bodyRead
<1>1. /\ a \in Entries /\ a[1] = r /\ entry[a] \in Entry
      /\ entry \in [Entries -> Entry] /\ browser'[r] = "over"
  BY LastEntry DEF LoadingFinished, RequestsInv, RequestsTypeOK
<1>2. CASE Listed(a) /\ Readable(a)
  <2>1. PICK f : f = [entry[a] EXCEPT !.bodyRead = TRUE]
    OBVIOUS
  <2>2. /\ f \in Entry /\ f.state = entry[a].state /\ f.response = entry[a].response
        /\ f.available = entry[a].available /\ f.body = entry[a].body
        /\ f.loaded = entry[a].loaded
    BY <1>1, <2>1 DEF Entry
  <2>3. Ask(a, "collector")
    BY <1>2 DEF LoadingFinished
  <2>4. /\ entry' = [entry EXCEPT ![a] = f] /\ asked' = asked \cup {<<a, "collector">>}
        /\ hasty' = hasty
    BY <1>1, <2>1, <2>3 DEF Ask
  <2>5. entry[a].state # 0
    BY <1>2 DEF Listed
  <2>6. QED
    BY <2>2, <2>4, <2>5
<1>3. CASE Listed(a) /\ ~Readable(a)
  <2>1. PICK f : f = Finished(entry[a], "done")
    OBVIOUS
  <2>2. /\ f \in Entry /\ f.state = entry[a].state /\ f.response = entry[a].response
        /\ f.available = entry[a].available /\ f.body = entry[a].body
        /\ f.finished /\ f.loaded # "no"
    BY <1>1, <2>1, FinishedFields
  <2>3. entry' = [entry EXCEPT ![a] = f] /\ asked' = asked \cup {} /\ hasty' = hasty
    BY <1>1, <1>3, <2>1 DEF LoadingFinished
  <2>4. entry[a].state # 0 /\ (entry[a].response = "body" => entry[a].bodyRead)
    BY <1>3 DEF Listed, Readable
  <2>5. QED
    BY <2>2, <2>3, <2>4
<1>4. CASE ~Listed(a)
  <2>1. entry' = [entry EXCEPT ![a] = entry[a]] /\ asked' = asked \cup {} /\ hasty' = hasty
    BY <1>1, <1>4 DEF LoadingFinished
  <2>2. entry[a].state = 0
    BY <1>1, <1>4 DEF Listed
  <2>3. QED
    BY <1>1, <2>1, <2>2
<1>5. QED
  BY <1>2, <1>3, <1>4

LEMMA LoadingFinishedRequests ==
  ASSUME RequestsInv, ConnectedTypeOK', NEW r \in Requests, LoadingFinished(r)
  PROVE  RequestsInv'
<1>1. PICK a : a = Last(r)
  OBVIOUS
<1>2. /\ browser[r] = "responded"
      /\ browser' = [browser EXCEPT ![r] = "over"]
      /\ UNCHANGED <<open, stage, net, bound, lastState, hop, reader>>
  BY DEF LoadingFinished, connectedVars, tabVars, clientVars, netVars
<1>3. /\ a \in Entries /\ a[1] = r /\ a[2] = hop[r] /\ hop[r] \in Nat
      /\ \A k \in Entries : k[1] = r /\ Current(k) => k = a
      /\ \A k \in Entries : k[1] = r /\ k # a /\ entry[k].state # 0 => k[2] < hop[r]
      /\ entry[a] \in Entry
  BY <1>1, <1>2, LastEntry
<1>4. PICK f \in Entry, A \in {{}, {<<a, "collector">>}} :
           /\ entry' = [entry EXCEPT ![a] = f] /\ asked' = asked \cup A /\ hasty' = hasty
           /\ f.state = entry[a].state /\ f.response = entry[a].response
           /\ f.available = entry[a].available /\ f.body = entry[a].body
           /\ entry[a].state = 0 => f = entry[a] /\ A = {}
           /\ A # {} => f.loaded = entry[a].loaded
           /\ A = {} /\ entry[a].state # 0 =>
                /\ f.finished /\ f.loaded # "no"
                /\ entry[a].response = "body" => entry[a].bodyRead
  BY <1>1, FinishedCases
<1>5. /\ entry' \in [Entries -> Entry] /\ entry'[a] = f
      /\ \A k \in Entries : k # a => entry'[k] = entry[k]
      /\ \A k \in Entries : entry'[k].state = entry[k].state
      /\ \A k \in Entries : Current(k)' <=> Current(k)
      /\ \A k \in Entries : k[2] > hop[k[1]] => entry'[k].state = 0
      /\ NetStates'
  BY <1>2, <1>3, <1>4, OneEntry
<1>6. /\ browser' \in [Requests -> {"unsent", "sent", "responded", "over", "failed"}]
      /\ browser'[r] = "over"
      /\ \A q \in Requests : q # r => browser'[q] = browser[q]
  BY <1>2 DEF RequestsInv, RequestsTypeOK
<1>7. RequestsTypeOK'
  <2>1. asked' \subseteq Entries \X (Readers \cup {"collector"})
    BY <1>3, <1>4 DEF RequestsInv, RequestsTypeOK
  <2>2. QED
    BY <1>2, <1>4, <1>5, <1>6, <2>1 DEF RequestsInv, RequestsTypeOK
<1>8. \A k \in Entries : Touched(k)' => Touched(k)
  BY <1>2, <1>4, <1>5 DEF Touched
<1>9. TouchedUsed'
  BY <1>2, <1>8 DEF RequestsInv, TouchedUsed, Used
<1>10. Asking'
  <2>1. \A k \in Entries : k[1] # r => browser'[k[1]] = browser[k[1]]
    BY <1>6, KeyFacts
  <2>2. \A k \in Entries, x \in Readers : <<k, x>> \in asked' => <<k, x>> \in asked
    BY <1>4, RequestsAssumption
  <2>3. \A k \in Entries, who \in Readers \cup {"collector"} :
          <<k, who>> \in asked' => <<k, who>> \in asked \/ k = a
    BY <1>4
  <2>4. \A x \in Readers : reader[x].key \in Entries => entry'[reader[x].key].response # "none"
    BY <1>4, <1>5 DEF RequestsInv, Asking
  <2>5. \A k \in Entries : <<k, "collector">> \in asked' => browser'[k[1]] = "over"
    BY <1>3, <1>6, <2>1, <2>3 DEF RequestsInv, Asking
  <2>6. \A k \in Entries, who \in Readers \cup {"collector"} :
          <<k, who>> \in asked' => k \in hasty \/ browser'[k[1]] = "over"
    BY <1>3, <1>6, <2>1, <2>3 DEF RequestsInv, Asking
  <2>7. QED
    BY <1>2, <1>4, <2>2, <2>4, <2>5, <2>6 DEF RequestsInv, Asking
<1>11. Following'
  <2>1. \A q \in Requests : browser'[q] = "unsent" <=> hop[q] = 0
    BY <1>2, <1>6 DEF RequestsInv, Following
  <2>2. ASSUME NEW k \in Entries, Current(k)
        PROVE  /\ browser'[k[1]] = "sent" => entry'[k].response = "none" /\ ~entry'[k].finished
               /\ browser'[k[1]] \in {"sent", "responded"} =>
                    /\ entry'[k].loaded = "no"
                    /\ entry'[k].bodyRead => k \in hasty
               /\ browser'[k[1]] = "over" /\ entry'[k].response = "body" /\ entry'[k].loaded # "no"
                    => entry'[k].body \/ k \in hasty
               /\ browser'[k[1]] = "failed" => entry'[k].response = "failed"
    <3>1. CASE k[1] = r
      <4>1. /\ k = a /\ entry[a].loaded = "no" /\ (entry[a].bodyRead => a \in hasty)
            /\ entry[a].state # 0
        BY <1>2, <1>3, <2>2, <3>1 DEF RequestsInv, Following, Current
      <4>2. QED
        BY <1>3, <1>4, <1>5, <1>6, <4>1
    <3>2. CASE k[1] # r
      <4>1. browser'[k[1]] = browser[k[1]] /\ entry'[k] = entry[k]
        BY <1>3, <1>5, <1>6, <3>2, KeyFacts
      <4>2. QED
        BY <2>2, <4>1 DEF RequestsInv, Following
    <3>3. QED
      BY <3>1, <3>2
  <2>3. QED
    BY <1>2, <1>4, <1>5, <2>1, <2>2 DEF Following
<1>12. Settling'
  <2> SUFFICES ASSUME NEW k \in Entries, entry[k].state # 0
               PROVE  /\ (k[2] < hop[k[1]] \/ browser'[k[1]] \in {"responded", "over", "failed"})
                           => entry'[k].available
                      /\ (k[2] < hop[k[1]] \/ browser'[k[1]] \in {"over", "failed"})
                           => \/ entry'[k].finished /\ entry'[k].loaded # "no"
                              \/ <<k, "collector">> \in asked'
    BY <1>2, <1>5 DEF Settling
  <2>1. CASE k = a
    <3>1. entry[a].available
      BY <1>2, <1>3, <2>1 DEF RequestsInv, Settling
    <3>2. QED
      BY <1>4, <1>5, <2>1, <3>1
  <2>2. CASE k[1] = r /\ k # a
    BY <1>3, <1>4, <1>5, <2>2 DEF RequestsInv, Settling
  <2>3. CASE k[1] # r
    <3>1. browser'[k[1]] = browser[k[1]] /\ entry'[k] = entry[k]
      BY <1>3, <1>5, <1>6, <2>3, KeyFacts
    <3>2. QED
      BY <1>4, <3>1 DEF RequestsInv, Settling
  <2>4. QED
    BY <2>1, <2>2, <2>3
<1>13. NoEmptyAnswers'
  <2> SUFFICES ASSUME NEW x \in Readers, NEW k, k = reader[x].key,
                      reader[x].at = "nothing", ~reader[x].late
               PROVE  \/ k \in hasty \/ k # Last(k[1]) \/ TabOf[k[1]] \notin open
                      \/ entry'[k].state # net[TabOf[k[1]]] \/ entry'[k].response # "body"
    BY <1>2, <1>4 DEF NoEmptyAnswers, Last
  <2>1. k \in Entries
    BY DEF RequestsInv, Asking
  <2>2. entry'[k].state = entry[k].state /\ entry'[k].response = entry[k].response
    BY <1>4, <1>5, <2>1
  <2>3. QED
    BY <2>2 DEF RequestsInv, NoEmptyAnswers
<1>14. QED
  BY <1>5, <1>7, <1>9, <1>10, <1>11, <1>12, <1>13 DEF RequestsInv

LEMMA LoadingFailedRequests ==
  ASSUME RequestsInv, ConnectedTypeOK', NEW r \in Requests, LoadingFailed(r)
  PROVE  RequestsInv'
<1>1. PICK a : a = Last(r)
  OBVIOUS
<1>2. /\ browser[r] \in {"sent", "responded"}
      /\ browser' = [browser EXCEPT ![r] = "failed"]
      /\ UNCHANGED <<open, stage, net, bound, lastState, hop, asked, reader, hasty>>
  BY DEF LoadingFailed, tabVars, clientVars, netVars
<1>3. /\ a \in Entries /\ a[1] = r /\ a[2] = hop[r] /\ hop[r] \in Nat
      /\ \A k \in Entries : k[1] = r /\ Current(k) => k = a
      /\ \A k \in Entries : k[1] = r /\ k # a /\ entry[k].state # 0 => k[2] < hop[r]
      /\ entry[a] \in Entry
  BY <1>1, <1>2, LastEntry
<1>4. PICK f \in Entry :
        /\ entry' = [entry EXCEPT ![a] = f] /\ f.state = entry[a].state
        /\ entry[a].state # 0 => /\ f.response = "failed" /\ f.available
                                 /\ f.finished /\ f.loaded # "no"
        /\ entry[a].state = 0 => f = entry[a]
  <2>0. entry \in [Entries -> Entry]
    BY DEF RequestsInv, RequestsTypeOK
  <2>1. CASE entry[a].state = 0
    <3>1. entry' = [entry EXCEPT ![a] = entry[a]]
      BY <1>1, <2>0, <2>1 DEF LoadingFailed, Listed
    <3>2. QED
      BY <1>3, <2>1, <3>1
  <2>2. CASE entry[a].state # 0
    <3>1. PICK e : e = Finished(entry[a], "failed")
      OBVIOUS
    <3>2. e \in Entry /\ e.state = entry[a].state /\ e.finished /\ e.loaded # "no"
      BY <1>3, <3>1, FinishedFields
    <3>3. PICK f : f = [e EXCEPT !.response = "failed", !.available = TRUE]
      OBVIOUS
    <3>4. /\ f \in Entry /\ f.state = entry[a].state /\ f.response = "failed" /\ f.available
          /\ f.finished /\ f.loaded # "no"
      BY <3>2, <3>3 DEF Entry
    <3>5. entry' = [entry EXCEPT ![a] = f]
      BY <1>1, <1>3, <2>2, <3>1, <3>3 DEF LoadingFailed, Listed
    <3>6. QED
      BY <2>2, <3>4, <3>5
  <2>3. QED
    BY <2>1, <2>2
<1>5. /\ entry' \in [Entries -> Entry] /\ entry'[a] = f
      /\ \A k \in Entries : k # a => entry'[k] = entry[k]
      /\ \A k \in Entries : entry'[k].state = entry[k].state
      /\ \A k \in Entries : Current(k)' <=> Current(k)
      /\ \A k \in Entries : k[2] > hop[k[1]] => entry'[k].state = 0
      /\ NetStates'
  BY <1>2, <1>3, <1>4, OneEntry
<1>6. /\ browser' \in [Requests -> {"unsent", "sent", "responded", "over", "failed"}]
      /\ browser'[r] = "failed"
      /\ \A q \in Requests : q # r => browser'[q] = browser[q]
  BY <1>2 DEF RequestsInv, RequestsTypeOK
<1>7. RequestsTypeOK'
  BY <1>2, <1>5, <1>6 DEF RequestsInv, RequestsTypeOK
<1>8. \A k \in Entries : Touched(k)' <=> Touched(k)
  BY <1>2, <1>5 DEF Touched
<1>9. TouchedUsed'
  BY <1>2, <1>8 DEF RequestsInv, TouchedUsed, Used
<1>10. Asking'
  <2>1. \A k \in Entries : k[1] = r =>
          /\ <<k, "collector">> \notin asked
          /\ \A who \in Readers \cup {"collector"} : <<k, who>> \in asked => k \in hasty
    BY <1>2 DEF RequestsInv, Asking
  <2>2. \A k \in Entries : k[1] # r => browser'[k[1]] = browser[k[1]]
    BY <1>6, KeyFacts
  <2>3. \A x \in Readers : reader[x].key \in Entries => entry'[reader[x].key].response # "none"
    <3>1. entry[a].response # "none" => entry'[a].response # "none"
      BY <1>4, <1>5
    <3>2. QED
      BY <1>5, <3>1 DEF RequestsInv, Asking
  <2>4. QED
    BY <1>2, <2>1, <2>2, <2>3 DEF RequestsInv, Asking
<1>11. Following'
  <2>1. \A q \in Requests : browser'[q] = "unsent" <=> hop[q] = 0
    BY <1>2, <1>6 DEF RequestsInv, Following
  <2>2. ASSUME NEW k \in Entries, Current(k)
        PROVE  /\ browser'[k[1]] = "sent" => entry'[k].response = "none" /\ ~entry'[k].finished
               /\ browser'[k[1]] \in {"sent", "responded"} =>
                    /\ entry'[k].loaded = "no"
                    /\ entry'[k].bodyRead => k \in hasty
               /\ browser'[k[1]] = "over" /\ entry'[k].response = "body" /\ entry'[k].loaded # "no"
                    => entry'[k].body \/ k \in hasty
               /\ browser'[k[1]] = "failed" => entry'[k].response = "failed"
    <3>1. CASE k[1] = r
      <4>1. k = a /\ entry[a].state # 0
        BY <1>3, <2>2, <3>1 DEF Current
      <4>2. QED
        BY <1>3, <1>4, <1>5, <1>6, <4>1
    <3>2. CASE k[1] # r
      <4>1. browser'[k[1]] = browser[k[1]] /\ entry'[k] = entry[k]
        BY <1>3, <1>5, <1>6, <3>2, KeyFacts
      <4>2. QED
        BY <2>2, <4>1 DEF RequestsInv, Following
    <3>3. QED
      BY <3>1, <3>2
  <2>3. QED
    BY <1>2, <1>5, <2>1, <2>2 DEF Following
<1>12. Settling'
  <2> SUFFICES ASSUME NEW k \in Entries, entry[k].state # 0
               PROVE  /\ (k[2] < hop[k[1]] \/ browser'[k[1]] \in {"responded", "over", "failed"})
                           => entry'[k].available
                      /\ (k[2] < hop[k[1]] \/ browser'[k[1]] \in {"over", "failed"})
                           => \/ entry'[k].finished /\ entry'[k].loaded # "no"
                              \/ <<k, "collector">> \in asked
    BY <1>2, <1>5 DEF Settling
  <2>1. CASE k = a
    BY <1>4, <1>5, <2>1
  <2>2. CASE k[1] = r /\ k # a
    BY <1>3, <1>5, <2>2 DEF RequestsInv, Settling
  <2>3. CASE k[1] # r
    <3>1. browser'[k[1]] = browser[k[1]] /\ entry'[k] = entry[k]
      BY <1>3, <1>5, <1>6, <2>3, KeyFacts
    <3>2. QED
      BY <3>1 DEF RequestsInv, Settling
  <2>4. QED
    BY <2>1, <2>2, <2>3
<1>13. NoEmptyAnswers'
  <2> SUFFICES ASSUME NEW x \in Readers, NEW k, k = reader[x].key,
                      reader[x].at = "nothing", ~reader[x].late
               PROVE  \/ k \in hasty \/ k # Last(k[1]) \/ TabOf[k[1]] \notin open
                      \/ entry'[k].state # net[TabOf[k[1]]] \/ entry'[k].response # "body"
    BY <1>2 DEF NoEmptyAnswers, Last
  <2>1. k \in Entries
    BY DEF RequestsInv, Asking
  <2>2. entry'[k].state = entry[k].state
        /\ (entry'[k].response = entry[k].response \/ entry'[k].response = "failed")
    BY <1>4, <1>5, <2>1
  <2>3. QED
    BY <2>2 DEF RequestsInv, NoEmptyAnswers
<1>14. QED
  BY <1>5, <1>7, <1>9, <1>10, <1>11, <1>12, <1>13 DEF RequestsInv

-----------------------------------------------------------------------------
(* Bodies.                                                                 *)

Reader == [at: {"idle", "waiting", "reading", "got", "nothing"},
           key: Entries \cup {<< >>}, late: BOOLEAN]

\* Nobody who is idle has asked; who is not has a key that was answered.
LEMMA ReaderFacts ==
  ASSUME RequestsInv, NEW x \in Readers
  PROVE  /\ x # "collector" /\ reader \in [Readers -> Reader] /\ reader[x] \in Reader
         /\ reader[x].at = "idle" => \A q \in Entries : <<q, x>> \notin asked
         /\ reader[x].at # "idle" =>
              /\ reader[x].key \in Entries /\ entry[reader[x].key].response # "none"
              /\ Touched(reader[x].key)
BY RequestsAssumption DEF RequestsInv, RequestsTypeOK, Asking, Touched, Reader

\* A reader that came away empty though its wait was settled, and why.
Empty(x) == reader[x].at = "nothing" /\ ~reader[x].late

Excused(k) ==
  \/ k \in hasty \/ k # Last(k[1]) \/ TabOf[k[1]] \notin open
  \/ entry[k].state # net[TabOf[k[1]]] \/ entry[k].response # "body"

LEMMA EmptyExcused == NoEmptyAnswers <=> \A x \in Readers : Empty(x) => Excused(reader[x].key)
BY DEF NoEmptyAnswers, Empty, Excused

\* An entry that is settled without a body, though there is one, was asked
\* about too early.
LEMMA EmptyIsHasty ==
  ASSUME RequestsInv, NEW k \in Entries, Touched(k), entry[k].loaded # "no", ~entry[k].body
  PROVE  Excused(k)
<1> SUFFICES ASSUME k = Last(k[1]), TabOf[k[1]] \in open,
                    entry[k].state = net[TabOf[k[1]]], entry[k].response = "body"
             PROVE  k \in hasty
  BY DEF Excused
<1>1. Current(k)
  BY DEF RequestsInv, TouchedUsed, Current
<1>2. PICK r \in Requests : r = k[1]
  BY KeyFacts
<1>3. browser[r] # "unsent"
  <2>1. k[2] = hop[r] /\ k[2] # 0
    BY <1>2, KeyFacts DEF Last
  <2>2. QED
    BY <2>1 DEF RequestsInv, Following
<1>4. browser[r] \in {"sent", "responded", "over", "failed"}
  BY <1>3 DEF RequestsInv, RequestsTypeOK
<1>5. QED
  BY <1>1, <1>2, <1>4 DEF RequestsInv, Following

LEMMA FetchBodyRequests ==
  ASSUME RequestsInv, ConnectedTypeOK', NEW x \in Readers, NEW k \in Entries, FetchBody(x, k)
  PROVE  RequestsInv'
<1>1. /\ reader[x].at = "idle" /\ entry[k].state # 0 /\ entry[k].response = "body"
      /\ UNCHANGED <<open, stage, net, bound, lastState, browser, hop, entry, asked, hasty>>
  BY DEF FetchBody, Listed, connectedVars, tabVars, clientVars, netVars
<1>2. /\ reader \in [Readers -> Reader] /\ reader[x] \in Reader
      /\ \A q \in Entries : <<q, x>> \notin asked
  BY <1>1, ReaderFacts
<1>3. PICK at \in {"got", "waiting"} : at = IF entry[k].body THEN "got" ELSE "waiting"
  OBVIOUS
<1>4. PICK d : d = [reader[x] EXCEPT !.key = k, !.at = at]
  OBVIOUS
<1>5. d \in Reader /\ d.key = k /\ d.at = at
  BY <1>2, <1>4 DEF Reader
<1>6. reader' = [reader EXCEPT ![x] = d]
  BY <1>2, <1>3, <1>4 DEF FetchBody
<1>7. /\ reader' \in [Readers -> Reader] /\ reader'[x] = d
      /\ \A y \in Readers : y # x => reader'[y] = reader[y]
  BY <1>2, <1>5, <1>6
<1>8. RequestsTypeOK'
  BY <1>1, <1>7 DEF RequestsInv, RequestsTypeOK, Reader
<1>9. NetStates'
  BY <1>1, NetStatesKept DEF RequestsInv
<1>10. \A q \in Entries : Touched(q)' => Touched(q)
  BY <1>1, <1>5, <1>7 DEF Touched
<1>11. TouchedUsed'
  BY <1>1, <1>10 DEF RequestsInv, TouchedUsed, Used
<1>12. Asking'
  <2>1. \A q \in Entries, y \in Readers :
          <<q, y>> \in asked => reader'[y].key = q /\ reader'[y].at # "idle"
    BY <1>2, <1>7 DEF RequestsInv, Asking
  <2>2. \A y \in Readers :
          /\ reader'[y].at # "idle" => reader'[y].key \in Entries
          /\ reader'[y].key \in Entries => entry[reader'[y].key].response # "none"
    <3>1. d.key \in Entries /\ entry[d.key].response # "none"
      BY <1>1, <1>5
    <3>2. QED
      BY <1>7, <3>1 DEF RequestsInv, Asking
  <2>3. QED
    BY <1>1, <2>1, <2>2 DEF RequestsInv, Asking
<1>13. Following' /\ Settling'
  BY <1>1 DEF RequestsInv, Following, Settling, Current, Last
<1>14. NoEmptyAnswers'
  <2>1. ASSUME NEW y \in Readers, reader'[y].at = "nothing" PROVE reader'[y] = reader[y]
    BY <1>3, <1>5, <1>7, <2>1
  <2>2. QED
    BY <1>1, <2>1 DEF RequestsInv, NoEmptyAnswers, Last
<1>15. QED
  BY <1>8, <1>9, <1>11, <1>12, <1>13, <1>14 DEF RequestsInv

\* A reader that finds no body, and nobody asking, asks.
LEMMA ReaderAsksRequests ==
  ASSUME RequestsInv, ConnectedTypeOK', NEW x \in Readers, NEW k, k = reader[x].key,
         reader[x].at = "waiting", Ask(k, x), NEW d \in Reader, d.key = k, d.at = "reading",
         reader' = [reader EXCEPT ![x] = d],
         UNCHANGED <<connectedVars, netVars, browser, hop>>
  PROVE  RequestsInv'
<1>1. /\ k \in Entries /\ Touched(k) /\ entry[k].response # "none" /\ x # "collector"
      /\ reader \in [Readers -> Reader] /\ reader[x] \in Reader
  BY ReaderFacts
<1>2. /\ UNCHANGED <<open, stage, net, bound, lastState, browser, hop>>
      /\ asked' = asked \cup {<<k, x>>}
      /\ hasty' = IF browser[k[1]] = "over" THEN hasty ELSE hasty \cup {k}
  BY DEF Ask, connectedVars, tabVars, clientVars, netVars
<1>3. /\ reader' \in [Readers -> Reader] /\ reader'[x] = d
      /\ \A y \in Readers : y # x => reader'[y] = reader[y]
  BY <1>1
<1>4. \A y \in Readers : reader'[y].key = reader[y].key
  BY <1>3
<1>6. PICK f : f = [entry[k] EXCEPT !.bodyRead = TRUE]
  OBVIOUS
<1>7. entry[k] \in Entry /\ entry \in [Entries -> Entry]
  BY <1>1 DEF RequestsInv, RequestsTypeOK
<1>8. /\ f \in Entry /\ f.state = entry[k].state /\ f.response = entry[k].response
      /\ f.available = entry[k].available /\ f.finished = entry[k].finished
      /\ f.loaded = entry[k].loaded /\ f.body = entry[k].body
  BY <1>6, <1>7 DEF Entry
<1>9. entry' = [entry EXCEPT ![k] = f]
  BY <1>1, <1>6, <1>7 DEF Ask
<1>10. /\ entry' \in [Entries -> Entry] /\ entry'[k] = f
       /\ \A q \in Entries : q # k => entry'[q] = entry[q]
       /\ \A q \in Entries : entry'[q].state = entry[q].state
       /\ \A q \in Entries : Current(q)' <=> Current(q)
       /\ \A q \in Entries : q[2] > hop[q[1]] => entry'[q].state = 0
       /\ NetStates'
  BY <1>1, <1>2, <1>8, <1>9, OneEntry
<1>11. \A q \in Entries :
         /\ entry'[q].response = entry[q].response /\ entry'[q].available = entry[q].available
         /\ entry'[q].finished = entry[q].finished /\ entry'[q].loaded = entry[q].loaded
         /\ entry'[q].body = entry[q].body
         /\ entry'[q].bodyRead => entry[q].bodyRead \/ q = k
  BY <1>8, <1>10
<1>12. RequestsTypeOK'
  <2>1. asked' \subseteq Entries \X (Readers \cup {"collector"}) /\ hasty' \subseteq Entries
    BY <1>1, <1>2 DEF RequestsInv, RequestsTypeOK
  <2>2. QED
    BY <1>2, <1>3, <1>10, <2>1 DEF RequestsInv, RequestsTypeOK, Reader
<1>13. ASSUME NEW q \in Entries, Touched(q)' PROVE Touched(q)
  <2>1. CASE q = k
    BY <1>1, <2>1
  <2>2. CASE q # k
    BY <1>2, <1>4, <1>3, <1>10, <1>13, <2>2 DEF Touched
  <2>3. QED
    BY <2>1, <2>2
<1>14. TouchedUsed'
  BY <1>2, <1>13 DEF RequestsInv, TouchedUsed, Used
<1>15. Asking'
  <2>1. \A q \in Entries : <<q, "collector">> \in asked' => <<q, "collector">> \in asked
    BY <1>1, <1>2
  <2>2. \A q \in Entries, y \in Readers :
          <<q, y>> \in asked' => reader'[y].key = q /\ reader'[y].at # "idle"
    BY <1>2, <1>4, <1>3 DEF RequestsInv, Asking
  <2>3. \A q \in Entries, who \in Readers \cup {"collector"} :
          <<q, who>> \in asked' => q \in hasty' \/ browser[q[1]] = "over"
    BY <1>2 DEF RequestsInv, Asking
  <2>4. \A y \in Readers :
          /\ reader'[y].at # "idle" => reader'[y].key \in Entries
          /\ reader'[y].key \in Entries => entry'[reader'[y].key].response # "none"
    BY <1>1, <1>4, <1>3, <1>11 DEF RequestsInv, Asking
  <2>5. \A q \in Entries : <<q, "collector">> \in asked => browser[q[1]] = "over"
    BY DEF RequestsInv, Asking
  <2>6. QED
    BY <1>2, <2>1, <2>2, <2>3, <2>4, <2>5 DEF Asking
<1>16. Following'
  <2>1. \A q \in Entries :
          browser[q[1]] \in {"sent", "responded"} /\ q = k => q \in hasty'
    BY <1>2
  <2>2. \A q \in Entries : q \in hasty => q \in hasty'
    BY <1>2
  <2>3. ASSUME NEW q \in Entries, Current(q)
        PROVE  /\ browser[q[1]] = "sent" => entry'[q].response = "none" /\ ~entry'[q].finished
               /\ browser[q[1]] \in {"sent", "responded"} =>
                    /\ entry'[q].loaded = "no"
                    /\ entry'[q].bodyRead => q \in hasty'
               /\ browser[q[1]] = "over" /\ entry'[q].response = "body" /\ entry'[q].loaded # "no"
                    => entry'[q].body \/ q \in hasty'
               /\ browser[q[1]] = "failed" => entry'[q].response = "failed"
    <3>1. CASE q = k
      BY <1>8, <1>10, <2>1, <2>2, <2>3, <3>1 DEF RequestsInv, Following
    <3>2. CASE q # k
      BY <1>10, <2>2, <2>3, <3>2 DEF RequestsInv, Following
    <3>3. QED
      BY <3>1, <3>2
  <2>4. \A q \in Requests : browser[q] = "unsent" <=> hop[q] = 0
    BY DEF RequestsInv, Following
  <2>5. QED
    BY <1>2, <1>10, <2>3, <2>4 DEF Following
<1>17. Settling'
  BY <1>2, <1>10, <1>11 DEF RequestsInv, Settling
<1>18. NoEmptyAnswers'
  <2>1. ASSUME NEW y \in Readers, Empty(y)' PROVE Excused(reader[y].key)'
    <3>1. reader'[y] = reader[y]
      BY <1>4, <1>3, <2>1 DEF Empty
    <3>2. Empty(y) /\ reader[y].key \in Entries
      BY <2>1, <3>1, ReaderFacts DEF Empty
    <3>3. Excused(reader[y].key)
      BY <3>2, EmptyExcused DEF RequestsInv
    <3>4. QED
      BY <1>2, <1>10, <1>11, <3>1, <3>2, <3>3 DEF Excused, Last
  <2>2. QED
    BY <2>1 DEF NoEmptyAnswers, Empty, Excused
<1>19. QED
  BY <1>10, <1>12, <1>14, <1>15, <1>16, <1>17, <1>18 DEF RequestsInv

\* A reader that finds the body, or that somebody has asked for it.
LEMMA ReaderEndsRequests ==
  ASSUME RequestsInv, ConnectedTypeOK', NEW x \in Readers, NEW k, k = reader[x].key,
         reader[x].at = "waiting", NEW d \in Reader, d.key = k,
         d.at = IF entry[k].body THEN "got" ELSE "nothing", d.late <=> entry[k].loaded = "no",
         reader' = [reader EXCEPT ![x] = d],
         UNCHANGED <<connectedVars, netVars, browser, hop, entry, asked, hasty>>
  PROVE  RequestsInv'
<1>1. /\ k \in Entries /\ Touched(k) /\ reader \in [Readers -> Reader] /\ reader[x] \in Reader
  BY ReaderFacts
<1>2. UNCHANGED <<open, stage, net, bound, lastState, browser, hop, entry, asked, hasty>>
  BY DEF connectedVars, tabVars, clientVars, netVars
<1>6. /\ reader' \in [Readers -> Reader] /\ reader'[x] = d
      /\ \A y \in Readers : y # x => reader'[y] = reader[y]
  BY <1>1
<1>7. RequestsTypeOK'
  BY <1>2, <1>6 DEF RequestsInv, RequestsTypeOK, Reader
<1>8. NetStates'
  BY <1>2, NetStatesKept DEF RequestsInv
<1>9. \A y \in Readers : reader'[y].key = reader[y].key
  BY <1>6
<1>10. \A q \in Entries : Touched(q)' => Touched(q)
  BY <1>2, <1>9 DEF Touched
<1>11. TouchedUsed'
  BY <1>2, <1>10 DEF RequestsInv, TouchedUsed, Used
<1>12. Asking'
  <2>1. \A y \in Readers : reader'[y].at # "idle" <=> reader[y].at # "idle"
    BY <1>6
  <2>2. QED
    BY <1>2, <1>9, <2>1 DEF RequestsInv, Asking
<1>13. Following' /\ Settling'
  BY <1>2 DEF RequestsInv, Following, Settling, Current, Last
<1>14. NoEmptyAnswers'
  <2>1. ASSUME NEW y \in Readers, Empty(y)' PROVE Excused(reader[y].key)
    <3>1. CASE y = x
      <4>1. d.at = "nothing" /\ ~d.late
        BY <1>6, <2>1, <3>1 DEF Empty
      <4>2. entry[k].loaded # "no" /\ ~entry[k].body
        BY <4>1
      <4>3. QED
        BY <1>1, <3>1, <4>2, EmptyIsHasty
    <3>2. CASE y # x
      BY <1>6, <2>1, <3>2, EmptyExcused DEF RequestsInv, Empty
    <3>3. QED
      BY <3>1, <3>2
  <2>2. ASSUME NEW y \in Readers, Empty(y)' PROVE Excused(reader[y].key)'
    BY <1>2, <1>9, <2>1, <2>2 DEF Excused, Last
  <2>3. QED
    BY <2>2 DEF NoEmptyAnswers, Empty, Excused
<1>15. QED
  BY <1>7, <1>8, <1>11, <1>12, <1>13, <1>14 DEF RequestsInv

LEMMA ReaderGoesRequests ==
  ASSUME RequestsInv, ConnectedTypeOK', NEW x \in Readers, ReaderGoes(x)
  PROVE  RequestsInv'
<1>1. PICK k : k = reader[x].key
  OBVIOUS
<1>2. /\ reader[x].at = "waiting" /\ UNCHANGED <<connectedVars, netVars, browser, hop>>
      /\ reader \in [Readers -> Reader] /\ reader[x] \in Reader
  BY ReaderFacts DEF ReaderGoes
<1>3. CASE ~entry[k].body /\ ~entry[k].bodyRead
  <2>1. /\ Ask(k, x)
        /\ reader' = [reader EXCEPT ![x].at = "reading", ![x].late = (entry[k].loaded = "no")]
    BY <1>1, <1>3 DEF ReaderGoes
  <2>2. PICK d : d = [reader[x] EXCEPT !.at = "reading", !.late = (entry[k].loaded = "no")]
    OBVIOUS
  <2>3. d \in Reader /\ d.key = k /\ d.at = "reading" /\ reader' = [reader EXCEPT ![x] = d]
    BY <1>1, <1>2, <2>1, <2>2 DEF Reader
  <2>4. Ask(k, x) /\ UNCHANGED <<connectedVars, netVars, browser, hop>>
    BY <1>2, <2>1
  <2>5. QED
    BY <1>1, <1>2, <2>3, <2>4, ReaderAsksRequests
<1>4. CASE entry[k].body \/ entry[k].bodyRead
  <2>1. PICK at \in {"got", "nothing"} : at = IF entry[k].body THEN "got" ELSE "nothing"
    OBVIOUS
  <2>2. /\ UNCHANGED <<entry, asked, hasty>>
        /\ reader' = [reader EXCEPT ![x].at = at, ![x].late = (entry[k].loaded = "no")]
    BY <1>1, <1>4, <2>1 DEF ReaderGoes
  <2>3. PICK d : d = [reader[x] EXCEPT !.at = at, !.late = (entry[k].loaded = "no")]
    OBVIOUS
  <2>4. /\ d \in Reader /\ d.key = k /\ d.at = at /\ (d.late <=> entry[k].loaded = "no")
        /\ reader' = [reader EXCEPT ![x] = d]
    BY <1>1, <1>2, <2>2, <2>3 DEF Reader
  <2>5. UNCHANGED <<connectedVars, netVars, browser, hop, entry, asked, hasty>>
    BY <1>2, <2>2
  <2>6. d.at = IF entry[k].body THEN "got" ELSE "nothing"
    BY <2>1, <2>4
  <2>7. QED
    BY <1>1, <1>2, <2>4, <2>5, <2>6, ReaderEndsRequests
<1>5. QED
  BY <1>3, <1>4

LEMMA BodyComesRequests ==
  ASSUME RequestsInv, ConnectedTypeOK', NEW k \in Entries,
         NEW who \in Readers \cup {"collector"}, BodyComes(k, who)
  PROVE  RequestsInv'
<1>1. /\ <<k, who>> \in asked /\ asked' = asked \ {<<k, who>>}
      /\ UNCHANGED <<open, stage, net, bound, lastState, browser, hop, hasty>>
  BY DEF BodyComes, connectedVars, tabVars, clientVars, netVars
<1>2. /\ entry[k] \in Entry /\ entry \in [Entries -> Entry]
      /\ reader \in [Readers -> Reader]
      /\ HasBody(k) \in BOOLEAN
  BY DEF RequestsInv, RequestsTypeOK, HasBody, Reader
<1>3. PICK f \in Entry :
        /\ entry' = [entry EXCEPT ![k] = f]
        /\ f.state = entry[k].state /\ f.response = entry[k].response
        /\ f.available = entry[k].available /\ f.bodyRead = entry[k].bodyRead
        /\ f.body <=> (entry[k].body \/ HasBody(k))
        /\ who = "collector" /\ Listed(k) => f.finished /\ f.loaded # "no"
        /\ ~(who = "collector" /\ Listed(k)) =>
             f.finished = entry[k].finished /\ f.loaded = entry[k].loaded
  <2>1. PICK has \in BOOLEAN, settles \in BOOLEAN :
          has = HasBody(k) /\ settles = (who = "collector" /\ Listed(k))
    BY <1>2
  <2>2. PICK g : g = [entry[k] EXCEPT !.body = @ \/ has]
    OBVIOUS
  <2>3. /\ g \in Entry /\ g.state = entry[k].state /\ g.response = entry[k].response
        /\ g.available = entry[k].available /\ g.bodyRead = entry[k].bodyRead
        /\ g.body <=> (entry[k].body \/ has)
        /\ g.finished = entry[k].finished /\ g.loaded = entry[k].loaded
    BY <1>2, <2>1, <2>2 DEF Entry
  <2>4. CASE settles
    <3>1. PICK f : f = Finished(g, "done")
      OBVIOUS
    <3>2. /\ f \in Entry /\ f.state = g.state /\ f.response = g.response
          /\ f.available = g.available /\ f.bodyRead = g.bodyRead /\ f.body = g.body
          /\ f.finished /\ f.loaded # "no"
      BY <2>3, <3>1, FinishedFields
    <3>3. entry' = [entry EXCEPT ![k] = f]
      BY <2>1, <2>2, <2>4, <3>1 DEF BodyComes
    <3>4. QED
      BY <2>1, <2>3, <2>4, <3>2, <3>3
  <2>5. CASE ~settles
    <3>1. entry' = [entry EXCEPT ![k] = g]
      BY <2>1, <2>2, <2>5 DEF BodyComes
    <3>2. QED
      BY <2>1, <2>3, <2>5, <3>1
  <2>6. QED
    BY <2>4, <2>5
<1>5. /\ entry' \in [Entries -> Entry] /\ entry'[k] = f
      /\ \A q \in Entries : q # k => entry'[q] = entry[q]
      /\ \A q \in Entries : entry'[q].state = entry[q].state
      /\ \A q \in Entries : Current(q)' <=> Current(q)
      /\ \A q \in Entries : q[2] > hop[q[1]] => entry'[q].state = 0
      /\ NetStates'
  BY <1>1, <1>3, OneEntry
<1>6. \A q \in Entries : entry'[q].response = entry[q].response
  BY <1>3, <1>5
<1>7. who = "collector" => reader' = reader /\ browser[k[1]] = "over"
  BY <1>1 DEF RequestsInv, Asking, BodyComes
<1>8. who # "collector" =>
        /\ who \in Readers /\ reader[who].key = k /\ reader[who].at # "idle"
        /\ reader'[who].key = k /\ reader'[who].late = reader[who].late
        /\ reader'[who].at = IF f.body THEN "got" ELSE "nothing"
        /\ reader' \in [Readers -> Reader]
        /\ \A y \in Readers : y # who => reader'[y] = reader[y]
  <2> SUFFICES ASSUME who # "collector"
               PROVE  /\ who \in Readers /\ reader[who].key = k /\ reader[who].at # "idle"
                      /\ reader'[who].key = k /\ reader'[who].late = reader[who].late
                      /\ reader'[who].at = IF f.body THEN "got" ELSE "nothing"
                      /\ reader' \in [Readers -> Reader]
                      /\ \A y \in Readers : y # who => reader'[y] = reader[y]
    OBVIOUS
  <2>1. who \in Readers /\ reader[who].key = k /\ reader[who].at # "idle"
    BY <1>1 DEF RequestsInv, Asking
  <2>2. PICK at \in {"got", "nothing"} : at = IF f.body THEN "got" ELSE "nothing"
    OBVIOUS
  <2>3. PICK d : d = [reader[who] EXCEPT !.at = at]
    OBVIOUS
  <2>4. reader[who] \in Reader
    BY <1>2, <2>1
  <2>5. d \in Reader /\ d.key = k /\ d.at = at /\ d.late = reader[who].late
    BY <2>1, <2>3, <2>4 DEF Reader
  <2>6. (entry[k].body \/ HasBody(k)) <=> [entry[k] EXCEPT !.body = @ \/ HasBody(k)].body
    BY <1>2 DEF Entry
  <2>7. reader' = [reader EXCEPT ![who] = d]
    BY <1>2, <1>3, <2>1, <2>2, <2>3, <2>6 DEF BodyComes
  <2>8. QED
    BY <1>2, <2>1, <2>2, <2>5, <2>7
<1>9. \A y \in Readers : reader'[y].key = reader[y].key
  BY <1>7, <1>8
<1>10. RequestsTypeOK'
  <2>1. asked' \subseteq Entries \X (Readers \cup {"collector"})
    BY <1>1 DEF RequestsInv, RequestsTypeOK
  <2>2. reader' \in [Readers -> Reader]
    BY <1>2, <1>7, <1>8
  <2>3. QED
    BY <1>1, <1>5, <2>1, <2>2 DEF RequestsInv, RequestsTypeOK, Reader
<1>11. \A q \in Entries : Touched(q)' => Touched(q)
  BY <1>1, <1>5, <1>9 DEF Touched
<1>12. TouchedUsed'
  BY <1>1, <1>11 DEF RequestsInv, TouchedUsed, Used
<1>13. Asking'
  <2>1. \A y \in Readers : reader[y].at # "idle" <=> reader'[y].at # "idle"
    BY <1>7, <1>8
  <2>2. QED
    BY <1>1, <1>6, <1>9, <2>1 DEF RequestsInv, Asking
<1>14. Following'
  <2>1. ASSUME NEW q \in Entries, Current(q)
        PROVE  /\ browser[q[1]] = "sent" => entry'[q].response = "none" /\ ~entry'[q].finished
               /\ browser[q[1]] \in {"sent", "responded"} =>
                    /\ entry'[q].loaded = "no"
                    /\ entry'[q].bodyRead => q \in hasty
               /\ browser[q[1]] = "over" /\ entry'[q].response = "body" /\ entry'[q].loaded # "no"
                    => entry'[q].body \/ q \in hasty
               /\ browser[q[1]] = "failed" => entry'[q].response = "failed"
    <3>1. CASE q = k /\ browser[k[1]] = "over"
      BY <1>3, <1>5, <2>1, <3>1 DEF HasBody, Current
    <3>2. CASE q = k /\ browser[k[1]] # "over"
      BY <1>3, <1>5, <1>7, <2>1, <3>2 DEF RequestsInv, Following
    <3>3. CASE q # k
      BY <1>5, <2>1, <3>3 DEF RequestsInv, Following
    <3>4. QED
      BY <3>1, <3>2, <3>3
  <2>2. \A q \in Requests : browser[q] = "unsent" <=> hop[q] = 0
    BY DEF RequestsInv, Following
  <2>3. QED
    BY <1>1, <1>5, <2>1, <2>2 DEF Following
<1>15. Settling'
  <2> SUFFICES ASSUME NEW q \in Entries, entry[q].state # 0
               PROVE  /\ (q[2] < hop[q[1]] \/ browser[q[1]] \in {"responded", "over", "failed"})
                           => entry'[q].available
                      /\ (q[2] < hop[q[1]] \/ browser[q[1]] \in {"over", "failed"})
                           => \/ entry'[q].finished /\ entry'[q].loaded # "no"
                              \/ <<q, "collector">> \in asked'
    BY <1>1, <1>5 DEF Settling
  <2>1. CASE q = k /\ who = "collector"
    BY <1>3, <1>5, <2>1 DEF RequestsInv, Settling, Listed
  <2>2. CASE q = k /\ who # "collector"
    BY <1>1, <1>3, <1>5, <2>2 DEF RequestsInv, Settling
  <2>3. CASE q # k
    BY <1>1, <1>5, <2>3 DEF RequestsInv, Settling
  <2>4. QED
    BY <2>1, <2>2, <2>3
<1>16. NoEmptyAnswers'
  <2>1. ASSUME NEW y \in Readers, Empty(y)' PROVE Excused(reader[y].key)
    <3>1. CASE y = who
      <4>1. ~f.body /\ who # "collector"
        BY <1>8, <2>1, <3>1, RequestsAssumption DEF Empty
      <4>2. ~HasBody(k)
        BY <1>3, <4>1
      <4>3. k \in hasty \/ TabOf[k[1]] \notin open
        BY <1>1, <4>2 DEF RequestsInv, Asking, HasBody
      <4>4. QED
        BY <1>8, <3>1, <4>1, <4>3 DEF Excused
    <3>2. CASE y # who
      <4>1. reader'[y] = reader[y]
        BY <1>7, <1>8, <3>2
      <4>2. QED
        BY <2>1, <4>1, EmptyExcused DEF RequestsInv, Empty
    <3>3. QED
      BY <3>1, <3>2
  <2>2. ASSUME NEW y \in Readers, Empty(y)' PROVE Excused(reader[y].key)'
    <3>1. reader'[y].at # "idle"
      BY <2>2 DEF Empty
    <3>2. reader[y].key \in Entries
      BY <1>7, <1>8, <3>1, ReaderFacts
    <3>3. QED
      BY <1>1, <1>5, <1>6, <1>9, <2>1, <2>2, <3>2 DEF Excused, Last
  <2>3. QED
    BY <2>2 DEF NoEmptyAnswers, Empty, Excused
<1>17. QED
  BY <1>5, <1>10, <1>12, <1>13, <1>14, <1>15, <1>16 DEF RequestsInv

-----------------------------------------------------------------------------
(* The theorems about requests.                                            *)

LEMMA NextRequests == ConnectedInv /\ RequestsInv /\ [Next]_vars => RequestsInv'
<1> SUFFICES ASSUME ConnectedInv, RequestsInv, [Next]_vars PROVE RequestsInv'
  OBVIOUS
<1>1. ConnectedTypeOK /\ ConnectedTypeOK'
  BY NextConnected DEF ConnectedInv
<1>2. CASE Elsewhere /\ ConnectedStep
  BY <1>1, <1>2, ConnectedMove, TabsMoveRequests DEF Elsewhere
<1>3. CASE \E c \in Clients : ListenToNetwork(c)
  BY <1>1, <1>3, ListenRequests
<1>4. CASE \E t \in Tabs : Navigate(t) \/ ClearRequests(t) \/ CloseTabRequests(t)
  BY <1>1, <1>4, NavigateRequests, ClearRequestsKeeps, CloseTabRequestsKeeps
<1>5. CASE \E r \in Requests :
       Send(r) \/ Redirect(r) \/ Respond(r) \/ LoadingFinished(r) \/ LoadingFailed(r)
  BY <1>1, <1>5, SendRequests, RedirectRequests, RespondRequests, LoadingFinishedRequests,
     LoadingFailedRequests
<1>6. CASE \E x \in Readers : ReaderGoes(x) \/ \E k \in Entries : FetchBody(x, k)
  BY <1>1, <1>6, ReaderGoesRequests, FetchBodyRequests
<1>7. CASE \E k \in Entries, who \in Readers \cup {"collector"} : BodyComes(k, who)
  BY <1>1, <1>7, BodyComesRequests
<1>8. CASE UNCHANGED vars
  <2>1. TabsMove
    BY <1>8 DEF vars, connectedVars, tabVars, clientVars, TabsMove, Listening
  <2>2. QED
    BY <1>1, <1>8, <2>1, TabsMoveRequests DEF vars
<1>9. QED
  BY <1>2, <1>3, <1>4, <1>5, <1>6, <1>7, <1>8 DEF Next, ConnectedStep

\* The invariant of the requests is inductive beside that of tabs and clients.
THEOREM RequestsInductive == Spec => []RequestsInv
<1>1. Init => RequestsInv
  BY InitRequests
<1>2. QED
  BY <1>1, NextRequests, ConnectedInductive, PTL DEF Spec

\* Every variable of the session and its requests keeps its type, and an entry
\* that a request has not come to is in no list.
THEOREM RequestsTypeCorrect == Spec => []RequestsTypeOK
<1>1. RequestsInv => RequestsTypeOK
  BY DEF RequestsInv
<1>2. QED
  BY <1>1, RequestsInductive, PTL

\* Whoever waits on a request that is over, or has been redirected, was let go,
\* or its body is being read, for any number of resets, tabs and readers.
THEOREM NobodyWaitsOn == Spec => []OverMeansSettled
<1>1. RequestsInv => OverMeansSettled
  BY DEF RequestsInv, Settling, OverMeansSettled, Listed
<1>2. QED
  BY <1>1, RequestsInductive, PTL

\* A reader of a body that waited its turn gets it, whoever else reads the same
\* body, unless it was asked for too early, was of a redirect, or the list was
\* replaced or its tab closed.
THEOREM BodiesReachReaders == Spec => []NoEmptyAnswers
<1>1. RequestsInv => NoEmptyAnswers
  BY DEF RequestsInv
<1>2. QED
  BY <1>1, RequestsInductive, PTL

=============================================================================
