--------------------------- MODULE MCTabRequests ---------------------------
(* An instance of TabRequests. *)
EXTENDS TabRequests

CONSTANTS t1, t2

MCClients == {<<t1, 1>>, <<t1, 2>>, <<t2, 1>>}
MCTabOf == [r \in Requests |-> t1]
MCMatches == Routes \X Requests

\* The parts of the instance: two tabs with dialogs, two clients of a tab with
\* routes, and a client with redirects and readers.
OneTab == t2 \notin open /\ activeTab # t2 /\ stage[<<t2, 1>>] = "none" /\ closing[t2] = "no"
NoDialogs == dialogs = {} /\ (\A t \in Tabs : dialog[t] = "none")
             /\ \A k \in Clicks : click[k].at = "idle"
NoRoutes == routesList = {} /\ handled = {} /\ \A c \in Clients : wire[c] = << >>
NoRequests == \A r \in Requests : browser[r] = "unsent"
NoReaders == \A x \in Readers : reader[x].at = "idle"

MCBound ==
  \/ NoRoutes /\ NoRequests /\ stage[<<t1, 2>>] = "none" /\ lastState <= 2
  \/ OneTab /\ NoDialogs /\ NoReaders /\ lastState <= 1 /\ \A r \in Requests : hop[r] <= 1
  \/ OneTab /\ NoDialogs /\ NoRoutes /\ stage[<<t1, 2>>] = "none"

MCSpec == Init /\ [][Next /\ MCBound']_vars /\ Fairness
=============================================================================
