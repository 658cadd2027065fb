----------------------------- MODULE MCTeardown -----------------------------
(* An instance of Teardown: the page of browser.newPage() and another in   *)
(* its context, and a context that comes later.                             *)
EXTENDS Teardown

CONSTANTS p1, p2, c1, c3

MCContextOf == [p \in Pages |-> c1]

\* The instance: the other context comes while the browser closes and no user
\* closes a page, the owner comes to own its context while that is open and
\* nobody waits, and one tab may go by itself.  No action that Fairness is about is cut off.
MCBound ==
  /\ ctx[c3] = "none" \/ (browser # "open" /\ \A k \in Users : call[k] = "idle")
  /\ ended[p1] # "tab"

MCOwner ==
  owned' # owned =>
    browser = "open" /\ ctx[c1] = "open" /\ ended[p2] = "open" /\ \A w \in Waiters : wait[w] = "idle"

MCSpec == Init /\ [][Next /\ MCBound' /\ MCOwner]_vars /\ Fairness
=============================================================================
