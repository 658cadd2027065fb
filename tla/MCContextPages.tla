--------------------------- MODULE MCContextPages ---------------------------
(* An instance of ContextPages: a tab, which newPage may open, and a popup. *)
EXTENDS ContextPages

CONSTANTS t1, t3

MCOpenerOf == [t \in Targets |-> IF t = t3 THEN t1 ELSE NoTarget]
MCAdapters == {<<t, 1>> : t \in Targets} \cup {<<t1, 2>>}

\* The instance: a popup and one poll, or a call of newPage and all polls.
\* No action that Fairness is about is cut off.
MCBound == tab[t3] = "none" \/ (polls <= 1 /\ \A c \in Calls : call[c] = "idle")

MCSpec == Init /\ [][Next /\ MCBound']_vars /\ Fairness
=============================================================================
