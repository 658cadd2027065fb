--------------------------- MODULE MCMcpSessions ---------------------------
(* Instances of McpSessions for TLC. *)
EXTENDS McpSessions, TLC

CONSTANTS c1, c2, k1, k2, k3, b1, b2, b3

\* Calls and browser sessions are interchangeable, clients as well.
AllSymmetry == Permutations(Clients) \cup Permutations(Calls) \cup Permutations(BrowserSessions)
=============================================================================
