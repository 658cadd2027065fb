--------------------------- MODULE MCBidiSessions ---------------------------
(* Instances of BidiSessions for TLC: two processes share a browser, a third *)
(* launches its own.                                                         *)
EXTENDS BidiSessions, TLC

CONSTANTS p1, p2, p3, s1, s2, s3, e1, e2

MCEndpointOf == [p \in Processes |-> IF p = p3 THEN e2 ELSE e1]
MCSymmetry == Permutations(Processes \ {p3}) \cup Permutations(Sessions)
=============================================================================
