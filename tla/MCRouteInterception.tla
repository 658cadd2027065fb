------------------------ MODULE MCRouteInterception ------------------------
(* Instances of RouteInterception for TLC. *)
EXTENDS RouteInterception

CONSTANTS p1, p2, c1, r1, r2

MCMatches == Entries \X {"site"}
MCHarAnswer == [h \in HarRoutes |-> [u \in Urls |-> "fulfill"]]
MCMatcherOf == [g \in Routes |-> "pattern"]
MCHandlerOf == [g \in Routes |-> "handler"]
MCLimit == [g \in Routes |-> Unlimited]
MCFetchKinds == {"plain", "preflight", "redirect"}
=============================================================================
