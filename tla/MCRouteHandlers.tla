-------------------------- MODULE MCRouteHandlers --------------------------
(* Instances of RouteHandlers for TLC. *)
EXTENDS RouteHandlers, TLC

CONSTANTS p1, p2, c1, c2, h1, r1, r2


MCUrls == {"site", "other"}
MCFavicons == {}
MCMatches == (Entries \X {"site"}) \cup ({p1, c1} \X {"other"})
MCHarAnswer == [h \in HarRoutes |->
                 [u \in Urls |-> IF u = "site" THEN "fulfill" ELSE "abort"]]
MCMatcherOf == [g \in Routes |-> "pattern"]
MCHandlerOf == [g \in Routes |-> "handler"]
MCLimit == [g \in Routes |-> IF g = p1 THEN 1 ELSE Unlimited]

RequestSymmetry == Permutations(Requests)
=============================================================================
