-------------------------- MODULE MCObservedRequests --------------------------
(* A navigation that may be redirected to the url of another request, which*)
(* a child frame makes.                                                    *)
EXTENDS ObservedRequests

CONSTANTS nav, sub, start, target

MCChain == (nav :> <<start, target>>) @@ (sub :> <<target>>)

(* The navigation is redirected, and finishes if extra infos of its last   *)
(* hop come; or it is refused at once.                                     *)
NavStories ==
  {s \in StoriesOf(nav) :
     /\ ~s.cached
     /\ IF s.hops = 2 THEN s.end = IF 2 \in s.extra THEN "finished" ELSE "failed"
        ELSE s.end = "refused" /\ s.extra = {1}}

SubStories ==
  {s \in StoriesOf(sub) :
     \/ ~s.cached /\ s.end = "finished"
     \/ s.cached /\ s.end = "spared" /\ s.extra = {1}}

MCStories == (nav :> NavStories) @@ (sub :> SubStories)
==============================================================================
