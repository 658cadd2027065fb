-------------------------- MODULE MCPageNavigation --------------------------
(* An instance of PageNavigation. *)
EXTENDS PageNavigation

CONSTANTS c1, c2

\* There is a load left for every call; the calls are alike, c1 is the first.
Enough(n) == loads + Cardinality({c \in Calls : calls[c].at \in {"stopping", "asking"}}) <= n
InTurn == calls[c2].at # "idle" => calls[c1].at # "idle"

\* The parts of the instance: a call, a load of one url, and frames and requests;
OneCall ==
  /\ Enough(1) /\ calls[c2].at = "idle" /\ calls[c1].kind # "history"
  /\ {url, pending.url, calls[c1].url} = {Nothing.url}

\* and two calls on a page without these, whose timers do not fire.
TwoCalls ==
  /\ Enough(MaxLoads) /\ InTurn
  /\ ~page.closed /\ ~refused
  /\ spent = {} /\ \A f \in Children : phase[f] = "none"
  /\ {calls[c1].until, calls[c2].until} = {"load"}
  /\ \A f \in DOMAIN page.quiet : page.quiet[f].reached => loads = 0
  /\ page.networkidle => page.same \/ loads = 0
  /\ page.same => page.allow

\* A call that waits while a goto is refused, or jumps.
RefusedCall ==
  /\ loads = 0 /\ InTurn
  /\ calls[c1].kind \in {"content", "wait"} /\ calls[c1].until # "commit"
  /\ calls[c2].at \notin {"idle", "done"} => calls[c2].kind = "goto" /\ calls[c2].until = "load"
  /\ \A f \in Children : phase[f] = "none"

MCBound == OneCall \/ TwoCalls \/ RefusedCall

MCSpec == Init /\ [][Next /\ MCBound']_vars /\ WF_vars(Due /\ MCBound')
=============================================================================
