---------------------------- MODULE RoutingProofs ----------------------------
(***************************************************************************)
(* Proofs about RouteHandlers, for any routes, requests, URLs and limits,  *)
(* and about RouteInterception, for any number of jobs on the wire: its    *)
(* handlers are dispatched as RouteHandlers says, and the browser stops    *)
(* pausing requests when the routes are gone.                              *)
(***************************************************************************)
EXTENDS RouteInterception, TLAPS

-----------------------------------------------------------------------------
(* The routes: the inductive invariant.                                    *)

\* An entry that is in an array or that a dispatch is running was pushed.
Registered ==
  /\ \A g \in live : stamp[g] # 0
  /\ \A p \in active : stamp[p[1]] # 0

\* As long as an entry is not removed, remainingTimes counts its calls down.
Budget ==
  \A g \in Routes : Limit[g] # Unlimited =>
    /\ calls[g] <= (IF Limit[g] <= 1 THEN 1 ELSE Limit[g])
    /\ g \in live \/ stamp[g] = 0 =>
         /\ remaining[g] \in Nat
         /\ calls[g] + remaining[g] = Limit[g]
         /\ remaining[g] = 0 => Limit[g] = 0

\* A dispatch has behind it what it has tried, and never meets it again.
Forward ==
  \A r \in Requests :
    /\ dispatch[r].todo \cap dispatch[r].tried = {}
    /\ dispatch[r].stage = "idle" => dispatch[r].tried = {} /\ dispatch[r].route = NoRoute
    /\ dispatch[r].stage = "page" => /\ dispatch[r].tried \subseteq PageRoutes
                                     /\ dispatch[r].todo \subseteq PageRoutes
    /\ dispatch[r].handler # "none" => dispatch[r].stage \in {"page", "context"}

\* An invocation is complete while it runs only if its entry was removed by
\* unrouteAll({behavior: "ignoreErrors"}).
Completion ==
  /\ \A g \in Routes, r \in Requests :
       <<g, r>> \in active \cup complete => g \in dispatch[r].tried
  /\ \A p \in active \cap complete : p[1] \notin live /\ stamp[p[1]] # 0

\* unrouteAll({behavior: "wait"}) waits for invocations of entries that are
\* gone for good, none of which is complete before it has ended.
Waiting ==
  \A s \in Scopes : \A p \in waiting[s] :
    p[1] \notin live /\ stamp[p[1]] # 0 /\ p \notin active \cap complete

IInv == TypeOK /\ InvocationsTracked /\ Registered /\ Budget /\ Forward
               /\ Completion /\ Waiting

-----------------------------------------------------------------------------

LEMMA InitIInv == Init => IInv
<1> SUFFICES ASSUME Init PROVE IInv
  OBVIOUS
<1> USE RoutesAssumption
<1>1. TypeOK
  <2>1. PICK u \in [Requests -> Urls] :
       dispatch = [r \in Requests |->
         [via |-> "none", stage |-> "idle", todo |-> {}, tried |-> {},
          known |-> {}, overridden |-> FALSE, byDefault |-> FALSE,
          url |-> u[r], route |-> NoRoute, handled |-> FALSE, settled |-> 0,
          building |-> "no", first |-> "none", outcome |-> "none",
          handler |-> "none", decision |-> "none"]]
    BY DEF Init
  <2>2. dispatch \in [Requests -> Dispatch]
    BY <2>1 DEF Dispatch, Outcomes, Decisions
  <2>3. QED
    BY <2>2 DEF Init, TypeOK, Scopes, Entries
<1>2. InvocationsTracked /\ Registered /\ Completion /\ Waiting
  BY DEF Init, InvocationsTracked, Registered, Completion, Waiting, Routes, Entries
<1>3. Budget
  BY DEF Init, Budget, Routes, Entries
<1>4. Forward
  BY DEF Init, Forward
<1>5. QED
  BY <1>1, <1>2, <1>3, <1>4 DEF IInv

-----------------------------------------------------------------------------
(* Going on to the next handler, or to a decision.                         *)

\* The local state a dispatch of `r' may carry when it walks on.
Resumes(r, d) ==
  /\ d \in Dispatch
  /\ d.route = dispatch[r].route
  /\ d.tried = dispatch[r].tried
  /\ d.stage \in {"page", "context"}
  /\ d.todo \cap d.tried = {}
  /\ d.stage = "page" => d.tried \subseteq PageRoutes /\ d.todo \subseteq PageRoutes

LEMMA LeavingActive ==
  ASSUME TypeOK, InvocationsTracked, NEW r \in Requests
  PROVE  /\ Leaving(r) \subseteq active
         /\ \A h \in Routes : <<h, r>> \in active => <<h, r>> \in Leaving(r)
  BY RoutesAssumption DEF Leaving, TypeOK, Dispatch, InvocationsTracked, Entries

LEMMA CallingTyped ==
  ASSUME NEW d \in Dispatch, NEW stage \in {"page", "context"},
         NEW S \in SUBSET Routes, NEW g \in Routes
  PROVE  Calling(d, stage, S, g) \in Dispatch
<1> DEFINE todo == {h \in S : stamp[h] < stamp[g]}
           tried == d.tried \cup {g}
<1>1. todo \in SUBSET Routes /\ tried \in SUBSET Routes
  BY DEF Dispatch
<1>2. Calling(d, stage, S, g) =
        [d EXCEPT !.stage = stage, !.todo = todo,
            !.tried = tried, !.route = g, !.handled = FALSE, !.settled = 0,
            !.building = "no", !.first = "none", !.outcome = "none",
            !.handler = "running"]
  BY DEF Calling
<1> HIDE DEF todo, tried
<1> DEFINE d1 == [d EXCEPT !.stage = stage, !.todo = todo, !.tried = tried]
           d2 == [d1 EXCEPT !.route = g, !.handled = FALSE, !.settled = 0]
           d3 == [d2 EXCEPT !.building = "no", !.first = "none"]
           d4 == [d3 EXCEPT !.outcome = "none"]
           d5 == [d4 EXCEPT !.handler = "running"]
<1>3. d1 \in Dispatch
  BY <1>1 DEF Dispatch
<1> HIDE DEF d1
<1>4. d2 \in Dispatch
  BY <1>3 DEF Dispatch
<1> HIDE DEF d2
<1>5. d3 \in Dispatch
  BY <1>4 DEF Dispatch
<1> HIDE DEF d3
<1>6. d4 \in Dispatch
  BY <1>5 DEF Dispatch
<1> HIDE DEF d4
<1>7. d5 \in Dispatch
  BY <1>6 DEF Dispatch
<1>8. Calling(d, stage, S, g) = d5
  BY <1>2 DEF d1, d2, d3, d4
<1>9. QED
  BY <1>7, <1>8

LEMMA InvokeIInv ==
  ASSUME IInv, NEW r \in Requests, NEW d, Resumes(r, d),
         NEW stage \in {"page", "context"}, NEW S \in SUBSET Routes,
         NEW g \in S \cap live, Invoke(r, d, stage, S, g),
         S \cap d.tried = {},
         stage = "page" => S \cup d.tried \subseteq PageRoutes
  PROVE  IInv'
<1> USE RoutesAssumption
<1> DEFINE e == Calling(d, stage, S, g)
<1>0. TypeOK /\ g \in Routes /\ d \in Dispatch
  BY DEF IInv, Resumes
<1>1. e \in Dispatch
  BY <1>0, CallingTyped
<1>2. /\ dispatch' = [dispatch EXCEPT ![r] = e]
      /\ dispatch' \in [Requests -> Dispatch]
  BY <1>0, <1>1 DEF Invoke, TypeOK
<1>3. /\ e.route = g
      /\ e.tried = d.tried \cup {g}
      /\ e.todo = {h \in S : stamp[h] < stamp[g]}
      /\ e.stage = stage
  BY <1>0 DEF Dispatch, Calling
<1> HIDE DEF e
<1>4. /\ dispatch'[r] = e
      /\ \A q \in Requests \ {r} : dispatch'[q] = dispatch[q]
  BY <1>0, <1>2 DEF TypeOK
<1>5. /\ Leaving(r) \subseteq active
      /\ active' = (active \ Leaving(r)) \cup {<<g, r>>}
      /\ complete' = complete \cup Leaving(r)
  BY <1>0, LeavingActive DEF Invoke, IInv
<1>6. /\ live' \subseteq live
      /\ g \in live' => ~LastTime(g)
      /\ \A h \in live \ {g} : h \in live'
  BY DEF Invoke, Consume
<1>7. /\ remaining' \in [Routes -> Nat \cup {Unlimited}]
      /\ calls' = [calls EXCEPT ![g] = @ + 1]
      /\ calls' \in [Routes -> Nat]
  <2>1. calls' = [calls EXCEPT ![g] = @ + 1] /\ calls' \in [Routes -> Nat]
    BY <1>0 DEF Invoke, TypeOK
  <2>2. Limit[g] # Unlimited => remaining[g] \in Nat
    BY <1>0 DEF IInv, Budget
  <2>3. remaining' \in [Routes -> Nat \cup {Unlimited}]
    BY <1>0, <2>2 DEF Invoke, Consume, TypeOK, LastTime
  <2>4. QED
    BY <2>1, <2>3
<1>8. TypeOK'
  <2>1. active' \subseteq Routes \X Requests /\ complete' \subseteq Routes \X Requests
    BY <1>0, <1>5 DEF TypeOK
  <2>2. QED
    BY <1>0, <1>2, <2>1, <1>6, <1>7 DEF Invoke, TypeOK, unrouteVars
<1>9. g \notin dispatch[r].tried /\ <<g, r>> \notin complete \cup active
  <2>1. g \notin dispatch[r].tried
    BY DEF Resumes
  <2>2. QED
    BY <2>1, <1>0 DEF IInv, Completion
<1>10. InvocationsTracked'
  <2> SUFFICES ASSUME NEW h \in Routes, NEW q \in Requests
              PROVE  <<h, q>> \in active' <=> dispatch'[q].route = h
    BY DEF InvocationsTracked
  <2>1. <<h, q>> \in active <=> dispatch[q].route = h
    BY DEF IInv, InvocationsTracked
  <2>2. CASE q = r
    BY <2>2, <1>0, <1>3, <1>4, <1>5, LeavingActive DEF IInv
  <2>3. CASE q # r
    <3>1. <<h, q>> \in active' <=> <<h, q>> \in active
      BY <2>3, <1>5 DEF Leaving
    <3>2. QED
      BY <2>1, <2>3, <3>1, <1>4
  <2>4. QED
    BY <2>2, <2>3
<1>11. Registered'
  BY <1>0, <1>6 DEF IInv, Registered, Invoke
<1>12. Budget'
  <2> SUFFICES ASSUME NEW h \in Routes, Limit[h] # Unlimited
              PROVE  /\ calls'[h] <= (IF Limit[h] <= 1 THEN 1 ELSE Limit[h])
                     /\ h \in live' \/ stamp'[h] = 0 =>
                          /\ remaining'[h] \in Nat
                          /\ calls'[h] + remaining'[h] = Limit[h]
                          /\ remaining'[h] = 0 => Limit[h] = 0
    BY DEF Budget
  <2>1. /\ calls[h] <= (IF Limit[h] <= 1 THEN 1 ELSE Limit[h])
        /\ h \in live \/ stamp[h] = 0 =>
             /\ remaining[h] \in Nat
             /\ calls[h] + remaining[h] = Limit[h]
             /\ remaining[h] = 0 => Limit[h] = 0
    BY DEF IInv, Budget
  <2>2. stamp' = stamp /\ stamp[g] # 0 /\ Limit[h] \in Nat /\ calls[h] \in Nat
    BY <1>0 DEF IInv, Registered, Invoke, TypeOK
  <2>3. CASE h # g
    <3>1. calls'[h] = calls[h] /\ remaining'[h] = remaining[h]
      BY <1>0, <1>7, <2>3 DEF Invoke, Consume, TypeOK
    <3>2. QED
      BY <3>1, <2>1, <2>2, <1>6
  <2>4. CASE h = g
    <3>1. calls'[h] = calls[h] + 1 /\ h \in live /\ remaining[h] \in Nat
      BY <1>0, <1>7, <2>1, <2>4 DEF TypeOK
    <3>2. CASE LastTime(g)
      <4>1. h \notin live' /\ remaining[h] <= 1
        BY <3>2, <2>4, <1>6 DEF LastTime
      <4>2. QED
        BY <4>1, <3>1, <2>1, <2>2, <2>4
    <3>3. CASE ~LastTime(g)
      <4>1. remaining'[h] = remaining[h] - 1 /\ remaining[h] > 1
        BY <3>1, <3>3, <2>4, <1>0 DEF Invoke, Consume, LastTime, TypeOK
      <4>2. QED
        BY <4>1, <3>1, <2>1, <2>2, <2>4
    <3>4. QED
      BY <3>2, <3>3
  <2>5. QED
    BY <2>3, <2>4
<1>13. Forward'
  <2> SUFFICES ASSUME NEW q \in Requests
      PROVE /\ dispatch'[q].todo \cap dispatch'[q].tried = {}
            /\ dispatch'[q].stage = "idle" =>
                 dispatch'[q].tried = {} /\ dispatch'[q].route = NoRoute
            /\ dispatch'[q].stage = "page" => /\ dispatch'[q].tried \subseteq PageRoutes
                                              /\ dispatch'[q].todo \subseteq PageRoutes
            /\ dispatch'[q].handler # "none" => dispatch'[q].stage \in {"page", "context"}
    BY DEF Forward
  <2>1. CASE q # r
    BY <2>1, <1>4 DEF IInv, Forward
  <2>2. CASE q = r
    <3>1. stamp[g] \in Nat
      BY <1>0 DEF TypeOK, Entries
    <3>2. QED
      BY <3>1, <2>2, <1>3, <1>4
  <2>3. QED
    BY <2>1, <2>2
<1>14. Completion'
  <2>1. ASSUME NEW h \in Routes, NEW q \in Requests, <<h, q>> \in active' \cup complete'
        PROVE  h \in dispatch'[q].tried
    <3>1. <<h, q>> \in active \cup complete \cup {<<g, r>>}
      BY <2>1, <1>5
    <3>3. <<h, q>> \in active \cup complete => h \in dispatch[q].tried
      BY DEF IInv, Completion
    <3>4. CASE q = r
      BY <3>1, <3>3, <3>4, <1>3, <1>4 DEF Resumes
    <3>5. CASE q # r
      BY <3>1, <3>3, <3>5, <1>4
    <3>6. QED
      BY <3>4, <3>5
  <2>2. ASSUME NEW p \in active' \cap complete'
        PROVE  p[1] \notin live' /\ stamp'[p[1]] # 0
    <3>1. p \in active \cap complete
      BY <2>2, <1>5, <1>9
    <3>2. QED
      BY <3>1, <1>6 DEF IInv, Completion, Invoke
  <2>3. QED
    BY <2>1, <2>2 DEF Completion
<1>15. Waiting'
  <2> SUFFICES ASSUME NEW s \in Scopes, NEW p \in waiting'[s]
              PROVE  p[1] \notin live' /\ stamp'[p[1]] # 0 /\ p \notin active' \cap complete'
    BY DEF Waiting
  <2>1. p[1] \notin live /\ stamp[p[1]] # 0 /\ p \notin active \cap complete
    BY DEF Invoke, unrouteVars, IInv, Waiting
  <2>2. p # <<g, r>>
    BY <2>1
  <2>3. QED
    BY <2>1, <2>2, <1>6 DEF Invoke
<1>16. QED
  BY <1>8, <1>10, <1>11, <1>12, <1>13, <1>14, <1>15 DEF IInv

LEMMA DecidedTyped ==
  ASSUME NEW d \in Dispatch, NEW decision \in Decisions
  PROVE  Decided(d, decision) \in Dispatch
<1> DEFINE d1 == [d EXCEPT !.stage = "done", !.todo = {}, !.route = NoRoute]
           d2 == [d1 EXCEPT !.handler = "none"]
           d3 == [d2 EXCEPT !.decision = decision]
<1>1. d1 \in Dispatch
  BY DEF Dispatch
<1> HIDE DEF d1
<1>2. d2 \in Dispatch
  BY <1>1 DEF Dispatch
<1> HIDE DEF d2
<1>3. d3 \in Dispatch
  BY <1>2 DEF Dispatch
<1>4. Decided(d, decision) = d3
  BY DEF Decided, d1, d2
<1>5. QED
  BY <1>3, <1>4

LEMMA DecideIInv ==
  ASSUME IInv, NEW r \in Requests, NEW d \in Dispatch, NEW decision \in Decisions,
         d.tried = dispatch[r].tried, Decide(r, d, decision)
  PROVE  IInv'
<1> USE RoutesAssumption
<1> DEFINE e == Decided(d, decision)
<1>0. TypeOK
  BY DEF IInv
<1>1. e \in Dispatch
  BY DecidedTyped
<1>2. /\ e.route = NoRoute
      /\ e.tried = dispatch[r].tried
      /\ e.todo = {}
      /\ e.stage = "done"
      /\ e.handler = "none"
  BY DEF Dispatch, Decided
<1>3. dispatch' = [dispatch EXCEPT ![r] = e]
  BY DEF Decide
<1> HIDE DEF e
<1>4. /\ dispatch' \in [Requests -> Dispatch]
      /\ dispatch'[r] = e
      /\ \A q \in Requests \ {r} : dispatch'[q] = dispatch[q]
  BY <1>0, <1>1, <1>3 DEF TypeOK
<1>5. /\ Leaving(r) \subseteq active
      /\ active' = active \ Leaving(r)
      /\ complete' = complete \cup Leaving(r)
      /\ \A h \in Routes : <<h, r>> \in active => <<h, r>> \in Leaving(r)
  BY <1>0, LeavingActive DEF Decide, IInv
<1>6. UNCHANGED <<live, stamp, clock, remaining, ignoring, waiting, unrouting, calls>>
  BY DEF Decide, registryVars, unrouteVars
<1>7. TypeOK'
  BY <1>0, <1>4, <1>5, <1>6 DEF TypeOK
<1>8. InvocationsTracked'
  <2> SUFFICES ASSUME NEW h \in Routes, NEW q \in Requests
              PROVE  <<h, q>> \in active' <=> dispatch'[q].route = h
    BY DEF InvocationsTracked
  <2>1. CASE q = r
    BY <2>1, <1>2, <1>4, <1>5 DEF Entries
  <2>2. CASE q # r
    <3>1. <<h, q>> \in active' <=> <<h, q>> \in active
      BY <2>2, <1>5 DEF Leaving
    <3>2. QED
      BY <2>2, <3>1, <1>4 DEF IInv, InvocationsTracked
  <2>3. QED
    BY <2>1, <2>2
<1>9. Registered' /\ Budget'
  BY <1>5, <1>6 DEF IInv, Registered, Budget
<1>10. Forward'
  BY <1>2, <1>4 DEF IInv, Forward
<1>11. Completion'
  BY <1>2, <1>4, <1>5, <1>6 DEF IInv, Completion
<1>12. Waiting'
  BY <1>5, <1>6 DEF IInv, Waiting
<1>13. QED
  BY <1>7, <1>8, <1>9, <1>10, <1>11, <1>12 DEF IInv

LEMMA ProceedIInv ==
  ASSUME IInv, NEW r \in Requests, NEW d, Resumes(r, d), Proceed(r, d)
  PROVE  IInv'
<1> USE RoutesAssumption
<1> DEFINE page == IF d.stage = "page" THEN Eligible(d.todo, d.url) ELSE {}
           context == Eligible(ContextSnapshot(d), d.url)
<1>0. d \in Dispatch /\ live \subseteq Entries
  BY DEF Resumes, IInv, TypeOK
<1>1. ASSUME NEW g \in page, Invoke(r, d, "page", d.todo, g)
      PROVE  IInv'
  <2>1. d.stage = "page" /\ g \in d.todo \cap live /\ d.todo \in SUBSET Routes
    BY <1>0, <1>1 DEF Eligible, Dispatch
  <2>2. d.todo \cap d.tried = {} /\ d.todo \cup d.tried \subseteq PageRoutes
    BY <2>1 DEF Resumes
  <2> HIDE DEF page
  <2>3. QED
    BY <1>1, <2>1, <2>2, InvokeIInv
<1>2. ASSUME NEW g \in context, Invoke(r, d, "context", ContextSnapshot(d), g)
      PROVE  IInv'
  <2>1. g \in ContextSnapshot(d) \cap live
    BY <1>2 DEF Eligible
  <2>2. ContextSnapshot(d) \in SUBSET Routes
    BY <1>0 DEF ContextSnapshot, Dispatch, Routes
  <2>3. ContextSnapshot(d) \cap d.tried = {}
    BY DEF ContextSnapshot, Resumes
  <2> HIDE DEF context
  <2>4. QED
    BY <1>2, <2>1, <2>2, <2>3, InvokeIInv
<1>3. ASSUME DecideByDefault(r, d)
      PROVE  IInv'
  <2> DEFINE e == [d EXCEPT !.byDefault = TRUE]
  <2>1. e \in Dispatch /\ e.tried = dispatch[r].tried /\ e.url \in Urls
    BY <1>0 DEF Dispatch, Resumes
  <2>2. \A h \in HarsFor(d) : HarAnswer[h][d.url] \in Decisions
    BY <1>0 DEF HarsFor, Dispatch, Decisions
  <2>3. \E decision \in Decisions : Decide(r, e, decision)
    BY <1>3, <2>2 DEF DecideByDefault, Decisions
  <2> HIDE DEF e
  <2>4. QED
    BY <2>1, <2>3, DecideIInv
<1>4. QED
  BY <1>1, <1>2, <1>3 DEF Proceed

LEMMA DispatchIInv ==
  ASSUME IInv, NEW r \in Requests, DispatchNext(r)
  PROVE  IInv'
<1> USE RoutesAssumption
<1>0. TypeOK /\ dispatch[r] \in Dispatch
  BY DEF IInv, TypeOK
<1>1. CASE DispatchByPage(r)
  <2> DEFINE d1 == [dispatch[r] EXCEPT !.via = "page", !.stage = "page"]
             d == [d1 EXCEPT !.todo = live \cap PageRoutes, !.known = live \cap Routes]
  <2>1. d1 \in Dispatch
    BY <1>0 DEF Dispatch
  <2>2. d \in Dispatch
    <3> HIDE DEF d1
    <3>1. QED
      BY <2>1 DEF Dispatch, Routes
  <2>3. /\ d.route = dispatch[r].route
        /\ d.tried = dispatch[r].tried
        /\ d.stage = "page"
        /\ d.todo = live \cap PageRoutes
    BY <1>0 DEF Dispatch
  <2>4. dispatch[r].stage = "idle" /\ (Decide(r, d, "abort") \/ Proceed(r, d))
    BY <1>1 DEF DispatchByPage
  <2> HIDE DEF d
  <2>5. Resumes(r, d)
    BY <2>2, <2>3, <2>4 DEF Resumes, IInv, Forward
  <2>6. QED
    BY <2>2, <2>3, <2>4, <2>5, DecideIInv, ProceedIInv DEF Decisions
<1>2. CASE DispatchByContext(r)
  <2> DEFINE d1 == [dispatch[r] EXCEPT !.via = "context", !.stage = "context"]
             d == [d1 EXCEPT !.todo = live \cap ContextRoutes,
                             !.known = live \cap ContextRoutes]
  <2>1. d1 \in Dispatch
    BY <1>0 DEF Dispatch
  <2>2. d \in Dispatch
    <3> HIDE DEF d1
    <3>1. QED
      BY <2>1 DEF Dispatch, Routes
  <2>3. /\ d.route = dispatch[r].route
        /\ d.tried = dispatch[r].tried
        /\ d.stage = "context"
        /\ d.todo = live \cap ContextRoutes
    BY <1>0 DEF Dispatch
  <2>4. dispatch[r].stage = "idle" /\ Proceed(r, d)
    BY <1>2 DEF DispatchByContext
  <2> HIDE DEF d
  <2>5. Resumes(r, d)
    BY <2>2, <2>3, <2>4 DEF Resumes, IInv, Forward
  <2>6. QED
    BY <2>4, <2>5, ProceedIInv
<1>3. CASE FinishInvocation(r)
  <2>1. dispatch[r].handler # "none"
    BY <1>3 DEF FinishInvocation
  <2>2. Resumes(r, dispatch[r])
    BY <1>0, <2>1 DEF Resumes, IInv, Forward
  <2>3. CASE Proceed(r, dispatch[r])
    BY <2>2, <2>3, ProceedIInv
  <2>4. CASE dispatch[r].first # "fallback" /\ Decide(r, dispatch[r], dispatch[r].first)
    <3>1. dispatch[r].first \in Decisions
      BY <1>0, <1>3, <2>4 DEF Dispatch, Outcomes, Decisions, FinishInvocation
    <3>2. QED
      BY <1>0, <2>4, <3>1, DecideIInv
  <2>5. QED
    BY <1>3, <2>3, <2>4 DEF FinishInvocation
<1>4. CASE FailInvocation(r)
  <2>1. dispatch[r].handler # "none"
    BY <1>4 DEF FailInvocation
  <2>2. Resumes(r, dispatch[r])
    BY <1>0, <2>1 DEF Resumes, IInv, Forward
  <2>3. CASE Proceed(r, dispatch[r])
    BY <2>2, <2>3, ProceedIInv
  <2>4. CASE Decide(r, dispatch[r], "error")
    BY <1>0, <2>4, DecideIInv DEF Decisions
  <2>5. CASE /\ dispatch[r].outcome \notin {"none", "fallback"}
             /\ Decide(r, dispatch[r], dispatch[r].outcome)
    <3>1. dispatch[r].outcome \in Decisions
      BY <1>0, <2>5 DEF Dispatch, Outcomes, Decisions
    <3>2. QED
      BY <1>0, <2>5, <3>1, DecideIInv
  <2>6. QED
    BY <1>4, <2>3, <2>4, <2>5 DEF FailInvocation
<1>5. QED
  BY <1>1, <1>2, <1>3, <1>4 DEF DispatchNext

-----------------------------------------------------------------------------
(* A handler calls its route, or ends.                                     *)

LEMMA ReportTyped ==
  ASSUME NEW d \in Dispatch, NEW what \in Outcomes
  PROVE  /\ Report(d, what) \in Dispatch
         /\ Report(d, what).todo = d.todo
         /\ Report(d, what).tried = d.tried
         /\ Report(d, what).stage = d.stage
         /\ Report(d, what).route = d.route
         /\ Report(d, what).handler = d.handler
<1> DEFINE first == IF d.first = "none" THEN what ELSE d.first
           outcome == IF d.outcome = "none" \/ LastReportStays(d) THEN what ELSE d.outcome
           d1 == [d EXCEPT !.handled = TRUE, !.settled = @ + 1]
           d2 == [d1 EXCEPT !.first = first]
           d3 == [d2 EXCEPT !.outcome = outcome]
<1>1. first \in Outcomes \cup {"none"} /\ outcome \in Outcomes \cup {"none"}
  BY DEF Dispatch
<1>2. Report(d, what) =
        [d EXCEPT !.handled = TRUE, !.settled = @ + 1, !.first = first,
                  !.outcome = outcome]
  <2>1. d.first = [d EXCEPT !.handled = TRUE, !.settled = @ + 1].first
    BY DEF Dispatch
  <2>2. QED
    BY <2>1 DEF Report
<1> HIDE DEF first, outcome
<1>3. d1 \in Dispatch
  <2> DEFINE settled == d.settled + 1
             e == [d EXCEPT !.handled = TRUE]
  <2>1. settled \in Nat
    BY DEF Dispatch
  <2>2. e \in Dispatch
    BY DEF Dispatch
  <2>3. d1 = [e EXCEPT !.settled = settled]
    OBVIOUS
  <2> HIDE DEF settled, e
  <2>4. [e EXCEPT !.settled = settled] \in Dispatch
    BY <2>1, <2>2 DEF Dispatch
  <2>5. QED
    BY <2>3, <2>4
<1>4. /\ d3.todo = d.todo
      /\ d3.tried = d.tried
      /\ d3.stage = d.stage
      /\ d3.route = d.route
      /\ d3.handler = d.handler
  BY DEF Dispatch
<1> HIDE DEF d1
<1>5. d2 \in Dispatch
  BY <1>1, <1>3 DEF Dispatch
<1> HIDE DEF d2
<1>6. d3 \in Dispatch
  BY <1>1, <1>5 DEF Dispatch
<1>7. QED
  BY <1>2, <1>4, <1>6 DEF d1, d2

LEMMA RouteCallIInv ==
  ASSUME IInv, NEW r \in Requests, NEW d \in Dispatch, RouteCall(r, d),
         d.todo = dispatch[r].todo, d.tried = dispatch[r].tried,
         d.stage = dispatch[r].stage, d.route = dispatch[r].route,
         d.handler # "none" => dispatch[r].handler # "none"
  PROVE  IInv'
<1>1. UNCHANGED <<live, stamp, clock, remaining, ignoring, waiting, unrouting, active, complete, calls>>
  BY DEF RouteCall, registryVars, unrouteVars
<1>2. /\ dispatch' \in [Requests -> Dispatch]
      /\ dispatch'[r] = d
      /\ \A q \in Requests \ {r} : dispatch'[q] = dispatch[q]
  BY DEF RouteCall, IInv, TypeOK
<1>3. TypeOK'
  BY <1>1, <1>2 DEF IInv, TypeOK
<1>4. InvocationsTracked' /\ Completion'
  <2>1. \A q \in Requests : /\ dispatch'[q].route = dispatch[q].route
                            /\ dispatch'[q].tried = dispatch[q].tried
    BY <1>2
  <2>2. QED
    BY <1>1, <2>1 DEF IInv, InvocationsTracked, Completion
<1>5. Registered' /\ Budget' /\ Waiting'
  BY <1>1 DEF IInv, Registered, Budget, Waiting
<1>6. Forward'
  BY <1>2 DEF IInv, Forward
<1>7. QED
  BY <1>3, <1>4, <1>5, <1>6 DEF IInv

LEMMA HandlerIInv ==
  ASSUME IInv, NEW r \in Requests, HandlerNext(r)
  PROVE  IInv'
<1> DEFINE d == dispatch[r]
<1>0. d \in Dispatch
  BY DEF IInv, TypeOK
<1>1. CASE Abort(r)
  BY <1>0, <1>1, ReportTyped, RouteCallIInv DEF Abort, Outcomes
<1>2. CASE Continue(r)
  <2> DEFINE e == Report(d, "continue")
  <2>1. PICK u \in Urls : RouteCall(r, [e EXCEPT !.url = u])
    BY <1>2 DEF Continue
  <2>2. /\ e \in Dispatch
        /\ e.todo = d.todo /\ e.tried = d.tried /\ e.stage = d.stage
        /\ e.route = d.route /\ e.handler = d.handler
    BY <1>0, ReportTyped DEF Outcomes
  <2> HIDE DEF e
  <2>3. [e EXCEPT !.url = u] \in Dispatch
    BY <2>2 DEF Dispatch
  <2>4. /\ [e EXCEPT !.url = u].todo = d.todo
        /\ [e EXCEPT !.url = u].tried = d.tried
        /\ [e EXCEPT !.url = u].stage = d.stage
        /\ [e EXCEPT !.url = u].route = d.route
        /\ [e EXCEPT !.url = u].handler = d.handler
    BY <2>2 DEF Dispatch
  <2>5. QED
    BY <2>1, <2>3, <2>4, RouteCallIInv
<1>3. CASE Fallback(r)
  <2> DEFINE e == Report(d, "fallback")
  <2>1. PICK u \in Urls :
          RouteCall(r, [e EXCEPT !.url = u, !.overridden = @ \/ u # d.url])
    BY <1>3 DEF Fallback
  <2>2. /\ e \in Dispatch
        /\ e.todo = d.todo /\ e.tried = d.tried /\ e.stage = d.stage
        /\ e.route = d.route /\ e.handler = d.handler
    BY <1>0, ReportTyped DEF Outcomes
  <2> DEFINE over == e.overridden \/ u # d.url
             f == [e EXCEPT !.url = u, !.overridden = over]
  <2>3. RouteCall(r, f)
    BY <2>1, <2>2 DEF Dispatch
  <2> HIDE DEF e
  <2>4. f \in Dispatch
    <3>1. over \in BOOLEAN
      OBVIOUS
    <3> HIDE DEF over
    <3>2. QED
      BY <2>2, <3>1 DEF Dispatch
  <2>5. /\ f.todo = d.todo /\ f.tried = d.tried /\ f.stage = d.stage
        /\ f.route = d.route /\ f.handler = d.handler
    BY <2>2 DEF Dispatch
  <2> HIDE DEF f
  <2>6. QED
    BY <2>3, <2>4, <2>5, RouteCallIInv
<1>4. CASE FulfillStarts(r)
  <2> DEFINE e == [d EXCEPT !.building = "yes"]
  <2>1. e \in Dispatch /\ e.todo = d.todo /\ e.tried = d.tried
        /\ e.stage = d.stage /\ e.route = d.route /\ e.handler = d.handler
    BY <1>0 DEF Dispatch
  <2>2. RouteCall(r, e)
    BY <1>4 DEF FulfillStarts
  <2> HIDE DEF e
  <2>3. QED
    BY <2>1, <2>2, RouteCallIInv
<1>5. CASE FulfillEnds(r)
  <2> DEFINE e == Report(d, "fulfill")
             f == [e EXCEPT !.building = "ended"]
  <2>1. /\ e \in Dispatch
        /\ e.todo = d.todo /\ e.tried = d.tried /\ e.stage = d.stage
        /\ e.route = d.route /\ e.handler = d.handler
    BY <1>0, ReportTyped DEF Outcomes
  <2>2. RouteCall(r, f)
    BY <1>5 DEF FulfillEnds
  <2> HIDE DEF e
  <2>3. f \in Dispatch /\ f.todo = d.todo /\ f.tried = d.tried
        /\ f.stage = d.stage /\ f.route = d.route /\ f.handler = d.handler
    BY <2>1 DEF Dispatch
  <2> HIDE DEF f
  <2>4. QED
    BY <2>2, <2>3, RouteCallIInv
<1>6. CASE FulfillFails(r)
  <2> DEFINE e == [d EXCEPT !.building = "ended"]
  <2>1. e \in Dispatch /\ e.todo = d.todo /\ e.tried = d.tried
        /\ e.stage = d.stage /\ e.route = d.route /\ e.handler = d.handler
    BY <1>0 DEF Dispatch
  <2>2. RouteCall(r, e)
    BY <1>6 DEF FulfillFails
  <2> HIDE DEF e
  <2>3. QED
    BY <2>1, <2>2, RouteCallIInv
<1>7. ASSUME NEW how \in {"returned", "threw"}, HandlerEnds(r, how)
      PROVE  IInv'
  <2> DEFINE e == [d EXCEPT !.handler = how]
  <2>1. e \in Dispatch
    BY <1>0 DEF Dispatch
  <2>2. e.todo = d.todo /\ e.tried = d.tried /\ e.stage = d.stage /\ e.route = d.route
    BY <1>0 DEF Dispatch
  <2>3. RouteCall(r, e) /\ d.handler # "none"
    BY <1>7 DEF HandlerEnds
  <2> HIDE DEF e
  <2>4. QED
    BY <2>1, <2>2, <2>3, RouteCallIInv
<1>8. QED
  BY <1>1, <1>2, <1>3, <1>4, <1>5, <1>6, <1>7 DEF HandlerNext

-----------------------------------------------------------------------------
(* The registry.                                                           *)

LEMMA RouteIInv ==
  ASSUME IInv, NEW g \in Entries, Route(g)
  PROVE  IInv'
<1>0. TypeOK
  BY DEF IInv
<1>1. /\ UNCHANGED <<remaining, ignoring, waiting, unrouting, active,
                     complete, dispatch, calls>>
      /\ stamp[g] = 0
      /\ live' = live \cup {g}
      /\ stamp'[g] # 0
      /\ \A h \in Entries \ {g} : stamp'[h] = stamp[h]
  BY <1>0 DEF Route, unrouteVars, TypeOK
<1>2. TypeOK'
  <2>1. stamp' \in [Entries -> Nat] /\ clock' \in Nat
    BY <1>0 DEF Route, TypeOK
  <2>2. QED
    BY <1>0, <1>1, <2>1 DEF TypeOK
<1>3. \A p \in Routes \X Requests : p[1] \in Entries
  BY DEF Entries
<1>4. Registered'
  BY <1>0, <1>1, <1>3 DEF IInv, Registered, TypeOK
<1>5. InvocationsTracked' /\ Forward'
  BY <1>1 DEF IInv, InvocationsTracked, Forward
<1>6. Budget'
  BY <1>1 DEF IInv, Budget, Entries
<1>7. Completion'
  BY <1>0, <1>1, <1>3 DEF IInv, Completion, TypeOK
<1>8. Waiting'
  BY <1>0, <1>1, <1>3 DEF IInv, Waiting, TypeOK
<1>9. QED
  BY <1>2, <1>4, <1>5, <1>6, <1>7, <1>8 DEF IInv

LEMMA RemoveIInv ==
  ASSUME IInv, NEW S, Remove(S)
  PROVE  IInv'
<1>1. /\ UNCHANGED <<stamp, clock, remaining, ignoring, waiting, unrouting,
                     active, complete, dispatch, calls>>
      /\ live' \subseteq live
  BY DEF Remove, unrouteVars
<1>2. TypeOK'
  BY <1>1 DEF IInv, TypeOK
<1>3. InvocationsTracked' /\ Registered' /\ Budget' /\ Forward'
  BY <1>1 DEF IInv, InvocationsTracked, Registered, Budget, Forward
<1>4. Completion' /\ Waiting'
  BY <1>1 DEF IInv, Completion, Waiting
<1>5. QED
  BY <1>2, <1>3, <1>4 DEF IInv

LEMMA UnrouteAllIInv ==
  ASSUME IInv, NEW s \in Scopes, NEW b \in Behaviors, UnrouteAll(s, b)
  PROVE  IInv'
<1> USE RoutesAssumption
<1>0. TypeOK
  BY DEF IInv
<1> DEFINE removed == live \cap RoutesOf(s)
<1>1. UNCHANGED <<stamp, clock, remaining, active, dispatch, calls>>
  BY DEF UnrouteAll
<1>2. /\ live' = live \ ArraysOf(s)
      /\ live' \cap removed = {}
      /\ removed \subseteq Routes \cap live
  BY DEF UnrouteAll, ArraysOf, RoutesOf, Routes
<1>3. complete' = complete \/ complete' = complete \cup (active \cap (removed \X Requests))
  BY DEF UnrouteAll, StopRouteHandlers
<1>4. /\ waiting' \in [Scopes -> SUBSET (Routes \X Requests)]
      /\ \A t \in Scopes : waiting'[t] = waiting[t]
                           \/ /\ b = "wait"
                              /\ waiting'[t] = active \cap (removed \X Requests)
  BY <1>0, <1>2 DEF UnrouteAll, StopRouteHandlers, TypeOK
<1>5. TypeOK'
  <2>1. ignoring' \subseteq Routes /\ complete' \subseteq Routes \X Requests
    BY <1>0, <1>2, <1>3 DEF UnrouteAll, StopRouteHandlers, TypeOK
  <2>2. unrouting' \in [Scopes -> BOOLEAN]
    BY <1>0 DEF UnrouteAll, StopRouteHandlers, TypeOK
  <2>3. QED
    BY <1>0, <1>1, <1>2, <1>4, <2>1, <2>2 DEF TypeOK
<1>6. InvocationsTracked' /\ Registered' /\ Budget' /\ Forward'
  BY <1>1, <1>2 DEF IInv, InvocationsTracked, Registered, Budget, Forward
<1> HIDE DEF removed
<1>7. Completion'
  <2>1. ASSUME NEW p \in active \cap (removed \X Requests)
        PROVE  p[1] \notin live' /\ stamp'[p[1]] # 0
    BY <1>1, <1>2 DEF IInv, Registered
  <2>2. ASSUME NEW p \in active' \cap complete'
        PROVE  p[1] \notin live' /\ stamp'[p[1]] # 0
    BY <1>1, <1>2, <1>3, <2>1 DEF IInv, Completion
  <2>3. \A g \in Routes, r \in Requests :
          <<g, r>> \in active' \cup complete' => g \in dispatch'[r].tried
    BY <1>1, <1>3 DEF IInv, Completion
  <2>4. QED
    BY <2>2, <2>3 DEF Completion
<1>8. Waiting'
  <2> SUFFICES ASSUME NEW t \in Scopes, NEW p \in waiting'[t]
              PROVE  /\ p[1] \notin live' /\ stamp'[p[1]] # 0
                     /\ p \notin active' \cap complete'
    BY DEF Waiting
  <2>1. CASE waiting'[t] = waiting[t]
    <3>1. p[1] \notin live /\ stamp[p[1]] # 0 /\ p \notin active \cap complete
      BY <2>1 DEF IInv, Waiting
    <3>2. p \notin removed \X Requests
      BY <3>1, <1>2
    <3>3. QED
      BY <3>1, <3>2, <1>1, <1>2, <1>3
  <2>2. CASE b = "wait" /\ waiting'[t] = active \cap (removed \X Requests)
    <3>1. p[1] \in live /\ p[1] \in removed /\ p \in active
      BY <2>2, <1>2
    <3>2. complete' = complete
      BY <2>2 DEF UnrouteAll, StopRouteHandlers
    <3>3. p[1] \notin live' /\ stamp'[p[1]] # 0
      BY <3>1, <1>1, <1>2 DEF IInv, Registered
    <3>4. p \notin complete
      BY <3>1 DEF IInv, Completion
    <3>5. QED
      BY <3>2, <3>3, <3>4
  <2>3. QED
    BY <2>1, <2>2, <1>4
<1>9. QED
  BY <1>5, <1>6, <1>7, <1>8 DEF IInv

LEMMA UnrouteAllReturnsIInv ==
  ASSUME IInv, NEW s \in Scopes, UnrouteAllReturns(s)
  PROVE  IInv'
<1>1. UNCHANGED <<live, stamp, clock, remaining, ignoring, active, complete,
                  dispatch, calls>>
  BY DEF UnrouteAllReturns, registryVars
<1>2. /\ waiting' \in [Scopes -> SUBSET (Routes \X Requests)]
      /\ \A t \in Scopes : waiting'[t] \subseteq waiting[t]
      /\ unrouting' \in [Scopes -> BOOLEAN]
  BY DEF UnrouteAllReturns, IInv, TypeOK
<1>3. TypeOK'
  BY <1>1, <1>2 DEF IInv, TypeOK
<1>4. InvocationsTracked' /\ Registered' /\ Budget' /\ Forward' /\ Completion'
  BY <1>1 DEF IInv, InvocationsTracked, Registered, Budget, Forward, Completion
<1>5. Waiting'
  BY <1>1, <1>2 DEF IInv, Waiting
<1>6. QED
  BY <1>3, <1>4, <1>5 DEF IInv

LEMMA RegistryIInv == IInv /\ RegistryNext => IInv'
<1> SUFFICES ASSUME IInv, RegistryNext PROVE IInv'
  OBVIOUS
<1>1. CASE \E g \in Entries : Route(g)
  BY <1>1, RouteIInv
<1>2. CASE \E g \in PageRoutes : DisposePageRoute(g)
  BY <1>2, RemoveIInv DEF DisposePageRoute
<1>3. CASE \E g \in ContextRoutes : DisposeContextRoute(g)
  BY <1>3, RemoveIInv DEF DisposeContextRoute
<1>4. ASSUME NEW s, NEW m, NEW hs, Unroute(s, m, hs) PROVE IInv'
  BY <1>4, RemoveIInv DEF Unroute
<1>5. CASE \E s \in Scopes, b \in Behaviors : UnrouteAll(s, b)
  BY <1>5, UnrouteAllIInv
<1>6. CASE \E s \in Scopes : UnrouteAllReturns(s)
  BY <1>6, UnrouteAllReturnsIInv
<1>7. QED
  BY <1>1, <1>2, <1>3, <1>4, <1>5, <1>6 DEF RegistryNext

LEMMA NextIInv == IInv /\ [Next]_vars => IInv'
<1> SUFFICES ASSUME IInv, [Next]_vars PROVE IInv'
  OBVIOUS
<1>1. CASE RegistryNext
  BY <1>1, RegistryIInv
<1>2. ASSUME NEW r \in Requests, HandlerNext(r) PROVE IInv'
  BY <1>2, HandlerIInv
<1>3. ASSUME NEW r \in Requests, DispatchNext(r) PROVE IInv'
  BY <1>3, DispatchIInv
<1>4. CASE UNCHANGED vars
  <2>1. UNCHANGED <<live, stamp, clock, remaining, ignoring, waiting, unrouting, active, complete, dispatch, calls>>
    BY <1>4 DEF vars, registryVars, unrouteVars
  <2>2. TypeOK' /\ InvocationsTracked' /\ Registered'
    BY <2>1 DEF IInv, TypeOK, InvocationsTracked, Registered
  <2>3. Budget' /\ Forward' /\ Completion' /\ Waiting'
    BY <2>1 DEF IInv, Budget, Forward, Completion, Waiting
  <2>4. QED
    BY <2>2, <2>3 DEF IInv
<1>5. QED
  BY <1>1, <1>2, <1>3, <1>4 DEF Next

\* The strengthening is an invariant of the dispatcher.
THEOREM Inductive == Spec => []IInv
<1>1. Init => IInv
  BY InitIInv
<1>2. IInv /\ [Next]_vars => IInv'
  BY NextIInv
<1>3. QED
  BY <1>1, <1>2, PTL DEF Spec

-----------------------------------------------------------------------------
(* The theorems.                                                           *)

\* Every variable keeps its type: in particular remainingTimes never falls
\* below zero, whatever the number of requests dispatched at once.
THEOREM TypeCorrect == Spec => []TypeOK
<1>1. IInv => TypeOK
  BY DEF IInv
<1>2. QED
  BY <1>1, Inductive, PTL

\* options.times is a hard limit: no interleaving of dispatches, removals and
\* handlers gets an entry invoked once more (_consumeRouteHandler runs in the
\* same synchronous step as the selection of the entry).
THEOREM TimesLimit == Spec => []TimesRespected
<1>1. IInv => TimesRespected
  BY DEF IInv, Budget, TimesRespected
<1>2. QED
  BY <1>1, Inductive, PTL

\* entry.activeInvocations names the running handlers, neither more nor fewer.
THEOREM Tracking == Spec => []InvocationsTracked
<1>1. IInv => InvocationsTracked
  BY DEF IInv
<1>2. QED
  BY <1>1, Inductive, PTL

\* A waiting unrouteAll returns only after every invocation it found has ended.
THEOREM WaitingIsEnough == Spec => UnrouteAllWaits
<1>1. ASSUME IInv, [Next]_vars, NEW s \in Scopes, unrouting[s], ~unrouting'[s]
      PROVE  waiting[s] \cap active = {}
  <2>1. CASE \E t \in Scopes : UnrouteAllReturns(t)
    <3>1. UnrouteAllReturns(s)
      <4>1. PICK t \in Scopes : UnrouteAllReturns(t)
        BY <2>1
      <4>2. t = s
        BY <1>1, <4>1 DEF UnrouteAllReturns, IInv, TypeOK
      <4>3. QED
        BY <4>1, <4>2
    <3>2. QED
      BY <1>1, <3>1 DEF UnrouteAllReturns, IInv, Waiting
  <2>2. CASE \E t \in Scopes, b \in Behaviors : UnrouteAll(t, b)
    BY <1>1, <2>2 DEF UnrouteAll, StopRouteHandlers, IInv, TypeOK
  <2>3. CASE unrouting' = unrouting
    BY <1>1, <2>3
  <2>4. CASE RegistryNext
    <3>1. ASSUME NEW g, Route(g) PROVE unrouting' = unrouting
      BY <3>1 DEF Route, unrouteVars
    <3>2. ASSUME NEW S, Remove(S) PROVE unrouting' = unrouting
      BY <3>2 DEF Remove, unrouteVars
    <3>3. QED
      BY <2>1, <2>2, <2>3, <2>4, <3>1, <3>2
      DEF RegistryNext, DisposePageRoute, DisposeContextRoute, Unroute
  <2>5. ASSUME NEW r \in Requests, HandlerNext(r) PROVE unrouting' = unrouting
    BY <2>5 DEF HandlerNext, Abort, Continue, Fallback, FulfillStarts, FulfillEnds,
                FulfillFails, HandlerEnds, RouteCall, unrouteVars
  <2>6. ASSUME NEW r \in Requests, DispatchNext(r) PROVE unrouting' = unrouting
    BY <2>6 DEF DispatchNext, DispatchByPage, DispatchByContext, FinishInvocation,
                FailInvocation, Proceed, DecideByDefault, Decide, Invoke, unrouteVars
  <2>7. CASE UNCHANGED vars
    BY <2>3, <2>7 DEF vars, unrouteVars
  <2>8. QED
    BY <1>1, <2>3, <2>4, <2>5, <2>6, <2>7 DEF Next
<1>2. IInv /\ [Next]_vars =>
        [\A s \in Scopes :
           unrouting[s] /\ ~unrouting'[s] => waiting[s] \cap active = {}]_vars
  BY <1>1
<1>3. QED
  BY <1>2, Inductive, PTL DEF Spec, UnrouteAllWaits

LEMMA InvokeSelects ==
  ASSUME TypeOK, NEW r \in Requests, NEW d \in Dispatch, NEW stage, NEW S, NEW g,
         Invoke(r, d, stage, S, g)
  PROVE  /\ dispatch'[r].route = g
         /\ \A q \in Requests \ {r} : dispatch'[q] = dispatch[q]
<1>1. /\ dispatch'[r] = Calling(d, stage, S, g)
      /\ \A q \in Requests \ {r} : dispatch'[q] = dispatch[q]
  BY DEF Invoke, TypeOK
<1>2. Calling(d, stage, S, g).route = g
  BY DEF Calling, Dispatch
<1>3. QED
  BY <1>1, <1>2

LEMMA DecideSelects ==
  ASSUME TypeOK, NEW r \in Requests, NEW d \in Dispatch, NEW decision,
         Decide(r, d, decision)
  PROVE  /\ dispatch'[r].route = NoRoute
         /\ \A q \in Requests \ {r} : dispatch'[q] = dispatch[q]
<1>1. /\ dispatch'[r] = Decided(d, decision)
      /\ \A q \in Requests \ {r} : dispatch'[q] = dispatch[q]
  BY DEF Decide, TypeOK
<1>2. Decided(d, decision).route = NoRoute
  BY DEF Decided, Dispatch
<1>3. QED
  BY <1>1, <1>2

\* What a step of r's dispatch may do to the handlers of all requests.
Selects(r) ==
  /\ \A q \in Requests \ {r} : dispatch'[q] = dispatch[q]
  /\ LET g == dispatch'[r].route
     IN  g = NoRoute \/ (g \in live /\ <<g, dispatch[r].url>> \in Matches)

LEMMA ProceedSelects ==
  ASSUME TypeOK, NEW r \in Requests, NEW d \in Dispatch, d.url = dispatch[r].url,
         Proceed(r, d)
  PROVE  Selects(r)
<1> DEFINE e == [d EXCEPT !.byDefault = TRUE]
<1>1. e \in Dispatch
  BY DEF Dispatch
<1>2. ASSUME NEW stage, NEW S, NEW T, NEW g \in Eligible(T, d.url),
             Invoke(r, d, stage, S, g)
      PROVE  Selects(r)
  BY <1>2, InvokeSelects DEF Selects, Eligible
<1>3. ASSUME NEW decision, Decide(r, e, decision)
      PROVE  Selects(r)
  <2> HIDE DEF e
  <2>1. QED
    BY <1>1, <1>3, DecideSelects DEF Selects
<1>4. CASE DecideByDefault(r, d)
  BY <1>3, <1>4 DEF DecideByDefault
<1>5. CASE \E g \in IF d.stage = "page" THEN Eligible(d.todo, d.url) ELSE {} :
             Invoke(r, d, "page", d.todo, g)
  BY <1>2, <1>5
<1>6. CASE \E g \in Eligible(ContextSnapshot(d), d.url) :
             Invoke(r, d, "context", ContextSnapshot(d), g)
  BY <1>2, <1>6
<1>7. QED
  BY <1>4, <1>5, <1>6 DEF Proceed

LEMMA DispatchSelects ==
  ASSUME TypeOK, NEW r \in Requests, DispatchNext(r)
  PROVE  Selects(r)
<1>0. dispatch[r] \in Dispatch
  BY DEF TypeOK
<1>1. CASE DispatchByPage(r)
  <2> DEFINE d1 == [dispatch[r] EXCEPT !.via = "page", !.stage = "page"]
             d == [d1 EXCEPT !.todo = live \cap PageRoutes, !.known = live \cap Routes]
  <2>1. d1 \in Dispatch /\ d.url = dispatch[r].url
    BY <1>0 DEF Dispatch
  <2>2. d \in Dispatch
    <3> HIDE DEF d1
    <3>1. QED
      BY <2>1 DEF Dispatch, Routes
  <2>3. Decide(r, d, "abort") \/ Proceed(r, d)
    BY <1>1 DEF DispatchByPage
  <2> HIDE DEF d
  <2>4. QED
    BY <2>1, <2>2, <2>3, DecideSelects, ProceedSelects DEF Selects
<1>2. CASE DispatchByContext(r)
  <2> DEFINE d1 == [dispatch[r] EXCEPT !.via = "context", !.stage = "context"]
             d == [d1 EXCEPT !.todo = live \cap ContextRoutes,
                             !.known = live \cap ContextRoutes]
  <2>1. d1 \in Dispatch /\ d.url = dispatch[r].url
    BY <1>0 DEF Dispatch
  <2>2. d \in Dispatch
    <3> HIDE DEF d1
    <3>1. QED
      BY <2>1 DEF Dispatch, Routes
  <2>3. Proceed(r, d)
    BY <1>2 DEF DispatchByContext
  <2> HIDE DEF d
  <2>4. QED
    BY <2>1, <2>2, <2>3, ProceedSelects
<1>3. ASSUME NEW decision, Decide(r, dispatch[r], decision) PROVE Selects(r)
  BY <1>0, <1>3, DecideSelects DEF Selects
<1>4. CASE FinishInvocation(r) \/ FailInvocation(r)
  BY <1>0, <1>3, <1>4, ProceedSelects DEF FinishInvocation, FailInvocation
<1>5. QED
  BY <1>1, <1>2, <1>4 DEF DispatchNext

\* Handlers, unroutes and disposals never move a dispatch to another entry.
LEMMA HandlerKeepsRoute ==
  ASSUME TypeOK, NEW r \in Requests, HandlerNext(r)
  PROVE  \A q \in Requests : dispatch'[q].route = dispatch[q].route
<1>0. dispatch[r] \in Dispatch /\ DOMAIN dispatch = Requests
  BY DEF TypeOK
<1>1. ASSUME NEW d, d.route = dispatch[r].route, RouteCall(r, d)
      PROVE  \A q \in Requests : dispatch'[q].route = dispatch[q].route
  BY <1>0, <1>1 DEF RouteCall
<1>2. \A what \in Outcomes : /\ Report(dispatch[r], what) \in Dispatch
                             /\ Report(dispatch[r], what).route = dispatch[r].route
  BY <1>0, ReportTyped
<1>3. CASE Abort(r)
  BY <1>1, <1>2, <1>3 DEF Abort, Outcomes
<1>4. CASE Continue(r)
  <2> DEFINE e == Report(dispatch[r], "continue")
  <2>1. e \in Dispatch /\ e.route = dispatch[r].route
    BY <1>2 DEF Outcomes
  <2>2. PICK u \in Urls : RouteCall(r, [e EXCEPT !.url = u])
    BY <1>4 DEF Continue
  <2> HIDE DEF e
  <2>3. [e EXCEPT !.url = u].route = dispatch[r].route
    BY <2>1 DEF Dispatch
  <2>4. QED
    BY <2>2, <2>3, <1>1
<1>5. CASE Fallback(r)
  <2> DEFINE e == Report(dispatch[r], "fallback")
  <2>1. e \in Dispatch /\ e.route = dispatch[r].route
    BY <1>2 DEF Outcomes
  <2>2. PICK u \in Urls :
          RouteCall(r, [e EXCEPT !.url = u, !.overridden = @ \/ u # dispatch[r].url])
    BY <1>5 DEF Fallback
  <2> HIDE DEF e
  <2>3. [e EXCEPT !.url = u, !.overridden = @ \/ u # dispatch[r].url].route
          = dispatch[r].route
    BY <2>1 DEF Dispatch
  <2>4. QED
    BY <2>2, <2>3, <1>1
<1>6. CASE FulfillEnds(r)
  <2> DEFINE e == Report(dispatch[r], "fulfill")
  <2>1. e \in Dispatch /\ e.route = dispatch[r].route
    BY <1>2 DEF Outcomes
  <2>2. RouteCall(r, [e EXCEPT !.building = "ended"])
    BY <1>6 DEF FulfillEnds
  <2> HIDE DEF e
  <2>3. [e EXCEPT !.building = "ended"].route = dispatch[r].route
    BY <2>1 DEF Dispatch
  <2>4. QED
    BY <2>2, <2>3, <1>1
<1>7. CASE FulfillStarts(r) \/ FulfillFails(r)
  <2>1. \A b : [dispatch[r] EXCEPT !.building = b].route = dispatch[r].route
    BY <1>0 DEF Dispatch
  <2>2. QED
    BY <2>1, <1>1, <1>7 DEF FulfillStarts, FulfillFails
<1>8. ASSUME NEW how, HandlerEnds(r, how)
      PROVE  \A q \in Requests : dispatch'[q].route = dispatch[q].route
  <2>1. [dispatch[r] EXCEPT !.handler = how].route = dispatch[r].route
    BY <1>0 DEF Dispatch
  <2>2. QED
    BY <2>1, <1>1, <1>8 DEF HandlerEnds
<1>9. QED
  BY <1>3, <1>4, <1>5, <1>6, <1>7, <1>8 DEF HandlerNext

\* A removed handler is never called, however old the snapshot a dispatch
\* walks, nor is a handler called for a URL that fallback() has replaced.
THEOREM OnlyLive == Spec => OnlyLiveHandlersInvoked
<1> DEFINE A == \A r \in Requests :
                  LET g == dispatch'[r].route IN
                  g # NoRoute /\ g # dispatch[r].route =>
                    g \in live /\ <<g, dispatch[r].url>> \in Matches
<1>1. ASSUME TypeOK, Next PROVE A
  <2>1. CASE RegistryNext
    <3>1. dispatch' = dispatch
      BY <2>1 DEF RegistryNext, Route, DisposePageRoute, DisposeContextRoute, Unroute,
                  Remove, UnrouteAll, UnrouteAllReturns
    <3>2. QED
      BY <3>1
  <2>2. ASSUME NEW r \in Requests, HandlerNext(r) PROVE A
    BY <1>1, <2>2, HandlerKeepsRoute
  <2>3. ASSUME NEW r \in Requests, DispatchNext(r) PROVE A
    BY <1>1, <2>3, DispatchSelects DEF Selects
  <2>4. QED
    BY <1>1, <2>1, <2>2, <2>3 DEF Next
<1>2. TypeOK /\ [Next]_vars => [A]_vars
  BY <1>1
<1> HIDE DEF A
<1>3. Spec => [][A]_vars
  BY <1>2, TypeCorrect, PTL DEF Spec
<1>4. QED
  BY <1>3 DEF A, OnlyLiveHandlersInvoked

-----------------------------------------------------------------------------
(* The order of handlers.                                                  *)

\* Entries are numbered as they are pushed.
Numbered ==
  /\ \A g \in Entries : stamp[g] <= clock
  /\ \A g, h \in Entries : stamp[g] = stamp[h] /\ stamp[g] # 0 => g = h

\* The first report of a continue() stays, but for a fulfill() that was begun;
\* so that a dispatch whose URL continue() has changed does not walk on.
Reported(d) ==
  /\ ~d.handled => d.first = "none" /\ d.outcome = "none"
  /\ d.first = "continue" => d.outcome \in {"continue", "fulfill"}

\* What was there when the dispatch began and still is, is behind it or ahead.
Ahead(d, h) == h \in d.todo \/ (d.stage = "page" /\ h \in ContextRoutes)

Covered(d) ==
  ~d.overridden =>
    \A h \in d.known \cap live : <<h, d.url>> \in Matches => h \in d.tried \/ Ahead(d, h)

Known(d) == d.known \subseteq Routes /\ \A h \in d.known : stamp[h] # 0

Walk(d) ==
  /\ Known(d)
  /\ Reported(d)
  /\ d.stage = "context" => d.todo \subseteq ContextRoutes
  /\ d.stage \in {"page", "context"} /\ d.first # "continue" => Covered(d)

WalkInv == IInv /\ Numbered /\ \A r \in Requests : Walk(dispatch[r])

\* What NobodySkipped says of one request.
NotSkipped(r) ==
  LET d == dispatch[r]
      e == dispatch'[r]
      moved == e.route # NoRoute /\ e.route # d.route
  IN  (moved \/ (e.byDefault /\ ~d.byDefault)) /\ ~e.overridden =>
        \A h \in e.known \cap live :
          <<h, e.url>> \in Matches /\ Precedes(h, e.route) => h \in e.tried

LEMMA CallingFields ==
  ASSUME NEW d \in Dispatch, NEW stage, NEW S, NEW g, NEW e, e = Calling(d, stage, S, g)
  PROVE  /\ e.stage = stage /\ e.todo = {h \in S : stamp[h] < stamp[g]}
         /\ e.tried = d.tried \cup {g} /\ e.route = g
         /\ ~e.handled /\ e.first = "none" /\ e.outcome = "none"
         /\ e.known = d.known /\ e.overridden = d.overridden
         /\ e.byDefault = d.byDefault /\ e.url = d.url
BY DEF Calling, Dispatch

LEMMA DecidedFields ==
  ASSUME NEW d \in Dispatch, NEW decision, NEW e, e = Decided(d, decision)
  PROVE  /\ e.stage = "done" /\ e.tried = d.tried /\ e.route = NoRoute
         /\ e.handled = d.handled /\ e.first = d.first /\ e.outcome = d.outcome
         /\ e.known = d.known /\ e.byDefault = d.byDefault
         /\ e.overridden = d.overridden /\ e.url = d.url
BY DEF Decided, Dispatch

\* The handler that a dispatch moves to is the newest of those ahead in its
\* array; what comes before it is behind the dispatch.
LEMMA InvokeWalk ==
  ASSUME WalkInv, NEW r \in Requests, NEW d \in Dispatch, NEW stage \in {"page", "context"},
         NEW S \in SUBSET Routes, NEW g \in Eligible(S, d.url),
         IsNewest(g, Eligible(S, d.url)), Invoke(r, d, stage, S, g), Known(d),
         S \subseteq (IF stage = "page" THEN PageRoutes ELSE ContextRoutes),
         ~d.overridden =>
           \A h \in d.known \cap live :
             <<h, d.url>> \in Matches =>
               h \in d.tried \cup S \/ (stage = "page" /\ h \in ContextRoutes)
  PROVE  Walk(dispatch[r])' /\ NotSkipped(r)
<1> USE RoutesAssumption
<1>1. PICK e : e = Calling(d, stage, S, g)
  OBVIOUS
<1>2. dispatch'[r] = e /\ live' \subseteq live /\ stamp' = stamp
  BY <1>1 DEF Invoke, Consume, WalkInv, IInv, TypeOK
<1>3. /\ e.stage = stage /\ e.todo = {h \in S : stamp[h] < stamp[g]}
      /\ e.tried = d.tried \cup {g} /\ e.route = g
      /\ ~e.handled /\ e.first = "none" /\ e.outcome = "none"
      /\ e.known = d.known /\ e.overridden = d.overridden
      /\ e.byDefault = d.byDefault /\ e.url = d.url
  BY <1>1, CallingFields
<1>4. /\ g \in S \cap live
      /\ \A h \in S \cap live : <<h, d.url>> \in Matches => stamp[h] <= stamp[g]
  BY DEF Eligible, IsNewest
<1>5. ASSUME NEW h \in S \cap live, <<h, d.url>> \in Matches
      PROVE  h = g \/ stamp[h] < stamp[g]
  <2>1. h \in Entries /\ g \in Entries /\ stamp[h] \in Nat /\ stamp[g] \in Nat
        /\ stamp[h] # 0 /\ stamp[h] <= stamp[g]
    BY <1>4, <1>5 DEF WalkInv, IInv, TypeOK, Registered, Entries
  <2>2. QED
    BY <2>1 DEF WalkInv, Numbered
<1>6. ASSUME ~e.overridden, NEW h \in e.known \cap live, <<h, e.url>> \in Matches
      PROVE  h \in e.tried \/ h \in e.todo \/ (stage = "page" /\ h \in ContextRoutes)
  BY <1>3, <1>5, <1>6
<1>7. ASSUME ~e.overridden, NEW h \in e.known \cap live, <<h, e.url>> \in Matches,
             Precedes(h, g)
      PROVE  h \in e.tried
  <2>1. CASE h \in d.tried
    BY <1>3, <2>1
  <2>2. CASE h \in S
    <3>1. ~(stamp[h] > stamp[g])
      BY <1>3, <1>4, <1>5, <1>7, <2>2 DEF WalkInv, IInv, TypeOK, Entries
    <3>2. QED
      BY <1>4, <1>7, <2>2, <3>1 DEF Precedes, Routes, Entries
  <2>3. CASE stage = "page" /\ h \in ContextRoutes
    BY <1>4, <1>7, <2>3 DEF Precedes, Routes, Entries
  <2>4. QED
    BY <1>3, <1>7, <2>1, <2>2, <2>3
<1>8. Walk(e)'
  BY <1>2, <1>3, <1>6 DEF Walk, Known, Reported, Covered, Ahead
<1>9. NotSkipped(r)
  BY <1>2, <1>3, <1>7 DEF NotSkipped
<1>10. QED
  BY <1>2, <1>8, <1>9 DEF Walk, Known, Reported, Covered, Ahead

\* A dispatch that is decided skips nobody: it is over, and not by default.
LEMMA DecideWalk ==
  ASSUME WalkInv, NEW r \in Requests, NEW d \in Dispatch, NEW decision,
         Known(d), Reported(d), d.byDefault = dispatch[r].byDefault,
         Decide(r, d, decision)
  PROVE  Walk(dispatch[r])' /\ NotSkipped(r)
<1>1. PICK e : e = Decided(d, decision)
  OBVIOUS
<1>2. dispatch'[r] = e /\ live' = live /\ stamp' = stamp
  BY <1>1 DEF Decide, registryVars, WalkInv, IInv, TypeOK
<1>3. /\ e.stage = "done" /\ e.tried = d.tried /\ e.route = NoRoute
      /\ e.handled = d.handled /\ e.first = d.first /\ e.outcome = d.outcome
      /\ e.known = d.known /\ e.byDefault = d.byDefault
      /\ e.overridden = d.overridden /\ e.url = d.url
  BY <1>1, DecidedFields
<1>4. Known(dispatch[r])' /\ Reported(dispatch[r])'
  BY <1>2, <1>3 DEF Known, Reported
<1>5. dispatch'[r].stage = "done"
  BY <1>2, <1>3
<1>6. QED
  BY <1>2, <1>3, <1>4, <1>5 DEF Walk, NotSkipped

\* Where a dispatch may walk on from.
Stands(d) ==
  /\ d \in Dispatch
  /\ \/ d.stage = "page" /\ d.todo \subseteq PageRoutes
     \/ d.stage = "context" /\ d.todo \subseteq ContextRoutes
  /\ Known(d) /\ Reported(d) /\ Covered(d)

\* The default is reached when every array has been walked to its end.
LEMMA DefaultWalk ==
  ASSUME WalkInv, NEW r \in Requests, NEW d, Stands(d), DecideByDefault(r, d),
         d.stage = "page" => Eligible(d.todo, d.url) = {},
         Eligible(ContextSnapshot(d), d.url) = {}
  PROVE  Walk(dispatch[r])' /\ NotSkipped(r)
<1>0. d \in Dispatch
  BY DEF Stands
<1>1. PICK b : b = [d EXCEPT !.byDefault = TRUE]
  OBVIOUS
<1>2. b \in Dispatch
  BY <1>0, <1>1 DEF Dispatch
<1>3. PICK decision : Decide(r, b, decision)
  BY <1>1 DEF DecideByDefault
<1>4. PICK e : e = Decided(b, decision)
  OBVIOUS
<1>5. dispatch'[r] = e /\ live' = live /\ stamp' = stamp
  BY <1>3, <1>4 DEF Decide, registryVars, WalkInv, IInv, TypeOK
<1>6. /\ b.tried = d.tried /\ b.handled = d.handled /\ b.first = d.first
      /\ b.outcome = d.outcome /\ b.known = d.known
      /\ b.overridden = d.overridden /\ b.url = d.url
  BY <1>0, <1>1 DEF Dispatch
<1>7. /\ e.stage = "done" /\ e.tried = b.tried /\ e.route = NoRoute
      /\ e.handled = b.handled /\ e.first = b.first /\ e.outcome = b.outcome
      /\ e.known = b.known /\ e.byDefault = b.byDefault
      /\ e.overridden = b.overridden /\ e.url = b.url
  BY <1>2, <1>4, DecidedFields
<1>8. Known(dispatch[r])' /\ Reported(dispatch[r])' /\ dispatch'[r].stage = "done"
  BY <1>5, <1>6, <1>7 DEF Stands, Known, Reported
<1>9. ASSUME ~d.overridden, NEW h \in d.known \cap live, <<h, d.url>> \in Matches
      PROVE  h \in d.tried
  <2>1. h \in d.tried \/ Ahead(d, h)
    BY <1>9 DEF Stands, Covered
  <2>2. ~Ahead(d, h)
    BY <1>9 DEF Ahead, Stands, Eligible, ContextSnapshot
  <2>3. QED
    BY <2>1, <2>2
<1>10. NotSkipped(r)
  BY <1>5, <1>6, <1>7, <1>9 DEF NotSkipped
<1>11. QED
  BY <1>8, <1>10 DEF Walk

LEMMA ProceedWalk ==
  ASSUME WalkInv, NEW r \in Requests, NEW d, Stands(d), Proceed(r, d)
  PROVE  Walk(dispatch[r])' /\ NotSkipped(r)
<1> DEFINE page == IF d.stage = "page" THEN Eligible(d.todo, d.url) ELSE {}
           context == Eligible(ContextSnapshot(d), d.url)
<1>0. d \in Dispatch /\ Known(d) /\ Covered(d)
  BY DEF Stands
<1>1. CASE \E g \in page : IsNewest(g, page) /\ Invoke(r, d, "page", d.todo, g)
  <2>1. d.stage = "page" /\ page = Eligible(d.todo, d.url)
    BY <1>1
  <2>2. d.todo \subseteq PageRoutes /\ d.todo \in SUBSET Routes
    BY <2>1 DEF Stands, Routes
  <2>3. ~d.overridden =>
          \A h \in d.known \cap live :
            <<h, d.url>> \in Matches => h \in d.tried \cup d.todo \/ h \in ContextRoutes
    BY <1>0 DEF Covered, Ahead
  <2> HIDE DEF page
  <2>4. QED
    BY <1>0, <1>1, <2>1, <2>2, <2>3, InvokeWalk
<1>2. CASE /\ page = {}
           /\ \E g \in context : /\ IsNewest(g, context)
                                 /\ Invoke(r, d, "context", ContextSnapshot(d), g)
  <2>1. /\ ContextSnapshot(d) \subseteq ContextRoutes
        /\ ContextSnapshot(d) \in SUBSET Routes
    BY DEF ContextSnapshot, Stands, Routes
  <2>2. ASSUME ~d.overridden, NEW h \in d.known \cap live, <<h, d.url>> \in Matches
        PROVE  h \in d.tried \cup ContextSnapshot(d)
    <3>1. h \in d.tried \/ Ahead(d, h)
      BY <1>0, <2>2 DEF Covered
    <3>2. CASE Ahead(d, h)
      BY <1>2, <2>2, <3>2 DEF Ahead, Stands, Eligible, ContextSnapshot
    <3>3. QED
      BY <3>1, <3>2
  <2>3. PICK S : S = ContextSnapshot(d)
    OBVIOUS
  <2>4. PICK g \in Eligible(S, d.url) :
           IsNewest(g, Eligible(S, d.url)) /\ Invoke(r, d, "context", S, g)
    BY <1>2, <2>3
  <2>5. S \in SUBSET Routes /\ S \subseteq ContextRoutes
    BY <2>1, <2>3
  <2>6. ~d.overridden =>
          \A h \in d.known \cap live : <<h, d.url>> \in Matches => h \in d.tried \cup S
    BY <2>2, <2>3
  <2>7. QED
    BY <1>0, <2>4, <2>5, <2>6, InvokeWalk
<1>3. CASE page = {} /\ context = {} /\ DecideByDefault(r, d)
  BY <1>3, DefaultWalk
<1>4. QED
  BY <1>1, <1>2, <1>3 DEF Proceed

LEMMA DispatchWalk ==
  ASSUME WalkInv, NEW r \in Requests, DispatchNext(r)
  PROVE  Walk(dispatch[r])' /\ NotSkipped(r)
<1> USE RoutesAssumption
<1>0. /\ dispatch[r] \in Dispatch
      /\ Walk(dispatch[r])
      /\ \A h \in live : h \in Entries /\ stamp[h] # 0
      /\ dispatch[r].handler # "none" => dispatch[r].stage \in {"page", "context"}
      /\ dispatch[r].stage = "page" => dispatch[r].todo \subseteq PageRoutes
  BY DEF WalkInv, IInv, TypeOK, Registered, Forward
<1>1. CASE DispatchByPage(r)
  <2>1. PICK d1 : d1 = [dispatch[r] EXCEPT !.via = "page", !.stage = "page"]
    OBVIOUS
  <2>2. PICK d : d = [d1 EXCEPT !.todo = live \cap PageRoutes, !.known = live \cap Routes]
    OBVIOUS
  <2>3. d1 \in Dispatch
    BY <1>0, <2>1 DEF Dispatch
  <2>4. d \in Dispatch
    BY <2>2, <2>3 DEF Dispatch, Routes
  <2>5. /\ d.stage = "page" /\ d.todo = live \cap PageRoutes /\ d.known = live \cap Routes
        /\ d.handled = dispatch[r].handled /\ d.first = dispatch[r].first
        /\ d.outcome = dispatch[r].outcome /\ d.byDefault = dispatch[r].byDefault
    BY <1>0, <2>1, <2>2 DEF Dispatch
  <2>6. Decide(r, d, "abort") \/ Proceed(r, d)
    BY <1>1, <2>1, <2>2 DEF DispatchByPage
  <2>7. Known(d) /\ Reported(d) /\ Covered(d)
    BY <1>0, <2>5 DEF Walk, Known, Reported, Covered, Ahead, Routes
  <2>8. Stands(d)
    BY <2>4, <2>5, <2>7 DEF Stands
  <2>9. QED
    BY <2>4, <2>5, <2>6, <2>7, <2>8, DecideWalk, ProceedWalk
<1>2. CASE DispatchByContext(r)
  <2>1. PICK d1 : d1 = [dispatch[r] EXCEPT !.via = "context", !.stage = "context"]
    OBVIOUS
  <2>2. PICK d : d = [d1 EXCEPT !.todo = live \cap ContextRoutes,
                                !.known = live \cap ContextRoutes]
    OBVIOUS
  <2>3. d1 \in Dispatch
    BY <1>0, <2>1 DEF Dispatch
  <2>4. d \in Dispatch
    BY <2>2, <2>3 DEF Dispatch, Routes
  <2>5. /\ d.stage = "context" /\ d.todo = live \cap ContextRoutes
        /\ d.known = live \cap ContextRoutes
        /\ d.handled = dispatch[r].handled /\ d.first = dispatch[r].first
        /\ d.outcome = dispatch[r].outcome
    BY <1>0, <2>1, <2>2 DEF Dispatch
  <2>6. Proceed(r, d)
    BY <1>2, <2>1, <2>2 DEF DispatchByContext
  <2>7. Known(d) /\ Reported(d) /\ Covered(d)
    BY <1>0, <2>5 DEF Walk, Known, Reported, Covered, Ahead, Routes
  <2>8. Stands(d)
    BY <2>4, <2>5, <2>7 DEF Stands
  <2>9. QED
    BY <2>6, <2>8, ProceedWalk
<1>3. ASSUME NEW decision, Decide(r, dispatch[r], decision)
      PROVE  Walk(dispatch[r])' /\ NotSkipped(r)
  BY <1>0, <1>3, DecideWalk DEF Walk
<1>4. ASSUME dispatch[r].handler # "none", dispatch[r].first # "continue",
             Proceed(r, dispatch[r])
      PROVE  Walk(dispatch[r])' /\ NotSkipped(r)
  <2>1. Stands(dispatch[r])
    BY <1>0, <1>4 DEF Walk, Stands
  <2>2. QED
    BY <1>4, <2>1, ProceedWalk
<1>5. CASE FinishInvocation(r)
  BY <1>3, <1>4, <1>5 DEF FinishInvocation
<1>6. CASE FailInvocation(r)
  BY <1>0, <1>3, <1>4, <1>6 DEF FailInvocation, Walk, Reported
<1>7. QED
  BY <1>1, <1>2, <1>5, <1>6 DEF DispatchNext

-----------------------------------------------------------------------------
(* Handlers and the registry skip nobody.                                  *)

LEMMA ReportFields ==
  ASSUME NEW d \in Dispatch, NEW what \in Outcomes, NEW e, e = Report(d, what)
  PROVE  /\ e \in Dispatch /\ e.handled
         /\ e.first = (IF d.first = "none" THEN what ELSE d.first)
         /\ e.outcome = what \/ (e.outcome = d.outcome /\ d.outcome # "none")
         /\ e.stage = d.stage /\ e.todo = d.todo /\ e.tried = d.tried
         /\ e.known = d.known /\ e.overridden = d.overridden /\ e.url = d.url
         /\ e.route = d.route /\ e.byDefault = d.byDefault
<1>1. e \in Dispatch
  BY ReportTyped
<1>2. QED
  BY <1>1 DEF Report, Dispatch

\* What a call of the route changes: its reports and, with a new URL, the
\* obligation to those ahead is gone if the handler overrode it or continues.
LEMMA RouteCallWalk ==
  ASSUME WalkInv, NEW r \in Requests, NEW e, RouteCall(r, e), Reported(e),
         e.stage = dispatch[r].stage, e.todo = dispatch[r].todo,
         e.tried = dispatch[r].tried, e.known = dispatch[r].known,
         e.route = dispatch[r].route, e.byDefault = dispatch[r].byDefault,
         \/ e.first = "continue" \/ e.overridden
         \/ /\ e.url = dispatch[r].url /\ e.overridden = dispatch[r].overridden
            /\ dispatch[r].first # "continue"
  PROVE  Walk(dispatch[r])' /\ NotSkipped(r)
<1>1. dispatch'[r] = e /\ live' = live /\ stamp' = stamp
  BY DEF RouteCall, registryVars, WalkInv, IInv, TypeOK
<1>2. Walk(dispatch[r])
  BY DEF WalkInv
<1>3. Known(e) /\ (e.stage = "context" => e.todo \subseteq ContextRoutes)
  BY <1>2 DEF Walk, Known
<1>4. e.stage \in {"page", "context"} /\ e.first # "continue" => Covered(e)
  BY <1>2 DEF Walk, Covered, Ahead
<1>5. Walk(dispatch[r])'
  BY <1>1, <1>3, <1>4 DEF Walk, Known, Reported, Covered, Ahead
<1>6. NotSkipped(r)
  BY <1>1 DEF NotSkipped
<1>7. QED
  BY <1>5, <1>6

LEMMA HandlerWalk ==
  ASSUME WalkInv, NEW r \in Requests, HandlerNext(r)
  PROVE  Walk(dispatch[r])' /\ NotSkipped(r)
<1>0. dispatch[r] \in Dispatch /\ Reported(dispatch[r])
  BY DEF WalkInv, IInv, TypeOK, Walk
<1>1. CASE Abort(r)
  <2>1. PICK e : e = Report(dispatch[r], "abort")
    OBVIOUS
  <2>2. RouteCall(r, e) /\ ~dispatch[r].handled
    BY <1>1, <2>1 DEF Abort, Calls
  <2>3. /\ e.handled /\ e.first = "abort" /\ e.stage = dispatch[r].stage
        /\ e.todo = dispatch[r].todo /\ e.tried = dispatch[r].tried
        /\ e.known = dispatch[r].known /\ e.overridden = dispatch[r].overridden
        /\ e.url = dispatch[r].url /\ e.route = dispatch[r].route
        /\ e.byDefault = dispatch[r].byDefault /\ dispatch[r].first = "none"
    BY <1>0, <2>1, <2>2, ReportFields DEF Outcomes, Reported
  <2>4. Reported(e)
    BY <2>3 DEF Reported
  <2>5. QED
    BY <2>2, <2>3, <2>4, RouteCallWalk
<1>2. CASE Continue(r)
  <2>1. PICK d : d = Report(dispatch[r], "continue")
    OBVIOUS
  <2>2. PICK u \in Urls : RouteCall(r, [d EXCEPT !.url = u])
    BY <1>2, <2>1 DEF Continue
  <2>3. PICK e : e = [d EXCEPT !.url = u]
    OBVIOUS
  <2>4. /\ d \in Dispatch /\ d.handled /\ d.first = "continue" /\ d.outcome = "continue"
        /\ d.stage = dispatch[r].stage /\ d.todo = dispatch[r].todo
        /\ d.tried = dispatch[r].tried /\ d.known = dispatch[r].known
        /\ d.route = dispatch[r].route /\ d.byDefault = dispatch[r].byDefault
    BY <1>0, <1>2, <2>1, ReportFields DEF Outcomes, Reported, Continue, Calls
  <2>5. /\ e.handled /\ e.first = "continue" /\ e.outcome = "continue"
        /\ e.stage = dispatch[r].stage /\ e.todo = dispatch[r].todo
        /\ e.tried = dispatch[r].tried /\ e.known = dispatch[r].known
        /\ e.route = dispatch[r].route /\ e.byDefault = dispatch[r].byDefault
    BY <2>3, <2>4 DEF Dispatch
  <2>6. Reported(e)
    BY <2>5 DEF Reported
  <2>7. QED
    BY <2>2, <2>3, <2>5, <2>6, RouteCallWalk
<1>3. CASE Fallback(r)
  <2>1. PICK d : d = Report(dispatch[r], "fallback")
    OBVIOUS
  <2>2. PICK u \in Urls :
          RouteCall(r, [d EXCEPT !.url = u, !.overridden = @ \/ u # dispatch[r].url])
    BY <1>3, <2>1 DEF Fallback
  <2>3. PICK e : e = [d EXCEPT !.url = u, !.overridden = @ \/ u # dispatch[r].url]
    OBVIOUS
  <2>4. /\ d \in Dispatch /\ d.handled /\ d.first = "fallback"
        /\ d.stage = dispatch[r].stage /\ d.todo = dispatch[r].todo
        /\ d.tried = dispatch[r].tried /\ d.known = dispatch[r].known
        /\ d.route = dispatch[r].route /\ d.byDefault = dispatch[r].byDefault
        /\ d.overridden = dispatch[r].overridden /\ dispatch[r].first = "none"
    BY <1>0, <1>3, <2>1, ReportFields DEF Outcomes, Reported, Fallback, Calls
  <2>5. /\ e.handled /\ e.first = "fallback" /\ e.url = u
        /\ e.stage = dispatch[r].stage /\ e.todo = dispatch[r].todo
        /\ e.tried = dispatch[r].tried /\ e.known = dispatch[r].known
        /\ e.route = dispatch[r].route /\ e.byDefault = dispatch[r].byDefault
    BY <2>3, <2>4 DEF Dispatch
  <2>6. e.overridden = (dispatch[r].overridden \/ u # dispatch[r].url)
    BY <2>3, <2>4 DEF Dispatch
  <2>7. e.overridden \/ (e.overridden = dispatch[r].overridden /\ e.url = dispatch[r].url)
    <3>1. dispatch[r].overridden \in BOOLEAN
      BY <1>0 DEF Dispatch
    <3>2. QED
      BY <2>5, <2>6, <3>1
  <2>8. Reported(e)
    BY <2>5 DEF Reported
  <2>9. QED
    BY <2>2, <2>3, <2>4, <2>5, <2>7, <2>8, RouteCallWalk
<1>4. CASE FulfillEnds(r)
  <2>1. PICK d : d = Report(dispatch[r], "fulfill")
    OBVIOUS
  <2>2. RouteCall(r, [d EXCEPT !.building = "ended"])
    BY <1>4, <2>1 DEF FulfillEnds
  <2>3. PICK e : e = [d EXCEPT !.building = "ended"]
    OBVIOUS
  <2>4. /\ d \in Dispatch /\ d.handled
        /\ d.first = (IF dispatch[r].first = "none" THEN "fulfill" ELSE dispatch[r].first)
        /\ d.outcome = "fulfill" \/ (d.outcome = dispatch[r].outcome)
        /\ d.stage = dispatch[r].stage /\ d.todo = dispatch[r].todo
        /\ d.tried = dispatch[r].tried /\ d.known = dispatch[r].known
        /\ d.route = dispatch[r].route /\ d.byDefault = dispatch[r].byDefault
        /\ d.overridden = dispatch[r].overridden /\ d.url = dispatch[r].url
    BY <1>0, <2>1, ReportFields DEF Outcomes
  <2>5. /\ e.handled /\ e.first = d.first /\ e.outcome = d.outcome
        /\ e.stage = dispatch[r].stage /\ e.todo = dispatch[r].todo
        /\ e.tried = dispatch[r].tried /\ e.known = dispatch[r].known
        /\ e.route = dispatch[r].route /\ e.byDefault = dispatch[r].byDefault
        /\ e.overridden = dispatch[r].overridden /\ e.url = dispatch[r].url
    BY <2>3, <2>4 DEF Dispatch
  <2>6. Reported(e)
    BY <1>0, <2>4, <2>5 DEF Reported
  <2>7. QED
    BY <2>2, <2>3, <2>4, <2>5, <2>6, RouteCallWalk
<1>5. ASSUME NEW e, RouteCall(r, e), e.handled = dispatch[r].handled,
             e.first = dispatch[r].first, e.outcome = dispatch[r].outcome,
             e.stage = dispatch[r].stage, e.todo = dispatch[r].todo,
             e.tried = dispatch[r].tried, e.known = dispatch[r].known,
             e.route = dispatch[r].route, e.byDefault = dispatch[r].byDefault,
             e.overridden = dispatch[r].overridden, e.url = dispatch[r].url
      PROVE  Walk(dispatch[r])' /\ NotSkipped(r)
  <2>1. Reported(e)
    BY <1>0, <1>5 DEF Reported
  <2>2. QED
    BY <1>5, <2>1, RouteCallWalk
<1>6. ASSUME NEW b, RouteCall(r, [dispatch[r] EXCEPT !.building = b])
      PROVE  Walk(dispatch[r])' /\ NotSkipped(r)
  <2>1. PICK e : e = [dispatch[r] EXCEPT !.building = b]
    OBVIOUS
  <2>2. /\ e.handled = dispatch[r].handled
        /\ e.first = dispatch[r].first /\ e.outcome = dispatch[r].outcome
        /\ e.stage = dispatch[r].stage /\ e.todo = dispatch[r].todo
        /\ e.tried = dispatch[r].tried /\ e.known = dispatch[r].known
        /\ e.route = dispatch[r].route /\ e.byDefault = dispatch[r].byDefault
        /\ e.overridden = dispatch[r].overridden /\ e.url = dispatch[r].url
    BY <1>0, <2>1 DEF Dispatch
  <2>3. QED
    BY <1>5, <1>6, <2>1, <2>2
<1>7. ASSUME NEW how, HandlerEnds(r, how)
      PROVE  Walk(dispatch[r])' /\ NotSkipped(r)
  <2>1. PICK e : e = [dispatch[r] EXCEPT !.handler = how]
    OBVIOUS
  <2>2. /\ e.handled = dispatch[r].handled
        /\ e.first = dispatch[r].first /\ e.outcome = dispatch[r].outcome
        /\ e.stage = dispatch[r].stage /\ e.todo = dispatch[r].todo
        /\ e.tried = dispatch[r].tried /\ e.known = dispatch[r].known
        /\ e.route = dispatch[r].route /\ e.byDefault = dispatch[r].byDefault
        /\ e.overridden = dispatch[r].overridden /\ e.url = dispatch[r].url
    BY <1>0, <2>1 DEF Dispatch
  <2>3. RouteCall(r, e)
    BY <1>7, <2>1 DEF HandlerEnds
  <2>4. QED
    BY <1>5, <2>2, <2>3
<1>8. QED
  BY <1>1, <1>2, <1>3, <1>4, <1>6, <1>7 DEF HandlerNext, FulfillStarts, FulfillFails

\* The others stay where they are: an entry pushed now is not in any `known'.
LEMMA OthersWalk ==
  ASSUME WalkInv, NEW q \in Requests, dispatch'[q] = dispatch[q],
         \A h \in Entries : stamp[h] # 0 => stamp'[h] # 0,
         \A h \in live' : h \in live \/ stamp[h] = 0
  PROVE  Walk(dispatch[q])' /\ NotSkipped(q)
<1>1. Walk(dispatch[q])
  BY DEF WalkInv
<1>2. Known(dispatch[q])'
  BY <1>1 DEF Walk, Known, Entries
<1>3. dispatch[q].stage \in {"page", "context"} /\ dispatch[q].first # "continue"
        => Covered(dispatch[q])'
  BY <1>1 DEF Walk, Known, Covered, Ahead
<1>4. Walk(dispatch[q])'
  BY <1>1, <1>2, <1>3 DEF Walk, Reported
<1>5. QED
  BY <1>4 DEF NotSkipped

\* What a step of r's dispatch or handler leaves as it was.
LEMMA DispatchFrame ==
  ASSUME TypeOK, NEW r \in Requests, HandlerNext(r) \/ DispatchNext(r)
  PROVE  /\ \A q \in Requests \ {r} : dispatch'[q] = dispatch[q]
         /\ live' \subseteq live /\ stamp' = stamp /\ clock' = clock
<1>1. CASE HandlerNext(r)
  BY <1>1 DEF HandlerNext, Abort, Continue, Fallback, FulfillStarts, FulfillEnds,
              FulfillFails, HandlerEnds, RouteCall, registryVars, TypeOK
<1>2. CASE DispatchNext(r)
  BY <1>2 DEF DispatchNext, DispatchByPage, DispatchByContext, FinishInvocation,
              FailInvocation, Proceed, DecideByDefault, Decide, Invoke, Consume,
              registryVars, TypeOK
<1>3. QED
  BY <1>1, <1>2

LEMMA RegistryFrame ==
  ASSUME TypeOK, RegistryNext
  PROVE  /\ dispatch' = dispatch
         /\ \/ live' \subseteq live /\ stamp' = stamp /\ clock' = clock
            \/ \E g \in Entries : Route(g)
<1>1. ASSUME NEW g \in Entries, Route(g) PROVE dispatch' = dispatch
  BY <1>1 DEF Route
<1>2. ASSUME NEW S, Remove(S)
      PROVE  dispatch' = dispatch /\ live' \subseteq live /\ stamp' = stamp /\ clock' = clock
  BY <1>2 DEF Remove
<1>3. ASSUME NEW s, NEW b, UnrouteAll(s, b)
      PROVE  dispatch' = dispatch /\ live' \subseteq live /\ stamp' = stamp /\ clock' = clock
  BY <1>3 DEF UnrouteAll
<1>4. ASSUME NEW s, UnrouteAllReturns(s)
      PROVE  dispatch' = dispatch /\ live' \subseteq live /\ stamp' = stamp /\ clock' = clock
  BY <1>4 DEF UnrouteAllReturns, registryVars
<1>5. QED
  BY <1>1, <1>2, <1>3, <1>4
  DEF RegistryNext, DisposePageRoute, DisposeContextRoute, Unroute

LEMMA WalkStep ==
  ASSUME WalkInv, Next
  PROVE  Numbered' /\ \A r \in Requests : Walk(dispatch[r])' /\ NotSkipped(r)
<1> USE RoutesAssumption
<1>0. TypeOK
  BY DEF WalkInv, IInv
<1>1. ASSUME live' \subseteq live, stamp' = stamp,
             NEW q \in Requests, dispatch'[q] = dispatch[q]
      PROVE  Walk(dispatch[q])' /\ NotSkipped(q)
  BY <1>1, OthersWalk
<1>2. CASE RegistryNext
  <2>1. CASE live' \subseteq live /\ stamp' = stamp /\ clock' = clock
    BY <1>0, <1>1, <1>2, <2>1, RegistryFrame DEF WalkInv, Numbered
  <2>2. ASSUME NEW g \in Entries, Route(g)
        PROVE  Numbered' /\ \A r \in Requests : Walk(dispatch[r])' /\ NotSkipped(r)
    <3>1. /\ stamp[g] = 0 /\ clock' = clock + 1 /\ live' = live \cup {g}
          /\ stamp' = [stamp EXCEPT ![g] = clock + 1]
      BY <2>2 DEF Route
    <3>2. /\ clock \in Nat /\ stamp'[g] = clock + 1
          /\ \A h \in Entries : stamp[h] \in Nat /\ (h # g => stamp'[h] = stamp[h])
      BY <1>0, <3>1 DEF TypeOK
    <3>3. Numbered'
      <4>1. \A h \in Entries : stamp[h] <= clock
        BY DEF WalkInv, Numbered
      <4>2. \A h \in Entries : stamp'[h] <= clock + 1 /\ (stamp'[h] = clock + 1 => h = g)
        BY <3>2, <4>1
      <4>3. \A h, k \in Entries : stamp'[h] = stamp'[k] /\ stamp'[h] # 0 => h = k
        <5> SUFFICES ASSUME NEW h \in Entries, NEW k \in Entries,
                            stamp'[h] = stamp'[k], stamp'[h] # 0
                     PROVE  h = k
          OBVIOUS
        <5>1. CASE h = g \/ k = g
          BY <3>2, <4>2, <5>1
        <5>2. CASE h # g /\ k # g
          BY <3>2, <5>2 DEF WalkInv, Numbered
        <5>3. QED
          BY <5>1, <5>2
      <4>4. QED
        BY <3>1, <4>2, <4>3 DEF Numbered
    <3>4. ASSUME NEW q \in Requests PROVE Walk(dispatch[q])' /\ NotSkipped(q)
      <4>1. dispatch'[q] = dispatch[q]
        BY <1>0, <1>2, RegistryFrame
      <4>2. \A h \in Entries : stamp[h] # 0 => stamp'[h] # 0
        BY <3>1, <3>2
      <4>3. \A h \in live' : h \in live \/ stamp[h] = 0
        BY <3>1
      <4>4. QED
        BY <4>1, <4>2, <4>3, OthersWalk
    <3>5. QED
      BY <3>3, <3>4
  <2>3. QED
    BY <1>0, <1>2, <2>1, <2>2, RegistryFrame
<1>3. ASSUME NEW r \in Requests, HandlerNext(r) \/ DispatchNext(r)
      PROVE  Numbered' /\ \A q \in Requests : Walk(dispatch[q])' /\ NotSkipped(q)
  <2>1. /\ \A q \in Requests \ {r} : dispatch'[q] = dispatch[q]
        /\ live' \subseteq live /\ stamp' = stamp /\ clock' = clock
    BY <1>0, <1>3, DispatchFrame
  <2>2. Numbered'
    BY <2>1 DEF WalkInv, Numbered
  <2>3. Walk(dispatch[r])' /\ NotSkipped(r)
    BY <1>3, HandlerWalk, DispatchWalk
  <2>4. ASSUME NEW q \in Requests PROVE Walk(dispatch[q])' /\ NotSkipped(q)
    BY <1>1, <2>1, <2>3, <2>4
  <2>5. QED
    BY <2>2, <2>4
<1>4. QED
  BY <1>2, <1>3 DEF Next

LEMMA InitWalk == Init => Numbered /\ \A r \in Requests : Walk(dispatch[r])
<1> SUFFICES ASSUME Init PROVE Numbered /\ \A r \in Requests : Walk(dispatch[r])
  OBVIOUS
<1>1. Numbered
  BY DEF Init, Numbered
<1>2. \A r \in Requests :
        /\ dispatch[r].stage = "idle" /\ dispatch[r].known = {}
        /\ ~dispatch[r].handled /\ dispatch[r].first = "none"
        /\ dispatch[r].outcome = "none"
  BY DEF Init
<1>3. \A r \in Requests : Walk(dispatch[r])
  BY <1>2 DEF Walk, Known, Reported
<1>4. QED
  BY <1>1, <1>3

\* Handlers run newest first and page before context, whatever is registered
\* and removed while a request is on its way: none that was there when the
\* dispatch began, still is and matches is passed over.
THEOREM Order == Spec => NobodySkipped
<1> DEFINE Walks == Numbered /\ \A r \in Requests : Walk(dispatch[r])
           A == \A r \in Requests : NotSkipped(r)
<1>1. Init => Walks
  BY InitWalk
<1>2. IInv /\ Walks /\ [Next]_vars => Walks'
  <2> SUFFICES ASSUME IInv, Walks, [Next]_vars PROVE Walks'
    OBVIOUS
  <2>0. WalkInv
    BY DEF WalkInv
  <2>1. CASE Next
    BY <2>0, <2>1, WalkStep
  <2>2. CASE UNCHANGED vars
    BY <2>2 DEF vars, registryVars, Numbered, Walk, Known, Reported, Covered, Ahead
  <2>3. QED
    BY <2>1, <2>2
<1>3. IInv /\ Walks /\ [Next]_vars => [A]_vars
  BY WalkStep DEF WalkInv
<1> HIDE DEF Walks, A
<1>4. Spec => []IInv
  BY Inductive
<1>5. Spec => [][A]_vars
  BY <1>1, <1>2, <1>3, <1>4, PTL DEF Spec
<1>6. QED
  BY <1>5 DEF A, NotSkipped, NobodySkipped

-----------------------------------------------------------------------------
(* RouteInterception implements RouteHandlers.                             *)

\* Whatever the adapter and the browser do, a page and its context see steps of
\* their own, or none.
LEMMA InterceptionSteps ==
  ASSUME [InterceptionNext]_allVars PROVE [Next]_vars
<1>1. ASSUME NEW g \in Entries, Install(g) PROVE Next
  BY <1>1 DEF Install, Next, RegistryNext
<1>2. ASSUME NEW g \in Routes, Dispose(g) PROVE Next
  BY <1>2 DEF Dispose, Next, RegistryNext
<1>3. ASSUME NEW s \in Scopes, UnrouteAndSync(s) \/ UnrouteAllStarts(s) PROVE Next
  <2>1. ASSUME NEW m \in Matchers, NEW hs \in {Handlers} \cup {{h} : h \in Handlers},
               Unroute(s, m, hs)
        PROVE  Next
    BY <2>1 DEF Next, RegistryNext
  <2>2. ASSUME NEW b \in Behaviors, UnrouteAll(s, b) PROVE Next
    BY <2>2 DEF Next, RegistryNext
  <2>3. CASE UnrouteAllReturns(s)
    BY <2>3 DEF Next, RegistryNext
  <2>4. QED
    BY <1>3, <2>1, <2>2, <2>3 DEF UnrouteAndSync, UnrouteAllStarts, Behaviors
<1>4. ASSUME NEW r \in Requests, HandlePaused(r) PROVE [Next]_vars
  BY <1>4 DEF HandlePaused, Next, DispatchNext
<1>5. ASSUME NEW r \in Requests, Inside(r) PROVE Next
  BY <1>5 DEF Inside, Next, DispatchNext
<1>6. ASSUME NEW r \in Requests, RequestSent(r) \/ SendDecision(r) PROVE UNCHANGED vars
  BY <1>6 DEF RequestSent, SendDecision
<1>7. ASSUME NEW s \in Scopes, SyncAfterUnroute(s) PROVE UNCHANGED vars
  BY <1>7 DEF SyncAfterUnroute
<1>8. ASSUME Deliver PROVE UNCHANGED vars
  BY <1>8 DEF Deliver
<1>9. ASSUME UNCHANGED allVars PROVE UNCHANGED vars
  BY <1>9 DEF allVars
<1>10. QED
  BY <1>1, <1>2, <1>3, <1>4, <1>5, <1>6, <1>7, <1>8, <1>9 DEF InterceptionNext

\* The routes of a page whose requests come from a browser behave as those of
\* RouteHandlers do, about which all that is proved holds here too.
THEOREM Implements == InterceptionSpec => Spec
<1>1. InterceptionInit => Init
  BY DEF InterceptionInit
<1>2. [InterceptionNext]_allVars => [Next]_vars
  BY InterceptionSteps
<1>3. QED
  BY <1>1, <1>2, PTL DEF InterceptionSpec, Spec

-----------------------------------------------------------------------------
(* The wire.  Jobs take turns, each in as many rounds as it has commands    *)
(* left, so that one that turns interception on ends before one that turns  *)
(* it off if that has more commands left, or as many and a later place.     *)

\* A job that ends in such a command; what comes before it pauses nothing.
Job(job, kind, longest) ==
  /\ Len(job) \in 1..longest
  /\ job[Len(job)].kind = kind
  /\ \A n \in 1..(Len(job) - 1) : job[n].kind \in {"cache", "release"}

Enables(job) == Job(job, "enable", 2)
Disables(job) == Job(job, "disable", 3)
Decides(job) == Job(job, "continue", 1) \/ Job(job, "answer", 1)

Jobs(w) ==
  /\ w \in Seq(Seq(Command))
  /\ \A i \in 1..Len(w) : Enables(w[i]) \/ Disables(w[i]) \/ Decides(w[i])

\* The browser pauses requests, or will; but a job to the contrary ends last.
DisablesLast(w, pauses) ==
  pauses \/ (\E i \in 1..Len(w) : Enables(w[i])) =>
    \E j \in 1..Len(w) :
      /\ Disables(w[j])
      /\ \A i \in 1..Len(w) :
           Enables(w[i]) => /\ Len(w[i]) <= Len(w[j])
                            /\ i > j => Len(w[i]) < Len(w[j])

LEMMA JobLength ==
  ASSUME NEW job, Enables(job) \/ Disables(job) \/ Decides(job)
  PROVE  Len(job) \in Nat \ {0}
<1>1. ASSUME NEW kind, NEW longest \in Nat, Job(job, kind, longest)
      PROVE  Len(job) \in Nat \ {0}
  BY <1>1 DEF Job
<1>2. QED
  BY <1>1 DEF Enables, Disables, Decides

LEMMA JobsFacts ==
  ASSUME NEW w, Jobs(w)
  PROVE  /\ Len(w) \in Nat
         /\ w # << >> => Len(w) # 0
         /\ \A i \in 1..Len(w) :
              /\ w[i] \in Seq(Command) /\ Len(w[i]) \in Nat \ {0}
              /\ Enables(w[i]) \/ Disables(w[i]) \/ Decides(w[i])
<1>1. w \in Seq(Seq(Command))
  BY DEF Jobs
<1>2. /\ Len(w) \in Nat
      /\ w # << >> => Len(w) # 0
      /\ \A i \in 1..Len(w) : w[i] \in Seq(Command)
  BY <1>1
<1>3. \A i \in 1..Len(w) : Enables(w[i]) \/ Disables(w[i]) \/ Decides(w[i])
  BY DEF Jobs
<1>4. \A i \in 1..Len(w) : Len(w[i]) \in Nat \ {0}
  BY <1>3, JobLength
<1>5. QED
  BY <1>2, <1>3, <1>4

\* A job ends in one kind of command.
LEMMA OneKind ==
  ASSUME NEW job \in Seq(Command)
  PROVE  /\ ~(Enables(job) /\ Disables(job)) /\ ~(Enables(job) /\ Decides(job))
         /\ ~(Disables(job) /\ Decides(job))
         /\ Decides(job) => ~(Len(job) > 1)
BY DEF Enables, Disables, Decides, Job

\* The rest of a job that toggles interception is one of its kind.
LEMMA RestOfJob ==
  ASSUME NEW job \in Seq(Command), Len(job) > 1, Enables(job) \/ Disables(job)
  PROVE  /\ Tail(job) \in Seq(Command) /\ Len(Tail(job)) = Len(job) - 1
         /\ Enables(job) <=> Enables(Tail(job))
         /\ Disables(job) <=> Disables(Tail(job))
         /\ job[1].kind \notin {"enable", "disable"}
<1>1. Tail(job) \in Seq(Command) /\ Len(Tail(job)) = Len(job) - 1
  OBVIOUS
<1>2. \A n \in 1..(Len(job) - 1) : Tail(job)[n] = job[n + 1]
  OBVIOUS
<1>3. PICK rest : rest = Tail(job)
  OBVIOUS
<1>4. /\ Enables(job) => Enables(rest)
      /\ Disables(job) => Disables(rest)
  BY <1>1, <1>2, <1>3 DEF Enables, Disables, Job
<1>5. job[1].kind \notin {"enable", "disable"}
  BY DEF Enables, Disables, Job
<1>6. QED
  BY <1>1, <1>3, <1>4, <1>5, OneKind

LEMMA AppendJob ==
  ASSUME NEW w, Jobs(w), NEW job \in Seq(Command),
         Enables(job) \/ Disables(job) \/ Decides(job)
  PROVE  Jobs(Append(w, job))
<1>1. /\ Append(w, job) \in Seq(Seq(Command)) /\ Len(Append(w, job)) = Len(w) + 1
      /\ \A i \in 1..Len(w) : Append(w, job)[i] = w[i]
      /\ Append(w, job)[Len(w) + 1] = job
  BY DEF Jobs
<1>2. QED
  BY <1>1 DEF Jobs

\* A decision does not change the order of the others.
LEMMA AppendDecision ==
  ASSUME NEW w, Jobs(w), NEW pauses \in BOOLEAN, DisablesLast(w, pauses),
         NEW job \in Seq(Command), Decides(job)
  PROVE  DisablesLast(Append(w, job), pauses)
<1>1. PICK w2 : w2 = Append(w, job)
  OBVIOUS
<1>2. /\ Len(w2) = Len(w) + 1 /\ Len(w) \in Nat
      /\ \A i \in 1..Len(w) : w2[i] = w[i]
      /\ w2[Len(w) + 1] = job /\ ~Enables(job)
  BY <1>1, OneKind DEF Jobs
<1>3. \A i \in 1..Len(w2) : Enables(w2[i]) => i \in 1..Len(w) /\ Enables(w[i])
  BY <1>2
<1>4. \A i \in 1..Len(w) : i \in 1..Len(w2)
  BY <1>2
<1>5. DisablesLast(w2, pauses)
  <2> SUFFICES ASSUME pauses \/ (\E i \in 1..Len(w2) : Enables(w2[i]))
               PROVE  \E j \in 1..Len(w2) :
                        /\ Disables(w2[j])
                        /\ \A i \in 1..Len(w2) :
                             Enables(w2[i]) => /\ Len(w2[i]) <= Len(w2[j])
                                               /\ i > j => Len(w2[i]) < Len(w2[j])
    BY DEF DisablesLast
  <2>1. pauses \/ (\E i \in 1..Len(w) : Enables(w[i]))
    BY <1>3
  <2>2. PICK j \in 1..Len(w) :
          /\ Disables(w[j])
          /\ \A i \in 1..Len(w) :
               Enables(w[i]) => /\ Len(w[i]) <= Len(w[j])
                                /\ i > j => Len(w[i]) < Len(w[j])
    BY <2>1 DEF DisablesLast
  <2>3. QED
    BY <1>2, <1>3, <1>4, <2>2
<1>6. QED
  BY <1>1, <1>5

\* Whatever is on the wire, a new job that disables has as many commands as any
\* that enables, and comes after them.
LEMMA AppendDisable ==
  ASSUME NEW w, Jobs(w), NEW pauses \in BOOLEAN, NEW job \in Seq(Command), Disables(job), Len(job) >= 2
  PROVE  DisablesLast(Append(w, job), pauses)
<1>1. /\ Len(Append(w, job)) = Len(w) + 1 /\ Append(w, job) \in Seq(Seq(Command))
      /\ \A i \in 1..Len(w) : Append(w, job)[i] = w[i]
      /\ Append(w, job)[Len(w) + 1] = job /\ ~Enables(job)
  BY OneKind DEF Jobs
<1>2. \A i \in 1..Len(w) : Enables(w[i]) => Len(w[i]) <= Len(job)
  BY DEF Enables, Job
<1>3. Len(w) + 1 \in 1..Len(Append(w, job)) /\ Len(w) \in Nat
  BY <1>1, JobsFacts
<1>4. PICK w2 : w2 = Append(w, job)
  OBVIOUS
<1>5. \A i \in 1..Len(w2) : Enables(w2[i]) => Len(w2[i]) <= Len(job) /\ ~(i > Len(w) + 1)
  BY <1>1, <1>2, <1>3, <1>4
<1>6. DisablesLast(w2, pauses)
  BY <1>1, <1>3, <1>4, <1>5 DEF DisablesLast
<1>7. QED
  BY <1>4, <1>6

\* What Deliver makes of the wire.
Delivered(w, w2) == w2 = Tail(w) \o (IF Len(Head(w)) > 1 THEN <<Tail(Head(w))>> ELSE << >>)

LEMMA OneMore ==
  ASSUME NEW S, NEW rest \in Seq(S), NEW e \in S, NEW s, s = rest \o <<e>>
  PROVE  /\ s \in Seq(S) /\ Len(s) = Len(rest) + 1
         /\ \A i \in 1..Len(rest) : s[i] = rest[i]
         /\ s[Len(rest) + 1] = e
OBVIOUS

LEMMA DeliveredPlaces ==
  ASSUME NEW w \in Seq(Seq(Command)), w # << >>, NEW w2, Delivered(w, w2)
  PROVE  /\ w2 \in Seq(Seq(Command))
         /\ Len(w2) = IF Len(w[1]) > 1 THEN Len(w) ELSE Len(w) - 1
         /\ \A i \in 1..(Len(w) - 1) : w2[i] = w[i + 1]
         /\ Len(w[1]) > 1 => w2[Len(w)] = Tail(w[1])
<1>1. /\ Tail(w) \in Seq(Seq(Command)) /\ Len(Tail(w)) = Len(w) - 1 /\ Head(w) = w[1]
      /\ \A i \in 1..(Len(w) - 1) : Tail(w)[i] = w[i + 1]
      /\ w[1] \in Seq(Command) /\ Len(w) \in Nat \ {0}
  OBVIOUS
<1>2. CASE Len(w[1]) > 1
  <2>1. PICK job : job = Tail(w[1])
    OBVIOUS
  <2>2. PICK rest : rest = Tail(w)
    OBVIOUS
  <2>3. job \in Seq(Command)
    BY <1>1, <1>2, <2>1
  <2>4. rest \in Seq(Seq(Command)) /\ Len(rest) = Len(w) - 1 /\ w2 = rest \o <<job>>
    BY <1>1, <1>2, <2>1, <2>2 DEF Delivered
  <2>5. /\ w2 \in Seq(Seq(Command)) /\ Len(w2) = Len(w)
        /\ \A i \in 1..(Len(w) - 1) : w2[i] = rest[i]
        /\ w2[Len(w)] = job
    <3>1. /\ w2 \in Seq(Seq(Command)) /\ Len(w2) = Len(rest) + 1
          /\ \A i \in 1..Len(rest) : w2[i] = rest[i]
          /\ w2[Len(rest) + 1] = job
      BY <2>3, <2>4, OneMore
    <3>2. Len(rest) = Len(w) - 1 /\ Len(rest) + 1 = Len(w)
      BY <1>1, <2>4
    <3>3. QED
      BY <3>1, <3>2
  <2>6. QED
    BY <1>1, <1>2, <2>1, <2>2, <2>5
<1>3. CASE ~(Len(w[1]) > 1)
  <2>1. w2 = Tail(w) \o << >>
    BY <1>1, <1>3 DEF Delivered
  <2>2. /\ w2 \in Seq(Seq(Command)) /\ Len(w2) = Len(w) - 1
        /\ \A i \in 1..(Len(w) - 1) : w2[i] = Tail(w)[i]
    BY <1>1, <2>1
  <2>3. QED
    BY <1>1, <1>3, <2>2
<1>4. QED
  BY <1>2, <1>3

LEMMA DeliveredJobs ==
  ASSUME NEW w, Jobs(w), w # << >>, NEW w2, Delivered(w, w2)
  PROVE  Jobs(w2)
<1>1. /\ w2 \in Seq(Seq(Command))
      /\ Len(w2) = IF Len(w[1]) > 1 THEN Len(w) ELSE Len(w) - 1
      /\ \A i \in 1..(Len(w) - 1) : w2[i] = w[i + 1]
      /\ Len(w[1]) > 1 => w2[Len(w)] = Tail(w[1])
  BY DeliveredPlaces DEF Jobs
<1>2. /\ w[1] \in Seq(Command) /\ Len(w) \in Nat \ {0}
      /\ Enables(w[1]) \/ Disables(w[1]) \/ Decides(w[1])
  BY JobsFacts
<1>3. \A i \in 1..(Len(w) - 1) : Enables(w2[i]) \/ Disables(w2[i]) \/ Decides(w2[i])
  <2>1. \A i \in 1..(Len(w) - 1) : i + 1 \in 1..Len(w)
    BY <1>2
  <2>2. QED
    BY <1>1, <2>1, JobsFacts
<1>4. ASSUME Len(w[1]) > 1 PROVE Enables(Tail(w[1])) \/ Disables(Tail(w[1]))
  BY <1>2, <1>4, RestOfJob, OneKind
<1>5. QED
  BY <1>1, <1>2, <1>3, <1>4 DEF Jobs

LEMMA DeliveredLast ==
  ASSUME NEW w, Jobs(w), w # << >>, NEW w2, Delivered(w, w2),
         NEW pauses \in BOOLEAN, DisablesLast(w, pauses), NEW pauses2 \in BOOLEAN,
         pauses2 <=> (w[1][1].kind = "enable" \/ (pauses /\ w[1][1].kind # "disable"))
  PROVE  DisablesLast(w2, pauses2)
<1>1. /\ w2 \in Seq(Seq(Command))
      /\ Len(w2) = IF Len(w[1]) > 1 THEN Len(w) ELSE Len(w) - 1
      /\ \A i \in 1..(Len(w) - 1) : w2[i] = w[i + 1]
      /\ Len(w[1]) > 1 => w2[Len(w)] = Tail(w[1])
  BY DeliveredPlaces DEF Jobs
<1>2. /\ w[1] \in Seq(Command) /\ Len(w) \in Nat \ {0} /\ Len(w[1]) \in Nat \ {0}
      /\ \A i \in 1..Len(w) : w[i] \in Seq(Command) /\ Len(w[i]) \in Nat \ {0}
      /\ Enables(w[1]) \/ Disables(w[1]) \/ Decides(w[1])
  BY JobsFacts
<1>3. ASSUME Len(w[1]) > 1
      PROVE  /\ Len(Tail(w[1])) = Len(w[1]) - 1
             /\ Enables(w[1]) <=> Enables(Tail(w[1]))
             /\ Disables(w[1]) <=> Disables(Tail(w[1]))
             /\ w[1][1].kind \notin {"enable", "disable"}
  <2>1. PICK job : job = w[1]
    OBVIOUS
  <2>2. job \in Seq(Command) /\ Len(job) > 1 /\ (Enables(job) \/ Disables(job))
    BY <1>2, <1>3, <2>1, OneKind
  <2>3. QED
    BY <2>1, <2>2, RestOfJob
<1>4. ASSUME ~(Len(w[1]) > 1)
      PROVE  /\ w[1][1].kind = "enable" => Enables(w[1])
             /\ Disables(w[1]) => w[1][1].kind = "disable"
  <2>1. Len(w[1]) = 1
    <3>1. ASSUME NEW n \in Nat \ {0}, ~(n > 1) PROVE n = 1
      BY <3>1
    <3>2. QED
      BY <1>2, <1>4, <3>1
  <2>2. QED
    BY <1>2, <2>1 DEF Enables, Disables, Decides, Job
<1> SUFFICES ASSUME pauses2 \/ (\E i \in 1..Len(w2) : Enables(w2[i]))
             PROVE  \E j \in 1..Len(w2) :
                      /\ Disables(w2[j])
                      /\ \A i \in 1..Len(w2) :
                           Enables(w2[i]) => /\ Len(w2[i]) <= Len(w2[j])
                                             /\ i > j => Len(w2[i]) < Len(w2[j])
  BY DEF DisablesLast
<1>5. pauses \/ (\E i \in 1..Len(w) : Enables(w[i]))
  <2>1. ASSUME NEW i \in 1..Len(w2), Enables(w2[i]) PROVE \E k \in 1..Len(w) : Enables(w[k])
    <3>1. CASE i \in 1..(Len(w) - 1)
      BY <1>1, <1>2, <2>1, <3>1
    <3>2. CASE i = Len(w) /\ Len(w[1]) > 1
      BY <1>1, <1>2, <1>3, <2>1, <3>2
    <3>3. QED
      BY <1>1, <1>2, <3>1, <3>2
  <2>2. ASSUME w[1][1].kind = "enable" PROVE Enables(w[1])
    BY <1>2, <1>3, <1>4, <2>2
  <2>3. QED
    BY <1>2, <2>1, <2>2
<1>6. PICK j \in 1..Len(w) :
        /\ Disables(w[j])
        /\ \A i \in 1..Len(w) :
             Enables(w[i]) => /\ Len(w[i]) <= Len(w[j])
                              /\ i > j => Len(w[i]) < Len(w[j])
  BY <1>5 DEF DisablesLast
<1>7. CASE j = 1
  <2>1. ASSUME ~(Len(w[1]) > 1) PROVE FALSE
    <3>1. ~pauses2
      BY <1>4, <1>6, <1>7, <2>1
    <3>2. PICK i \in 1..Len(w2) : Enables(w2[i])
      BY <3>1
    <3>3. i + 1 \in 1..Len(w) /\ i + 1 > 1 /\ w2[i] = w[i + 1]
      BY <1>1, <1>2, <2>1
    <3>4. Len(w[i + 1]) < Len(w[1])
      BY <1>6, <1>7, <3>2, <3>3
    <3>5. QED
      BY <1>2, <2>1, <3>3, <3>4
  <2>2. Len(w[1]) > 1 /\ Disables(w2[Len(w)]) /\ Len(w2[Len(w)]) = Len(w[1]) - 1
        /\ Len(w2) = Len(w)
    BY <1>1, <1>2, <1>3, <1>6, <1>7, <2>1
  <2>3. ASSUME NEW i \in 1..Len(w2), Enables(w2[i]) PROVE Len(w2[i]) <= Len(w[1]) - 1
    <3>1. i # Len(w)
      BY <1>1, <1>2, <1>3, <1>6, <1>7, <2>2, <2>3, OneKind
    <3>2. i + 1 \in 1..Len(w) /\ i + 1 > 1 /\ w2[i] = w[i + 1]
      BY <1>1, <1>2, <2>2, <3>1
    <3>3. Len(w[i + 1]) < Len(w[1])
      BY <1>6, <1>7, <2>3, <3>2
    <3>4. QED
      BY <1>2, <3>2, <3>3
  <2>4. Len(w) \in 1..Len(w2) /\ \A i \in 1..Len(w2) : ~(i > Len(w))
    BY <1>1, <1>2, <2>2
  <2>5. QED
    BY <2>2, <2>3, <2>4
<1>8. CASE j > 1
  <2>1. j - 1 \in 1..Len(w2) /\ w2[j - 1] = w[j]
    BY <1>1, <1>2, <1>6, <1>8
  <2>2. ASSUME NEW i \in 1..Len(w2), Enables(w2[i])
        PROVE  /\ Len(w2[i]) <= Len(w[j])
               /\ i > j - 1 => Len(w2[i]) < Len(w[j])
    <3>1. CASE i \in 1..(Len(w) - 1)
      <4>1. i + 1 \in 1..Len(w) /\ (i > j - 1 => i + 1 > j)
        BY <1>2, <1>6, <3>1
      <4>2. w2[i] = w[i + 1]
        BY <1>1, <3>1
      <4>3. QED
        BY <1>6, <2>2, <4>1, <4>2
    <3>2. CASE i = Len(w) /\ Len(w[1]) > 1
      <4>1. Enables(w[1]) /\ Len(w2[i]) = Len(w[1]) - 1 /\ 1 \in 1..Len(w)
        <5>1. w2[i] = Tail(w[1])
          BY <1>1, <3>2
        <5>2. Len(Tail(w[1])) = Len(w[1]) - 1 /\ (Enables(w[1]) <=> Enables(Tail(w[1])))
          BY <1>3, <3>2
        <5>3. 1 \in 1..Len(w)
          BY <1>2
        <5>4. QED
          BY <2>2, <5>1, <5>2, <5>3
      <4>2. Len(w[1]) <= Len(w[j])
        BY <1>6, <4>1
      <4>3. QED
        BY <1>2, <4>1, <4>2
    <3>3. QED
      BY <1>1, <1>2, <3>1, <3>2
  <2>3. QED
    BY <1>6, <2>1, <2>2
<1>9. QED
  BY <1>2, <1>6, <1>7, <1>8 DEF Jobs

-----------------------------------------------------------------------------
(* The routes: the inductive invariant.                                    *)

\* Where interception is off, nothing on the wire, or done, leaves it on; and
\* a browser that does not intercept holds no request.
Toggled ==
  /\ Jobs(wire)
  /\ ~enabled => DisablesLast(wire, fetchOn)
  /\ ~fetchOn => \A r \in Requests : browser[r] # "paused"

InterceptionInv == IInv /\ InterceptionTypeOK /\ Toggled

LEMMA InitInterceptionInv == InterceptionInit => InterceptionInv
<1> SUFFICES ASSUME InterceptionInit PROVE InterceptionInv
  OBVIOUS
<1>1. IInv
  BY InitIInv DEF InterceptionInit
<1>2. InterceptionTypeOK
  <2>1. wire \in Seq(Seq(Command))
    BY DEF InterceptionInit
  <2>2. browser \in [Requests -> {"unsent", "paused", "passed", "answered"}]
    BY DEF InterceptionInit
  <2>3. QED
    BY <1>1, <2>1, <2>2 DEF InterceptionInit, InterceptionTypeOK, IInv
<1>3. wire \in Seq(Seq(Command)) /\ Len(wire) = 0 /\ ~fetchOn
  BY DEF InterceptionInit
<1>4. Jobs(wire) /\ DisablesLast(wire, fetchOn)
  BY <1>3 DEF Jobs, DisablesLast
<1>5. QED
  BY <1>1, <1>2, <1>4 DEF InterceptionInit, InterceptionInv, Toggled

LEMMA CommandTyped ==
  ASSUME NEW kind \in {"cache", "enable", "disable", "release", "continue", "answer"},
         NEW S \in SUBSET Requests
  PROVE  Cmd(kind, S) \in Command /\ Cmd(kind, S).kind = kind
BY DEF Cmd, Command

\* The decision on a request takes its turn on the wire.
LEMMA SendToggled ==
  ASSUME InterceptionTypeOK, Toggled, NEW kind \in {"continue", "answer"}, NEW r \in Requests,
         Send(kind, r), UNCHANGED <<fetchOn, browser>>
  PROVE  Toggled' /\ wire' \in Seq(Seq(Command)) /\ UNCHANGED <<slot, enabled>>
<1>1. PICK job : job = <<Cmd(kind, {r})>>
  OBVIOUS
<1>2. PICK c \in Command : c = Cmd(kind, {r}) /\ c.kind = kind
  BY CommandTyped
<1>3. job \in Seq(Command) /\ Len(job) = 1 /\ job[1].kind = kind
  BY <1>1, <1>2
<1>4. Decides(job)
  BY <1>3 DEF Decides, Job
<1>5. wire' = Append(wire, job) /\ UNCHANGED <<slot, enabled>>
  BY <1>1 DEF Send
<1>6. Jobs(wire')
  BY <1>3, <1>4, <1>5, AppendJob DEF Toggled
<1>7. ~enabled' => DisablesLast(wire', fetchOn')
  BY <1>3, <1>4, <1>5, AppendDecision DEF Toggled, InterceptionTypeOK
<1>8. QED
  BY <1>5, <1>6, <1>7 DEF Toggled, Jobs

LEMMA TogglingJobs ==
  ASSUME InterceptionTypeOK
  PROVE  /\ EnableJob \in Seq(Command) /\ Enables(EnableJob)
         /\ DisableJob \in Seq(Command) /\ Disables(DisableJob) /\ Len(DisableJob) >= 2
<1>1. PICK cache \in Command : cache = Cmd("cache", {}) /\ cache.kind = "cache"
  BY CommandTyped
<1>2. PICK enable \in Command : enable = Cmd("enable", {}) /\ enable.kind = "enable"
  BY CommandTyped
<1>3. PICK disable \in Command : disable = Cmd("disable", {}) /\ disable.kind = "disable"
  BY CommandTyped
<1>4. PICK release \in Command : release = Cmd("release", pausedIds) /\ release.kind = "release"
  BY CommandTyped DEF InterceptionTypeOK
<1>5. EnableJob = <<cache, enable>>
  BY <1>1, <1>2 DEF EnableJob
<1>6. EnableJob \in Seq(Command) /\ Enables(EnableJob)
  BY <1>1, <1>2, <1>5 DEF Enables, Job
<1>7. CASE pausedIds = {}
  <2>1. DisableJob = << >> \o <<cache, disable>>
    BY <1>1, <1>3, <1>7 DEF DisableJob
  <2>2. DisableJob = <<cache, disable>>
    BY <2>1
  <2>3. DisableJob \in Seq(Command) /\ Disables(DisableJob) /\ Len(DisableJob) >= 2
    BY <1>1, <1>3, <2>2 DEF Disables, Job
  <2>4. QED
    BY <1>6, <2>3
<1>8. CASE pausedIds # {}
  <2>1. DisableJob = <<release>> \o <<cache, disable>>
    BY <1>1, <1>3, <1>4, <1>8 DEF DisableJob
  <2>2. PICK job : job = DisableJob
    OBVIOUS
  <2>3. /\ job \in Seq(Command) /\ Len(job) = 3
        /\ job[1] = release /\ job[2] = cache /\ job[3] = disable
    BY <2>1, <2>2
  <2>4. Disables(job)
    BY <1>1, <1>3, <1>4, <2>3 DEF Disables, Job
  <2>5. QED
    BY <1>6, <2>2, <2>3, <2>4
<1>9. QED
  BY <1>7, <1>8

\* setRequestInterceptor: what disables comes last.
LEMMA SetToggled ==
  ASSUME InterceptionTypeOK, Toggled, NEW dispatcher \in {"none", "page", "context"},
         SetRequestInterceptor(dispatcher), UNCHANGED browserVars
  PROVE  /\ Toggled' /\ wire' \in Seq(Seq(Command))
         /\ slot' \in {"none", "page", "context"} /\ enabled' \in BOOLEAN
<1>1. slot' \in {"none", "page", "context"} /\ enabled' \in BOOLEAN
  BY DEF SetRequestInterceptor
<1>2. CASE enabled' = enabled
  BY <1>1, <1>2 DEF SetRequestInterceptor, Toggled, browserVars, Jobs
<1>3. CASE enabled' /\ ~enabled
  <2>1. wire' = Append(wire, EnableJob)
    BY <1>3 DEF SetRequestInterceptor
  <2>2. Jobs(wire')
    BY <2>1, AppendJob, TogglingJobs DEF Toggled
  <2>3. QED
    BY <1>1, <1>3, <2>2 DEF Toggled, browserVars, Jobs
<1>4. CASE ~enabled' /\ enabled
  <2>1. wire' = Append(wire, DisableJob)
    BY <1>4 DEF SetRequestInterceptor
  <2>2. Jobs(wire')
    BY <2>1, AppendJob, TogglingJobs DEF Toggled
  <2>3. DisablesLast(wire', fetchOn)
    BY <2>1, AppendDisable, TogglingJobs DEF Toggled, InterceptionTypeOK
  <2>4. QED
    BY <1>1, <2>2, <2>3 DEF Toggled, browserVars, Jobs
<1>5. QED
  BY <1>1, <1>2, <1>3, <1>4 DEF InterceptionTypeOK

LEMMA SyncToggled ==
  ASSUME InterceptionTypeOK, Toggled, NEW s \in Scopes, NEW entries, Sync(s, entries),
         UNCHANGED browserVars
  PROVE  /\ Toggled' /\ wire' \in Seq(Seq(Command))
         /\ slot' \in {"none", "page", "context"} /\ enabled' \in BOOLEAN
<1>1. PICK dispatcher \in {"none", "page", "context"} :
        dispatcher = IF NeedsInterception(s, entries) THEN s ELSE "none"
  BY DEF Scopes
<1>2. SetRequestInterceptor(dispatcher)
  BY <1>1 DEF Sync, SetRequestInterceptor
<1>3. QED
  BY <1>2, SetToggled

LEMMA DeliverInv ==
  ASSUME InterceptionTypeOK, Toggled, Deliver
  PROVE  /\ Toggled' /\ wire' \in Seq(Seq(Command)) /\ fetchOn' \in BOOLEAN
         /\ browser' \in [Requests -> {"unsent", "paused", "passed", "answered"}]
         /\ pausedIds' \subseteq Requests
         /\ UNCHANGED <<vars, slot, enabled, paused, answered, syncing>>
<1>1. PICK c : c = wire[1][1]
  OBVIOUS
<1>2. wire # << >> /\ Head(wire) = wire[1] /\ Head(Head(wire)) = c
  <2>1. wire # << >> /\ wire \in Seq(Seq(Command))
    BY DEF Deliver, InterceptionTypeOK
  <2>2. Len(wire) \in Nat \ {0} /\ 1 \in 1..Len(wire) /\ Head(wire) = wire[1]
    BY <2>1
  <2>3. wire[1] \in Seq(Command) /\ Len(wire[1]) \in Nat \ {0}
    BY <2>2, JobsFacts DEF Toggled
  <2>4. PICK job : job = wire[1]
    OBVIOUS
  <2>5. job # << >> /\ Head(job) = job[1]
    BY <2>3, <2>4
  <2>6. QED
    BY <1>1, <2>1, <2>2, <2>4, <2>5
<1>3. /\ Delivered(wire, wire')
      /\ fetchOn' = (c.kind = "enable" \/ (fetchOn /\ c.kind # "disable"))
      /\ browser' = [r \in Requests |-> Handled(c, r)]
      /\ pausedIds' = IF c.kind \in {"continue", "answer"} THEN pausedIds \ c.for ELSE pausedIds
      /\ UNCHANGED <<vars, slot, enabled, paused, answered, syncing>>
  BY <1>2 DEF Deliver, Delivered, Handled
<1>4. /\ fetchOn \in BOOLEAN /\ fetchOn' \in BOOLEAN
      /\ \A r \in Requests :
           /\ Handled(c, r) \in {"unsent", "paused", "passed", "answered"}
           /\ Handled(c, r) = "paused" => browser[r] = "paused" /\ c.kind # "disable"
  BY <1>3 DEF InterceptionTypeOK, Handled
<1>5. Jobs(wire')
  BY <1>2, <1>3, DeliveredJobs DEF Toggled
<1>6. ASSUME ~enabled' PROVE DisablesLast(wire', fetchOn')
  <2>1. DisablesLast(wire, fetchOn) /\ Jobs(wire)
    BY <1>3, <1>6 DEF Toggled
  <2>2. fetchOn' <=> (wire[1][1].kind = "enable" \/ (fetchOn /\ wire[1][1].kind # "disable"))
    BY <1>1, <1>3, <1>4
  <2>3. QED
    BY <1>2, <1>3, <1>4, <2>1, <2>2, DeliveredLast
<1>7. ASSUME ~fetchOn', NEW r \in Requests PROVE browser'[r] # "paused"
  BY <1>3, <1>4, <1>7 DEF Toggled
<1>8. wire' \in Seq(Seq(Command)) /\ pausedIds' \subseteq Requests
  BY <1>3, <1>5 DEF Jobs, InterceptionTypeOK
<1>9. QED
  BY <1>3, <1>4, <1>5, <1>6, <1>7, <1>8 DEF Toggled

LEMMA NextInterceptionInv ==
  ASSUME InterceptionInv, [InterceptionNext]_allVars PROVE InterceptionInv'
<1> USE DEF InterceptionInv
<1>1. IInv' /\ TypeOK'
  <2>1. [Next]_vars
    BY InterceptionSteps
  <2>2. QED
    BY <2>1, NextIInv DEF IInv
<1>2. ASSUME NEW g \in Entries, Install(g) PROVE InterceptionTypeOK' /\ Toggled'
  <2>1. PICK dispatcher \in {"none", "page", "context"} :
          dispatcher = IF g \in ContextRoutes THEN "context" ELSE "page"
    OBVIOUS
  <2>2. SetRequestInterceptor(dispatcher) /\ UNCHANGED <<browserVars, syncing>>
    BY <1>2, <2>1 DEF Install, SetRequestInterceptor
  <2>3. QED
    BY <1>1, <2>2, SetToggled DEF InterceptionTypeOK, browserVars
<1>3. ASSUME NEW g \in Routes, Dispose(g) PROVE InterceptionTypeOK' /\ Toggled'
  <2>1. PICK entries : entries = live'
    OBVIOUS
  <2>2. PICK s \in Scopes : Sync(s, entries)
    BY <1>3, <2>1 DEF Dispose, Scopes, Sync, SetRequestInterceptor, NeedsInterception
  <2>3. UNCHANGED <<browserVars, syncing>>
    BY <1>3 DEF Dispose
  <2>4. QED
    BY <1>1, <2>2, <2>3, SyncToggled DEF InterceptionTypeOK, browserVars
<1>4. ASSUME NEW s \in Scopes, SyncAfterUnroute(s) PROVE InterceptionTypeOK' /\ Toggled'
  <2>1. PICK entries : entries = live
    OBVIOUS
  <2>2. Sync(s, entries)
    BY <1>4, <2>1 DEF SyncAfterUnroute, Sync, SetRequestInterceptor, NeedsInterception
  <2>3. syncing' = syncing \ {s} /\ UNCHANGED browserVars
    BY <1>4 DEF SyncAfterUnroute
  <2>4. QED
    BY <1>1, <2>2, <2>3, SyncToggled DEF InterceptionTypeOK, browserVars
<1>5. ASSUME NEW s \in Scopes, UnrouteAndSync(s) \/ UnrouteAllStarts(s)
      PROVE  InterceptionTypeOK' /\ Toggled'
  <2>1. syncing' \subseteq Scopes /\ UNCHANGED <<adapterVars, browserVars>>
    BY <1>5 DEF UnrouteAndSync, UnrouteAllStarts, InterceptionTypeOK
  <2>2. QED
    BY <1>1, <2>1 DEF InterceptionTypeOK, Toggled, adapterVars, browserVars
<1>6. ASSUME NEW r \in Requests, RequestSent(r) PROVE InterceptionTypeOK' /\ Toggled'
  <2>1. /\ UNCHANGED <<adapterVars, fetchOn, pausedIds, answered, syncing>>
        /\ browser' \in [Requests -> {"unsent", "paused", "passed", "answered"}]
        /\ paused' \subseteq Requests
        /\ \A q \in Requests : browser'[q] = "paused" => browser[q] = "paused" \/ fetchOn
    BY <1>6 DEF RequestSent, InterceptionTypeOK
  <2>2. QED
    BY <1>1, <2>1 DEF InterceptionTypeOK, Toggled, adapterVars
<1>7. ASSUME NEW r \in Requests, HandlePaused(r) PROVE InterceptionTypeOK' /\ Toggled'
  <2>1. /\ UNCHANGED <<fetchOn, browser, answered, syncing>>
        /\ paused' \subseteq Requests /\ pausedIds' \subseteq Requests
    BY <1>7 DEF HandlePaused, InterceptionTypeOK
  <2>2. \/ Send("answer", r) \/ Send("continue", r)
        \/ UNCHANGED adapterVars
    BY <1>7 DEF HandlePaused
  <2>3. CASE UNCHANGED adapterVars
    BY <1>1, <2>1, <2>3 DEF InterceptionTypeOK, Toggled, adapterVars
  <2>4. CASE Send("answer", r) \/ Send("continue", r)
    BY <1>1, <2>1, <2>4, SendToggled DEF InterceptionTypeOK
  <2>5. QED
    BY <2>2, <2>3, <2>4
<1>8. ASSUME NEW r \in Requests, SendDecision(r) PROVE InterceptionTypeOK' /\ Toggled'
  <2>1. PICK kind \in {"continue", "answer"} :
          kind = IF dispatch[r].decision = "continue" THEN "continue" ELSE "answer"
    OBVIOUS
  <2>2. Send(kind, r)
    BY <1>8, <2>1 DEF SendDecision, Send
  <2>3. /\ UNCHANGED <<fetchOn, browser, paused, syncing>>
        /\ answered' \subseteq Requests /\ pausedIds' \subseteq Requests
    BY <1>8 DEF SendDecision, InterceptionTypeOK
  <2>4. QED
    BY <1>1, <2>2, <2>3, SendToggled DEF InterceptionTypeOK
<1>9. ASSUME NEW r \in Requests, Inside(r) PROVE InterceptionTypeOK' /\ Toggled'
  BY <1>1, <1>9 DEF Inside, InterceptionTypeOK, Toggled, adapterVars, browserVars
<1>10. ASSUME Deliver PROVE InterceptionTypeOK' /\ Toggled'
  BY <1>1, <1>10, DeliverInv DEF InterceptionTypeOK
<1>11. ASSUME UNCHANGED allVars PROVE InterceptionTypeOK' /\ Toggled'
  BY <1>1, <1>11 DEF allVars, InterceptionTypeOK, Toggled, adapterVars, browserVars
<1>12. QED
  BY <1>1, <1>2, <1>3, <1>4, <1>5, <1>6, <1>7, <1>8, <1>9, <1>10, <1>11
  DEF InterceptionNext

\* The invariant of the wire and the browser is inductive beside that of routes.
THEOREM InterceptionInductive == InterceptionSpec => []InterceptionInv
<1>1. InterceptionInit => InterceptionInv
  BY InitInterceptionInv
<1>2. InterceptionInv /\ [InterceptionNext]_allVars => InterceptionInv'
  BY NextInterceptionInv
<1>3. QED
  BY <1>1, <1>2, PTL DEF InterceptionSpec

\* The adapter and the browser keep the types of what they hold: among the
\* rest, no command is ever split or made up by jobs that overlap.
THEOREM InterceptionTypeCorrect == InterceptionSpec => []InterceptionTypeOK
<1>1. InterceptionInv => InterceptionTypeOK
  BY DEF InterceptionInv
<1>2. QED
  BY <1>1, InterceptionInductive, PTL

\* However many jobs overlap on the wire, once all is quiet and no route is
\* left the browser does not pause requests any more, and holds none.
THEOREM InterceptionEnds == InterceptionSpec => []InterceptionEndsWithRoutes
<1>1. InterceptionInv => InterceptionEndsWithRoutes
  <2> SUFFICES ASSUME InterceptionInv, Quiet, ~enabled
               PROVE  ~fetchOn /\ \A r \in Requests : browser[r] # "paused"
    BY DEF InterceptionEndsWithRoutes
  <2>1. Len(wire) = 0
    BY DEF Quiet
  <2>2. ~fetchOn
    BY <2>1 DEF InterceptionInv, Toggled, DisablesLast
  <2>3. QED
    BY <2>2 DEF InterceptionInv, Toggled
<1>2. QED
  BY <1>1, InterceptionInductive, PTL
=============================================================================
