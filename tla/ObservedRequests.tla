--------------------------- MODULE ObservedRequests ---------------------------
(***************************************************************************)
(* The Request and Response objects that a page makes of the raw events of *)
(* its adapter (src/src/page.ts:4822-4842, 5078-5222, 5509-5613), and what *)
(* a user of the page may rely on.                                         *)
(*                                                                         *)
(* The page finds the object of an event by the id of the request, and     *)
(* failing that by its url; a redirect keeps the id and gets an object of  *)
(* its own.  All requests have one method, so that the first object of a   *)
(* url is the one a search by url and method finds.                        *)
(***************************************************************************)
EXTENDS NetworkEvents

CONSTANT Navigations      \* the requests that navigate the main frame

ASSUME NavigationsAssumption == Navigations \subseteq Requests \ Framed

VARIABLES page,           \* the objects and the indexes
          committed,      \* the navigations that framenavigated was told of
          oddities        \* history: what befell a request, see Oddities

vars == <<netVars, page, committed, oddities>>

(* The url of an event without metadata is of no request.                  *)
UrlOf(r, h) == IF h = 0 THEN "unknown" ELSE Chain[r][h]

PageUrls == Urls \cup {"unknown"}

(* ----------------------------- the objects ----------------------------- *)

(* A Request: who it was made for (id and hop, which the code does not     *)
(* keep), its url, headers and response (0: none), what response() has     *)
(* resolved to, and its neighbours in a chain of redirects (0: none).      *)
NewRequest(e, from) ==
  [id |-> e.id, hop |-> e.hop, url |-> UrlOf(e.id, e.hop), headers |-> e.headers,
   response |-> 0, promise |-> "pending", completed |-> FALSE, failed |-> FALSE,
   from |-> from, to |-> 0]

(* A Response: what it answers, the Request it is linked to (0: one made   *)
(* up for it), and whether finished() has resolved.                        *)
NewResponse(e, of, finished) ==
  [id |-> e.id, hop |-> e.hop, redirect |-> e.hop < story[e.id].hops,
   headers |-> e.headers, of |-> of, finished |-> finished]

PageInit ==
  [requests |-> <<>>, responses |-> <<>>,
   byId |-> [r \in Requests |-> 0],          \* observedRequestsById
   byUrl |-> [u \in PageUrls |-> <<>>],      \* observedRequestsByUrl
   targets |-> [u \in PageUrls |-> <<>>]]    \* redirectTargets

(* ------------------------------- lookups ------------------------------- *)

FirstWithout(p, u) ==
  LET open == SelectSeq(p.byUrl[u], LAMBDA i : p.requests[i].response = 0)
  IN  IF open = <<>> THEN 0 ELSE Head(open)

\* Mutant of FindForResponse: by url alone.
FindByUrl(p, r, u) == FirstWithout(p, u)

FindForResponse(p, r, u) ==
  IF p.byId[r] # 0 /\ p.requests[p.byId[r]].response = 0 THEN p.byId[r]
  ELSE FirstWithout(p, u)

(* findObservedRequestState takes over what it finds by url for the id.    *)
Find(p, r, u) ==
  IF p.byId[r] # 0 THEN p.byId[r]
  ELSE IF p.byUrl[u] = <<>> THEN 0 ELSE Head(p.byUrl[u])

Found(p, r, u) == [p EXCEPT !.byId[r] = Find(p, r, u)]

(* ------------------------------- updates ------------------------------- *)

Resolve(p, i, value) ==
  IF p.requests[i].promise # "pending" THEN p
  ELSE [p EXCEPT !.requests[i].promise = value]

FinishResponse(p, k) ==
  IF k = 0 THEN p ELSE [p EXCEPT !.responses[k].finished = TRUE]

(* resolveDanglingMainFrameRequestsAfterNavigation: what is unanswered     *)
(* when the main frame navigates has no response any more.                 *)
ResolveDangling(p) ==
  LET Dangling == {i \in {p.byId[r] : r \in Requests} \ {0} :
                     /\ p.requests[i].id \notin Framed
                     /\ p.requests[i].response = 0
                     /\ ~p.requests[i].failed}
  IN  [p EXCEPT !.requests = [i \in DOMAIN @ |->
         IF i \in Dangling /\ @[i].promise = "pending"
         THEN [@[i] EXCEPT !.promise = "null"] ELSE @[i]]]

(* findRedirectSourceForRequest                                            *)
RedirectSource(p, e) ==
  LET u == UrlOf(e.id, e.hop)
      i == p.byId[e.id]
  IN  IF p.targets[u] # <<>> THEN Head(p.targets[u])
      ELSE IF /\ i # 0
              /\ p.requests[i].response # 0
              /\ p.requests[i].to = 0
              /\ p.responses[p.requests[i].response].redirect
        THEN i ELSE 0

AddRequest(p, e, navigates) ==
  LET u == UrlOf(e.id, e.hop)
      from == RedirectSource(p, e)
      q == IF navigates THEN ResolveDangling(p) ELSE p
      n == Len(q.requests) + 1
      t == [q EXCEPT !.targets[u] = Shift(@),
                     !.requests = Append(@, NewRequest(e, from)),
                     !.byUrl[u] = Append(@, n),
                     !.byId[e.id] = n]
  IN  IF from = 0 THEN t ELSE [t EXCEPT !.requests[from].to = n]

ObserveRequest(p, e) == AddRequest(p, e, e.id \in Navigations /\ e.hop # 0)

(* A request that a route has sent elsewhere moves to the url of its       *)
(* response; so does one that the response only happened to find.          *)
Move(p, i, u) ==
  IF p.requests[i].url = u THEN p
  ELSE LET q == [p EXCEPT !.byUrl[p.requests[i].url] = Remove(@, i),
                          !.requests[i].url = u]
       IN  IF Contains(q.byUrl[u], i) THEN q ELSE [q EXCEPT !.byUrl[u] = Append(@, i)]

(* A response that finds no Request has one made up, known by its url.     *)
MakeUp(p, e) ==
  [AddRequest([p EXCEPT !.byId[e.id] = 0], e, e.id \in Navigations)
     EXCEPT !.byId[e.id] = p.byId[e.id]]

WithHeaders(p, i, headers) ==
  IF headers = NoHeaders THEN p ELSE [p EXCEPT !.requests[i].headers = headers]

(* The Request i gets the k-th Response.                                   *)
Answer(p, e, i, k, redirect) ==
  LET t == WithHeaders(p, i, e.requestHeaders)
      w == IF redirect THEN t ELSE Move(t, i, UrlOf(e.id, e.hop))
  IN  Resolve([w EXCEPT !.requests[i].response = k], i, "response")

ObserveResponse(p, e) ==
  LET i == FindForResponse(p, e.id, UrlOf(e.id, e.hop))
      a == NewResponse(e, i, i # 0 /\ p.requests[i].completed)
      q == [p EXCEPT !.responses = Append(@, a)]
      v == Answer(q, e, i, Len(p.responses) + 1, a.redirect)
  IN  IF i = 0 THEN MakeUp(q, e)
      ELSE IF a.redirect
        THEN [v EXCEPT !.targets[Chain[e.id][e.hop + 1]] = Append(@, i)]
        ELSE v

ObserveHeaders(p, e) ==
  LET u == UrlOf(e.id, e.hop)
  IN  IF Find(p, e.id, u) = 0 THEN p
      ELSE [Found(p, e.id, u) EXCEPT !.requests[Find(p, e.id, u)].headers = e.headers]

(* An end that nothing was told of before makes a Request of its own.      *)
Known(p, e, navigates) ==
  LET u == UrlOf(e.id, e.hop)
  IN  IF Find(p, e.id, u) = 0 THEN AddRequest(p, e, navigates) ELSE Found(p, e.id, u)

ObserveCompletion(p, e) ==
  LET q == Known(p, e, e.id \in Navigations /\ e.hop # 0)
      i == q.byId[e.id]
  IN  FinishResponse([q EXCEPT !.requests[i].completed = TRUE], q.requests[i].response)

\* Mutant of ObserveFailure: response() is left pending.
ObserveFailureSilently(p, e) ==
  LET q == Known(p, e, FALSE)
      i == q.byId[e.id]
  IN  FinishResponse([q EXCEPT !.requests[i].failed = TRUE], q.requests[i].response)

ObserveFailure(p, e) ==
  LET q == Known(p, e, FALSE)
      i == q.byId[e.id]
  IN  FinishResponse(Resolve([q EXCEPT !.requests[i].failed = TRUE], i, "null"),
                     q.requests[i].response)

Observe(p, e) ==
  CASE e.kind = "request"         -> ObserveRequest(p, e)
    [] e.kind = "response"        -> ObserveResponse(p, e)
    [] e.kind = "requestheaders"  -> ObserveHeaders(p, e)
    [] e.kind = "requestfinished" -> ObserveCompletion(p, e)
    [] e.kind = "requestfailed"   -> ObserveFailure(p, e)

(* ------------------------------- history ------------------------------- *)

(* What may befall a request and is not made good:                         *)
(*   overtaken  its end was handled while its request event was held;      *)
(*   misdirected  an extra info for one hop came when another one was      *)
(*              current or the request was over;                           *)
(*   crossed    it was told of at a url that another request was being     *)
(*              redirected to, or was that other request;                  *)
(*   abandoned  it navigates, and before it was answered the page committed*)
(*              a navigation or another one was told of.                   *)
Oddities == {"overtaken", "misdirected", "crossed", "abandoned"}

RequestsIn(events) == {e \in ToSet(events) : e.kind = "request"}

(* The requests redirected to the url of a request event among the events  *)
(* of r, and not yet told of there.                                        *)
CrossedBy(r, events) ==
  LET others == {page.requests[i].id :
                   i \in UNION {ToSet(page.targets[UrlOf(r, e.hop)]) :
                                  e \in RequestsIn(events)}} \ {r}
  IN  IF others = {} THEN {} ELSE others \cup {r}

(* The navigations whose Request has no response yet.                      *)
Unanswered ==
  {n \in Navigations : page.byId[n] # 0 /\ page.requests[page.byId[n]].response = 0}

AbandonedBy(r, events) ==
  IF r \in Navigations /\ RequestsIn(events) # {} THEN Unanswered \ {r} ELSE {}

(* -------------------------------- steps -------------------------------- *)

Init ==
  /\ NetworkInit
  /\ page = PageInit
  /\ committed = {}
  /\ oddities = [o \in Oddities |-> {}]

Observed(events) ==
  /\ page' = FoldLeft(Observe, page, events)
  /\ UNCHANGED committed

Noted(r, events, o) ==
  [o EXCEPT !["crossed"] = @ \cup CrossedBy(r, events),
            !["abandoned"] = @ \cup AbandonedBy(r, events)]

HandleMainEvent(r) ==
  /\ Main(r)
  /\ Observed(AfterMain(r).out)
  /\ oddities' = Noted(r, AfterMain(r).out,
       [oddities EXCEPT !["overtaken"] =
          IF NextMain(r).kind = "end" /\ adapter[r].held # <<>>
          THEN @ \cup {r} ELSE @])

HandleExtraInfo(r) ==
  /\ Extra(r)
  /\ Observed(AfterExtra(r).out)
  /\ oddities' = Noted(r, AfterExtra(r).out,
       [oddities EXCEPT !["misdirected"] =
          IF /\ NextExtra(r).kind = "request"
             /\ NextExtra(r).hop # adapter[r].meta
             /\ told[r] # 0 \/ NextExtra(r).hop # 1
          THEN @ \cup {r} ELSE @])

GiveUpOnRequestInfo(r) ==
  /\ RequestTimer(r)
  /\ Observed(AfterRequestTimer(r).out)
  /\ oddities' = Noted(r, AfterRequestTimer(r).out, oddities)

GiveUpOnResponseInfo(r) ==
  /\ ResponseTimer(r)
  /\ Observed(AfterResponseTimer(r).out)
  /\ oddities' = Noted(r, AfterResponseTimer(r).out, oddities)

LetGo(r, p) == FoldLeft(Observe, p, AfterDetach(r).out)

(* The requests of the frame are let go one after the other, in some order.*)

DetachFrame ==
  /\ FrameDetached
  /\ page' = FoldSet(LetGo, page, Detached)
  /\ oddities' = [oddities EXCEPT !["crossed"] =
       @ \cup UNION {CrossedBy(r, AfterDetach(r).out) : r \in Detached}]
  /\ UNCHANGED committed

ResponseTold(r) ==
  \E i \in 1 .. told[r] : MainEvents(r)[i].kind = "response"

(* framenavigated of the main frame, which the browser tells of after the  *)
(* answer to the navigation.                                               *)
Commit(r) ==
  /\ r \in Navigations \ committed
  /\ ResponseTold(r)
  /\ committed' = committed \cup {r}
  /\ page' = ResolveDangling(page)
  /\ oddities' = [oddities EXCEPT !["abandoned"] = @ \cup Unanswered]
  /\ UNCHANGED netVars

Next ==
  \/ \E r \in Requests :
       \/ HandleMainEvent(r)
       \/ HandleExtraInfo(r)
       \/ GiveUpOnRequestInfo(r)
       \/ GiveUpOnResponseInfo(r)
       \/ Commit(r)
  \/ DetachFrame

(* The browser tells of the end of every request, but need not once its    *)
(* frame has gone (PageLoading!DetachFrame); and timers fire.  An extra    *)
(* info that is announced need not come.                                   *)
Gone(r) == r \in Framed /\ ~attached

Fairness ==
  \A r \in Requests :
    /\ WF_netVars(~Gone(r) /\ Main(r))
    /\ WF_netVars(RequestTimer(r))
    /\ WF_netVars(ResponseTimer(r))

Spec == Init /\ [][Next]_vars /\ Fairness

(* ------------------------------ properties ----------------------------- *)

Is(oddity, r) == r \in oddities[oddity]

(* However request events are held and let go by extra infos, timers,      *)
(* redirects and the end of the request, a hop gets one Request object,    *)
(* unless its end overtook it (backend.ts:3517-3582, 3811-3828,            *)
(* 8229-8270).                                                             *)
OneObject ==
  \A i, j \in DOMAIN page.requests :
    (/\ page.requests[i].id = page.requests[j].id
     /\ page.requests[i].hop = page.requests[j].hop
     /\ ~Is("overtaken", page.requests[i].id)) => i = j

AnswersBelong ==
  \A k \in DOMAIN page.responses :
    LET a == page.responses[k]
    IN  /\ a.of # 0
        /\ page.requests[a.of].id = a.id
        /\ page.requests[a.of].hop = a.hop

NavigationAnswered ==
  \A i \in DOMAIN page.requests :
    LET q == page.requests[i]
    IN  (/\ q.id \in Navigations
         /\ q.response # 0
         /\ ~Is("abandoned", q.id) /\ ~Is("overtaken", q.id))
           => q.promise = "response"

RedirectsLinked ==
  \A i \in DOMAIN page.requests :
    LET q == page.requests[i]
        j == q.from
    IN  \/ Is("crossed", q.id) \/ Is("overtaken", q.id)
        \/ IF q.hop = 1 THEN j = 0
           ELSE j # 0 /\ page.requests[j].id = q.id /\ page.requests[j].hop + 1 = q.hop

(* A Response is linked to the Request that it answers, never to another   *)
(* hop or to another request for its url; a navigation that is answered    *)
(* has its response() resolve to the answer; and redirectedFrom() is the   *)
(* hop before (page.ts:5131-5165, 5535-5546, 5587-5613).                   *)
Linked == AnswersBelong /\ NavigationAnswered /\ RedirectsLinked

InfoHeard(r, h) ==
  [kind |-> "request", hop |-> h] \in heard[r]

(* A Request has the headers of its own hop, and those of the wire once    *)
(* they are known, unless its extra infos came out of step; except that    *)
(* the answer after a redirect gives it those of the first hop.            *)
RequestHeaders ==
  \A i \in DOMAIN page.requests :
    LET q == page.requests[i]
    IN  (/\ ~Is("misdirected", q.id) /\ ~Is("overtaken", q.id)
         /\ q.hop = 1 \/ q.response = 0)
           => /\ q.headers.hop = q.hop
              /\ InfoHeard(q.id, q.hop) => q.headers.wire

ResponseHeaders ==
  \A k \in DOMAIN page.responses :
    \/ page.responses[k].headers.hop = page.responses[k].hop
    \/ Is("overtaken", page.responses[k].id)

(* Extra infos do not say their hop, yet the headers of one hop are never  *)
(* shown for another: those of an answer however late the infos come       *)
(* (backend.ts:3659-3707, 3772-3809, 8531-8548, 8823-8871).                *)
HeadersBelong == RequestHeaders /\ ResponseHeaders

(* Requests of a frame that has gone of whose end the browser has not told.*)
(* settleRequestsForDetachedFrame settles their bodies, and tells the page *)
(* of no end (backend.ts:8349-8363).                                       *)
Dropped(r) == Gone(r) /\ ~Over(r)

HopAnswered(r, h) ==
  \E i \in 1 .. told[r] :
    MainEvents(r)[i] \in {[kind |-> "response", hop |-> h], [kind |-> "sent", hop |-> h + 1]}

(* Whatever becomes of extra infos, response() of each Request and         *)
(* finished() of each Response resolve, unless the end of the request      *)
(* overtook it (backend.ts:3719-3738, 3811-3924; page.ts:5187-5222).  Of a *)
(* request that was dropped with its frame, what is answered before or     *)
(* after still has its response() resolve, though held for an extra info   *)
(* as the frame went; what is not, and finished(), stay pending.           *)
EverythingSettles ==
  <>[](/\ \A i \in DOMAIN page.requests :
            LET q == page.requests[i]
            IN  \/ q.promise # "pending"
                \/ Is("overtaken", q.id)
                \/ Dropped(q.id) /\ ~HopAnswered(q.id, q.hop)
       /\ \A k \in DOMAIN page.responses :
            LET a == page.responses[k]
            IN  a.finished \/ Is("overtaken", a.id) \/ Dropped(a.id))

==============================================================================
