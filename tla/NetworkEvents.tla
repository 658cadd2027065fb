---------------------------- MODULE NetworkEvents ----------------------------
(***************************************************************************)
(* How CdpPageAdapter turns the Network events of the browser into the     *)
(* page's own request, response, requestfinished and requestfailed events  *)
(* (src/src/protocol/cdp/backend.ts:3519-3924, 8227-8301, 8531-8652).      *)
(*                                                                         *)
(* A request goes through one or more hops, all under one id: one, and one *)
(* more for each redirect.  The browser tells of it over two channels that *)
(* keep their order but are not in step: the main events, and the extra    *)
(* infos with the headers as they went over the wire, which do not say     *)
(* their hop.  So the adapter holds a request event, and later the         *)
(* response event, until an extra info comes or 250 ms have passed.        *)
(*                                                                         *)
(* Left out: data: URLs, preflights and favicons, of which the page is not *)
(* told, requests rewritten by a route, popups and workers with sessions   *)
(* of their own, the counts for networkidle (PageLoading) and the response *)
(* bodies.                                                                 *)
(***************************************************************************)
EXTENDS Naturals, FiniteSets, Sequences, SequencesExt

CONSTANTS Requests,      \* the ids
          Urls,
          Chain,         \* Chain[r]: the urls of the hops r may go through
          Framed,        \* the requests of a child frame that may be detached
          Stories        \* Stories[r]: what may become of r

ASSUME RequestsAssumption == IsFiniteSet(Requests) /\ Framed \subseteq Requests

ASSUME ChainAssumption == Chain \in [Requests -> Seq(Urls)]

(* What becomes of a request: the hops it makes, those of which extra      *)
(* infos come, whether the last hop is answered from a cache (as           *)
(* requestServedFromCache tells, or the response itself), and how it ends. *)
(* A request that is `refused' fails unanswered, one that is `spared'      *)
(* fails after an answer and counts as finished: a route fulfilled it, or  *)
(* its status is 204.                                                      *)
Ends == {"finished", "failed", "refused", "spared"}

StoriesOf(r) ==
  [hops: 1 .. Len(Chain[r]), extra: SUBSET (1 .. Len(Chain[r])),
   cached: BOOLEAN, end: Ends]

ASSUME StoriesAssumption ==
  \A r \in Requests : Chain[r] # <<>> /\ Stories[r] \subseteq StoriesOf(r)

VARIABLES story,      \* story[r]
          told,       \* told[r]: main events of r handled so far
          heard,      \* heard[r]: the extra infos of r handled so far
          attached,   \* is the child frame still there
          adapter     \* adapter[r]: what the adapter keeps of r

netVars == <<story, told, heard, attached, adapter>>

(* ------------------------------ the browser ---------------------------- *)

Answered(r) == story[r].end # "refused"

(* The main events of r, and its extra infos, as the browser sends them.   *)
MainEvents(r) ==
  [h \in 1 .. story[r].hops |-> [kind |-> "sent", hop |-> h]]
    \o (IF story[r].cached THEN <<[kind |-> "cached", hop |-> story[r].hops]>> ELSE <<>>)
    \o (IF Answered(r) THEN <<[kind |-> "response", hop |-> story[r].hops]>> ELSE <<>>)
    \o <<[kind |-> "end", hop |-> story[r].hops]>>

ExtraInfos(r) ==
  {e \in [kind : {"request", "response"}, hop : story[r].extra \cap 1 .. story[r].hops] :
     e.kind = "request" \/ e.hop < story[r].hops \/ Answered(r)}

Before(e, f) ==
  \/ e.hop < f.hop
  \/ e.hop = f.hop /\ e.kind = "request" /\ f.kind = "response"

Over(r) == told[r] = Len(MainEvents(r))

(* ------------------------------ raw events ----------------------------- *)

(* Headers are those of a hop, as announced or as they went over the wire. *)
Announced(h) == [hop |-> h, wire |-> FALSE]
OnTheWire(h) == [hop |-> h, wire |-> TRUE]
NoHeaders == [hop |-> 0, wire |-> FALSE]

(* The hop of an event stands for the url and the method in it; hop 0 is   *)
(* the `unknown://request' of a request without metadata.                  *)
RawEvent(kind, r, h, headers, requestHeaders) ==
  [kind |-> kind, id |-> r, hop |-> h, headers |-> headers,
   requestHeaders |-> requestHeaders]

(* ----------------------- what the adapter keeps of r ------------------- *)

Fresh ==
  [meta |-> 0,               \* requestMetadata: the hop it tells of
   held |-> <<>>,            \* pendingRequestEvents, each with its callbacks
   requestInfos |-> <<>>,    \* requestExtraInfoHeaders
   forResponse |-> <<>>,     \* requestHeadersForResponse
   emitted |-> FALSE,        \* emittedRequestIds
   cached |-> FALSE,         \* servedFromCacheRequestIds
   heldResponses |-> <<>>,   \* pendingResponseEvents
   responseInfos |-> <<>>,   \* responseExtraInfoHeaders
   discards |-> 0]           \* responseExtraInfoDiscardCounts

(* A handler works on what is kept and on the events emitted so far.       *)
Start(r) == [a |-> adapter[r], out |-> <<>>]

Emit(s, e) == [s EXCEPT !.out = Append(@, e)]

Shift(queue) == IF queue = <<>> THEN <<>> ELSE Tail(queue)

EmitResponse(r, s, h, headers) ==
  LET requestHeaders ==
        IF s.a.forResponse = <<>> THEN NoHeaders ELSE Head(s.a.forResponse)
  IN  Emit([s EXCEPT !.a.forResponse = Shift(@)],
           RawEvent("response", r, h, headers, requestHeaders))

(* handleNetworkResponseReceived: a response of which an extra info is to  *)
(* come is held for it.                                                    *)
HandleResponse(r, s, h) ==
  IF h \notin story[r].extra \/ s.a.cached THEN EmitResponse(r, s, h, Announced(h))
  ELSE IF s.a.responseInfos = <<>>
    THEN [s EXCEPT !.a.heldResponses = Append(@, h)]
    ELSE EmitResponse(r, [s EXCEPT !.a.responseInfos = Tail(@)], h,
                      Head(s.a.responseInfos))

HandleResponses(r, s, hops) == FoldLeft(LAMBDA t, h : HandleResponse(r, t, h), s, hops)

\* Mutant of Release: the event is held on.
ReleaseCopy(r, s, headers) ==
  LET next == Head(s.a.held)
  IN  HandleResponses(r,
        Emit([s EXCEPT !.a.emitted = TRUE],
             RawEvent("request", r, next.hop, headers, NoHeaders)),
        next.answers)

(* The first held request event goes out, and then what waited for it.     *)
Release(r, s, headers) ==
  LET next == Head(s.a.held)
  IN  HandleResponses(r,
        Emit([s EXCEPT !.a.held = Tail(@), !.a.emitted = TRUE],
             RawEvent("request", r, next.hop, headers, NoHeaders)),
        next.answers)

FlushRequest(r, s) ==
  IF s.a.held = <<>> THEN s ELSE Release(r, s, Announced(Head(s.a.held).hop))

(* A held response goes out with the headers that have come by now.        *)
GiveUp(r, s, h) ==
  EmitResponse(r, [s EXCEPT !.a.responseInfos = Shift(@)], h,
    IF s.a.responseInfos = <<>> THEN Announced(h) ELSE Head(s.a.responseInfos))

FlushResponses(r, s) ==
  IF s.a.heldResponses = <<>> THEN [s EXCEPT !.a.responseInfos = <<>>]
  ELSE FoldLeft(LAMBDA t, h : GiveUp(r, t, h), [s EXCEPT !.a.heldResponses = <<>>],
                s.a.heldResponses)

\* Mutant of DiscardNextInfo: only one that has come is discarded.
DiscardQueuedInfo(s) == [s EXCEPT !.a.responseInfos = Shift(@)]

(* A redirect is told of with its own headers; the extra info of the       *)
(* response, come or to come, is not for the next hop.                     *)
DiscardNextInfo(s) ==
  IF s.a.responseInfos # <<>> THEN [s EXCEPT !.a.responseInfos = Tail(@)]
  ELSE [s EXCEPT !.a.discards = @ + 1]

(* The response to the hop before h, and its end, from the redirect.       *)
EmitRedirect(r, s, h) ==
  Emit(Emit(s, RawEvent("response", r, h - 1, Announced(h - 1), NoHeaders)),
       RawEvent("requestfinished", r, h - 1, NoHeaders, NoHeaders))

(* onRequestSettled: the response held, and the infos for it, are kept.    *)
Settled(r, s) ==
  LET t == FlushRequest(r, s)
  IN  [t EXCEPT !.a = [Fresh EXCEPT !.heldResponses = t.a.heldResponses,
                                    !.responseInfos = t.a.responseInfos]]

(* ---------------------------- main events ------------------------------ *)

QueueRequest(r, s, h) ==
  IF s.a.requestInfos = <<>>
  THEN [s EXCEPT !.a.held = Append(@, [hop |-> h, answers |-> <<>>])]
  ELSE Emit([s EXCEPT !.a.requestInfos = Tail(@), !.a.emitted = TRUE],
            RawEvent("request", r, h, Head(s.a.requestInfos), NoHeaders))

RequestWillBeSent(r, s, h) ==
  LET t == IF h = 1 THEN s ELSE DiscardNextInfo(EmitRedirect(r, FlushRequest(r, s), h))
  IN  QueueRequest(r, [t EXCEPT !.a.meta = h], h)

ServedFromCache(s) == [s EXCEPT !.a.cached = TRUE]

(* A response waits for the request event that is held.                    *)
ResponseReceived(r, s, h) ==
  IF s.a.held # <<>> THEN [s EXCEPT !.a.held[1].answers = Append(@, h)]
  ELSE HandleResponse(r, s, h)

(* loadingFinished, and loadingFailed where it counts as finished: the end *)
(* is told before the event of the request is, if that is still held.      *)
LoadingFinished(r, s) ==
  LET t == FlushResponses(r, s)
  IN  Settled(r, Emit(t, RawEvent("requestfinished", r, t.a.meta, NoHeaders, NoHeaders)))

LoadingFailed(r, s) ==
  LET t == FlushResponses(r, s)
  IN  Emit(Settled(r, t), RawEvent("requestfailed", r, t.a.meta, NoHeaders, NoHeaders))

LoadingEnded(r, s) ==
  IF story[r].end \in {"finished", "spared"} THEN LoadingFinished(r, s)
  ELSE LoadingFailed(r, s)

HandleMain(r, s, e) ==
  CASE e.kind = "sent"     -> RequestWillBeSent(r, s, e.hop)
    [] e.kind = "cached"   -> ServedFromCache(s)
    [] e.kind = "response" -> ResponseReceived(r, s, e.hop)
    [] e.kind = "end"      -> LoadingEnded(r, s)

(* ----------------------------- extra infos ----------------------------- *)

(* requestWillBeSentExtraInfo: for the request event that is held, or else *)
(* for the last one that went out, or else for the next.                   *)
RequestExtraInfo(r, s, h) ==
  LET t == [s EXCEPT !.a.forResponse = Append(@, OnTheWire(h))]
  IN  IF s.a.held # <<>> THEN Release(r, t, OnTheWire(h))
      ELSE IF s.a.emitted /\ s.a.meta # 0
        THEN Emit(t, RawEvent("requestheaders", r, s.a.meta, OnTheWire(h), NoHeaders))
      ELSE [t EXCEPT !.a.requestInfos = Append(@, OnTheWire(h))]

ResponseExtraInfo(r, s, h) ==
  IF s.a.discards > 0 THEN [s EXCEPT !.a.discards = @ - 1]
  ELSE IF s.a.heldResponses # <<>>
    THEN EmitResponse(r, [s EXCEPT !.a.heldResponses = Tail(@)],
                      Head(s.a.heldResponses), OnTheWire(h))
  ELSE [s EXCEPT !.a.responseInfos = Append(@, OnTheWire(h))]

HandleExtra(r, s, e) ==
  IF e.kind = "request" THEN RequestExtraInfo(r, s, e.hop)
  ELSE ResponseExtraInfo(r, s, e.hop)

(* -------------------------------- steps -------------------------------- *)

NetworkInit ==
  /\ story \in {f \in [Requests -> UNION {Stories[r] : r \in Requests}] :
                  \A r \in Requests : f[r] \in Stories[r]}
  /\ told = [r \in Requests |-> 0]
  /\ heard = [r \in Requests |-> {}]
  /\ attached = TRUE
  /\ adapter = [r \in Requests |-> Fresh]

NextMain(r) == MainEvents(r)[told[r] + 1]
NextExtra(r) ==
  CHOOSE e \in ExtraInfos(r) \ heard[r] :
    \A f \in ExtraInfos(r) \ heard[r] : f = e \/ Before(e, f)

(* What a step makes of r, and the events it emits: nothing is queued, the *)
(* page gets them in the same step.                                        *)
AfterMain(r) == HandleMain(r, Start(r), NextMain(r))
AfterExtra(r) == HandleExtra(r, Start(r), NextExtra(r))
AfterRequestTimer(r) == FlushRequest(r, Start(r))
AfterResponseTimer(r) == FlushResponses(r, Start(r))

Main(r) ==
  /\ ~Over(r)
  /\ (told[r] = 0 /\ r \in Framed) => attached
  /\ told' = [told EXCEPT ![r] = @ + 1]
  /\ adapter' = [adapter EXCEPT ![r] = AfterMain(r).a]
  /\ UNCHANGED <<story, heard, attached>>

(* Nothing ties an extra info to the main events: it may come before the   *)
(* request is told of, or after its end.                                   *)
Extra(r) ==
  /\ heard[r] # ExtraInfos(r)
  /\ heard' = [heard EXCEPT ![r] = @ \cup {NextExtra(r)}]
  /\ adapter' = [adapter EXCEPT ![r] = AfterExtra(r).a]
  /\ UNCHANGED <<story, told, attached>>

(* The two timers of 250 ms.                                               *)
RequestTimer(r) ==
  /\ adapter[r].held # <<>>
  /\ adapter' = [adapter EXCEPT ![r] = AfterRequestTimer(r).a]
  /\ UNCHANGED <<story, told, heard, attached>>

ResponseTimer(r) ==
  /\ adapter[r].heldResponses # <<>>
  /\ adapter' = [adapter EXCEPT ![r] = AfterResponseTimer(r).a]
  /\ UNCHANGED <<story, told, heard, attached>>

(* settleRequestsForDetachedFrame: nothing is told of an end here.         *)
Detached == {r \in Framed : adapter[r].meta # 0}

AfterDetach(r) == LET s == FlushRequest(r, Start(r)) IN [s EXCEPT !.a.meta = 0]

FrameDetached ==
  /\ attached
  /\ attached' = FALSE
  /\ adapter' = [r \in Requests |->
                   IF r \in Detached THEN AfterDetach(r).a ELSE adapter[r]]
  /\ UNCHANGED <<story, told, heard>>

==============================================================================
