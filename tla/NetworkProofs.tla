-------------------------- MODULE NetworkProofs --------------------------
(***************************************************************************)
(* Proofs about ObservedRequests, for any requests, chains of redirects,   *)
(* navigations and frames: a hop gets one Request object, Responses and    *)
(* redirects are linked to their own, and headers are those of their hop.  *)
(*                                                                         *)
(* The proof goes through a view of each request, which says what the page *)
(* has been told of it.  The adapter only emits events that the view       *)
(* allows (AdapterInv), and an event that the view allows keeps what is    *)
(* known of the objects (PageInv).                                         *)
(***************************************************************************)
EXTENDS ObservedRequests, FiniteSetTheorems, WellFoundedInduction, TLAPS

-----------------------------------------------------------------------------
(* The page: what is known of its objects.                                 *)

HeaderSet == [hop : Nat, wire : BOOLEAN]

RequestSet ==
  [id : Requests, hop : Nat, url : PageUrls, headers : HeaderSet, response : Nat,
   promise : {"pending", "response", "null"}, completed : BOOLEAN, failed : BOOLEAN,
   from : Nat, to : Nat]

ResponseSet ==
  [id : Requests, hop : Nat, redirect : BOOLEAN, headers : HeaderSet, of : Nat,
   finished : BOOLEAN]

PageSet ==
  [requests : Seq(RequestSet), responses : Seq(ResponseSet),
   byId : [Requests -> Nat], byUrl : [PageUrls -> Seq(Nat)],
   targets : [PageUrls -> Seq(Nat)]]

EventSet ==
  [kind : {"request", "response", "requestheaders", "requestfinished", "requestfailed"},
   id : Requests, hop : Nat, headers : HeaderSet, requestHeaders : HeaderSet]

\* What a view says of a request: the hop of the last request event, whether
\* its answer has yet to be told of, whether the request is over, the hops
\* whose headers on the wire were told of, and the hops it makes.
ViewSet == [hop : Nat, open : BOOLEAN, over : BOOLEAN, infos : SUBSET Nat, hops : Nat]

Shape(p) ==
  /\ p \in PageSet
  /\ \A r \in Requests : p.byId[r] \in 0 .. Len(p.requests)
  /\ \A u \in PageUrls :
       /\ \A k \in DOMAIN p.byUrl[u] : p.byUrl[u][k] \in DOMAIN p.requests
       /\ \A k \in DOMAIN p.targets[u] : p.targets[u][k] \in DOMAIN p.requests
  /\ \A i \in DOMAIN p.requests :
       LET q == p.requests[i]
       IN  /\ q.response \in 0 .. Len(p.responses)
           /\ q.hop \in 0 .. Len(Chain[q.id])
           /\ q.url = UrlOf(q.id, q.hop)

\* A request is known by its id under the object of the hop it is at.
Current(p, v, o) ==
  \A r \in Requests :
    /\ v[r].hop = 0 => r \in o["overtaken"] \/ p.byId[r] = 0
    /\ v[r].hop # 0 =>
         /\ p.byId[r] # 0
         /\ p.requests[p.byId[r]].id = r
         /\ p.requests[p.byId[r]].hop = v[r].hop
         /\ p.requests[p.byId[r]].response = 0 <=> v[r].open

\* There are objects of the hops told of, one of each, and only the last can
\* be unanswered.
Objects(p, v, o) ==
  \A i \in DOMAIN p.requests :
    LET q == p.requests[i]
    IN  q.id \notin o["overtaken"] =>
          /\ 1 <= q.hop /\ q.hop <= v[q.id].hop
          /\ q.response = 0 => i = p.byId[q.id]
          /\ \A j \in DOMAIN p.requests :
               p.requests[j].id = q.id /\ p.requests[j].hop = q.hop => j = i

Answers(p) ==
  \A k \in DOMAIN p.responses :
    LET a == p.responses[k]
    IN  /\ a.of \in DOMAIN p.requests
        /\ p.requests[a.of].id = a.id
        /\ p.requests[a.of].hop = a.hop

\* A request waits to be told of where it was redirected to, once.
Redirected(p, v, o) ==
  \A r \in Requests : r \notin o["crossed"] /\ r \notin o["overtaken"] =>
    /\ \A u \in PageUrls : \A k \in DOMAIN p.targets[u] :
         p.requests[p.targets[u][k]].id = r =>
           /\ p.targets[u][k] = p.byId[r]
           /\ ~v[r].open
           /\ v[r].hop < v[r].hops
           /\ u = Chain[r][v[r].hop + 1]
           /\ \A l \in DOMAIN p.targets[u] : p.targets[u][l] = p.targets[u][k] => l = k
    /\ v[r].hop # 0 /\ ~v[r].open /\ v[r].hop < v[r].hops =>
         \E k \in DOMAIN p.targets[Chain[r][v[r].hop + 1]] :
           p.targets[Chain[r][v[r].hop + 1]][k] = p.byId[r]

Predecessors(p, o) ==
  \A i \in DOMAIN p.requests :
    LET q == p.requests[i]
        j == q.from
    IN  q.id \notin o["crossed"] /\ q.id \notin o["overtaken"] =>
          IF q.hop = 1 THEN j = 0
          ELSE /\ j \in DOMAIN p.requests
               /\ p.requests[j].id = q.id
               /\ p.requests[j].hop + 1 = q.hop

Promises(p, v, o) ==
  \A i \in DOMAIN p.requests :
    LET q == p.requests[i]
    IN  q.id \in Navigations /\ q.id \notin o["abandoned"] /\ q.id \notin o["overtaken"] =>
          /\ q.response # 0 => q.promise = "response"
          /\ q.response = 0 /\ ~v[q.id].over => q.promise = "pending"

Headers(p, v, o) ==
  /\ \A i \in DOMAIN p.requests :
       LET q == p.requests[i]
       IN  (/\ q.id \notin o["misdirected"] /\ q.id \notin o["overtaken"]
            /\ q.hop = 1 \/ q.response = 0)
             => /\ q.headers.hop = q.hop
                /\ q.hop \in v[q.id].infos => q.headers.wire
  /\ \A k \in DOMAIN p.responses :
       \/ p.responses[k].headers.hop = p.responses[k].hop
       \/ p.responses[k].id \in o["overtaken"]

PageInv(p, v, o) ==
  /\ Shape(p)
  /\ Current(p, v, o)
  /\ Objects(p, v, o)
  /\ Answers(p)
  /\ Redirected(p, v, o)
  /\ Predecessors(p, o)
  /\ Promises(p, v, o)
  /\ Headers(p, v, o)

-----------------------------------------------------------------------------
(* The adapter: what it has of a request, and what it told the page.       *)

Bit(b) == IF b THEN 1 ELSE 0

Hops(r) == story[r].hops
Sent(r) == IF told[r] <= Hops(r) THEN told[r] ELSE Hops(r)
Responded(r) == Answered(r) /\ told[r] > Hops(r) + Bit(story[r].cached)

AdapterSet ==
  [meta : Nat, held : Seq([hop : Nat, answers : Seq(Nat)]), requestInfos : Seq(HeaderSet),
   forResponse : Seq(HeaderSet), emitted : BOOLEAN, cached : BOOLEAN,
   heldResponses : Seq(Nat), responseInfos : Seq(HeaderSet), discards : Nat]

HopTold(r) == IF adapter[r].held = <<>> THEN Sent(r) ELSE Sent(r) - 1

View ==
  [r \in Requests |->
    [hop |-> HopTold(r),
     open |-> /\ adapter[r].held = <<>>
              /\ ~Responded(r) \/ adapter[r].heldResponses # <<>>,
     over |-> Over(r),
     infos |-> {h \in 1 .. Hops(r) : InfoHeard(r, h)},
     hops |-> Hops(r)]]

\* At most one request event is held, with the answer to it, or else the
\* answer is.
Held(r) ==
  LET a == adapter[r]
  IN  /\ a.held # <<>> =>
           /\ told[r] # 0 /\ ~Over(r)
           /\ a.held = <<[hop |-> Sent(r),
                          answers |-> IF Responded(r) THEN <<Hops(r)>> ELSE <<>>]>>
           /\ a.heldResponses = <<>>
           /\ a.meta = Sent(r)
      /\ a.heldResponses # <<>> =>
           /\ a.heldResponses = <<Hops(r)>>
           /\ Responded(r)
           /\ Over(r) => r \in oddities["overtaken"]
      /\ a.meta \in {0, Sent(r)}
      /\ told[r] = 0 => a.meta = 0
      /\ Over(r) => a.meta = 0 /\ ~a.emitted
      /\ ~Over(r) => (a.emitted <=> HopTold(r) # 0)

\* The headers on the wire that are kept for a request event to come.
RequestInfosKept(r) ==
  LET a == adapter[r]
  IN  /\ \A k \in DOMAIN a.forResponse :
           a.forResponse[k].wire /\ a.forResponse[k].hop \in 1 .. Hops(r)
      /\ r \notin oddities["misdirected"] =>
           /\ a.held # <<>> => ~InfoHeard(r, Sent(r))
           /\ \A h \in 1 .. Hops(r) :
                InfoHeard(r, h) => h <= Sent(r) \/ (told[r] = 0 /\ h = 1)
           /\ ~Over(r) =>
                a.requestInfos = IF told[r] = 0 /\ InfoHeard(r, 1)
                                 THEN <<OnTheWire(1)>> ELSE <<>>

\* The infos of responses that were heard, and the redirects, which each
\* discard one.
ResponsesHeard(r) == {h \in 1 .. Hops(r) : [kind |-> "response", hop |-> h] \in heard[r]}
Redirects(r) == IF Sent(r) = 0 THEN 0 ELSE Sent(r) - 1

ResponseInfosKept(r) ==
  LET a == adapter[r]
  IN  ~Over(r) =>
        /\ Cardinality(ResponsesHeard(r)) + a.discards >=
             Redirects(r) + Len(a.responseInfos)
        /\ a.discards # 0 => a.responseInfos = <<>>
        /\ \A k \in DOMAIN a.responseInfos : a.responseInfos[k].hop >= Redirects(r) + k
        /\ \A k \in DOMAIN a.responseInfos : a.responseInfos[k].hop <= Hops(r)

AdapterInv ==
  /\ story \in [Requests -> [hops : Nat \ {0}, extra : SUBSET Nat, cached : BOOLEAN, end : Ends]]
  /\ \A r \in Requests : Hops(r) <= Len(Chain[r])
  /\ told \in [Requests -> Nat]
  /\ \A r \in Requests : told[r] <= Len(MainEvents(r))
  /\ heard \in [Requests -> SUBSET [kind : {"request", "response"}, hop : Nat]]
  /\ \A r \in Requests : heard[r] \subseteq ExtraInfos(r)
  /\ \A r \in Requests : \A e \in heard[r], f \in ExtraInfos(r) \ heard[r] : Before(e, f)
  /\ attached \in BOOLEAN
  /\ adapter \in [Requests -> AdapterSet]
  /\ oddities = [o \in Oddities |-> oddities[o]]
  /\ \A r \in Requests : r \in oddities["overtaken"] => Over(r)
  /\ \A r \in Requests : Held(r) /\ RequestInfosKept(r) /\ ResponseInfosKept(r)

NetworkInv == AdapterInv /\ PageInv(page, View, oddities)

-----------------------------------------------------------------------------
(* Folds.  A fold is defined by a recursion over the subsets of a domain;  *)
(* the page observes one event after the other.                            *)

\* Induction over the naturals, for a set: from the least number outside of it.
LEMMA NatInductionOnSets ==
  ASSUME NEW S, 0 \in S, \A n \in Nat : n \in S => n + 1 \in S
  PROVE  \A n \in Nat : n \in S
<1> DEFINE T == Nat \ S
<1>1. ASSUME T # {} PROVE FALSE
  <2>1. PICK x \in T : \A y \in T : ~ (<<y, x>> \in OpToRel(<, Nat))
    BY <1>1, NatLessThanWellFounded, WFMin
  <2>2. \A y \in T : ~ (y < x)
    BY <2>1 DEF OpToRel
  <2>3. x # 0 /\ x - 1 \in Nat /\ x - 1 < x /\ (x - 1) + 1 = x
    OBVIOUS
  <2>4. x - 1 \in S
    BY <2>2, <2>3
  <2> QED
    BY <2>3, <2>4
<1> QED
  BY <1>1

\* A set of numbers up to n that is not empty has a greatest one.
LEMMA MaxOfRange ==
  \A n \in Nat : \A x \in SUBSET (1 .. n) :
    x # {} => Max(x) \in x /\ \A y \in x : y <= Max(x)
<1> DEFINE S == {n \in Nat : \A x \in SUBSET (1 .. n) :
                   x # {} => \E m \in x : \A y \in x : m >= y}
<1>1. 0 \in S
  <2>1. 1 .. 0 = {}
    OBVIOUS
  <2>2. \A x \in SUBSET (1 .. 0) : x = {}
    BY <2>1
  <2> QED
    BY <2>2
<1>2. ASSUME NEW n \in Nat, n \in S PROVE n + 1 \in S
  <2> SUFFICES ASSUME NEW x \in SUBSET (1 .. n + 1), x # {}
               PROVE  \E m \in x : \A y \in x : m >= y
    OBVIOUS
  <2>1. CASE n + 1 \in x
    BY <2>1
  <2>2. CASE n + 1 \notin x
    <3>1. x \in SUBSET (1 .. n)
      BY <2>2
    <3> QED
      BY <3>1, <1>2
  <2> QED
    BY <2>1, <2>2
<1>3. \A n \in Nat : n \in S
  <2> HIDE DEF S
  <2> QED
    BY <1>1, <1>2, NatInductionOnSets
<1> SUFFICES ASSUME NEW n \in Nat, NEW x \in SUBSET (1 .. n), x # {}
             PROVE  Max(x) \in x /\ \A y \in x : y <= Max(x)
  OBVIOUS
<1>4. \E m \in x : \A y \in x : m >= y
  BY <1>3
<1>5. Max(x) \in x /\ \A y \in x : Max(x) >= y
  BY <1>4 DEF Max
<1>6. x \subseteq Int
  OBVIOUS
<1> QED
  BY <1>5, <1>6

\* With n + 1 in it, that is the greatest.
LEMMA MaxWithLast ==
  ASSUME NEW n \in Nat, NEW x \in SUBSET (1 .. n + 1), n + 1 \in x
  PROVE  Max(x) = n + 1
<1>1. Max(x) \in x /\ \A y \in x : y <= Max(x)
  BY MaxOfRange, n + 1 \in Nat
<1>2. Max(x) \in 1 .. n + 1 /\ n + 1 <= Max(x)
  BY <1>1
<1> DEFINE m == Max(x)
<1>3. m \in 1 .. n + 1 /\ n + 1 <= m
  BY <1>2
<1> HIDE DEF m
<1>4. m = n + 1
  BY <1>3
<1> QED
  BY <1>4 DEF m

\* What a left fold of Observe over s is computed by.
Folds(f, p, s) ==
  f = [x \in SUBSET (1 .. Len(s)) |->
        IF x = {} THEN p ELSE Observe(f[x \ {Max(x)}], s[Max(x)])]

\* Such a function exists for every sequence.
LEMMA FoldsExists ==
  ASSUME NEW p
  PROVE  \A n \in Nat : \A s \in Seq(EventSet) : Len(s) = n => \E f : Folds(f, p, s)
<1> DEFINE S == {n \in Nat : \A s \in Seq(EventSet) : Len(s) = n => \E f : Folds(f, p, s)}
<1>1. 0 \in S
  <2> SUFFICES ASSUME NEW s \in Seq(EventSet), Len(s) = 0 PROVE \E f : Folds(f, p, s)
    OBVIOUS
  <2> DEFINE f == [x \in SUBSET (1 .. Len(s)) |-> p]
  <2>1. \A x \in SUBSET (1 .. Len(s)) : x = {}
    OBVIOUS
  <2>2. Folds(f, p, s)
    BY <2>1 DEF Folds
  <2> QED
    BY <2>2
<1>2. ASSUME NEW n \in Nat, n \in S PROVE n + 1 \in S
  <2> SUFFICES ASSUME NEW s \in Seq(EventSet), Len(s) = n + 1 PROVE \E f : Folds(f, p, s)
    OBVIOUS
  <2> DEFINE t == SubSeq(s, 1, n)
  <2>1. t \in Seq(EventSet) /\ Len(t) = n /\ \A i \in 1 .. n : t[i] = s[i]
    OBVIOUS
  <2> HIDE DEF t
  <2>2. PICK g : Folds(g, p, t)
    BY <1>2, <2>1
  <2> DEFINE f == [x \in SUBSET (1 .. n + 1) |->
                    IF n + 1 \in x THEN Observe(g[x \ {n + 1}], s[n + 1]) ELSE g[x]]
             h == [x \in SUBSET (1 .. n + 1) |->
                    IF x = {} THEN p ELSE Observe(f[x \ {Max(x)}], s[Max(x)])]
  <2>3. g[{}] = p /\ \A x \in SUBSET (1 .. n) : x # {} => g[x] = Observe(g[x \ {Max(x)}], t[Max(x)])
    BY <2>1, <2>2 DEF Folds
  <2>4. ASSUME NEW x \in SUBSET (1 .. n + 1) PROVE f[x] = h[x]
    <3>1. CASE n + 1 \in x
      <4>1. Max(x) = n + 1 /\ x \ {n + 1} \in SUBSET (1 .. n) /\ x # {}
        BY <3>1, MaxWithLast
      <4>2. f[x \ {n + 1}] = g[x \ {n + 1}]
        BY <4>1
      <4>3. h[x] = Observe(f[x \ {n + 1}], s[n + 1])
        BY <4>1
      <4> QED
        BY <3>1, <4>2, <4>3
    <3>2. CASE n + 1 \notin x /\ x # {}
      <4>1. x \in SUBSET (1 .. n)
        BY <3>2
      <4>2. Max(x) \in x
        BY <3>2, <4>1, MaxOfRange
      <4>3. Max(x) \in 1 .. n /\ x \ {Max(x)} \in SUBSET (1 .. n) /\ n + 1 \notin x \ {Max(x)}
        <5>1. Max(x) \in 1 .. n
          BY <4>1, <4>2
        <5>2. x \ {Max(x)} \in SUBSET (1 .. n)
          BY <4>1, Zenon
        <5>3. n + 1 \notin x \ {Max(x)}
          BY <3>2, Zenon
        <5> QED
          BY <5>1, <5>2, <5>3
      <4>4. f[x \ {Max(x)}] = g[x \ {Max(x)}]
        BY <4>3
      <4>5. f[x] = g[x]
        BY <3>2
      <4>6. h[x] = Observe(f[x \ {Max(x)}], s[Max(x)])
        BY <3>2
      <4> QED
        BY <2>1, <2>3, <4>1, <4>3, <4>4, <4>5, <4>6, <3>2
    <3>3. CASE x = {}
      BY <2>3, <3>3
    <3> QED
      BY <3>1, <3>2, <3>3
  <2>5. f = h
    <3>1. DOMAIN f = SUBSET (1 .. n + 1) /\ DOMAIN h = SUBSET (1 .. n + 1)
      OBVIOUS
    <3> QED
      BY <2>4
  <2>6. Folds(f, p, s)
    BY <2>5 DEF Folds
  <2> QED
    BY <2>6
<1> HIDE DEF S
<1>3. \A n \in Nat : n \in S
  BY <1>1, <1>2, NatInductionOnSets
<1> QED
  BY <1>3 DEF S

\* FoldLeft of the community modules is what it computes.
LEMMA FoldIsComputed ==
  ASSUME NEW p, NEW s \in Seq(EventSet)
  PROVE  \E f : Folds(f, p, s) /\ FoldLeft(Observe, p, s) = f[1 .. Len(s)]
<1>1. \E f : Folds(f, p, s)
  <2>1. Len(s) \in Nat
    OBVIOUS
  <2> QED
    BY <2>1, FoldsExists, Zenon
<1> DEFINE it == CHOOSE f : Folds(f, p, s)
<1>2. Folds(it, p, s)
  BY <1>1
<1>3. DOMAIN s = 1 .. Len(s)
  OBVIOUS
<1>4. FoldLeft(Observe, p, s) = it[1 .. Len(s)]
  BY <1>3 DEF FoldLeft, MapThenFoldSet, Folds
<1> QED
  BY <1>2, <1>4

\* A page that has observed nothing, and one that has observed one event more.
LEMMA ObservedNothing == \A p : FoldLeft(Observe, p, <<>>) = p
<1> SUFFICES ASSUME NEW p PROVE FoldLeft(Observe, p, <<>>) = p
  OBVIOUS
<1>1. <<>> \in Seq(EventSet) /\ 1 .. Len(<<>>) = {}
  OBVIOUS
<1>2. PICK f : Folds(f, p, <<>>) /\ FoldLeft(Observe, p, <<>>) = f[{}]
  BY <1>1, FoldIsComputed
<1> QED
  BY <1>1, <1>2 DEF Folds

\* To observe one event more is to observe it last.
LEMMA ObservedOneMore ==
  ASSUME NEW p, NEW s \in Seq(EventSet), NEW e \in EventSet
  PROVE  FoldLeft(Observe, p, Append(s, e)) = Observe(FoldLeft(Observe, p, s), e)
<1> DEFINE t == Append(s, e)
           n == Len(s)
<1>1. t \in Seq(EventSet) /\ n \in Nat /\ Len(t) = n + 1 /\ t[n + 1] = e /\ \A i \in 1 .. n : t[i] = s[i]
  OBVIOUS
<1> HIDE DEF t
<1>2. PICK f : Folds(f, p, s) /\ FoldLeft(Observe, p, s) = f[1 .. n]
  BY FoldIsComputed
<1>3. PICK g : Folds(g, p, t) /\ FoldLeft(Observe, p, t) = g[1 .. n + 1]
  BY <1>1, FoldIsComputed
<1> HIDE DEF n
<1> DEFINE S == {k \in Nat : k <= n => f[1 .. k] = g[1 .. k]}
<1>4. f[{}] = p /\ \A x \in SUBSET (1 .. n) : x # {} => f[x] = Observe(f[x \ {Max(x)}], s[Max(x)])
  BY <1>2 DEF Folds, n
<1>5. g[{}] = p /\ \A x \in SUBSET (1 .. n + 1) : x # {} => g[x] = Observe(g[x \ {Max(x)}], t[Max(x)])
  BY <1>1, <1>3 DEF Folds
<1>6. ASSUME NEW k \in Nat
      PROVE  Max(1 .. k + 1) = k + 1 /\ (1 .. k + 1) \ {k + 1} = 1 .. k /\ 1 .. k + 1 # {}
  <2>1. 1 .. k + 1 \in SUBSET (1 .. k + 1) /\ k + 1 \in 1 .. k + 1
    OBVIOUS
  <2>2. Max(1 .. k + 1) = k + 1
    BY <2>1, MaxWithLast
  <2> QED
    BY <2>2
<1>7. 0 \in S
  <2>1. 1 .. 0 = {}
    OBVIOUS
  <2> QED
    BY <2>1, <1>4, <1>5
<1>8. ASSUME NEW k \in Nat, k \in S PROVE k + 1 \in S
  <2> SUFFICES ASSUME k + 1 <= n PROVE f[1 .. k + 1] = g[1 .. k + 1]
    OBVIOUS
  <2>1. 1 .. k + 1 \in SUBSET (1 .. n) /\ 1 .. k + 1 \in SUBSET (1 .. n + 1) /\ k + 1 \in 1 .. n /\ k <= n
    BY <1>1
  <2>2. f[1 .. k + 1] = Observe(f[1 .. k], s[k + 1])
    BY <1>4, <1>6, <2>1
  <2>3. g[1 .. k + 1] = Observe(g[1 .. k], t[k + 1])
    BY <1>5, <1>6, <2>1
  <2> QED
    BY <1>1, <1>8, <2>1, <2>2, <2>3
<1> HIDE DEF S
<1>9. n \in S
  BY <1>1, <1>7, <1>8, NatInductionOnSets
<1>10. f[1 .. n] = g[1 .. n]
  BY <1>1, <1>9 DEF S
<1>11. g[1 .. n + 1] = Observe(g[1 .. n], t[n + 1])
  <2>1. 1 .. n + 1 \in SUBSET (1 .. n + 1)
    OBVIOUS
  <2>2. g[1 .. n + 1] = Observe(g[(1 .. n + 1) \ {Max(1 .. n + 1)}], t[Max(1 .. n + 1)])
    BY <1>1, <1>5, <1>6, <2>1, Zenon
  <2> QED
    BY <1>1, <1>6, <2>2, Zenon
<1> QED
  BY <1>1, <1>2, <1>3, <1>10, <1>11 DEF t

-----------------------------------------------------------------------------
(* The requests of a frame that is detached are let go one after the other.*)

OneOf(x) == CHOOSE r \in x : TRUE

LetGoFolds(f, p, D) ==
  f = [x \in SUBSET D |-> IF x = {} THEN p ELSE LetGo(OneOf(x), f[x \ {OneOf(x)}])]

\* A function that computes the fold over a finite set exists.
LEMMA LetGoFoldExists ==
  ASSUME NEW D, IsFiniteSet(D), NEW p
  PROVE  \E f : LetGoFolds(f, p, D)
<1> DEFINE Eq(f, n) ==
      f = [x \in SUBSET D |-> IF Cardinality(x) > n THEN p
                              ELSE IF x = {} THEN p
                              ELSE LetGo(OneOf(x), f[x \ {OneOf(x)}])]
<1>1. \A x \in SUBSET D : IsFiniteSet(x) /\ Cardinality(x) \in Nat /\ Cardinality(x) <= Cardinality(D)
  BY FS_Subset, FS_CardinalityType
<1>2. \A x \in SUBSET D : x # {} =>
        /\ OneOf(x) \in x
        /\ x \ {OneOf(x)} \in SUBSET D
        /\ Cardinality(x \ {OneOf(x)}) = Cardinality(x) - 1
  <2> SUFFICES ASSUME NEW x \in SUBSET D, x # {}
               PROVE  /\ OneOf(x) \in x
                      /\ x \ {OneOf(x)} \in SUBSET D
                      /\ Cardinality(x \ {OneOf(x)}) = Cardinality(x) - 1
    OBVIOUS
  <2>1. OneOf(x) \in x
    BY DEF OneOf
  <2> QED
    BY <1>1, <2>1, FS_RemoveElement
<1>3. \A x \in SUBSET D : Cardinality(x) = 0 => x = {}
  BY <1>1, FS_EmptySet
<1> DEFINE S == {n \in Nat : \E f : Eq(f, n)}
<1>4. 0 \in S
  <2> DEFINE f == [x \in SUBSET D |-> p]
  <2>1. \A x \in SUBSET D : Cardinality(x) > 0 \/ x = {}
    BY <1>1, <1>3
  <2>2. Eq(f, 0)
    BY <2>1
  <2> QED
    BY <2>2
<1>5. ASSUME NEW n \in Nat, n \in S PROVE n + 1 \in S
  <2>1. PICK g : Eq(g, n)
    BY <1>5
  <2> DEFINE f == [x \in SUBSET D |-> IF Cardinality(x) > n + 1 THEN p
                                      ELSE IF x = {} THEN p
                                      ELSE LetGo(OneOf(x), g[x \ {OneOf(x)}])]
  <2>2. ASSUME NEW x \in SUBSET D, x # {}, ~ (Cardinality(x) > n + 1)
        PROVE  f[x \ {OneOf(x)}] = g[x \ {OneOf(x)}]
    <3> DEFINE y == x \ {OneOf(x)}
    <3>1. y \in SUBSET D /\ ~ (Cardinality(y) > n) /\ ~ (Cardinality(y) > n + 1)
      BY <1>1, <1>2, <2>2
    <3> HIDE DEF y
    <3>2. g[y] = IF y = {} THEN p ELSE LetGo(OneOf(y), g[y \ {OneOf(y)}])
      BY <2>1, <3>1
    <3>3. f[y] = IF y = {} THEN p ELSE LetGo(OneOf(y), g[y \ {OneOf(y)}])
      BY <3>1
    <3>4. f[y] = g[y]
      BY <3>2, <3>3
    <3> QED
      BY <3>4 DEF y
  <2> DEFINE h == [x \in SUBSET D |-> IF Cardinality(x) > n + 1 THEN p
                                      ELSE IF x = {} THEN p
                                      ELSE LetGo(OneOf(x), f[x \ {OneOf(x)}])]
  <2>3. \A x \in SUBSET D : f[x] = h[x]
    BY <2>2
  <2>4. DOMAIN f = SUBSET D /\ DOMAIN h = SUBSET D
    OBVIOUS
  <2>5. f = h
    BY <2>3, <2>4
  <2>6. Eq(f, n + 1)
    BY <2>5
  <2> HIDE DEF f
  <2>7. \E g2 : Eq(g2, n + 1)
    BY <2>6
  <2> QED
    BY <2>7
<1> HIDE DEF S
<1>6. Cardinality(D) \in S
  BY <1>4, <1>5, NatInductionOnSets, FS_CardinalityType
<1>7. PICK f : Eq(f, Cardinality(D))
  BY <1>6 DEF S
<1>8. \A x \in SUBSET D : ~ (Cardinality(x) > Cardinality(D))
  BY <1>1, FS_CardinalityType
<1>9. f = [x \in SUBSET D |->
            IF x = {} THEN p ELSE LetGo(OneOf(x), f[x \ {OneOf(x)}])]
  BY <1>7, <1>8
<1> QED
  BY <1>9 DEF LetGoFolds

\* W[x] is what a page may be once the requests of x have been let go.
LEMMA LetGoFold ==
  ASSUME NEW D, IsFiniteSet(D), NEW W, NEW p \in W[{}],
         \A x \in SUBSET D : \A r \in D \ x : \A q \in W[x] : LetGo(r, q) \in W[x \cup {r}]
  PROVE  FoldSet(LetGo, p, D) \in W[D]
<1> DEFINE it == CHOOSE f : LetGoFolds(f, p, D)
<1>1. LetGoFolds(it, p, D)
  BY LetGoFoldExists
<1>2. FoldSet(LetGo, p, D) = it[D]
  BY DEF FoldSet, MapThenFoldSet, OneOf, LetGoFolds
<1> HIDE DEF it
<1> DEFINE S == {n \in Nat : \A x \in SUBSET D : Cardinality(x) = n => it[x] \in W[x]}
<1>3. \A x \in SUBSET D : IsFiniteSet(x) /\ Cardinality(x) \in Nat
  BY FS_Subset, FS_CardinalityType
<1>4. 0 \in S
  <2>1. \A x \in SUBSET D : Cardinality(x) = 0 => x = {}
    BY <1>3, FS_EmptySet
  <2>2. it[{}] = p
    BY <1>1 DEF LetGoFolds
  <2> QED
    BY <2>1, <2>2
<1>5. ASSUME NEW n \in Nat, n \in S PROVE n + 1 \in S
  <2> SUFFICES ASSUME NEW x \in SUBSET D, Cardinality(x) = n + 1
               PROVE  it[x] \in W[x]
    OBVIOUS
  <2>1. x # {}
    <3>1. Cardinality({}) = 0
      BY FS_EmptySet
    <3>2. n + 1 # 0
      OBVIOUS
    <3> QED
      BY <3>1, <3>2
  <2> DEFINE r == OneOf(x)
             y == x \ {r}
  <2>2. r \in x
    BY <2>1 DEF OneOf
  <2>3. y \in SUBSET D /\ r \in D \ y /\ y \cup {r} = x
    BY <2>2
  <2>4. Cardinality(y) = n
    <3>1. IsFiniteSet(x)
      BY <1>3
    <3>2. Cardinality(x \ {r}) = Cardinality(x) - 1
      BY <2>2, <3>1, FS_RemoveElement
    <3> QED
      BY <3>2
  <2>5. it[x] = LetGo(r, it[y])
    BY <1>1, <2>1 DEF LetGoFolds
  <2> HIDE DEF r, y
  <2>6. it[y] \in W[y]
    BY <1>5, <2>3, <2>4
  <2> QED
    BY <2>3, <2>5, <2>6
<1> HIDE DEF S
<1>6. Cardinality(D) \in S
  BY <1>4, <1>5, NatInductionOnSets, FS_CardinalityType
<1> QED
  BY <1>2, <1>6 DEF S

-----------------------------------------------------------------------------
(* What an event does to the objects.                                      *)

\* A view of the requests, and the history that goes with it.
ViewOK(v, o) ==
  /\ v \in [Requests -> ViewSet]
  /\ o = [c \in Oddities |-> o[c]]
  /\ \A r \in Requests : v[r].hops <= Len(Chain[r])

\* The urls of a chain.
LEMMA ChainFacts ==
  ASSUME NEW r \in Requests
  PROVE  /\ Chain[r] \in Seq(Urls)
         /\ Len(Chain[r]) \in Nat
         /\ \A h \in 0 .. Len(Chain[r]) : UrlOf(r, h) \in PageUrls
         /\ \A h \in 1 .. Len(Chain[r]) : UrlOf(r, h) = Chain[r][h] /\ Chain[r][h] \in Urls
<1>1. Chain[r] \in Seq(Urls)
  BY ChainAssumption
<1>2. Len(Chain[r]) \in Nat /\ \A h \in 1 .. Len(Chain[r]) : Chain[r][h] \in Urls
  BY <1>1
<1> QED
  BY <1>1, <1>2 DEF UrlOf, PageUrls

\* Pages that differ at most in how far promises and requests are, and in
\* the headers and the successors of requests.
Alike(p, q) ==
  /\ q \in PageSet
  /\ q.byId = p.byId /\ q.byUrl = p.byUrl /\ q.targets = p.targets
  /\ Len(q.requests) = Len(p.requests)
  /\ \A i \in DOMAIN p.requests :
       /\ q.requests[i].id = p.requests[i].id
       /\ q.requests[i].hop = p.requests[i].hop
       /\ q.requests[i].url = p.requests[i].url
       /\ q.requests[i].response = p.requests[i].response
       /\ q.requests[i].from = p.requests[i].from
  /\ Len(q.responses) = Len(p.responses)
  /\ \A k \in DOMAIN p.responses :
       /\ q.responses[k].id = p.responses[k].id
       /\ q.responses[k].hop = p.responses[k].hop
       /\ q.responses[k].headers = p.responses[k].headers
       /\ q.responses[k].of = p.responses[k].of

\* The types of what a page keeps.
LEMMA PageFacts ==
  ASSUME NEW p, Shape(p)
  PROVE  /\ p \in PageSet
         /\ p.requests \in Seq(RequestSet) /\ p.responses \in Seq(ResponseSet)
         /\ DOMAIN p.requests = 1 .. Len(p.requests) /\ Len(p.requests) \in Nat
         /\ DOMAIN p.responses = 1 .. Len(p.responses) /\ Len(p.responses) \in Nat
         /\ \A i \in DOMAIN p.requests : p.requests[i] \in RequestSet
         /\ \A k \in DOMAIN p.responses : p.responses[k] \in ResponseSet
         /\ p.byId \in [Requests -> Nat]
         /\ p.byUrl \in [PageUrls -> Seq(Nat)] /\ p.targets \in [PageUrls -> Seq(Nat)]
         /\ \A r \in Requests : p.byId[r] # 0 => p.byId[r] \in DOMAIN p.requests
<1>1. p \in PageSet /\ \A r \in Requests : p.byId[r] \in 0 .. Len(p.requests)
  BY DEF Shape
<1>2. /\ p.requests \in Seq(RequestSet) /\ p.responses \in Seq(ResponseSet)
      /\ p.byId \in [Requests -> Nat]
      /\ p.byUrl \in [PageUrls -> Seq(Nat)] /\ p.targets \in [PageUrls -> Seq(Nat)]
  BY <1>1 DEF PageSet
<1>3. /\ DOMAIN p.requests = 1 .. Len(p.requests) /\ Len(p.requests) \in Nat
      /\ DOMAIN p.responses = 1 .. Len(p.responses) /\ Len(p.responses) \in Nat
  BY <1>2
<1>4. \A i \in DOMAIN p.requests : p.requests[i] \in RequestSet
  BY <1>2, <1>3
<1>5. \A k \in DOMAIN p.responses : p.responses[k] \in ResponseSet
  BY <1>2, <1>3
<1>6. \A r \in Requests : p.byId[r] # 0 => p.byId[r] \in DOMAIN p.requests
  BY <1>1, <1>3
<1> QED
  BY <1>1, <1>2, <1>3, <1>4, <1>5, <1>6

\* Pages that are alike have the same objects in the same places.
LEMMA AlikeKeeps ==
  ASSUME NEW p, NEW q, NEW v, NEW o, PageInv(p, v, o), Alike(p, q)
  PROVE  /\ Shape(q) /\ Current(q, v, o) /\ Objects(q, v, o) /\ Answers(q)
         /\ Redirected(q, v, o) /\ Predecessors(q, o)
         /\ DOMAIN q.requests = DOMAIN p.requests
         /\ DOMAIN q.responses = DOMAIN p.responses
<1>1. Shape(p)
  BY DEF PageInv
<1>2. q \in PageSet
  BY DEF Alike
<1>3. DOMAIN q.requests = 1 .. Len(q.requests) /\ DOMAIN q.responses = 1 .. Len(q.responses)
  BY <1>2 DEF PageSet
<1>4. DOMAIN q.requests = DOMAIN p.requests /\ DOMAIN q.responses = DOMAIN p.responses
  BY <1>1, <1>3, PageFacts DEF Alike
<1>5. \A r \in Requests : p.byId[r] # 0 => p.byId[r] \in DOMAIN p.requests
  BY <1>1, PageFacts
<1>6. Shape(q)
  BY <1>1, <1>2, <1>4 DEF Shape, Alike
<1>7. Current(q, v, o)
  <2>1. Current(p, v, o)
    BY DEF PageInv
  <2> QED
    BY <2>1, <1>5 DEF Current, Alike
<1>8. Objects(q, v, o)
  <2>1. Objects(p, v, o)
    BY DEF PageInv
  <2> QED
    BY <2>1, <1>4 DEF Objects, Alike
<1>9. Answers(q)
  <2>1. Answers(p)
    BY DEF PageInv
  <2> QED
    BY <2>1, <1>4 DEF Answers, Alike
<1>10. Redirected(q, v, o)
  <2>1. Redirected(p, v, o)
    BY DEF PageInv
  <2>2. \A u \in PageUrls : \A k \in DOMAIN p.targets[u] : p.targets[u][k] \in DOMAIN p.requests
    BY <1>1 DEF Shape
  <2> QED
    BY <2>1, <2>2 DEF Redirected, Alike
<1>11. Predecessors(q, o)
  <2>1. Predecessors(p, o)
    BY DEF PageInv
  <2> QED
    BY <2>1, <1>4 DEF Predecessors, Alike
<1> QED
  BY <1>4, <1>6, <1>7, <1>8, <1>9, <1>10, <1>11

\* What else of a view may change while nothing is told to the page.
LEMMA ViewWeaker ==
  ASSUME NEW p, NEW v, NEW w, NEW o, NEW n, PageInv(p, v, o), ViewOK(v, o), ViewOK(w, n),
         \A c \in Oddities : o[c] \subseteq n[c],
         \A r \in Requests :
           /\ w[r].hop = v[r].hop
           /\ w[r].hops = v[r].hops
           /\ v[r].hop # 0 => w[r].open = v[r].open
           /\ v[r].over => w[r].over
           /\ r \notin n["misdirected"] => w[r].infos \cap 1 .. v[r].hop \subseteq v[r].infos
  PROVE  PageInv(p, w, n)
<1>0. /\ o["overtaken"] \subseteq n["overtaken"] /\ o["misdirected"] \subseteq n["misdirected"]
      /\ o["crossed"] \subseteq n["crossed"] /\ o["abandoned"] \subseteq n["abandoned"]
  BY DEF Oddities
<1>1. Shape(p) /\ Answers(p)
  BY DEF PageInv
<1>p. \A i \in DOMAIN p.requests : p.requests[i].id \in Requests /\ p.requests[i].hop \in Nat
  BY <1>1, PageFacts DEF RequestSet
<1>2. Current(p, w, n)
  <2>1. Current(p, v, o)
    BY DEF PageInv
  <2> QED
    BY <2>1, <1>0 DEF Current
<1>o. Objects(p, v, o)
  BY DEF PageInv
<1>3. Objects(p, w, n)
  BY <1>o, <1>0, <1>p DEF Objects
<1>4. Redirected(p, w, n)
  <2>1. Redirected(p, v, o)
    BY DEF PageInv
  <2> SUFFICES ASSUME NEW r \in Requests, r \notin n["crossed"], r \notin n["overtaken"]
               PROVE  /\ \A u \in PageUrls : \A k \in DOMAIN p.targets[u] :
                           p.requests[p.targets[u][k]].id = r =>
                             /\ p.targets[u][k] = p.byId[r]
                             /\ ~w[r].open
                             /\ w[r].hop < w[r].hops
                             /\ u = Chain[r][w[r].hop + 1]
                             /\ \A l \in DOMAIN p.targets[u] : p.targets[u][l] = p.targets[u][k] => l = k
                      /\ w[r].hop # 0 /\ ~w[r].open /\ w[r].hop < w[r].hops =>
                           \E k \in DOMAIN p.targets[Chain[r][w[r].hop + 1]] :
                             p.targets[Chain[r][w[r].hop + 1]][k] = p.byId[r]
    BY DEF Redirected
  <2>2. r \notin o["crossed"] /\ r \notin o["overtaken"]
    BY <1>0
  <2>3. CASE v[r].hop = 0
    <3>1. ASSUME NEW u \in PageUrls, NEW k \in DOMAIN p.targets[u],
                 p.requests[p.targets[u][k]].id = r
          PROVE  FALSE
      <4>1. p.targets[u][k] \in DOMAIN p.requests
        BY <1>1 DEF Shape
      <4>2. 1 <= p.requests[p.targets[u][k]].hop /\ p.requests[p.targets[u][k]].hop <= v[r].hop
        BY <3>1, <4>1, <1>o, <2>2 DEF Objects
      <4> QED
        BY <4>1, <4>2, <2>3, <1>p
    <3> QED
      BY <3>1, <2>3
  <2>4. CASE v[r].hop # 0
    <3>1. w[r].hop = v[r].hop /\ w[r].open = v[r].open /\ w[r].hops = v[r].hops
      BY <2>4
    <3> QED
      BY <2>1, <2>2, <2>4, <3>1 DEF Redirected
  <2> QED
    BY <2>3, <2>4
<1>5. Predecessors(p, n)
  <2>1. Predecessors(p, o)
    BY DEF PageInv
  <2> QED
    BY <2>1, <1>0 DEF Predecessors
<1>6. Promises(p, w, n)
  <2>1. Promises(p, v, o)
    BY DEF PageInv
  <2> QED
    BY <2>1, <1>0, <1>p DEF Promises
<1>7. Headers(p, w, n)
  <2>1. Headers(p, v, o)
    BY DEF PageInv
  <2>2. ASSUME NEW i \in DOMAIN p.requests,
               p.requests[i].id \notin n["misdirected"], p.requests[i].id \notin n["overtaken"],
               p.requests[i].hop = 1 \/ p.requests[i].response = 0
        PROVE  /\ p.requests[i].headers.hop = p.requests[i].hop
               /\ p.requests[i].hop \in w[p.requests[i].id].infos => p.requests[i].headers.wire
    <3> DEFINE r == p.requests[i].id
    <3>1. r \in Requests /\ r \notin o["misdirected"] /\ r \notin o["overtaken"]
      BY <1>0, <1>p, <2>2
    <3>2. p.requests[i].hop \in 1 .. v[r].hop
      <4>1. v[r].hop \in Nat
        BY <3>1 DEF ViewOK, ViewSet
      <4> QED
        BY <1>o, <3>1, <1>p, <4>1 DEF Objects
    <3>3. p.requests[i].hop \in w[r].infos => p.requests[i].hop \in v[r].infos
      BY <2>2, <3>1, <3>2
    <3> QED
      BY <2>1, <2>2, <3>1, <3>3 DEF Headers
  <2> QED
    BY <2>1, <2>2, <1>0 DEF Headers
<1> QED
  BY <1>1, <1>2, <1>3, <1>4, <1>5, <1>6, <1>7 DEF PageInv

\* The requests that are being redirected to a url.
Waiting(p, u) == {p.requests[p.targets[u][k]].id : k \in DOMAIN p.targets[u]}

\* They have the same redirects to come.
LEMMA AlikeWaiting ==
  ASSUME NEW p, NEW q, NEW v, NEW o, PageInv(p, v, o), Alike(p, q), NEW u \in PageUrls
  PROVE  Waiting(q, u) = Waiting(p, u)
<1>1. \A k \in DOMAIN p.targets[u] : p.targets[u][k] \in DOMAIN p.requests
  BY DEF PageInv, Shape
<1>2. q.targets = p.targets /\ \A i \in DOMAIN p.requests : q.requests[i].id = p.requests[i].id
  BY DEF Alike
<1> QED
  BY <1>1, <1>2 DEF Waiting

\* Alike pages, of which the requests have the headers they had.
LEMMA AlikeHeaders ==
  ASSUME NEW p, NEW q, NEW v, NEW o, PageInv(p, v, o), Alike(p, q),
         \A i \in DOMAIN p.requests : q.requests[i].headers = p.requests[i].headers
  PROVE  Headers(q, v, o)
<1>1. DOMAIN q.requests = DOMAIN p.requests /\ DOMAIN q.responses = DOMAIN p.responses
  BY AlikeKeeps
<1>2. Headers(p, v, o)
  BY DEF PageInv
<1> QED
  BY <1>1, <1>2 DEF Headers, Alike

\* When the main frame navigates, the promises of the navigations that are
\* not answered are given up.
LEMMA ResolveKeeps ==
  ASSUME NEW p, NEW v, NEW o, PageInv(p, v, o), ViewOK(v, o),
         \A n \in Navigations :
           v[n].hop # 0 /\ v[n].open => n \in o["abandoned"] \/ n \in o["overtaken"]
  PROVE  /\ PageInv(ResolveDangling(p), v, o)
         /\ Alike(p, ResolveDangling(p))
<1> DEFINE q == ResolveDangling(p)
           Dangling == {i \in {p.byId[r] : r \in Requests} \ {0} :
                          /\ p.requests[i].id \notin Framed
                          /\ p.requests[i].response = 0
                          /\ ~p.requests[i].failed}
           R == [i \in DOMAIN p.requests |->
                   IF i \in Dangling /\ p.requests[i].promise = "pending"
                   THEN [p.requests[i] EXCEPT !.promise = "null"] ELSE p.requests[i]]
<1>1. Shape(p)
  BY DEF PageInv
<1>2. q = [p EXCEPT !.requests = R]
  BY <1>1, PageFacts DEF ResolveDangling
<1>3. /\ DOMAIN p.requests = 1 .. Len(p.requests) /\ Len(p.requests) \in Nat
      /\ \A i \in DOMAIN p.requests : p.requests[i] \in RequestSet
      /\ p \in PageSet
  BY <1>1, PageFacts
<1>4. ASSUME NEW i \in DOMAIN p.requests
      PROVE  /\ R[i] \in RequestSet
             /\ R[i].id = p.requests[i].id /\ R[i].hop = p.requests[i].hop
             /\ R[i].url = p.requests[i].url /\ R[i].response = p.requests[i].response
             /\ R[i].from = p.requests[i].from /\ R[i].headers = p.requests[i].headers
             /\ R[i].promise # p.requests[i].promise => p.requests[i].response = 0
  BY <1>3 DEF RequestSet
<1>5. DOMAIN R = DOMAIN p.requests
  OBVIOUS
<1>6. R \in Seq(RequestSet) /\ Len(R) = Len(p.requests)
  <2>1. R \in [1 .. Len(p.requests) -> RequestSet]
    <3> HIDE DEF Dangling
    <3> QED
      BY <1>3, <1>4
  <2> HIDE DEF R
  <2> QED
    BY <1>3, <2>1
<1> HIDE DEF R, Dangling, q
<1>7. /\ q.requests = R /\ q.responses = p.responses /\ q.byId = p.byId
      /\ q.byUrl = p.byUrl /\ q.targets = p.targets /\ q \in PageSet
  BY <1>2, <1>3, <1>6 DEF PageSet
<1>8. Alike(p, q)
  BY <1>3, <1>4, <1>6, <1>7 DEF Alike
<1>9. Headers(q, v, o)
  BY <1>4, <1>7, <1>8, AlikeHeaders
<1>10. Promises(q, v, o)
  <2>1. Promises(p, v, o) /\ Current(p, v, o) /\ Objects(p, v, o)
    BY DEF PageInv
  <2> SUFFICES ASSUME NEW i \in DOMAIN p.requests,
                      R[i].id \in Navigations, R[i].id \notin o["abandoned"],
                      R[i].id \notin o["overtaken"]
               PROVE  /\ R[i].response # 0 => R[i].promise = "response"
                      /\ R[i].response = 0 /\ ~v[R[i].id].over => R[i].promise = "pending"
    BY <1>5, <1>7 DEF Promises
  <2> DEFINE n == p.requests[i].id
  <2>2. n \in Navigations /\ n \notin o["abandoned"] /\ n \notin o["overtaken"] /\ n \in Requests
    BY <1>3, <1>4 DEF RequestSet
  <2>3. /\ p.requests[i].response # 0 => p.requests[i].promise = "response"
        /\ p.requests[i].response = 0 /\ ~v[n].over => p.requests[i].promise = "pending"
    BY <2>1, <2>2 DEF Promises
  <2>4. p.requests[i].response # 0
    <3>1. SUFFICES ASSUME p.requests[i].response = 0 PROVE FALSE
      OBVIOUS
    <3>2. i = p.byId[n] /\ 1 <= p.requests[i].hop /\ p.requests[i].hop <= v[n].hop
      BY <2>1, <2>2, <3>1 DEF Objects
    <3>3. v[n].hop # 0
      BY <3>2, <2>2, <1>3 DEF RequestSet, ViewOK, ViewSet
    <3>4. v[n].open
      BY <2>1, <2>2, <3>1, <3>2, <3>3 DEF Current
    <3> QED
      BY <2>2, <3>3, <3>4
  <2> QED
    BY <1>4, <2>3, <2>4
<1>11. PageInv(q, v, o)
  BY <1>8, <1>9, <1>10, AlikeKeeps DEF PageInv
<1> QED
  BY <1>8, <1>11 DEF q

\* An end completes the Request and its Response, whatever they are.
LEMMA FinishResponseKeeps ==
  ASSUME NEW p, NEW v, NEW o, PageInv(p, v, o), NEW k \in 0 .. Len(p.responses)
  PROVE  PageInv(FinishResponse(p, k), v, o) /\ Alike(p, FinishResponse(p, k))
         /\ FinishResponse(p, k).requests = p.requests
<1>1. Shape(p)
  BY DEF PageInv
<1>2. /\ DOMAIN p.responses = 1 .. Len(p.responses) /\ Len(p.responses) \in Nat
      /\ \A i \in DOMAIN p.responses : p.responses[i] \in ResponseSet
      /\ p.responses \in Seq(ResponseSet)
      /\ p \in PageSet
  BY <1>1, PageFacts
<1> DEFINE q == FinishResponse(p, k)
<1>3. CASE k = 0
  <2>1. q = p
    BY <1>3 DEF FinishResponse
  <2>2. Alike(p, p)
    BY <1>2 DEF Alike
  <2> QED
    BY <2>1, <2>2
<1>4. CASE k # 0
  <2>1. k \in DOMAIN p.responses
    BY <1>2, <1>4
  <2> DEFINE R == [p.responses EXCEPT ![k].finished = TRUE]
  <2>2. q = [p EXCEPT !.responses = R]
    BY <1>2, <1>4 DEF FinishResponse, PageSet
  <2>3. /\ R \in Seq(ResponseSet) /\ Len(R) = Len(p.responses)
        /\ \A i \in DOMAIN p.responses :
             /\ R[i].id = p.responses[i].id /\ R[i].hop = p.responses[i].hop
             /\ R[i].headers = p.responses[i].headers /\ R[i].of = p.responses[i].of
    <3>1. \A i \in DOMAIN p.responses : R[i] = IF i = k THEN [p.responses[k] EXCEPT !.finished = TRUE]
                                                ELSE p.responses[i]
      BY <2>1
    <3>2. DOMAIN R = 1 .. Len(p.responses)
      BY <1>2
    <3>3. \A i \in DOMAIN p.responses : R[i] \in ResponseSet
      BY <1>2, <2>1, <3>1 DEF ResponseSet
    <3>4. R \in [1 .. Len(p.responses) -> ResponseSet]
      BY <1>2, <3>3
    <3> HIDE DEF R
    <3>5. R \in Seq(ResponseSet) /\ Len(R) = Len(p.responses)
      BY <1>2, <3>4
    <3> QED
      BY <1>2, <2>1, <3>1, <3>5 DEF ResponseSet
  <2> HIDE DEF R, q
  <2>4. /\ q.requests = p.requests /\ q.responses = R /\ q.byId = p.byId
        /\ q.byUrl = p.byUrl /\ q.targets = p.targets /\ q \in PageSet
    BY <1>2, <2>2, <2>3 DEF PageSet
  <2>5. Alike(p, q)
    BY <1>2, <2>3, <2>4 DEF Alike
  <2>6. Headers(q, v, o)
    BY <2>4, <2>5, AlikeHeaders
  <2>7. Promises(q, v, o)
    BY <2>4 DEF PageInv, Promises
  <2> QED
    BY <2>4, <2>5, <2>6, <2>7, AlikeKeeps DEF PageInv, q
<1> QED
  BY <1>3, <1>4

\* Any one Request may be replaced by one that is the same in what matters.
LEMMA ReplaceRequest ==
  ASSUME NEW p, NEW v, NEW o, PageInv(p, v, o), NEW i \in DOMAIN p.requests,
         NEW a \in RequestSet,
         a.id = p.requests[i].id, a.hop = p.requests[i].hop, a.url = p.requests[i].url,
         a.response = p.requests[i].response, a.from = p.requests[i].from
  PROVE  LET q == [p EXCEPT !.requests = [p.requests EXCEPT ![i] = a]]
         IN  /\ Alike(p, q)
             /\ q.requests[i] = a
             /\ \A j \in DOMAIN p.requests : j # i => q.requests[j] = p.requests[j]
             /\ q.responses = p.responses
             /\ q = [p EXCEPT !.requests[i] = a]
<1> DEFINE R == [p.requests EXCEPT ![i] = a]
           q == [p EXCEPT !.requests = R]
<1>1. Shape(p)
  BY DEF PageInv
<1>2. /\ DOMAIN p.requests = 1 .. Len(p.requests) /\ Len(p.requests) \in Nat
      /\ \A j \in DOMAIN p.requests : p.requests[j] \in RequestSet
      /\ p.requests \in Seq(RequestSet) /\ p \in PageSet
  BY <1>1, PageFacts
<1>3. R \in Seq(RequestSet) /\ Len(R) = Len(p.requests) /\ DOMAIN R = DOMAIN p.requests
  BY <1>2
<1>4. R[i] = a /\ \A j \in DOMAIN p.requests : j # i => R[j] = p.requests[j]
  OBVIOUS
<1> HIDE DEF R
<1>5. /\ q.requests = R /\ q.responses = p.responses /\ q.byId = p.byId
      /\ q.byUrl = p.byUrl /\ q.targets = p.targets /\ q \in PageSet
  BY <1>2, <1>3 DEF PageSet
<1> HIDE DEF q
<1>6. Alike(p, q)
  BY <1>2, <1>3, <1>4, <1>5 DEF Alike
<1>7. q = [p EXCEPT !.requests[i] = a]
  BY <1>2 DEF q, R, PageSet
<1> QED
  BY <1>4, <1>5, <1>6, <1>7 DEF q, R

-----------------------------------------------------------------------------
(* The events that find the Request by its id.                             *)

\* A request that was told of is found by its id.
LEMMA FoundById ==
  ASSUME NEW p, NEW v, NEW o, PageInv(p, v, o), NEW r \in Requests, v[r].hop # 0, NEW u
  PROVE  /\ p.byId[r] \in DOMAIN p.requests /\ p.byId[r] # 0
         /\ p.requests[p.byId[r]].id = r
         /\ p.requests[p.byId[r]].hop = v[r].hop
         /\ p.requests[p.byId[r]] \in RequestSet
         /\ p.requests[p.byId[r]].response \in 0 .. Len(p.responses)
         /\ p.requests[p.byId[r]].response = 0 <=> v[r].open
         /\ Find(p, r, u) = p.byId[r]
         /\ Found(p, r, u) = p
<1>1. Shape(p)
  BY DEF PageInv
<1>2. /\ p.byId[r] # 0 /\ p.requests[p.byId[r]].id = r
      /\ p.requests[p.byId[r]].hop = v[r].hop
      /\ p.requests[p.byId[r]].response = 0 <=> v[r].open
  BY DEF PageInv, Current
<1>3. /\ p.byId[r] \in DOMAIN p.requests /\ p.requests[p.byId[r]] \in RequestSet
      /\ p \in PageSet /\ p.byId \in [Requests -> Nat]
  BY <1>1, <1>2, PageFacts
<1>4. p.requests[p.byId[r]].response \in 0 .. Len(p.responses)
  BY <1>1, <1>3 DEF Shape
<1>5. Find(p, r, u) = p.byId[r]
  BY <1>2 DEF Find
<1>6. Found(p, r, u) = p
  BY <1>3, <1>5 DEF Found, PageSet
<1> QED
  BY <1>2, <1>3, <1>4, <1>5, <1>6

\* A requestheaders event gives the headers to the hop the request is at.
LEMMA HeadersObserved ==
  ASSUME NEW p, NEW v, NEW o, PageInv(p, v, o), ViewOK(v, o), NEW e \in EventSet,
         v[e.id].hop # 0,
         e.id \in o["misdirected"] \/ e.id \in o["overtaken"]
           \/ e.headers = OnTheWire(v[e.id].hop)
  PROVE  /\ PageInv(ObserveHeaders(p, e),
                    [v EXCEPT ![e.id].infos = @ \cup {v[e.id].hop}], o)
         /\ \A u \in PageUrls : Waiting(ObserveHeaders(p, e), u) = Waiting(p, u)
<1> DEFINE r == e.id
           i == p.byId[r]
           a == [p.requests[i] EXCEPT !.headers = e.headers]
           q == [p EXCEPT !.requests = [p.requests EXCEPT ![i] = a]]
           w == [v EXCEPT ![r].infos = @ \cup {v[r].hop}]
<1>1. r \in Requests /\ e.headers \in HeaderSet
  BY DEF EventSet
<1> HIDE DEF a, q, w
<1>0. v[r].hop # 0
  OBVIOUS
<1>2. /\ i \in DOMAIN p.requests /\ p.requests[i].id = r /\ p.requests[i].hop = v[r].hop
      /\ p.requests[i] \in RequestSet
      /\ Find(p, r, UrlOf(r, e.hop)) = i /\ Found(p, r, UrlOf(r, e.hop)) = p /\ i # 0
  <2> HIDE DEF r
  <2> QED
    BY <1>0, <1>1, FoundById
<1>3. a \in RequestSet /\ a.id = p.requests[i].id /\ a.hop = p.requests[i].hop
      /\ a.url = p.requests[i].url /\ a.response = p.requests[i].response
      /\ a.from = p.requests[i].from /\ a.headers = e.headers /\ a.promise = p.requests[i].promise
  BY <1>1, <1>2 DEF RequestSet, a
<1> HIDE DEF i
<1>4. /\ Alike(p, q) /\ q.requests[i] = a
      /\ \A j \in DOMAIN p.requests : j # i => q.requests[j] = p.requests[j]
      /\ q.responses = p.responses
      /\ q = [p EXCEPT !.requests[i] = a]
  BY <1>2, <1>3, ReplaceRequest DEF q
<1>5. ObserveHeaders(p, e) = q
  <2>1. ObserveHeaders(p, e) = [p EXCEPT !.requests[i].headers = e.headers]
    BY <1>2 DEF ObserveHeaders
  <2> QED
    BY <2>1, <1>4 DEF a
<1>6. v \in [Requests -> ViewSet] /\ w \in [Requests -> ViewSet]
      /\ \A s \in Requests : /\ w[s].hop = v[s].hop /\ w[s].open = v[s].open
                             /\ w[s].over = v[s].over /\ w[s].hops = v[s].hops
                             /\ s # r => w[s] = v[s]
      /\ w[r].infos = v[r].infos \cup {v[r].hop}
  <2>1. v \in [Requests -> ViewSet]
    BY DEF ViewOK
  <2>2. v[r].infos \cup {v[r].hop} \in SUBSET Nat
    BY <1>1, <2>1 DEF ViewSet
  <2>3. w[r] = [v[r] EXCEPT !.infos = v[r].infos \cup {v[r].hop}]
    BY <1>1, <2>1 DEF w
  <2>4. w[r] \in ViewSet
    BY <1>1, <2>1, <2>2, <2>3 DEF ViewSet
  <2>5. w \in [Requests -> ViewSet]
    BY <1>1, <2>1, <2>4 DEF w
  <2>6. w[r].infos = v[r].infos \cup {v[r].hop} /\ w[r].hop = v[r].hop /\ w[r].open = v[r].open
        /\ w[r].over = v[r].over /\ w[r].hops = v[r].hops
    BY <1>1, <2>1, <2>3 DEF ViewSet
  <2> QED
    BY <1>1, <2>1, <2>5, <2>6 DEF w
<1> HIDE DEF r
<1>7. /\ Shape(q) /\ Current(q, v, o) /\ Objects(q, v, o) /\ Answers(q)
      /\ Redirected(q, v, o) /\ Predecessors(q, o)
      /\ DOMAIN q.requests = DOMAIN p.requests
      /\ DOMAIN q.responses = DOMAIN p.responses
  BY <1>4, AlikeKeeps
<1>8. \A j \in DOMAIN q.requests : q.requests[j] \in RequestSet
  BY <1>7, PageFacts
<1>9. Current(q, w, o) /\ Redirected(q, w, o)
  <2>1. Current(q, w, o)
    BY <1>6, <1>7 DEF Current
  <2>2. Redirected(q, w, o)
    BY <1>6, <1>7 DEF Redirected
  <2> QED
    BY <2>1, <2>2
<1>10. Objects(q, w, o)
  BY <1>6, <1>7, <1>8 DEF Objects, RequestSet
<1>11. Promises(q, w, o)
  <2>1. Promises(p, v, o)
    BY DEF PageInv
  <2>2. \A j \in DOMAIN p.requests :
          /\ q.requests[j].promise = p.requests[j].promise
          /\ q.requests[j].response = p.requests[j].response
          /\ q.requests[j].id = p.requests[j].id
          /\ p.requests[j].id \in Requests
    BY <1>3, <1>4, <1>7, <1>8 DEF Alike, RequestSet
  <2> QED
    BY <2>1, <2>2, <1>6, <1>7 DEF Promises
<1>12. Headers(q, w, o)
  <2>1. Headers(p, v, o) /\ Objects(p, v, o)
    BY DEF PageInv
  <2>2. ASSUME NEW j \in DOMAIN p.requests,
               q.requests[j].id \notin o["misdirected"], q.requests[j].id \notin o["overtaken"],
               q.requests[j].hop = 1 \/ q.requests[j].response = 0
        PROVE  /\ q.requests[j].headers.hop = q.requests[j].hop
               /\ q.requests[j].hop \in w[q.requests[j].id].infos => q.requests[j].headers.wire
    <3>1. CASE j = i
      <4>1. q.requests[j] = a /\ a.id = r /\ a.hop = v[r].hop
        BY <3>1, <1>2, <1>3, <1>4
      <4>2. a.headers = OnTheWire(v[r].hop)
        BY <4>1, <2>2, <1>3 DEF r
      <4> QED
        BY <4>1, <4>2 DEF OnTheWire
    <3>2. CASE j # i /\ p.requests[j].id # r
      BY <3>2, <1>4, <1>6, <1>7, <1>8, <2>1, <2>2 DEF Headers, RequestSet
    <3>3. CASE j # i /\ p.requests[j].id = r
      <4>1. q.requests[j] = p.requests[j]
        BY <3>3, <1>4
      <4>2. p.requests[j].hop # v[r].hop
        BY <3>3, <4>1, <2>1, <2>2, <1>2 DEF Objects
      <4> QED
        BY <3>3, <4>1, <4>2, <1>6, <2>1, <2>2 DEF Headers
    <3> QED
      BY <3>1, <3>2, <3>3
  <2>3. \A k \in DOMAIN q.responses :
          q.responses[k].headers.hop = q.responses[k].hop \/ q.responses[k].id \in o["overtaken"]
    BY <2>1, <1>4 DEF Headers
  <2> QED
    BY <2>2, <2>3, <1>7 DEF Headers
<1>13. PageInv(q, w, o)
  BY <1>7, <1>9, <1>10, <1>11, <1>12 DEF PageInv
<1>14. \A u \in PageUrls : Waiting(q, u) = Waiting(p, u)
  BY <1>4, AlikeWaiting
<1> QED
  BY <1>5, <1>13, <1>14 DEF w, r

\* A requestfinished event finishes the object of its request.
LEMMA CompletionObserved ==
  ASSUME NEW p, NEW v, NEW o, PageInv(p, v, o), NEW e \in EventSet, v[e.id].hop # 0
  PROVE  /\ PageInv(ObserveCompletion(p, e), v, o)
         /\ \A u \in PageUrls : Waiting(ObserveCompletion(p, e), u) = Waiting(p, u)
<1> DEFINE r == e.id
           i == p.byId[r]
           a == [p.requests[i] EXCEPT !.completed = TRUE]
           q == [p EXCEPT !.requests = [p.requests EXCEPT ![i] = a]]
<1>1. r \in Requests
  BY DEF EventSet
<1>2. /\ i \in DOMAIN p.requests /\ p.requests[i] \in RequestSet
      /\ p.requests[i].response \in 0 .. Len(p.responses)
      /\ Find(p, r, UrlOf(r, e.hop)) = i /\ Found(p, r, UrlOf(r, e.hop)) = p /\ i # 0
  BY <1>1, FoundById
<1>3. a \in RequestSet /\ a.id = p.requests[i].id /\ a.hop = p.requests[i].hop
      /\ a.url = p.requests[i].url /\ a.response = p.requests[i].response
      /\ a.from = p.requests[i].from /\ a.headers = p.requests[i].headers
      /\ a.promise = p.requests[i].promise
  BY <1>2 DEF RequestSet
<1>a. [p EXCEPT !.requests[i].completed = TRUE] = [p EXCEPT !.requests[i] = a]
  OBVIOUS
<1>b. Known(p, e, e.id \in Navigations /\ e.hop # 0) = p
  BY <1>2 DEF Known
<1> HIDE DEF i, a
<1>4. /\ Alike(p, q) /\ q.requests[i] = a
      /\ \A j \in DOMAIN p.requests : j # i => q.requests[j] = p.requests[j]
      /\ q.responses = p.responses
      /\ q = [p EXCEPT !.requests[i] = a]
  BY <1>2, <1>3, ReplaceRequest
<1> HIDE DEF q
<1>5. ObserveCompletion(p, e) = FinishResponse(q, p.requests[i].response)
  BY <1>a, <1>b, <1>4 DEF ObserveCompletion, i
<1>6. Headers(q, v, o)
  BY <1>3, <1>4, AlikeHeaders
<1>7. /\ Shape(q) /\ Current(q, v, o) /\ Objects(q, v, o) /\ Answers(q)
      /\ Redirected(q, v, o) /\ Predecessors(q, o)
      /\ DOMAIN q.requests = DOMAIN p.requests
  BY <1>4, AlikeKeeps
<1>8. Promises(q, v, o)
  <2>1. Promises(p, v, o)
    BY DEF PageInv
  <2>2. \A j \in DOMAIN p.requests :
          /\ q.requests[j].promise = p.requests[j].promise
          /\ q.requests[j].response = p.requests[j].response
          /\ q.requests[j].id = p.requests[j].id
    BY <1>3, <1>4 DEF Alike
  <2> QED
    BY <2>1, <2>2, <1>7 DEF Promises
<1>9. PageInv(q, v, o)
  BY <1>6, <1>7, <1>8 DEF PageInv
<1>10. p.requests[i].response \in 0 .. Len(q.responses)
  BY <1>2, <1>4
<1> DEFINE t == ObserveCompletion(p, e)
<1>11. PageInv(t, v, o) /\ Alike(q, t)
  BY <1>5, <1>9, <1>10, FinishResponseKeeps
<1> HIDE DEF t
<1>12. \A u \in PageUrls : Waiting(t, u) = Waiting(p, u)
  BY <1>4, <1>9, <1>11, AlikeWaiting
<1> QED
  BY <1>11, <1>12 DEF t

\* A requestfailed event fails the object of its request, which is over.
LEMMA FailureObserved ==
  ASSUME NEW p, NEW v, NEW o, PageInv(p, v, o), NEW e \in EventSet, v[e.id].hop # 0,
         v[e.id].over
  PROVE  /\ PageInv(ObserveFailure(p, e), v, o)
         /\ \A u \in PageUrls : Waiting(ObserveFailure(p, e), u) = Waiting(p, u)
<1> DEFINE r == e.id
           i == p.byId[r]
           b == [p.requests[i] EXCEPT !.failed = TRUE]
           a == IF p.requests[i].promise # "pending" THEN b ELSE [b EXCEPT !.promise = "null"]
           q == [p EXCEPT !.requests = [p.requests EXCEPT ![i] = a]]
<1>1. r \in Requests
  BY DEF EventSet
<1>2. /\ i \in DOMAIN p.requests /\ p.requests[i] \in RequestSet
      /\ p.requests[i].response \in 0 .. Len(p.responses)
      /\ Find(p, r, UrlOf(r, e.hop)) = i /\ Found(p, r, UrlOf(r, e.hop)) = p /\ i # 0
  BY <1>1, FoundById
<1>3. a \in RequestSet /\ a.id = p.requests[i].id /\ a.hop = p.requests[i].hop
      /\ a.url = p.requests[i].url /\ a.response = p.requests[i].response
      /\ a.from = p.requests[i].from /\ a.headers = p.requests[i].headers
  BY <1>2 DEF RequestSet
<1>c. p.requests[i].promise # "pending" => a.promise = p.requests[i].promise
  BY <1>2 DEF RequestSet
<1>d. p.requests[i].id = r
  BY <1>1, FoundById
<1>a. Resolve([p EXCEPT !.requests[i].failed = TRUE], i, "null") = [p EXCEPT !.requests[i] = a]
  <2> DEFINE t == [p EXCEPT !.requests[i].failed = TRUE]
  <2>1. p \in PageSet
    BY DEF PageInv, Shape
  <2>2. t.requests[i] = b /\ t.requests[i].promise = p.requests[i].promise
        /\ t = [p EXCEPT !.requests = [p.requests EXCEPT ![i] = b]]
        /\ t.requests = [p.requests EXCEPT ![i] = b]
    BY <1>2, <2>1 DEF PageSet, RequestSet
  <2>3. CASE p.requests[i].promise # "pending"
    BY <2>2, <2>3 DEF Resolve
  <2>4. CASE p.requests[i].promise = "pending"
    <3>1. Resolve(t, i, "null") = [t EXCEPT !.requests = [t.requests EXCEPT ![i] = [b EXCEPT !.promise = "null"]]]
      BY <2>1, <2>2, <2>4 DEF Resolve, PageSet
    <3> HIDE DEF b
    <3>2. [t.requests EXCEPT ![i] = [b EXCEPT !.promise = "null"]] = [p.requests EXCEPT ![i] = [b EXCEPT !.promise = "null"]]
      BY <2>2
    <3> QED
      BY <2>1, <2>2, <3>1, <3>2, <2>4 DEF PageSet
  <2> QED
    BY <2>3, <2>4
<1>b. Known(p, e, FALSE) = p
  BY <1>2 DEF Known
<1> HIDE DEF i, a, b
<1>4. /\ Alike(p, q) /\ q.requests[i] = a
      /\ \A j \in DOMAIN p.requests : j # i => q.requests[j] = p.requests[j]
      /\ q.responses = p.responses
      /\ q = [p EXCEPT !.requests[i] = a]
  BY <1>2, <1>3, ReplaceRequest
<1> HIDE DEF q
<1>5. ObserveFailure(p, e) = FinishResponse(q, p.requests[i].response)
  BY <1>a, <1>b, <1>4 DEF ObserveFailure, i
<1>6. Headers(q, v, o)
  BY <1>3, <1>4, AlikeHeaders
<1>7. /\ Shape(q) /\ Current(q, v, o) /\ Objects(q, v, o) /\ Answers(q)
      /\ Redirected(q, v, o) /\ Predecessors(q, o)
      /\ DOMAIN q.requests = DOMAIN p.requests
  BY <1>4, AlikeKeeps
<1>8. Promises(q, v, o)
  <2>1. Promises(p, v, o)
    BY DEF PageInv
  <2>2. \A j \in DOMAIN p.requests :
          /\ q.requests[j].response = p.requests[j].response
          /\ q.requests[j].id = p.requests[j].id
          /\ j # i => q.requests[j].promise = p.requests[j].promise
    BY <1>4 DEF Alike
  <2>3. p.requests[i].promise = "response" => q.requests[i].promise = "response"
    BY <1>c, <1>4
  <2> QED
    BY <2>1, <2>2, <2>3, <1>2, <1>d, <1>7 DEF Promises
<1>9. PageInv(q, v, o)
  BY <1>6, <1>7, <1>8 DEF PageInv
<1>10. p.requests[i].response \in 0 .. Len(q.responses)
  BY <1>2, <1>4
<1> DEFINE t == ObserveFailure(p, e)
<1>11. PageInv(t, v, o) /\ Alike(q, t)
  BY <1>5, <1>9, <1>10, FinishResponseKeeps
<1> HIDE DEF t
<1>12. \A u \in PageUrls : Waiting(t, u) = Waiting(p, u)
  BY <1>4, <1>9, <1>11, AlikeWaiting
<1> QED
  BY <1>11, <1>12 DEF t

-----------------------------------------------------------------------------
(* A new Request.                                                          *)

Append1(q, e, from) ==
  LET u == UrlOf(e.id, e.hop)
      n == Len(q.requests) + 1
  IN  [q EXCEPT !.targets[u] = Shift(@),
                !.requests = Append(@, NewRequest(e, from)),
                !.byUrl[u] = Append(@, n),
                !.byId[e.id] = n]

\* What a request event has to be, so that the Request it makes is right; x
\* is the view of the request afterwards.
Fits(q, v, o, e, x) ==
  LET r == e.id
      y == v[r]
  IN  /\ e.hop <= Len(Chain[r])
      /\ x \in ViewSet /\ x.hops = y.hops
      /\ \/ x.hop = e.hop /\ x.hop # 0 /\ x.open
         \/ r \in o["overtaken"] /\ x.hop = 0 /\ y.hop = 0
      /\ r \notin o["overtaken"] =>
           /\ e.hop = y.hop + 1 /\ x.hop = e.hop /\ e.hop <= y.hops
           /\ y.hop = 0 \/ ~y.open
           /\ x.infos \subseteq y.infos \cup {e.hop}
           /\ r \notin o["misdirected"] =>
                e.headers.hop = e.hop /\ (e.hop \in x.infos => e.headers.wire)
      /\ \A k \in DOMAIN q.targets[UrlOf(r, e.hop)] :
           LET s == q.requests[q.targets[UrlOf(r, e.hop)][k]].id
           IN  s = r \/ (s \in o["crossed"] /\ r \in o["crossed"])

\* What shift() leaves of a queue.
LEMMA ShiftFacts ==
  ASSUME NEW T, NEW s \in Seq(T)
  PROVE  /\ Shift(s) \in Seq(T)
         /\ \A k \in DOMAIN Shift(s) : k + 1 \in DOMAIN s /\ Shift(s)[k] = s[k + 1] /\ k \in Nat \ {0}
<1>1. CASE s = <<>>
  BY <1>1 DEF Shift
<1>2. CASE s # <<>>
  <2>1. /\ Shift(s) = Tail(s) /\ Tail(s) \in Seq(T) /\ Len(Tail(s)) = Len(s) - 1
        /\ \A k \in 1 .. Len(s) - 1 : Tail(s)[k] = s[k + 1]
    BY <1>2 DEF Shift
  <2> QED
    BY <2>1
<1> QED
  BY <1>1, <1>2

\* What a page t with a new Request, the n-th, has of the page q it was made of.
Appended(q, t, e, from) ==
  LET u == UrlOf(e.id, e.hop)
      n == Len(q.requests) + 1
  IN  /\ e.id \in Requests /\ u \in PageUrls /\ n \in Nat /\ n # 0
      /\ n \notin DOMAIN q.requests
      /\ t \in PageSet
      /\ DOMAIN t.requests = DOMAIN q.requests \cup {n} /\ Len(t.requests) = n
      /\ \A i \in DOMAIN q.requests : t.requests[i] = q.requests[i]
      /\ t.requests[n] = NewRequest(e, from) /\ NewRequest(e, from) \in RequestSet
      /\ t.responses = q.responses
      /\ t.byId = [q.byId EXCEPT ![e.id] = n]
      /\ t.byUrl = [q.byUrl EXCEPT ![u] = Append(q.byUrl[u], n)]
      /\ t.targets = [q.targets EXCEPT ![u] = Shift(q.targets[u])]

\* A new object is the last one, and the current one of its request.
LEMMA AppendedFacts ==
  ASSUME NEW q, NEW v, NEW o, PageInv(q, v, o), ViewOK(v, o), NEW e \in EventSet,
         NEW from \in 0 .. Len(q.requests), e.hop <= Len(Chain[e.id])
  PROVE  Appended(q, Append1(q, e, from), e, from)
<1> DEFINE t == Append1(q, e, from)
           u == UrlOf(e.id, e.hop)
           n == Len(q.requests) + 1
<1>1. Shape(q)
  BY DEF PageInv
<1>2. /\ q \in PageSet /\ q.requests \in Seq(RequestSet) /\ Len(q.requests) \in Nat
      /\ DOMAIN q.requests = 1 .. Len(q.requests)
      /\ q.byId \in [Requests -> Nat]
      /\ q.byUrl \in [PageUrls -> Seq(Nat)] /\ q.targets \in [PageUrls -> Seq(Nat)]
  BY <1>1, PageFacts
<1>3. e.id \in Requests /\ e.hop \in Nat /\ e.headers \in HeaderSet
  BY DEF EventSet
<1>4. u \in PageUrls /\ e.hop \in 0 .. Len(Chain[e.id])
  BY <1>3, ChainFacts
<1>5. NewRequest(e, from) \in RequestSet
  <2>1. from \in Nat
    BY <1>2
  <2> QED
    BY <2>1, <1>3, <1>4 DEF NewRequest, RequestSet
<1>6. n \in Nat /\ n # 0 /\ n \notin DOMAIN q.requests
  BY <1>2
<1> DEFINE R == Append(q.requests, NewRequest(e, from))
           U == [q.byUrl EXCEPT ![u] = Append(q.byUrl[u], n)]
           G == [q.targets EXCEPT ![u] = Shift(q.targets[u])]
           I == [q.byId EXCEPT ![e.id] = n]
<1>7. t = [q EXCEPT !.targets = G, !.requests = R, !.byUrl = U, !.byId = I]
  BY <1>2 DEF Append1, PageSet
<1>8. /\ R \in Seq(RequestSet) /\ Len(R) = n /\ DOMAIN R = DOMAIN q.requests \cup {n}
      /\ R[n] = NewRequest(e, from)
      /\ \A i \in DOMAIN q.requests : R[i] = q.requests[i]
  <2> HIDE DEF n
  <2>0. n = Len(q.requests) + 1
    BY DEF n
  <2> HIDE DEF u
  <2> SUFFICES ASSUME NEW a \in RequestSet, a = NewRequest(e, from)
               PROVE  /\ Append(q.requests, a) \in Seq(RequestSet)
                      /\ Len(Append(q.requests, a)) = n
                      /\ DOMAIN Append(q.requests, a) = DOMAIN q.requests \cup {n}
                      /\ Append(q.requests, a)[n] = a
                      /\ \A i \in DOMAIN q.requests : Append(q.requests, a)[i] = q.requests[i]
    BY <1>5
  <2> QED
    BY <1>2, <2>0
<1>9. U \in [PageUrls -> Seq(Nat)]
  <2> HIDE DEF n, u
  <2>1. Append(q.byUrl[u], n) \in Seq(Nat)
    BY <1>2, <1>4, <1>6
  <2> QED
    BY <1>2, <1>4, <2>1
<1>10. G \in [PageUrls -> Seq(Nat)]
  <2> HIDE DEF u
  <2>1. Shift(q.targets[u]) \in Seq(Nat)
    BY <1>2, <1>4, ShiftFacts
  <2> QED
    BY <1>2, <1>4, <2>1
<1>11. I \in [Requests -> Nat]
  <2> HIDE DEF n
  <2> QED
    BY <1>2, <1>3, <1>6
<1> HIDE DEF R, U, G, I, n, t
<1>12. /\ t.targets = G /\ t.requests = R /\ t.byUrl = U /\ t.byId = I /\ t.responses = q.responses
       /\ t \in PageSet
  BY <1>2, <1>7, <1>8, <1>9, <1>10, <1>11 DEF PageSet
<1> QED
  BY <1>3, <1>4, <1>5, <1>6, <1>8, <1>12 DEF R, U, G, I, n, t, Appended

\* A new object of the next hop keeps what is known of the objects.
LEMMA AppendedKeeps ==
  ASSUME NEW q, NEW v, NEW o, PageInv(q, v, o), ViewOK(v, o), NEW e \in EventSet,
         NEW from \in 0 .. Len(q.requests), NEW x, Fits(q, v, o, e, x),
         e.id \notin o["crossed"] /\ e.id \notin o["overtaken"] =>
           from = IF e.hop = 1 THEN 0 ELSE q.byId[e.id]
  PROVE  PageInv(Append1(q, e, from), [v EXCEPT ![e.id] = x], o)
<1> DEFINE t == Append1(q, e, from)
           r == e.id
           h == e.hop
           u == UrlOf(r, h)
           n == Len(q.requests) + 1
           w == [v EXCEPT ![r] = x]
           a == NewRequest(e, from)
<1>1. Shape(q) /\ Current(q, v, o) /\ Objects(q, v, o) /\ Answers(q) /\ Redirected(q, v, o)
      /\ Predecessors(q, o) /\ Promises(q, v, o) /\ Headers(q, v, o)
  BY DEF PageInv
<1>2. h <= Len(Chain[r]) /\ h \in Nat
  BY DEF Fits, EventSet
<1>3. /\ r \in Requests /\ u \in PageUrls /\ n \in Nat /\ n # 0 /\ n \notin DOMAIN q.requests
      /\ t \in PageSet
      /\ DOMAIN t.requests = DOMAIN q.requests \cup {n} /\ Len(t.requests) = n
      /\ \A i \in DOMAIN q.requests : t.requests[i] = q.requests[i]
      /\ t.requests[n] = a /\ a \in RequestSet
      /\ t.responses = q.responses
      /\ t.byId = [q.byId EXCEPT ![r] = n]
      /\ t.byUrl = [q.byUrl EXCEPT ![u] = Append(q.byUrl[u], n)]
      /\ t.targets = [q.targets EXCEPT ![u] = Shift(q.targets[u])]
  <2>1. Appended(q, t, e, from)
    BY <1>2, AppendedFacts
  <2> QED
    BY <2>1 DEF Appended
<1>4. /\ q \in PageSet /\ q.requests \in Seq(RequestSet) /\ Len(q.requests) \in Nat
      /\ DOMAIN q.requests = 1 .. Len(q.requests) /\ DOMAIN q.responses = 1 .. Len(q.responses)
      /\ Len(q.responses) \in Nat
      /\ q.byId \in [Requests -> Nat]
      /\ q.byUrl \in [PageUrls -> Seq(Nat)] /\ q.targets \in [PageUrls -> Seq(Nat)]
      /\ \A i \in DOMAIN q.requests : q.requests[i] \in RequestSet
      /\ \A s \in Requests : q.byId[s] # 0 => q.byId[s] \in DOMAIN q.requests
  BY <1>1, PageFacts
<1>5. /\ a.id = r /\ a.hop = h /\ a.url = u /\ a.headers = e.headers /\ a.response = 0
      /\ a.promise = "pending" /\ a.from = from
  BY DEF NewRequest
<1>6. /\ x \in ViewSet /\ x.hops = v[r].hops
      /\ (x.hop = h /\ x.hop # 0 /\ x.open) \/ (r \in o["overtaken"] /\ x.hop = 0 /\ v[r].hop = 0)
      /\ r \notin o["overtaken"] =>
           /\ h = v[r].hop + 1 /\ x.hop = h /\ h <= v[r].hops
           /\ v[r].hop = 0 \/ ~v[r].open
           /\ x.infos \subseteq v[r].infos \cup {h}
           /\ r \notin o["misdirected"] => e.headers.hop = h /\ (h \in x.infos => e.headers.wire)
      /\ \A k \in DOMAIN q.targets[u] :
           \/ q.requests[q.targets[u][k]].id = r
           \/ (q.requests[q.targets[u][k]].id \in o["crossed"] /\ r \in o["crossed"])
  BY DEF Fits
<1>7. v \in [Requests -> ViewSet] /\ w[r] = x /\ \A s \in Requests : s # r => w[s] = v[s]
  BY <1>3 DEF ViewOK
<1>8. \A s \in Requests : v[s].hop \in Nat /\ v[s].hops \in Nat
  BY <1>7 DEF ViewSet
<1>9. t.byId[r] = n /\ \A s \in Requests : s # r => t.byId[s] = q.byId[s]
  BY <1>3, <1>4
<1>10. \A z \in PageUrls : z # u => t.targets[z] = q.targets[z] /\ t.byUrl[z] = q.byUrl[z]
  BY <1>3, <1>4
<1>11. /\ t.targets[u] \in Seq(Nat)
       /\ \A k \in DOMAIN t.targets[u] :
            k + 1 \in DOMAIN q.targets[u] /\ t.targets[u][k] = q.targets[u][k + 1] /\ k \in Nat \ {0}
  <2>1. q.targets[u] \in Seq(Nat) /\ t.targets[u] = Shift(q.targets[u])
    BY <1>3, <1>4
  <2> QED
    BY <2>1, ShiftFacts
<1>12. /\ \A k \in DOMAIN q.targets[u] : q.targets[u][k] \in DOMAIN q.requests
       /\ \A z \in PageUrls : \A k \in DOMAIN q.targets[z] : q.targets[z][k] \in DOMAIN q.requests
  BY <1>1, <1>3 DEF Shape
<1> HIDE DEF t, u, w, a, n, r, h
<1>13. Shape(t)
  <2>1. \A s \in Requests : t.byId[s] \in 0 .. Len(t.requests)
    <3>1. Len(t.requests) = Len(q.requests) + 1
      BY <1>3 DEF n
    <3>2. \A s \in Requests : q.byId[s] \in 0 .. Len(q.requests)
      BY <1>1 DEF Shape
    <3> QED
      BY <1>3, <1>4, <1>9, <3>1, <3>2
  <2>2. ASSUME NEW z \in PageUrls
        PROVE  /\ \A k \in DOMAIN t.byUrl[z] : t.byUrl[z][k] \in DOMAIN t.requests
               /\ \A k \in DOMAIN t.targets[z] : t.targets[z][k] \in DOMAIN t.requests
    <3>1. \A k \in DOMAIN t.targets[z] : t.targets[z][k] \in DOMAIN t.requests
      BY <1>3, <1>10, <1>11, <1>12
    <3>2. \A k \in DOMAIN q.byUrl[z] : q.byUrl[z][k] \in DOMAIN q.requests
      BY <1>1 DEF Shape
    <3>3. CASE z # u
      BY <3>1, <3>2, <3>3, <1>3, <1>10
    <3>4. CASE z = u
      <4>1. t.byUrl[u] = Append(q.byUrl[u], n) /\ q.byUrl[u] \in Seq(Nat)
        BY <1>3, <1>4
      <4>2. \A b \in Seq(Nat) : \A k \in DOMAIN Append(b, n) :
              Append(b, n)[k] = n \/ (k \in DOMAIN b /\ Append(b, n)[k] = b[k])
        <5> SUFFICES ASSUME NEW b \in Seq(Nat), NEW k \in DOMAIN Append(b, n)
                     PROVE  Append(b, n)[k] = n \/ (k \in DOMAIN b /\ Append(b, n)[k] = b[k])
          OBVIOUS
        <5>1. /\ Len(b) \in Nat /\ DOMAIN b = 1 .. Len(b)
              /\ DOMAIN Append(b, n) = 1 .. Len(b) + 1
          BY <1>3
        <5>2. CASE k = Len(b) + 1
          <6>1. Append(b, n)[Len(b) + 1] = n
            OBVIOUS
          <6> QED
            BY <5>2, <6>1
        <5>3. CASE k # Len(b) + 1
          <6>1. k \in 1 .. Len(b)
            BY <5>1, <5>3
          <6> QED
            BY <5>1, <6>1, <1>3
        <5> QED
          BY <5>2, <5>3
      <4> QED
        BY <3>1, <3>2, <3>4, <4>1, <4>2, <1>3
    <3> QED
      BY <3>3, <3>4
  <2>3. ASSUME NEW i \in DOMAIN t.requests
        PROVE  /\ t.requests[i].response \in 0 .. Len(t.responses)
               /\ t.requests[i].hop \in 0 .. Len(Chain[t.requests[i].id])
               /\ t.requests[i].url = UrlOf(t.requests[i].id, t.requests[i].hop)
    <3>1. CASE i = n
      <4>1. Len(Chain[r]) \in Nat
        BY <1>3, ChainFacts
      <4> QED
        BY <3>1, <4>1, <1>2, <1>3, <1>4, <1>5 DEF u
    <3>2. CASE i \in DOMAIN q.requests
      BY <3>2, <1>1, <1>3 DEF Shape
    <3> QED
      BY <3>1, <3>2, <1>3
  <2> QED
    BY <1>3, <2>1, <2>2, <2>3 DEF Shape
<1>14. Current(t, w, o)
  <2> SUFFICES ASSUME NEW s \in Requests
               PROVE  /\ w[s].hop = 0 => s \in o["overtaken"] \/ t.byId[s] = 0
                      /\ w[s].hop # 0 =>
                           /\ t.byId[s] # 0
                           /\ t.requests[t.byId[s]].id = s
                           /\ t.requests[t.byId[s]].hop = w[s].hop
                           /\ t.requests[t.byId[s]].response = 0 <=> w[s].open
    BY DEF Current
  <2>1. CASE s = r
    BY <2>1, <1>3, <1>5, <1>6, <1>7, <1>9
  <2>2. CASE s # r
    <3>1. w[s] = v[s] /\ t.byId[s] = q.byId[s]
      BY <2>2, <1>7, <1>9
    <3>2. v[s].hop = 0 => s \in o["overtaken"] \/ q.byId[s] = 0
      BY <1>1 DEF Current
    <3>3. ASSUME v[s].hop # 0
          PROVE  /\ t.byId[s] # 0
                 /\ t.requests[t.byId[s]].id = s
                 /\ t.requests[t.byId[s]].hop = v[s].hop
                 /\ t.requests[t.byId[s]].response = 0 <=> v[s].open
      <4>1. /\ q.byId[s] # 0 /\ q.requests[q.byId[s]].id = s
            /\ q.requests[q.byId[s]].hop = v[s].hop
            /\ q.requests[q.byId[s]].response = 0 <=> v[s].open
        BY <3>3, <1>1 DEF Current
      <4>2. t.requests[q.byId[s]] = q.requests[q.byId[s]]
        BY <4>1, <1>3, <1>4
      <4> QED
        BY <4>1, <4>2, <3>1
    <3> QED
      BY <3>1, <3>2, <3>3
  <2> QED
    BY <2>1, <2>2
<1>15. Objects(t, w, o)
  <2> SUFFICES ASSUME NEW i \in DOMAIN t.requests, t.requests[i].id \notin o["overtaken"]
               PROVE  /\ 1 <= t.requests[i].hop /\ t.requests[i].hop <= w[t.requests[i].id].hop
                      /\ t.requests[i].response = 0 => i = t.byId[t.requests[i].id]
                      /\ \A j \in DOMAIN t.requests :
                           t.requests[j].id = t.requests[i].id /\ t.requests[j].hop = t.requests[i].hop => j = i
    BY DEF Objects
  <2>1. \A j \in DOMAIN q.requests : q.requests[j].id \in Requests /\ q.requests[j].hop \in Nat
    BY <1>4 DEF RequestSet
  <2>2. ASSUME r \notin o["overtaken"], NEW j \in DOMAIN q.requests, q.requests[j].id = r
        PROVE  q.requests[j].hop < h /\ q.requests[j].response # 0 /\ 1 <= q.requests[j].hop
    <3>1. 1 <= q.requests[j].hop /\ q.requests[j].hop <= v[r].hop
          /\ (q.requests[j].response = 0 => j = q.byId[r])
      BY <2>2, <1>1 DEF Objects
    <3>2. v[r].hop # 0 /\ h = v[r].hop + 1 /\ ~v[r].open
      BY <3>1, <2>1, <2>2, <1>3, <1>6, <1>8
    <3>3. q.requests[q.byId[r]].response # 0
      BY <3>2, <1>1, <1>3 DEF Current
    <3> QED
      BY <3>1, <3>2, <3>3, <2>1, <1>3, <1>8
  <2>3. CASE i = n
    <3>1. t.requests[i] = a /\ r \notin o["overtaken"]
      BY <2>3, <1>3, <1>5
    <3>2. \A j \in DOMAIN q.requests : t.requests[j] = q.requests[j]
      BY <1>3
    <3>3. \A j \in DOMAIN t.requests :
            t.requests[j].id = r /\ t.requests[j].hop = h => j = n
      BY <3>1, <3>2, <2>1, <2>2, <1>2, <1>3
    <3> QED
      BY <3>1, <3>3, <2>3, <1>2, <1>3, <1>5, <1>6, <1>7, <1>8, <1>9
  <2>4. CASE i \in DOMAIN q.requests
    <3> DEFINE s == q.requests[i].id
    <3>1. t.requests[i] = q.requests[i] /\ s \in Requests /\ s \notin o["overtaken"]
      BY <2>4, <2>1, <1>3
    <3>2. /\ 1 <= q.requests[i].hop /\ q.requests[i].hop <= v[s].hop
          /\ q.requests[i].response = 0 => i = q.byId[s]
          /\ \A j \in DOMAIN q.requests :
               q.requests[j].id = s /\ q.requests[j].hop = q.requests[i].hop => j = i
      BY <2>4, <3>1, <1>1 DEF Objects
    <3>3. CASE s = r
      <4>1. q.requests[i].hop < h /\ q.requests[i].response # 0
        BY <3>1, <3>3, <2>2, <2>4
      <4>2. w[s].hop = h
        BY <3>1, <3>3, <1>6, <1>7
      <4>3. \A j \in DOMAIN t.requests :
              t.requests[j].id = s /\ t.requests[j].hop = q.requests[i].hop => j = i
        BY <3>2, <4>1, <1>2, <1>3, <1>5, <2>1, <2>4
      <4> QED
        BY <3>1, <3>2, <4>1, <4>2, <4>3, <1>2, <2>1, <2>4
    <3>4. CASE s # r
      <4>1. w[s] = v[s] /\ t.byId[s] = q.byId[s]
        BY <3>1, <3>4, <1>7, <1>9
      <4>2. \A j \in DOMAIN t.requests :
              t.requests[j].id = s /\ t.requests[j].hop = q.requests[i].hop => j = i
        BY <3>2, <3>4, <1>3, <1>5
      <4> QED
        BY <3>1, <3>2, <4>1, <4>2
    <3> QED
      BY <3>3, <3>4
  <2> QED
    BY <2>3, <2>4, <1>3
<1>16. Answers(t)
  BY <1>1, <1>3 DEF Answers
<1>17. Redirected(t, w, o)
  <2> SUFFICES ASSUME NEW s \in Requests, s \notin o["crossed"], s \notin o["overtaken"]
               PROVE  /\ \A z \in PageUrls : \A k \in DOMAIN t.targets[z] :
                           t.requests[t.targets[z][k]].id = s =>
                             /\ t.targets[z][k] = t.byId[s]
                             /\ ~w[s].open
                             /\ w[s].hop < w[s].hops
                             /\ z = Chain[s][w[s].hop + 1]
                             /\ \A l \in DOMAIN t.targets[z] : t.targets[z][l] = t.targets[z][k] => l = k
                      /\ w[s].hop # 0 /\ ~w[s].open /\ w[s].hop < w[s].hops =>
                           \E k \in DOMAIN t.targets[Chain[s][w[s].hop + 1]] :
                             t.targets[Chain[s][w[s].hop + 1]][k] = t.byId[s]
    BY DEF Redirected
  <2>1. \A z \in PageUrls : \A k \in DOMAIN t.targets[z] :
          t.requests[t.targets[z][k]] = q.requests[t.targets[z][k]]
    BY <1>3, <1>10, <1>11, <1>12
  <2>2. /\ \A z \in PageUrls : \A k \in DOMAIN q.targets[z] :
             q.requests[q.targets[z][k]].id = s =>
               /\ q.targets[z][k] = q.byId[s]
               /\ ~v[s].open
               /\ v[s].hop < v[s].hops
               /\ z = Chain[s][v[s].hop + 1]
               /\ \A l \in DOMAIN q.targets[z] : q.targets[z][l] = q.targets[z][k] => l = k
        /\ v[s].hop # 0 /\ ~v[s].open /\ v[s].hop < v[s].hops =>
             \E k \in DOMAIN q.targets[Chain[s][v[s].hop + 1]] :
               q.targets[Chain[s][v[s].hop + 1]][k] = q.byId[s]
    BY <1>1 DEF Redirected
  <2>3. CASE s # r
    <3>1. \A k \in DOMAIN q.targets[u] : q.requests[q.targets[u][k]].id # s
      BY <2>3, <1>6
    <3>2. \A k \in DOMAIN t.targets[u] : t.requests[t.targets[u][k]].id # s
      <4> SUFFICES ASSUME NEW k \in DOMAIN t.targets[u]
                   PROVE  t.requests[t.targets[u][k]].id # s
        OBVIOUS
      <4>1. k + 1 \in DOMAIN q.targets[u] /\ t.targets[u][k] = q.targets[u][k + 1]
        BY <1>11
      <4>2. q.requests[q.targets[u][k + 1]].id # s
        BY <3>1, <4>1
      <4>3. t.requests[t.targets[u][k]] = q.requests[t.targets[u][k]]
        BY <2>1, <1>3
      <4> QED
        BY <4>1, <4>2, <4>3
    <3>3. w[s] = v[s] /\ t.byId[s] = q.byId[s]
      BY <2>3, <1>7, <1>9
    <3>4. \A z \in PageUrls : \A k \in DOMAIN t.targets[z] :
            t.requests[t.targets[z][k]].id = s =>
              /\ t.targets[z][k] = t.byId[s]
              /\ ~w[s].open
              /\ w[s].hop < w[s].hops
              /\ z = Chain[s][w[s].hop + 1]
              /\ \A l \in DOMAIN t.targets[z] : t.targets[z][l] = t.targets[z][k] => l = k
      <4> SUFFICES ASSUME NEW z \in PageUrls, NEW k \in DOMAIN t.targets[z],
                          t.requests[t.targets[z][k]].id = s
                   PROVE  /\ t.targets[z][k] = t.byId[s]
                          /\ ~w[s].open
                          /\ w[s].hop < w[s].hops
                          /\ z = Chain[s][w[s].hop + 1]
                          /\ \A l \in DOMAIN t.targets[z] : t.targets[z][l] = t.targets[z][k] => l = k
        OBVIOUS
      <4>1. z # u
        BY <3>2
      <4>2. t.targets[z] = q.targets[z] /\ q.requests[q.targets[z][k]].id = s
        BY <4>1, <1>10, <2>1
      <4> QED
        BY <4>2, <2>2, <3>3
    <3>5. ASSUME w[s].hop # 0, ~w[s].open, w[s].hop < w[s].hops
          PROVE  \E k \in DOMAIN t.targets[Chain[s][w[s].hop + 1]] :
                   t.targets[Chain[s][w[s].hop + 1]][k] = t.byId[s]
      <4> DEFINE z == Chain[s][v[s].hop + 1]
      <4>1. PICK k \in DOMAIN q.targets[z] : q.targets[z][k] = q.byId[s]
        BY <3>3, <3>5, <2>2
      <4>2. q.requests[q.byId[s]].id = s
        BY <3>3, <3>5, <1>1 DEF Current
      <4>3. z # u
        BY <3>1, <4>1, <4>2
      <4>4. z \in PageUrls
        <5>1. v[s].hop + 1 \in 1 .. Len(Chain[s])
          BY <3>3, <3>5, <1>8, ChainFacts DEF ViewOK
        <5> QED
          BY <5>1, ChainFacts DEF PageUrls
      <4>5. t.targets[z] = q.targets[z]
        BY <4>3, <4>4, <1>10
      <4> QED
        BY <4>1, <4>5, <3>3
    <3> QED
      BY <3>4, <3>5
  <2>4. CASE s = r
    <3>1. r \notin o["crossed"] /\ r \notin o["overtaken"]
      BY <2>4
    <3>2. w[r].open /\ h = v[r].hop + 1 /\ h \in 1 .. Len(Chain[r])
      BY <3>1, <1>2, <1>3, <1>6, <1>7, <1>8, ChainFacts
    <3>3. u = Chain[r][v[r].hop + 1]
      BY <3>2, <1>3, ChainFacts DEF u
    <3>4. \A k \in DOMAIN q.targets[u] : q.requests[q.targets[u][k]].id = r
      BY <3>1, <1>6
    <3>5. ASSUME NEW z \in PageUrls, NEW k \in DOMAIN t.targets[z], t.requests[t.targets[z][k]].id = r
          PROVE  FALSE
      <4>1. CASE z # u
        <5>1. t.targets[z] = q.targets[z] /\ q.requests[q.targets[z][k]].id = r
          BY <4>1, <3>5, <1>10, <2>1
        <5> QED
          BY <5>1, <4>1, <2>2, <2>4, <3>3
      <4>2. CASE z = u
        <5>1. k + 1 \in DOMAIN q.targets[u] /\ k \in Nat \ {0}
          BY <4>2, <1>11
        <5>2. 1 \in DOMAIN q.targets[u]
          <6>1. DOMAIN q.targets[u] = 1 .. Len(q.targets[u])
            BY <1>3, <1>4
          <6> QED
            BY <6>1, <5>1
        <5>3. q.targets[u][1] = q.byId[r] /\ q.targets[u][k + 1] = q.byId[r]
          BY <5>1, <5>2, <3>4, <2>2, <2>4, <1>3
        <5>4. k + 1 = 1
          BY <5>1, <5>2, <5>3, <3>4, <2>2, <2>4, <1>3
        <5> QED
          BY <5>1, <5>4
      <4> QED
        BY <4>1, <4>2
    <3> QED
      BY <2>4, <3>2, <3>5
  <2> QED
    BY <2>3, <2>4
<1>18. Predecessors(t, o)
  <2> SUFFICES ASSUME NEW i \in DOMAIN t.requests, t.requests[i].id \notin o["crossed"],
                      t.requests[i].id \notin o["overtaken"]
               PROVE  IF t.requests[i].hop = 1 THEN t.requests[i].from = 0
                      ELSE /\ t.requests[i].from \in DOMAIN t.requests
                           /\ t.requests[t.requests[i].from].id = t.requests[i].id
                           /\ t.requests[t.requests[i].from].hop + 1 = t.requests[i].hop
    BY DEF Predecessors
  <2>1. CASE i \in DOMAIN q.requests
    BY <2>1, <1>1, <1>3 DEF Predecessors
  <2>2. CASE i = n
    <3>1. t.requests[i] = a /\ r \notin o["crossed"] /\ r \notin o["overtaken"]
      BY <2>2, <1>3, <1>5
    <3>2. from = IF h = 1 THEN 0 ELSE q.byId[r]
      BY <3>1 DEF r, h
    <3>3. CASE h = 1
      BY <3>1, <3>2, <3>3, <1>5
    <3>4. CASE h # 1
      <4>1. v[r].hop # 0 /\ h = v[r].hop + 1
        BY <3>1, <3>4, <1>3, <1>6, <1>8
      <4>2. q.byId[r] \in DOMAIN q.requests /\ q.requests[q.byId[r]].id = r
            /\ q.requests[q.byId[r]].hop = v[r].hop
        BY <4>1, <1>1, <1>3, <1>4 DEF Current
      <4> QED
        BY <3>1, <3>2, <3>4, <4>1, <4>2, <1>3, <1>5
    <3> QED
      BY <3>3, <3>4
  <2> QED
    BY <2>1, <2>2, <1>3
<1>19. Promises(t, w, o)
  <2> SUFFICES ASSUME NEW i \in DOMAIN t.requests,
                      t.requests[i].id \in Navigations, t.requests[i].id \notin o["abandoned"],
                      t.requests[i].id \notin o["overtaken"]
               PROVE  /\ t.requests[i].response # 0 => t.requests[i].promise = "response"
                      /\ t.requests[i].response = 0 /\ ~w[t.requests[i].id].over =>
                           t.requests[i].promise = "pending"
    BY DEF Promises
  <2>1. CASE i = n
    BY <2>1, <1>3, <1>5
  <2>2. CASE i \in DOMAIN q.requests
    <3>1. t.requests[i] = q.requests[i] /\ q.requests[i].id \in Requests
      BY <2>2, <1>3, <1>4 DEF RequestSet
    <3>2. /\ q.requests[i].response # 0 => q.requests[i].promise = "response"
          /\ q.requests[i].response = 0 /\ ~v[q.requests[i].id].over => q.requests[i].promise = "pending"
      BY <2>2, <3>1, <1>1 DEF Promises
    <3>3. CASE q.requests[i].id = r
      <4>1. q.requests[i].response # 0
        <5>1. SUFFICES ASSUME q.requests[i].response = 0 PROVE FALSE
          OBVIOUS
        <5>2. i = q.byId[r] /\ v[r].hop # 0
          <6>1. 1 <= q.requests[i].hop /\ q.requests[i].hop <= v[r].hop /\ i = q.byId[r]
            BY <5>1, <3>1, <3>3, <2>2, <1>1 DEF Objects
          <6>2. q.requests[i].hop \in Nat /\ v[r].hop \in Nat
            BY <2>2, <1>3, <1>4, <1>8 DEF RequestSet
          <6> QED
            BY <6>1, <6>2
        <5>3. ~v[r].open
          BY <5>2, <3>1, <3>3, <1>6
        <5> QED
          BY <5>1, <5>2, <5>3, <1>1, <1>3 DEF Current
      <4> QED
        BY <4>1, <3>1, <3>2
    <3>4. CASE q.requests[i].id # r
      BY <3>1, <3>2, <3>4, <1>7
    <3> QED
      BY <3>3, <3>4
  <2> QED
    BY <2>1, <2>2, <1>3
<1>20. Headers(t, w, o)
  <2>1. ASSUME NEW i \in DOMAIN t.requests,
               t.requests[i].id \notin o["misdirected"], t.requests[i].id \notin o["overtaken"],
               t.requests[i].hop = 1 \/ t.requests[i].response = 0
        PROVE  /\ t.requests[i].headers.hop = t.requests[i].hop
               /\ t.requests[i].hop \in w[t.requests[i].id].infos => t.requests[i].headers.wire
    <3>1. CASE i = n
      BY <3>1, <2>1, <1>3, <1>5, <1>6, <1>7
    <3>2. CASE i \in DOMAIN q.requests
      <4>1. t.requests[i] = q.requests[i] /\ q.requests[i].id \in Requests /\ q.requests[i].hop \in Nat
        BY <3>2, <1>3, <1>4 DEF RequestSet
      <4>2. /\ q.requests[i].headers.hop = q.requests[i].hop
            /\ q.requests[i].hop \in v[q.requests[i].id].infos => q.requests[i].headers.wire
        BY <2>1, <3>2, <4>1, <1>1 DEF Headers
      <4>3. q.requests[i].hop \in w[q.requests[i].id].infos => q.requests[i].hop \in v[q.requests[i].id].infos
        <5>1. CASE q.requests[i].id = r
          <6>1. q.requests[i].hop <= v[r].hop /\ h = v[r].hop + 1
            BY <5>1, <4>1, <3>2, <2>1, <1>1, <1>6 DEF Objects
          <6>2. q.requests[i].hop # h
            BY <6>1, <4>1, <1>2, <1>3, <1>8
          <6> QED
            BY <5>1, <6>2, <4>1, <2>1, <1>6, <1>7
        <5>2. CASE q.requests[i].id # r
          BY <5>2, <4>1, <1>7
        <5> QED
          BY <5>1, <5>2
      <4> QED
        BY <4>1, <4>2, <4>3
    <3> QED
      BY <3>1, <3>2, <1>3
  <2>2. \A k \in DOMAIN t.responses :
          t.responses[k].headers.hop = t.responses[k].hop \/ t.responses[k].id \in o["overtaken"]
    BY <1>1, <1>3 DEF Headers
  <2> QED
    BY <2>1, <2>2 DEF Headers
<1>21. PageInv(t, w, o)
  BY <1>13, <1>14, <1>15, <1>16, <1>17, <1>18, <1>19, <1>20 DEF PageInv
<1> QED
  BY <1>21 DEF t, w, r

\* A Request may be replaced by one that differs in nothing that matters.
LEMMA ReplacedKeeps ==
  ASSUME NEW p, NEW v, NEW o, PageInv(p, v, o), NEW i \in DOMAIN p.requests,
         NEW a \in RequestSet,
         a.id = p.requests[i].id, a.hop = p.requests[i].hop, a.url = p.requests[i].url,
         a.response = p.requests[i].response, a.from = p.requests[i].from,
         a.headers = p.requests[i].headers, a.promise = p.requests[i].promise
  PROVE  /\ PageInv([p EXCEPT !.requests[i] = a], v, o)
         /\ Alike(p, [p EXCEPT !.requests[i] = a])
<1> DEFINE q == [p EXCEPT !.requests = [p.requests EXCEPT ![i] = a]]
<1>1. /\ Alike(p, q) /\ q.requests[i] = a
      /\ \A j \in DOMAIN p.requests : j # i => q.requests[j] = p.requests[j]
      /\ q = [p EXCEPT !.requests[i] = a]
  BY ReplaceRequest
<1> HIDE DEF q
<1>2. Headers(q, v, o)
  BY <1>1, AlikeHeaders
<1>3. /\ Shape(q) /\ Current(q, v, o) /\ Objects(q, v, o) /\ Answers(q)
      /\ Redirected(q, v, o) /\ Predecessors(q, o)
      /\ DOMAIN q.requests = DOMAIN p.requests
  BY <1>1, AlikeKeeps
<1>4. Promises(q, v, o)
  <2>1. Promises(p, v, o)
    BY DEF PageInv
  <2>2. \A j \in DOMAIN p.requests :
          /\ q.requests[j].promise = p.requests[j].promise
          /\ q.requests[j].response = p.requests[j].response
          /\ q.requests[j].id = p.requests[j].id
    BY <1>1 DEF Alike
  <2> QED
    BY <2>1, <2>2, <1>3 DEF Promises
<1> QED
  BY <1>1, <1>2, <1>3, <1>4 DEF PageInv

\* The Request that a new one is redirected from.
LEMMA RedirectSourceFound ==
  ASSUME NEW p, NEW v, NEW o, PageInv(p, v, o), ViewOK(v, o), NEW e \in EventSet,
         NEW x, Fits(p, v, o, e, x)
  PROVE  /\ RedirectSource(p, e) \in 0 .. Len(p.requests)
         /\ e.id \notin o["crossed"] /\ e.id \notin o["overtaken"] =>
              RedirectSource(p, e) = IF e.hop = 1 THEN 0 ELSE p.byId[e.id]
<1> DEFINE r == e.id
           h == e.hop
           u == UrlOf(r, h)
           from == RedirectSource(p, e)
<1>1. Shape(p) /\ Current(p, v, o) /\ Objects(p, v, o) /\ Redirected(p, v, o)
  BY DEF PageInv
<1>2. r \in Requests /\ h \in Nat /\ h <= Len(Chain[r])
  BY DEF Fits, EventSet
<1>3. u \in PageUrls /\ (h # 0 => u = Chain[r][h])
  BY <1>2, ChainFacts
<1>4. /\ p.targets[u] \in Seq(Nat) /\ Len(p.requests) \in Nat
      /\ DOMAIN p.requests = 1 .. Len(p.requests)
      /\ p.byId[r] \in 0 .. Len(p.requests)
      /\ \A k \in DOMAIN p.targets[u] : p.targets[u][k] \in DOMAIN p.requests
  <2>1. p.targets \in [PageUrls -> Seq(Nat)]
    BY <1>1, PageFacts
  <2>2. p.byId[r] \in 0 .. Len(p.requests)
        /\ \A k \in DOMAIN p.targets[u] : p.targets[u][k] \in DOMAIN p.requests
    BY <1>1, <1>2, <1>3 DEF Shape
  <2> QED
    BY <1>1, <1>3, <2>1, <2>2, PageFacts
<1>5. v[r].hop \in Nat /\ v[r].hops \in Nat
  BY <1>2 DEF ViewOK, ViewSet
<1>6. /\ r \notin o["overtaken"] =>
           h = v[r].hop + 1 /\ h <= v[r].hops /\ (v[r].hop = 0 \/ ~v[r].open)
      /\ \A k \in DOMAIN p.targets[u] :
           \/ p.requests[p.targets[u][k]].id = r
           \/ (p.requests[p.targets[u][k]].id \in o["crossed"] /\ r \in o["crossed"])
  BY DEF Fits
<1> HIDE DEF u, r, h
<1>7. CASE p.targets[u] # <<>>
  <2>1. 1 \in DOMAIN p.targets[u] /\ Head(p.targets[u]) = p.targets[u][1]
    BY <1>4, <1>7
  <2>2. from = p.targets[u][1]
    BY <1>7, <2>1 DEF RedirectSource, u, r, h
  <2>3. from \in 0 .. Len(p.requests)
    BY <1>4, <2>1, <2>2
  <2>4. ASSUME r \notin o["crossed"], r \notin o["overtaken"]
        PROVE  h # 1 /\ from = p.byId[r]
    <3>1. p.requests[p.targets[u][1]].id = r
      BY <1>6, <2>1, <2>4
    <3>2. p.targets[u][1] = p.byId[r]
      BY <1>1, <1>2, <1>3, <2>1, <2>4, <3>1 DEF Redirected
    <3>3. 1 <= p.requests[p.targets[u][1]].hop /\ p.requests[p.targets[u][1]].hop <= v[r].hop
      BY <1>1, <1>4, <2>1, <2>4, <3>1 DEF Objects
    <3>4. p.requests[p.targets[u][1]].hop \in Nat
      BY <1>1, <1>4, <2>1, PageFacts DEF RequestSet
    <3> QED
      BY <1>5, <1>6, <2>2, <2>4, <3>2, <3>3, <3>4
  <2> QED
    BY <2>3, <2>4 DEF r, h
<1>8. CASE p.targets[u] = <<>>
  <2>1. from = 0 \/ from = p.byId[r]
    BY <1>8 DEF RedirectSource, u, r, h
  <2>2. from \in 0 .. Len(p.requests)
    BY <1>4, <2>1
  <2>3. ASSUME r \notin o["crossed"], r \notin o["overtaken"]
        PROVE  h = 1 /\ from = 0
    <3>1. CASE v[r].hop = 0
      <4>1. p.byId[r] = 0
        BY <1>1, <1>2, <2>3, <3>1 DEF Current
      <4> QED
        BY <1>6, <2>1, <2>3, <3>1, <4>1
    <3>2. CASE v[r].hop # 0
      <4>1. ~v[r].open /\ v[r].hop < v[r].hops /\ u = Chain[r][v[r].hop + 1]
        BY <1>3, <1>5, <1>6, <2>3, <3>2
      <4>2. \E k \in DOMAIN p.targets[u] : p.targets[u][k] = p.byId[r]
        BY <1>1, <1>2, <2>3, <3>2, <4>1 DEF Redirected
      <4>3. DOMAIN p.targets[u] = {}
        BY <1>8
      <4> QED
        BY <4>2, <4>3
    <3> QED
      BY <3>1, <3>2
  <2> QED
    BY <2>2, <2>3 DEF r, h
<1> QED
  BY <1>7, <1>8

\* So does the whole of AddRequest, which also gives up on navigations.
LEMMA RequestAdded ==
  ASSUME NEW p, NEW v, NEW o, PageInv(p, v, o), ViewOK(v, o), NEW e \in EventSet,
         NEW x, Fits(p, v, o, e, x), NEW navigates \in BOOLEAN,
         navigates =>
           \A n \in Navigations :
             v[n].hop # 0 /\ v[n].open => n \in o["abandoned"] \/ n \in o["overtaken"]
  PROVE  /\ PageInv(AddRequest(p, e, navigates), [v EXCEPT ![e.id] = x], o)
         /\ \A u \in PageUrls :
              Waiting(AddRequest(p, e, navigates), u) \subseteq Waiting(p, u)
         /\ AddRequest(p, e, navigates).byId[e.id] \in
              DOMAIN AddRequest(p, e, navigates).requests
<1> DEFINE r == e.id
           u == UrlOf(r, e.hop)
           from == RedirectSource(p, e)
           q == IF navigates THEN ResolveDangling(p) ELSE p
           n == Len(q.requests) + 1
           t == Append1(q, e, from)
           w == [v EXCEPT ![r] = x]
           a == [t.requests[from] EXCEPT !.to = n]
<1>1. Shape(p) /\ p \in PageSet
  BY DEF PageInv, Shape
<1>2. PageInv(q, v, o) /\ Alike(p, q)
  <2>1. CASE navigates
    BY <2>1, ResolveKeeps
  <2>2. CASE ~navigates
    <3>1. Alike(p, p)
      BY <1>1 DEF Alike
    <3> QED
      BY <2>2, <3>1
  <2> QED
    BY <2>1, <2>2
<1>3. r \in Requests /\ u \in PageUrls /\ e.hop <= Len(Chain[r])
  <2>1. e.hop \in Nat /\ r \in Requests /\ e.hop <= Len(Chain[r])
    BY DEF EventSet, Fits
  <2> QED
    BY <2>1, ChainFacts
<1>4. /\ q.byId = p.byId /\ q.targets = p.targets /\ Len(q.requests) = Len(p.requests)
      /\ \A i \in DOMAIN p.requests : q.requests[i].id = p.requests[i].id
  BY <1>2 DEF Alike
<1>5. Fits(q, v, o, e, x)
  <2>1. \A k \in DOMAIN p.targets[u] : p.targets[u][k] \in DOMAIN p.requests
    BY <1>1, <1>3 DEF Shape
  <2> HIDE DEF q, from, n, t, w, a
  <2> QED
    BY <1>4, <2>1 DEF Fits
<1>6. /\ from \in 0 .. Len(q.requests)
      /\ r \notin o["crossed"] /\ r \notin o["overtaken"] =>
           from = IF e.hop = 1 THEN 0 ELSE q.byId[r]
  BY <1>4, RedirectSourceFound
<1>7. AddRequest(p, e, navigates) = IF from = 0 THEN t ELSE [t EXCEPT !.requests[from].to = n]
  BY DEF AddRequest, Append1
<1> HIDE DEF q, from
<1>8. PageInv(t, w, o)
  BY <1>2, <1>5, <1>6, AppendedKeeps
<1>9. /\ n \in Nat /\ t \in PageSet /\ DOMAIN t.requests = DOMAIN q.requests \cup {n}
      /\ \A i \in DOMAIN q.requests : t.requests[i] = q.requests[i]
      /\ t.byId = [q.byId EXCEPT ![r] = n]
      /\ t.targets = [q.targets EXCEPT ![u] = Shift(q.targets[u])]
  <2>1. e.id \in Requests /\ e.hop <= Len(Chain[e.id]) /\ from \in 0 .. Len(q.requests)
    BY <1>3, <1>6
  <2> QED
    <3>1. Appended(q, t, e, from)
      BY <1>2, <2>1, AppendedFacts
    <3> QED
      BY <3>1 DEF Appended
<1>10. /\ q.targets \in [PageUrls -> Seq(Nat)] /\ q.byId \in [Requests -> Nat]
       /\ DOMAIN q.requests = 1 .. Len(q.requests) /\ Len(q.requests) \in Nat
       /\ \A z \in PageUrls : \A k \in DOMAIN q.targets[z] : q.targets[z][k] \in DOMAIN q.requests
  <2>1. Shape(q)
    BY <1>2 DEF PageInv
  <2>2. \A z \in PageUrls : \A k \in DOMAIN q.targets[z] : q.targets[z][k] \in DOMAIN q.requests
    BY <2>1 DEF Shape
  <2> QED
    BY <2>1, <2>2, PageFacts
<1>11. ASSUME NEW z \in PageUrls PROVE Waiting(t, z) \subseteq Waiting(p, z)
  <2>1. Waiting(p, z) = Waiting(q, z)
    BY <1>2, AlikeWaiting
  <2> HIDE DEF t, n, u
  <2>2. CASE z # u
    <3>1. t.targets[z] = q.targets[z]
      BY <1>9, <1>10, <2>2
    <3>2. \A k \in DOMAIN q.targets[z] : t.requests[q.targets[z][k]] = q.requests[q.targets[z][k]]
      BY <1>9, <1>10
    <3> QED
      BY <2>1, <3>1, <3>2 DEF Waiting
  <2>3. CASE z = u
    <3>1. t.targets[z] = Shift(q.targets[z]) /\ q.targets[z] \in Seq(Nat)
      BY <1>9, <1>10, <2>3
    <3>2. \A k \in DOMAIN t.targets[z] : k + 1 \in DOMAIN q.targets[z] /\ t.targets[z][k] = q.targets[z][k + 1]
      BY <3>1, ShiftFacts
    <3>3. \A k \in DOMAIN t.targets[z] : t.requests[t.targets[z][k]].id \in Waiting(q, z)
      <4> SUFFICES ASSUME NEW k \in DOMAIN t.targets[z]
                   PROVE  t.requests[t.targets[z][k]].id \in Waiting(q, z)
        OBVIOUS
      <4>1. k + 1 \in DOMAIN q.targets[z] /\ t.targets[z][k] = q.targets[z][k + 1]
        BY <3>2
      <4>2. t.requests[q.targets[z][k + 1]] = q.requests[q.targets[z][k + 1]]
        BY <1>9, <1>10, <4>1
      <4>3. q.requests[q.targets[z][k + 1]].id \in Waiting(q, z)
        BY <4>1 DEF Waiting
      <4> QED
        BY <4>1, <4>2, <4>3
    <3> QED
      BY <2>1, <3>3 DEF Waiting
  <2> QED
    BY <2>2, <2>3
<1>12. t.byId[r] = n /\ n \in DOMAIN t.requests
  BY <1>3, <1>9, <1>10
<1>13. CASE from = 0
  BY <1>7, <1>8, <1>11, <1>12, <1>13
<1>14. CASE from # 0
  <2>1. from \in DOMAIN t.requests
    BY <1>6, <1>9, <1>10, <1>14
  <2>2. t.requests[from] \in RequestSet
    <3>1. Shape(t)
      BY <1>8 DEF PageInv
    <3> HIDE DEF t
    <3> QED
      BY <2>1, <3>1, PageFacts
  <2> HIDE DEF t, n, w
  <2>3. /\ a \in RequestSet /\ a.id = t.requests[from].id /\ a.hop = t.requests[from].hop
        /\ a.url = t.requests[from].url /\ a.response = t.requests[from].response
        /\ a.from = t.requests[from].from /\ a.headers = t.requests[from].headers
        /\ a.promise = t.requests[from].promise
    BY <1>9, <2>2 DEF RequestSet
  <2>4. [t EXCEPT !.requests[from].to = n] = [t EXCEPT !.requests[from] = a]
    OBVIOUS
  <2> HIDE DEF a
  <2> DEFINE d == [t EXCEPT !.requests[from] = a]
  <2>5. PageInv(d, w, o) /\ Alike(t, d)
    BY <1>8, <2>1, <2>3, ReplacedKeeps
  <2>6. AddRequest(p, e, navigates) = d
    BY <1>7, <1>14, <2>4
  <2> HIDE DEF d
  <2>7. \A z \in PageUrls : Waiting(d, z) \subseteq Waiting(p, z)
    BY <1>8, <1>11, <2>5, AlikeWaiting
  <2>8. DOMAIN d.requests = DOMAIN t.requests /\ d.byId = t.byId
    BY <1>8, <2>5, AlikeKeeps DEF Alike
  <2> QED
    BY <1>12, <2>5, <2>6, <2>7, <2>8 DEF w
<1> QED
  BY <1>13, <1>14

-----------------------------------------------------------------------------
(* The events that make a Request or a Response.                           *)

\* When r navigates, the navigations that are not answered are given up.
OthersGivenUp(v, o, r) ==
  r \in Navigations =>
    \A n \in Navigations :
      v[n].hop # 0 /\ v[n].open => n \in o["abandoned"] \/ n \in o["overtaken"]

\* A request event makes the object of its hop, linked to the hop before.
LEMMA RequestObserved ==
  ASSUME NEW p, NEW v, NEW o, PageInv(p, v, o), ViewOK(v, o), NEW e \in EventSet,
         NEW x, Fits(p, v, o, e, x), OthersGivenUp(v, o, e.id)
  PROVE  /\ PageInv(ObserveRequest(p, e), [v EXCEPT ![e.id] = x], o)
         /\ \A u \in PageUrls : Waiting(ObserveRequest(p, e), u) \subseteq Waiting(p, u)
<1> DEFINE navigates == e.id \in Navigations /\ e.hop # 0
<1>1. navigates \in BOOLEAN /\ ObserveRequest(p, e) = AddRequest(p, e, navigates)
  BY DEF ObserveRequest
<1>2. navigates =>
        \A n \in Navigations :
          v[n].hop # 0 /\ v[n].open => n \in o["abandoned"] \/ n \in o["overtaken"]
  BY DEF OthersGivenUp
<1> HIDE DEF navigates
<1> QED
  BY <1>1, <1>2, RequestAdded

\* An object that is told twice to be complete is complete.
LEMMA CompletedKeeps ==
  ASSUME NEW p, NEW v, NEW o, PageInv(p, v, o), NEW i \in DOMAIN p.requests
  PROVE  LET q == FinishResponse([p EXCEPT !.requests[i].completed = TRUE], p.requests[i].response)
         IN  PageInv(q, v, o) /\ \A u \in PageUrls : Waiting(q, u) = Waiting(p, u)
<1> DEFINE a == [p.requests[i] EXCEPT !.completed = TRUE]
           t == [p EXCEPT !.requests[i] = a]
           q == FinishResponse(t, p.requests[i].response)
<1>1. p.requests[i] \in RequestSet /\ p.requests[i].response \in 0 .. Len(p.responses)
      /\ p \in PageSet
  <2>1. Shape(p)
    BY DEF PageInv
  <2>2. p.requests[i].response \in 0 .. Len(p.responses)
    BY <2>1 DEF Shape
  <2> QED
    BY <2>1, <2>2, PageFacts
<1>2. /\ a \in RequestSet /\ a.id = p.requests[i].id /\ a.hop = p.requests[i].hop
      /\ a.url = p.requests[i].url /\ a.response = p.requests[i].response
      /\ a.from = p.requests[i].from /\ a.headers = p.requests[i].headers
      /\ a.promise = p.requests[i].promise
  BY <1>1 DEF RequestSet
<1>3. [p EXCEPT !.requests[i].completed = TRUE] = t
  OBVIOUS
<1> HIDE DEF a
<1>4. PageInv(t, v, o) /\ Alike(p, t)
  BY <1>2, ReplacedKeeps
<1>5. t.responses = p.responses
  BY <1>1 DEF PageSet
<1> HIDE DEF t
<1>6. PageInv(q, v, o) /\ Alike(t, q)
  BY <1>1, <1>4, <1>5, FinishResponseKeeps
<1>7. \A u \in PageUrls : Waiting(q, u) = Waiting(p, u)
  <2> HIDE DEF q
  <2> QED
    BY <1>4, <1>6, AlikeWaiting
<1> QED
  BY <1>3, <1>6, <1>7

\* The Request of another one is taken over by a request that was overtaken.
LEMMA TakenOver ==
  ASSUME NEW p, NEW v, NEW o, PageInv(p, v, o), NEW r \in Requests, r \in o["overtaken"],
         v[r].hop = 0, NEW u \in PageUrls, Find(p, r, u) # 0
  PROVE  /\ PageInv(Found(p, r, u), v, o)
         /\ Found(p, r, u).byId[r] \in DOMAIN Found(p, r, u).requests
         /\ \A z \in PageUrls : Waiting(Found(p, r, u), z) = Waiting(p, z)
<1> DEFINE q == Found(p, r, u)
           i == Find(p, r, u)
<1>1. Shape(p) /\ Current(p, v, o) /\ Objects(p, v, o) /\ Answers(p) /\ Redirected(p, v, o)
      /\ Predecessors(p, o) /\ Promises(p, v, o) /\ Headers(p, v, o)
  BY DEF PageInv
<1>2. /\ p \in PageSet /\ p.byId \in [Requests -> Nat] /\ p.byUrl \in [PageUrls -> Seq(Nat)]
      /\ DOMAIN p.requests = 1 .. Len(p.requests) /\ Len(p.requests) \in Nat
      /\ \A j \in DOMAIN p.requests : p.requests[j] \in RequestSet
      /\ \A s \in Requests : p.byId[s] # 0 => p.byId[s] \in DOMAIN p.requests
      /\ \A k \in DOMAIN p.byUrl[u] : p.byUrl[u][k] \in DOMAIN p.requests
      /\ \A z \in PageUrls : \A k \in DOMAIN p.targets[z] : p.targets[z][k] \in DOMAIN p.requests
  <2>1. /\ \A k \in DOMAIN p.byUrl[u] : p.byUrl[u][k] \in DOMAIN p.requests
        /\ \A z \in PageUrls : \A k \in DOMAIN p.targets[z] : p.targets[z][k] \in DOMAIN p.requests
    BY <1>1 DEF Shape
  <2> QED
    BY <1>1, <2>1, PageFacts
<1>3. i \in DOMAIN p.requests
  <2>1. CASE p.byId[r] # 0
    BY <2>1, <1>2 DEF Find
  <2>2. CASE p.byId[r] = 0
    <3>1. p.byUrl[u] # <<>> /\ i = Head(p.byUrl[u])
      BY <2>2 DEF Find
    <3>2. 1 \in DOMAIN p.byUrl[u] /\ i = p.byUrl[u][1]
      BY <3>1, <1>2
    <3> QED
      BY <3>2, <1>2
  <2> QED
    BY <2>1, <2>2
<1>4. /\ q.requests = p.requests /\ q.responses = p.responses
      /\ q.byUrl = p.byUrl /\ q.targets = p.targets
      /\ q.byId = [p.byId EXCEPT ![r] = i] /\ q \in PageSet
  <2> HIDE DEF i
  <2>1. q = [p EXCEPT !.byId = [p.byId EXCEPT ![r] = i]]
    BY <1>2 DEF Found, PageSet, i
  <2>2. [p.byId EXCEPT ![r] = i] \in [Requests -> Nat]
    BY <1>2, <1>3
  <2> QED
    BY <1>2, <2>1, <2>2 DEF PageSet
<1> HIDE DEF q, i
<1>5. q.byId[r] = i /\ \A s \in Requests : s # r => q.byId[s] = p.byId[s]
  BY <1>2, <1>4
<1>6. Shape(q)
  <2>1. \A s \in Requests : q.byId[s] \in 0 .. Len(q.requests)
    BY <1>2, <1>3, <1>4, <1>5
  <2> QED
    BY <1>1, <1>4, <2>1 DEF Shape
<1>7. Current(q, v, o)
  BY <1>1, <1>4, <1>5 DEF Current
<1>8. Objects(q, v, o)
  <2>1. \A j \in DOMAIN p.requests : p.requests[j].id \in Requests
    BY <1>2 DEF RequestSet
  <2>2. \A j \in DOMAIN p.requests :
          p.requests[j].id \notin o["overtaken"] => q.byId[p.requests[j].id] = p.byId[p.requests[j].id]
    BY <1>5, <2>1
  <2> QED
    BY <1>1, <1>4, <2>2 DEF Objects
<1>9. Answers(q) /\ Predecessors(q, o) /\ Promises(q, v, o) /\ Headers(q, v, o)
  BY <1>1, <1>4 DEF Answers, Predecessors, Promises, Headers
<1>10. Redirected(q, v, o)
  BY <1>1, <1>4, <1>5 DEF Redirected
<1>11. \A z \in PageUrls : Waiting(q, z) = Waiting(p, z)
  BY <1>4 DEF Waiting
<1> QED
  BY <1>3, <1>4, <1>5, <1>6, <1>7, <1>8, <1>9, <1>10, <1>11 DEF PageInv, q

\* An end that overtakes the only request event.
LEMMA EarlyCompletionObserved ==
  ASSUME NEW p, NEW v, NEW o, PageInv(p, v, o), ViewOK(v, o), NEW e \in EventSet,
         e.id \in o["overtaken"], v[e.id].hop = 0,
         Fits(p, v, o, e, v[e.id]), OthersGivenUp(v, o, e.id)
  PROVE  /\ PageInv(ObserveCompletion(p, e), v, o)
         /\ \A u \in PageUrls : Waiting(ObserveCompletion(p, e), u) \subseteq Waiting(p, u)
<1> DEFINE r == e.id
           u == UrlOf(r, e.hop)
           navigates == r \in Navigations /\ e.hop # 0
           q == Known(p, e, navigates)
<1>1. r \in Requests /\ u \in PageUrls
  <2>1. e.hop \in Nat /\ r \in Requests /\ e.hop <= Len(Chain[r])
    BY DEF EventSet, Fits
  <2> QED
    BY <2>1, ChainFacts
<1>2. /\ PageInv(q, v, o) /\ q.byId[r] \in DOMAIN q.requests
      /\ \A z \in PageUrls : Waiting(q, z) \subseteq Waiting(p, z)
  <2>1. CASE Find(p, r, u) = 0
    <3>1. q = AddRequest(p, e, navigates)
      BY <2>1 DEF Known
    <3>2. navigates \in BOOLEAN /\
            (navigates =>
              \A n \in Navigations :
                v[n].hop # 0 /\ v[n].open => n \in o["abandoned"] \/ n \in o["overtaken"])
      BY DEF OthersGivenUp
    <3>3. [v EXCEPT ![e.id] = v[e.id]] = v
      BY DEF ViewOK
    <3> HIDE DEF q, navigates
    <3> QED
      BY <3>1, <3>2, <3>3, RequestAdded
  <2>2. CASE Find(p, r, u) # 0
    <3>1. q = Found(p, r, u)
      BY <2>2 DEF Known
    <3> HIDE DEF q, u
    <3> QED
      BY <1>1, <2>2, <3>1, TakenOver
  <2> QED
    BY <2>1, <2>2
<1>3. ObserveCompletion(p, e) =
        FinishResponse([q EXCEPT !.requests[q.byId[r]].completed = TRUE],
                       q.requests[q.byId[r]].response)
  BY DEF ObserveCompletion
<1> HIDE DEF q
<1>4. /\ PageInv(ObserveCompletion(p, e), v, o)
      /\ \A z \in PageUrls : Waiting(ObserveCompletion(p, e), z) = Waiting(q, z)
  BY <1>2, <1>3, CompletedKeeps
<1> QED
  BY <1>2, <1>4

-----------------------------------------------------------------------------
(* The answer to a Request.                                                *)

\* What a response event has to be, so that the Response it makes is right.
Answering(v, o, e) ==
  LET r == e.id
  IN  /\ v[r].hop = e.hop /\ e.hop # 0 /\ v[r].open
      /\ v[r].hops = story[r].hops /\ e.hop <= v[r].hops
      /\ ~v[r].over \/ r \in o["overtaken"]
      /\ e.headers.hop = e.hop \/ r \in o["overtaken"]
      /\ \/ e.requestHeaders = NoHeaders
         \/ e.requestHeaders.wire /\ (e.hop = 1 => e.requestHeaders.hop = 1)

\* The Request i that e answers, the page's k-th Response to be.
AnsweredRequest(q, e, k) ==
  [q EXCEPT !.headers = IF e.requestHeaders = NoHeaders THEN q.headers ELSE e.requestHeaders,
            !.response = k,
            !.promise = IF q.promise # "pending" THEN q.promise ELSE "response"]

AnsweredPage(p, e, a) ==
  LET i == p.byId[e.id]
  IN  [p EXCEPT !.responses = Append(p.responses, a),
                !.requests = [p.requests EXCEPT ![i] =
                                AnsweredRequest(p.requests[i], e, Len(p.responses) + 1)]]

\* What a response event does when its request is known and waits for it.
LEMMA ResponseComputed ==
  ASSUME NEW p, NEW v, NEW o, PageInv(p, v, o), NEW e \in EventSet, Answering(v, o, e)
  PROVE  LET i == p.byId[e.id]
             a == NewResponse(e, i, p.requests[i].completed)
             t == AnsweredPage(p, e, a)
         IN  ObserveResponse(p, e) =
               IF e.hop < story[e.id].hops
               THEN [t EXCEPT !.targets[Chain[e.id][e.hop + 1]] = Append(@, i)]
               ELSE t
<1> DEFINE r == e.id
           u == UrlOf(r, e.hop)
           i == p.byId[r]
           k == Len(p.responses) + 1
           b == p.requests[i]
           a == NewResponse(e, i, b.completed)
<1>1. r \in Requests /\ v[r].hop = e.hop /\ e.hop # 0 /\ v[r].open
  BY DEF Answering, EventSet
<1>2. Shape(p)
  BY DEF PageInv
<1>3. /\ i \in DOMAIN p.requests /\ i # 0 /\ b.id = r /\ b.hop = e.hop /\ b \in RequestSet
      /\ b.response = 0
  <2> HIDE DEF r
  <2> QED
    BY <1>1, FoundById
<1>4. b.url = u /\ p \in PageSet
  BY <1>2, <1>3 DEF Shape
<1>5. FindForResponse(p, r, u) = i
  BY <1>3 DEF FindForResponse
<1>6. NewResponse(e, i, i # 0 /\ b.completed) = a
  BY <1>3 DEF NewResponse, RequestSet
<1> DEFINE q == [p EXCEPT !.responses = Append(p.responses, a)]
           b1 == [b EXCEPT !.headers = IF e.requestHeaders = NoHeaders THEN b.headers
                                       ELSE e.requestHeaders]
           b2 == [b1 EXCEPT !.response = k]
           b3 == [b2 EXCEPT !.promise = IF b.promise # "pending" THEN b.promise ELSE "response"]
           Q == p.requests
           t == WithHeaders(q, i, e.requestHeaders)
           w == IF a.redirect THEN t ELSE Move(t, i, u)
           x == [w EXCEPT !.requests[i].response = k]
           z == Answer(q, e, i, k, a.redirect)
<1>7. ObserveResponse(p, e) =
        IF a.redirect THEN [z EXCEPT !.targets[Chain[r][e.hop + 1]] = Append(@, i)] ELSE z
  BY <1>3, <1>5, <1>6 DEF ObserveResponse
<1>z. z = Resolve(x, i, "response")
  BY DEF Answer
<1>8. a.redirect = (e.hop < story[r].hops)
  BY DEF NewResponse
<1> HIDE DEF a, k
<1>9. b1 \in RequestSet /\ b1.url = u /\ b1.promise = b.promise
      /\ (e.requestHeaders = NoHeaders => b1 = b)
  <2>1. e.requestHeaders \in HeaderSet
    BY DEF EventSet
  <2> HIDE DEF b, u
  <2> QED
    BY <1>3, <1>4, <2>1 DEF RequestSet
<1>10. q.requests = Q /\ q = [p EXCEPT !.responses = Append(p.responses, a), !.requests = Q]
  BY <1>4 DEF PageSet
<1>11. t = [p EXCEPT !.responses = Append(p.responses, a), !.requests = [Q EXCEPT ![i] = b1]]
  <2>1. CASE e.requestHeaders = NoHeaders
    <3>1. [Q EXCEPT ![i] = b1] = Q
      <4>1. b1 = Q[i]
        BY <1>9, <2>1
      <4>2. Q \in [1 .. Len(Q) -> RequestSet]
        BY <1>4 DEF PageSet
      <4> HIDE DEF b1, Q, i
      <4> QED
        BY <4>1, <4>2
    <3> QED
      BY <1>10, <2>1, <3>1 DEF WithHeaders
  <2>2. CASE e.requestHeaders # NoHeaders
    <3>1. b1 = [b EXCEPT !.headers = e.requestHeaders]
      BY <2>2
    <3>2. t = [q EXCEPT !.requests = [q.requests EXCEPT ![i] = [q.requests[i] EXCEPT !.headers = e.requestHeaders]]]
      BY <2>2 DEF WithHeaders
    <3>3. t = [q EXCEPT !.requests = [Q EXCEPT ![i] = b1]]
      BY <1>10, <3>1, <3>2
    <3> HIDE DEF b1, i, t, a
    <3> QED
      BY <1>4, <1>10, <3>3 DEF PageSet
  <2> QED
    BY <2>1, <2>2
<1>12. t.requests = [Q EXCEPT ![i] = b1] /\ t.requests[i] = b1
  <2> HIDE DEF t, b1, a, i
  <2> QED
    BY <1>3, <1>4, <1>11 DEF PageSet
<1>13. w = t
  <2> HIDE DEF t, b1
  <2> QED
    BY <1>9, <1>12 DEF Move
<1> HIDE DEF t, w, b1
<1>14. x = [p EXCEPT !.responses = Append(p.responses, a), !.requests = [Q EXCEPT ![i] = b2]]
  <2>1. x = [t EXCEPT !.requests = [t.requests EXCEPT ![i] = [t.requests[i] EXCEPT !.response = k]]]
    BY <1>13
  <2>2. [t.requests EXCEPT ![i] = [t.requests[i] EXCEPT !.response = k]] = [Q EXCEPT ![i] = b2]
    BY <1>12
  <2> HIDE DEF b2, x, i
  <2> QED
    BY <1>4, <1>11, <2>1, <2>2 DEF PageSet
<1>15. b2.promise = b.promise /\ b2 \in RequestSet
  <2>1. k \in Nat
    BY <1>4 DEF k, PageSet
  <2> HIDE DEF b
  <2> QED
    BY <1>9, <2>1 DEF RequestSet
<1>16. x.requests = [Q EXCEPT ![i] = b2] /\ x.requests[i] = b2
  <2> HIDE DEF x, b2, i
  <2> QED
    BY <1>3, <1>4, <1>14 DEF PageSet
<1> HIDE DEF x, b2, z
<1>17. z = [p EXCEPT !.responses = Append(p.responses, a), !.requests = [Q EXCEPT ![i] = b3]]
  <2>1. CASE b.promise # "pending"
    <3>1. b3 = b2
      <4> HIDE DEF b
      <4> QED
        BY <1>15, <2>1 DEF RequestSet
    <3> QED
      BY <1>z, <1>14, <1>15, <1>16, <2>1, <3>1 DEF Resolve
  <2>2. CASE b.promise = "pending"
    <3>1. z = [x EXCEPT !.requests = [x.requests EXCEPT ![i] = [x.requests[i] EXCEPT !.promise = "response"]]]
      BY <1>z, <1>15, <1>16, <2>2 DEF Resolve
    <3>2. [x.requests EXCEPT ![i] = [x.requests[i] EXCEPT !.promise = "response"]] = [Q EXCEPT ![i] = b3]
      BY <1>16, <2>2
    <3> HIDE DEF b3, z, i
    <3> QED
      BY <1>4, <1>14, <3>1, <3>2 DEF PageSet
  <2> QED
    BY <2>1, <2>2
<1>18. b3 = AnsweredRequest(b, e, k)
  <2> HIDE DEF b
  <2> QED
    BY <1>3 DEF AnsweredRequest, b2, b1, RequestSet
<1>19. z = AnsweredPage(p, e, a)
  BY <1>17, <1>18 DEF AnsweredPage, k
<1>20. ObserveResponse(p, e) =
         IF e.hop < story[r].hops
         THEN [z EXCEPT !.targets[Chain[r][e.hop + 1]] = Append(@, i)] ELSE z
  BY <1>7, <1>8
<1> QED
  BY <1>19, <1>20 DEF a

\* What a page t that has observed an answer has of the page p before.
AnswerObserved(p, t, e) ==
  LET r == e.id
      i == p.byId[r]
      k == Len(p.responses) + 1
      a == NewResponse(e, i, p.requests[i].completed)
      b == AnsweredRequest(p.requests[i], e, k)
  IN  /\ t \in PageSet
      /\ DOMAIN t.responses = DOMAIN p.responses \cup {k} /\ Len(t.responses) = k
      /\ k \notin DOMAIN p.responses
      /\ \A j \in DOMAIN p.responses : t.responses[j] = p.responses[j]
      /\ t.responses[k] = a
      /\ DOMAIN t.requests = DOMAIN p.requests /\ Len(t.requests) = Len(p.requests)
      /\ \A j \in DOMAIN p.requests : j # i => t.requests[j] = p.requests[j]
      /\ t.requests[i] = b
      /\ t.byId = p.byId /\ t.byUrl = p.byUrl
      /\ t.targets = IF e.hop < story[r].hops
                     THEN [p.targets EXCEPT ![Chain[r][e.hop + 1]] =
                             Append(p.targets[Chain[r][e.hop + 1]], i)]
                     ELSE p.targets

\* It is linked to the object it answers, and nothing else is touched.
LEMMA AnswerFacts ==
  ASSUME NEW p, NEW v, NEW o, PageInv(p, v, o), ViewOK(v, o), NEW e \in EventSet,
         Answering(v, o, e)
  PROVE  AnswerObserved(p, ObserveResponse(p, e), e)
<1> DEFINE r == e.id
           i == p.byId[r]
           k == Len(p.responses) + 1
           a == NewResponse(e, i, p.requests[i].completed)
           b == AnsweredRequest(p.requests[i], e, k)
           R == [p.requests EXCEPT ![i] = b]
           S == Append(p.responses, a)
           u == Chain[r][e.hop + 1]
           G == IF e.hop < story[r].hops THEN [p.targets EXCEPT ![u] = Append(p.targets[u], i)]
                ELSE p.targets
           t == ObserveResponse(p, e)
<1>1. r \in Requests /\ v[r].hop # 0
  BY DEF Answering, EventSet
<1>2. /\ i \in DOMAIN p.requests /\ p.requests[i] \in RequestSet
  <2> HIDE DEF r
  <2> QED
    BY <1>1, FoundById
<1>3. /\ p \in PageSet /\ p.requests \in Seq(RequestSet) /\ p.responses \in Seq(ResponseSet)
      /\ DOMAIN p.requests = 1 .. Len(p.requests) /\ Len(p.requests) \in Nat
      /\ DOMAIN p.responses = 1 .. Len(p.responses) /\ Len(p.responses) \in Nat
      /\ p.targets \in [PageUrls -> Seq(Nat)]
  <2>1. Shape(p)
    BY DEF PageInv
  <2> QED
    BY <2>1, PageFacts
<1>4. /\ e.hop \in Nat /\ e.hop # 0 /\ e.headers \in HeaderSet /\ e.requestHeaders \in HeaderSet
      /\ v[r].hops = story[r].hops /\ v[r].hops \in Nat /\ v[r].hops <= Len(Chain[r])
  BY <1>1 DEF EventSet, Answering, ViewOK, ViewSet
<1>5. e.hop < story[r].hops => u \in PageUrls
  <2>1. e.hop < story[r].hops => e.hop + 1 \in 1 .. Len(Chain[r])
    BY <1>1, <1>4, ChainFacts
  <2> QED
    BY <1>1, <2>1, ChainFacts DEF PageUrls
<1>6. k \in Nat /\ i \in Nat /\ k \notin DOMAIN p.responses
  BY <1>2, <1>3
<1>7. a \in ResponseSet
  BY <1>1, <1>2, <1>4, <1>6 DEF NewResponse, ResponseSet, RequestSet
<1>8. b \in RequestSet
  <2> DEFINE c == p.requests[i]
  <2> HIDE DEF c, k
  <2>1. c \in RequestSet /\ b = AnsweredRequest(c, e, k)
    BY <1>2 DEF c
  <2> QED
    BY <1>4, <1>6, <2>1 DEF AnsweredRequest, RequestSet
<1> HIDE DEF a, b, u
<1>9. R \in Seq(RequestSet) /\ Len(R) = Len(p.requests) /\ DOMAIN R = DOMAIN p.requests
      /\ R[i] = b /\ \A j \in DOMAIN p.requests : j # i => R[j] = p.requests[j]
  <2> HIDE DEF i
  <2> QED
    BY <1>2, <1>3, <1>8
<1>10. /\ S \in Seq(ResponseSet) /\ Len(S) = k /\ DOMAIN S = DOMAIN p.responses \cup {k}
       /\ S[k] = a /\ \A j \in DOMAIN p.responses : S[j] = p.responses[j]
  BY <1>3, <1>7
<1>11. G \in [PageUrls -> Seq(Nat)]
  <2> HIDE DEF i
  <2>1. CASE e.hop < story[r].hops
    <3>1. Append(p.targets[u], i) \in Seq(Nat)
      BY <1>3, <1>5, <1>6, <2>1
    <3> QED
      BY <1>3, <1>5, <2>1, <3>1
  <2>2. CASE ~(e.hop < story[r].hops)
    BY <1>3, <2>2
  <2> QED
    BY <2>1, <2>2
<1>12. t = [p EXCEPT !.responses = S, !.requests = R, !.targets = G]
  <2> DEFINE z == AnsweredPage(p, e, a)
  <2>1. z = [p EXCEPT !.responses = S, !.requests = R]
    BY DEF AnsweredPage, b
  <2>2. t = IF e.hop < story[r].hops THEN [z EXCEPT !.targets[u] = Append(@, i)] ELSE z
    BY ResponseComputed DEF a, u
  <2> HIDE DEF z, t, R, S, i
  <2> QED
    BY <1>3, <2>1, <2>2 DEF PageSet
<1> HIDE DEF R, S, G, t
<1>13. /\ t.responses = S /\ t.requests = R /\ t.targets = G /\ t.byId = p.byId
       /\ t.byUrl = p.byUrl /\ t \in PageSet
  BY <1>3, <1>9, <1>10, <1>11, <1>12 DEF PageSet
<1> QED
  BY <1>6, <1>9, <1>10, <1>13 DEF AnswerObserved, a, b, G, t, u

\* A response event that is due keeps what is known of the objects.
LEMMA ResponseObserved ==
  ASSUME NEW p, NEW v, NEW o, PageInv(p, v, o), ViewOK(v, o), NEW e \in EventSet,
         Answering(v, o, e)
  PROVE  /\ PageInv(ObserveResponse(p, e), [v EXCEPT ![e.id].open = FALSE], o)
         /\ \A u \in PageUrls :
              Waiting(ObserveResponse(p, e), u) \subseteq Waiting(p, u) \cup {e.id}
         /\ e.hop = story[e.id].hops =>
              \A u \in PageUrls : Waiting(ObserveResponse(p, e), u) \subseteq Waiting(p, u)
<1> DEFINE r == e.id
           i == p.byId[r]
           k == Len(p.responses) + 1
           a == NewResponse(e, i, p.requests[i].completed)
           q == p.requests[i]
           b == AnsweredRequest(q, e, k)
           u == Chain[r][e.hop + 1]
           t == ObserveResponse(p, e)
           w == [v EXCEPT ![r].open = FALSE]
<1>1. Shape(p) /\ Current(p, v, o) /\ Objects(p, v, o) /\ Answers(p) /\ Redirected(p, v, o)
      /\ Predecessors(p, o) /\ Promises(p, v, o) /\ Headers(p, v, o)
  BY DEF PageInv
<1>2. /\ r \in Requests /\ v[r].hop = e.hop /\ e.hop # 0 /\ v[r].open /\ e.hop \in Nat
      /\ v[r].hops = story[r].hops /\ e.hop <= v[r].hops
      /\ ~v[r].over \/ r \in o["overtaken"]
      /\ e.headers.hop = e.hop \/ r \in o["overtaken"]
      /\ \/ e.requestHeaders = NoHeaders
         \/ e.requestHeaders.wire /\ (e.hop = 1 => e.requestHeaders.hop = 1)
  BY DEF Answering, EventSet
<1>3. /\ i \in DOMAIN p.requests /\ i # 0 /\ q.id = r /\ q.hop = e.hop /\ q \in RequestSet
      /\ q.response = 0
  <2> HIDE DEF r
  <2> QED
    BY <1>2, FoundById
<1>4. /\ t \in PageSet
      /\ DOMAIN t.responses = DOMAIN p.responses \cup {k} /\ Len(t.responses) = k
      /\ k \notin DOMAIN p.responses
      /\ \A j \in DOMAIN p.responses : t.responses[j] = p.responses[j]
      /\ t.responses[k] = a
      /\ DOMAIN t.requests = DOMAIN p.requests /\ Len(t.requests) = Len(p.requests)
      /\ \A j \in DOMAIN p.requests : j # i => t.requests[j] = p.requests[j]
      /\ t.requests[i] = b
      /\ t.byId = p.byId /\ t.byUrl = p.byUrl
      /\ t.targets = IF e.hop < story[r].hops
                     THEN [p.targets EXCEPT ![u] = Append(p.targets[u], i)]
                     ELSE p.targets
  <2>1. AnswerObserved(p, t, e)
    BY AnswerFacts
  <2> HIDE DEF t
  <2> QED
    BY <2>1 DEF AnswerObserved
<1>5. /\ b.id = r /\ b.hop = e.hop /\ b.url = q.url /\ b.response = k /\ b.from = q.from
      /\ b.headers = (IF e.requestHeaders = NoHeaders THEN q.headers ELSE e.requestHeaders)
      /\ b.promise = (IF q.promise # "pending" THEN q.promise ELSE "response")
  <2> HIDE DEF q, r
  <2> QED
    BY <1>3 DEF AnsweredRequest, RequestSet
<1>6. a.id = r /\ a.hop = e.hop /\ a.headers = e.headers /\ a.of = i
  BY DEF NewResponse
<1>7. /\ v \in [Requests -> ViewSet]
      /\ w[r].hop = v[r].hop /\ w[r].open = FALSE /\ w[r].over = v[r].over
      /\ w[r].infos = v[r].infos /\ w[r].hops = v[r].hops
      /\ \A s \in Requests : s # r => w[s] = v[s]
      /\ \A s \in Requests : v[s].hops \in Nat /\ v[s].hop \in Nat /\ v[s].hops <= Len(Chain[s])
  BY <1>2 DEF ViewOK, ViewSet
<1>8. /\ p.targets \in [PageUrls -> Seq(Nat)] /\ p.byId \in [Requests -> Nat]
      /\ Len(p.responses) \in Nat
      /\ \A z \in PageUrls : \A l \in DOMAIN p.targets[z] : p.targets[z][l] \in DOMAIN p.requests
      /\ \A s \in Requests : p.byId[s] # 0 => p.byId[s] \in DOMAIN p.requests
      /\ \A j \in DOMAIN p.requests : p.requests[j] \in RequestSet
      /\ i \in Nat
      /\ DOMAIN p.responses = 1 .. Len(p.responses)
  <2>1. \A z \in PageUrls : \A l \in DOMAIN p.targets[z] : p.targets[z][l] \in DOMAIN p.requests
    BY <1>1 DEF Shape
  <2> QED
    BY <1>1, <1>2, <2>1, PageFacts
<1>k. k \in Nat /\ k # 0 /\ Len(p.responses) + 1 = k
  BY <1>8
<1> HIDE DEF a, b, q, t, w
<1>9. \A j \in DOMAIN p.requests :
        /\ t.requests[j].id = p.requests[j].id /\ t.requests[j].hop = p.requests[j].hop
        /\ t.requests[j].url = p.requests[j].url /\ t.requests[j].from = p.requests[j].from
        /\ j # i => t.requests[j].response = p.requests[j].response
  BY <1>3, <1>4, <1>5 DEF q
<1>10. e.hop < story[r].hops => u \in PageUrls
  <2>1. e.hop < story[r].hops => e.hop + 1 \in 1 .. Len(Chain[r])
    BY <1>2, <1>7, ChainFacts
  <2> QED
    BY <1>2, <2>1, ChainFacts DEF PageUrls
<1> HIDE DEF u, k, i
\* The entries of redirectTargets: those there were, and the one of i.
<1>11. \A z \in PageUrls : \A l \in DOMAIN t.targets[z] :
         \/ l \in DOMAIN p.targets[z] /\ t.targets[z][l] = p.targets[z][l]
         \/ /\ e.hop < story[r].hops /\ z = u
            /\ l = Len(p.targets[u]) + 1
            /\ t.targets[z][l] = i
  <2> SUFFICES ASSUME NEW z \in PageUrls, NEW l \in DOMAIN t.targets[z]
               PROVE  \/ l \in DOMAIN p.targets[z] /\ t.targets[z][l] = p.targets[z][l]
                      \/ /\ e.hop < story[r].hops /\ z = u
                         /\ l = Len(p.targets[u]) + 1
                         /\ t.targets[z][l] = i
    OBVIOUS
  <2>1. CASE e.hop < story[r].hops /\ z = u
    <3>1. t.targets[z] = Append(p.targets[z], i) /\ p.targets[z] \in Seq(Nat)
      BY <1>4, <1>8, <1>10, <2>1
    <3> DEFINE g == p.targets[z]
    <3>2. g \in Seq(Nat) /\ l \in DOMAIN Append(g, i)
      BY <3>1
    <3> HIDE DEF g
    <3>3. /\ Len(g) \in Nat /\ DOMAIN g = 1 .. Len(g)
          /\ DOMAIN Append(g, i) = 1 .. Len(g) + 1
          /\ Append(g, i)[Len(g) + 1] = i
          /\ \A m \in 1 .. Len(g) : Append(g, i)[m] = g[m]
      BY <3>2, <1>8
    <3>4. l \in DOMAIN g \/ l = Len(g) + 1
      BY <3>2, <3>3
    <3> QED
      BY <2>1, <3>1, <3>3, <3>4 DEF g
  <2>2. CASE ~(e.hop < story[r].hops /\ z = u)
    <3>1. t.targets[z] = p.targets[z]
      BY <1>4, <1>8, <1>10, <2>2
    <3> QED
      BY <3>1
  <2> QED
    BY <2>1, <2>2
<1>12. \A z \in PageUrls : \A l \in DOMAIN p.targets[z] :
         l \in DOMAIN t.targets[z] /\ t.targets[z][l] = p.targets[z][l]
  <2> SUFFICES ASSUME NEW z \in PageUrls, NEW l \in DOMAIN p.targets[z]
               PROVE  l \in DOMAIN t.targets[z] /\ t.targets[z][l] = p.targets[z][l]
    OBVIOUS
  <2>1. CASE e.hop < story[r].hops /\ z = u
    <3>1. t.targets[z] = Append(p.targets[z], i) /\ p.targets[z] \in Seq(Nat)
      BY <1>4, <1>8, <1>10, <2>1
    <3> DEFINE g == p.targets[z]
    <3>2. g \in Seq(Nat) /\ l \in DOMAIN g
      BY <3>1
    <3> HIDE DEF g
    <3>3. l \in DOMAIN Append(g, i) /\ Append(g, i)[l] = g[l]
      BY <3>2, <1>8
    <3> QED
      BY <3>1, <3>3 DEF g
  <2>2. CASE ~(e.hop < story[r].hops /\ z = u)
    <3>1. t.targets[z] = p.targets[z]
      BY <1>4, <1>8, <1>10, <2>2
    <3> QED
      BY <3>1
  <2> QED
    BY <2>1, <2>2
<1>13. e.hop < story[r].hops =>
         \E l \in DOMAIN t.targets[u] : t.targets[u][l] = i
  <2> SUFFICES ASSUME e.hop < story[r].hops
               PROVE  \E l \in DOMAIN t.targets[u] : t.targets[u][l] = i
    OBVIOUS
  <2>1. t.targets[u] = Append(p.targets[u], i) /\ p.targets[u] \in Seq(Nat)
    BY <1>4, <1>8, <1>10
  <2> DEFINE g == p.targets[u]
  <2>2. g \in Seq(Nat) /\ t.targets[u] = Append(g, i)
    BY <2>1
  <2> HIDE DEF g
  <2>3. Len(g) + 1 \in DOMAIN Append(g, i) /\ Append(g, i)[Len(g) + 1] = i
    BY <2>2, <1>8
  <2> QED
    BY <2>2, <2>3
<1>14. Shape(t)
  <2>1. \A z \in PageUrls :
          /\ \A l \in DOMAIN t.byUrl[z] : t.byUrl[z][l] \in DOMAIN t.requests
          /\ \A l \in DOMAIN t.targets[z] : t.targets[z][l] \in DOMAIN t.requests
    <3>1. \A z \in PageUrls : \A l \in DOMAIN t.byUrl[z] : t.byUrl[z][l] \in DOMAIN t.requests
      BY <1>1, <1>4 DEF Shape
    <3>2. \A z \in PageUrls : \A l \in DOMAIN t.targets[z] : t.targets[z][l] \in DOMAIN t.requests
      BY <1>3, <1>4, <1>8, <1>11
    <3> QED
      BY <3>1, <3>2
  <2>2. ASSUME NEW j \in DOMAIN t.requests
        PROVE  /\ t.requests[j].response \in 0 .. Len(t.responses)
               /\ t.requests[j].hop \in 0 .. Len(Chain[t.requests[j].id])
               /\ t.requests[j].url = UrlOf(t.requests[j].id, t.requests[j].hop)
    <3>1. /\ p.requests[j].response \in 0 .. Len(p.responses)
          /\ t.requests[j].hop \in 0 .. Len(Chain[t.requests[j].id])
          /\ t.requests[j].url = UrlOf(t.requests[j].id, t.requests[j].hop)
      BY <1>1, <1>4, <1>9 DEF Shape
    <3>2. Len(t.responses) = Len(p.responses) + 1
      BY <1>4, <1>k
    <3>3. CASE j = i
      BY <3>1, <3>3, <1>4, <1>5, <1>k
    <3>4. CASE j # i
      BY <3>1, <3>2, <3>4, <1>4, <1>8, <1>9
    <3> QED
      BY <3>3, <3>4
  <2>3. \A s \in Requests : t.byId[s] \in 0 .. Len(t.requests)
    BY <1>1, <1>4 DEF Shape
  <2> QED
    BY <1>4, <2>1, <2>2, <2>3 DEF Shape
<1>15. Current(t, w, o)
  <2> SUFFICES ASSUME NEW s \in Requests
               PROVE  /\ w[s].hop = 0 => s \in o["overtaken"] \/ t.byId[s] = 0
                      /\ w[s].hop # 0 =>
                           /\ t.byId[s] # 0
                           /\ t.requests[t.byId[s]].id = s
                           /\ t.requests[t.byId[s]].hop = w[s].hop
                           /\ t.requests[t.byId[s]].response = 0 <=> w[s].open
    BY DEF Current
  <2>1. CASE s = r
    BY <2>1, <1>2, <1>3, <1>4, <1>5, <1>7, <1>k DEF i
  <2>2. CASE s # r
    <3>1. w[s] = v[s] /\ t.byId[s] = p.byId[s]
      BY <2>2, <1>4, <1>7
    <3>2. v[s].hop = 0 => s \in o["overtaken"] \/ p.byId[s] = 0
      BY <1>1 DEF Current
    <3>3. ASSUME v[s].hop # 0
          PROVE  /\ t.byId[s] # 0
                 /\ t.requests[t.byId[s]].id = s
                 /\ t.requests[t.byId[s]].hop = v[s].hop
                 /\ t.requests[t.byId[s]].response = 0 <=> v[s].open
      <4>1. /\ p.byId[s] # 0 /\ p.requests[p.byId[s]].id = s
            /\ p.requests[p.byId[s]].hop = v[s].hop
            /\ p.requests[p.byId[s]].response = 0 <=> v[s].open
        BY <3>3, <1>1 DEF Current
      <4>2. p.byId[s] # i /\ p.byId[s] \in DOMAIN p.requests
        BY <2>2, <4>1, <1>3, <1>8 DEF q
      <4>3. t.requests[p.byId[s]] = p.requests[p.byId[s]]
        BY <4>2, <1>4
      <4> QED
        BY <4>1, <4>3, <3>1
    <3> QED
      BY <3>1, <3>2, <3>3
  <2> QED
    BY <2>1, <2>2
<1>16. Objects(t, w, o)
  <2> SUFFICES ASSUME NEW j \in DOMAIN t.requests, t.requests[j].id \notin o["overtaken"]
               PROVE  /\ 1 <= t.requests[j].hop /\ t.requests[j].hop <= w[t.requests[j].id].hop
                      /\ t.requests[j].response = 0 => j = t.byId[t.requests[j].id]
                      /\ \A l \in DOMAIN t.requests :
                           t.requests[l].id = t.requests[j].id /\ t.requests[l].hop = t.requests[j].hop => l = j
    BY DEF Objects
  <2>1. j \in DOMAIN p.requests /\ p.requests[j].id \in Requests
        /\ t.requests[j].id = p.requests[j].id /\ t.requests[j].hop = p.requests[j].hop
    BY <1>4, <1>8, <1>9 DEF RequestSet
  <2>2. /\ 1 <= p.requests[j].hop /\ p.requests[j].hop <= v[p.requests[j].id].hop
        /\ p.requests[j].response = 0 => j = p.byId[p.requests[j].id]
        /\ \A l \in DOMAIN p.requests :
             p.requests[l].id = p.requests[j].id /\ p.requests[l].hop = p.requests[j].hop => l = j
    BY <1>1, <2>1 DEF Objects
  <2>3. w[p.requests[j].id].hop = v[p.requests[j].id].hop
    BY <1>7, <2>1
  <2>4. t.requests[j].response = 0 => p.requests[j].response = 0
    BY <1>4, <1>5, <1>k, <2>1
  <2> QED
    BY <1>4, <1>9, <2>1, <2>2, <2>3, <2>4
<1>17. Answers(t)
  <2> SUFFICES ASSUME NEW j \in DOMAIN t.responses
               PROVE  /\ t.responses[j].of \in DOMAIN t.requests
                      /\ t.requests[t.responses[j].of].id = t.responses[j].id
                      /\ t.requests[t.responses[j].of].hop = t.responses[j].hop
    BY DEF Answers
  <2>1. CASE j = k
    BY <2>1, <1>3, <1>4, <1>5, <1>6
  <2>2. CASE j \in DOMAIN p.responses
    <3>1. /\ p.responses[j].of \in DOMAIN p.requests
          /\ p.requests[p.responses[j].of].id = p.responses[j].id
          /\ p.requests[p.responses[j].of].hop = p.responses[j].hop
      BY <2>2, <1>1 DEF Answers
    <3> QED
      BY <2>2, <3>1, <1>4, <1>9
  <2> QED
    BY <2>1, <2>2, <1>4
<1>18. Redirected(t, w, o)
  <2> SUFFICES ASSUME NEW s \in Requests, s \notin o["crossed"], s \notin o["overtaken"]
               PROVE  /\ \A z \in PageUrls : \A l \in DOMAIN t.targets[z] :
                           t.requests[t.targets[z][l]].id = s =>
                             /\ t.targets[z][l] = t.byId[s]
                             /\ ~w[s].open
                             /\ w[s].hop < w[s].hops
                             /\ z = Chain[s][w[s].hop + 1]
                             /\ \A m \in DOMAIN t.targets[z] : t.targets[z][m] = t.targets[z][l] => m = l
                      /\ w[s].hop # 0 /\ ~w[s].open /\ w[s].hop < w[s].hops =>
                           \E l \in DOMAIN t.targets[Chain[s][w[s].hop + 1]] :
                             t.targets[Chain[s][w[s].hop + 1]][l] = t.byId[s]
    BY DEF Redirected
  <2>1. \A z \in PageUrls : \A l \in DOMAIN p.targets[z] :
          p.requests[p.targets[z][l]].id = s =>
            /\ p.targets[z][l] = p.byId[s]
            /\ ~v[s].open
            /\ v[s].hop < v[s].hops
            /\ z = Chain[s][v[s].hop + 1]
            /\ \A m \in DOMAIN p.targets[z] : p.targets[z][m] = p.targets[z][l] => m = l
    BY <1>1 DEF Redirected
  <2>2. v[s].hop # 0 /\ ~v[s].open /\ v[s].hop < v[s].hops =>
          \E l \in DOMAIN p.targets[Chain[s][v[s].hop + 1]] :
            p.targets[Chain[s][v[s].hop + 1]][l] = p.byId[s]
    BY <1>1 DEF Redirected
  <2>3. \A z \in PageUrls : \A l \in DOMAIN t.targets[z] :
          t.requests[t.targets[z][l]].id = p.requests[t.targets[z][l]].id
    BY <1>4, <1>9, <1>14 DEF Shape
  <2>4. CASE s # r
    <3>1. w[s] = v[s] /\ t.byId[s] = p.byId[s]
      BY <2>4, <1>4, <1>7
    <3>2. ASSUME NEW z \in PageUrls, NEW l \in DOMAIN t.targets[z],
                 t.requests[t.targets[z][l]].id = s
          PROVE  /\ t.targets[z][l] = t.byId[s]
                 /\ ~w[s].open
                 /\ w[s].hop < w[s].hops
                 /\ z = Chain[s][w[s].hop + 1]
                 /\ \A m \in DOMAIN t.targets[z] : t.targets[z][m] = t.targets[z][l] => m = l
      <4>1. p.requests[t.targets[z][l]].id = s
        BY <2>3, <3>2
      <4>2. t.targets[z][l] # i
        BY <4>1, <2>4, <1>3 DEF q
      <4>3. l \in DOMAIN p.targets[z] /\ t.targets[z][l] = p.targets[z][l]
        BY <4>2, <1>11
      <4>4. \A m \in DOMAIN t.targets[z] : t.targets[z][m] = t.targets[z][l] =>
              m \in DOMAIN p.targets[z] /\ p.targets[z][m] = p.targets[z][l]
        BY <4>2, <4>3, <1>11
      <4> QED
        BY <2>1, <3>1, <4>1, <4>3, <4>4
    <3>3. ASSUME w[s].hop # 0, ~w[s].open, w[s].hop < w[s].hops
          PROVE  \E l \in DOMAIN t.targets[Chain[s][w[s].hop + 1]] :
                   t.targets[Chain[s][w[s].hop + 1]][l] = t.byId[s]
      <4>1. PICK l \in DOMAIN p.targets[Chain[s][v[s].hop + 1]] :
              p.targets[Chain[s][v[s].hop + 1]][l] = p.byId[s]
        BY <2>2, <3>1, <3>3
      <4>2. Chain[s][v[s].hop + 1] \in PageUrls
        <5>1. v[s].hop + 1 \in 1 .. Len(Chain[s])
          BY <3>1, <3>3, <1>7, ChainFacts
        <5> QED
          BY <5>1, ChainFacts DEF PageUrls
      <4> QED
        BY <4>1, <4>2, <3>1, <1>12
    <3> QED
      BY <3>2, <3>3
  <2>5. CASE s = r
    <3>1. \A z \in PageUrls : \A l \in DOMAIN p.targets[z] : p.targets[z][l] # i
      BY <2>1, <2>5, <1>2, <1>3 DEF q
    <3>2. ASSUME NEW z \in PageUrls, NEW l \in DOMAIN t.targets[z],
                 t.requests[t.targets[z][l]].id = r
          PROVE  /\ t.targets[z][l] = i /\ z = u /\ e.hop < story[r].hops
                 /\ \A m \in DOMAIN t.targets[z] : t.targets[z][m] = t.targets[z][l] => m = l
      <4>1. p.requests[t.targets[z][l]].id = r
        BY <2>3, <3>2
      <4>2. ~(l \in DOMAIN p.targets[z] /\ t.targets[z][l] = p.targets[z][l])
        BY <4>1, <2>1, <2>5, <1>2
      <4>3. e.hop < story[r].hops /\ z = u /\ l = Len(p.targets[u]) + 1 /\ t.targets[z][l] = i
        BY <4>2, <1>11
      <4>4. \A m \in DOMAIN t.targets[z] : t.targets[z][m] = i => m = Len(p.targets[u]) + 1
        BY <3>1, <1>11
      <4> QED
        BY <4>3, <4>4
    <3>3. t.byId[r] = i /\ ~w[r].open /\ w[r].hop = e.hop /\ w[r].hops = story[r].hops
          /\ Chain[r][w[r].hop + 1] = u
      BY <1>2, <1>4, <1>7 DEF i, u
    <3> QED
      BY <2>5, <3>2, <3>3, <1>13
  <2> QED
    BY <2>4, <2>5
<1>19. Predecessors(t, o)
  <2> SUFFICES ASSUME NEW j \in DOMAIN p.requests, t.requests[j].id \notin o["crossed"],
                      t.requests[j].id \notin o["overtaken"]
               PROVE  IF t.requests[j].hop = 1 THEN t.requests[j].from = 0
                      ELSE /\ t.requests[j].from \in DOMAIN p.requests
                           /\ t.requests[t.requests[j].from].id = t.requests[j].id
                           /\ t.requests[t.requests[j].from].hop + 1 = t.requests[j].hop
    BY <1>4 DEF Predecessors
  <2>1. IF p.requests[j].hop = 1 THEN p.requests[j].from = 0
        ELSE /\ p.requests[j].from \in DOMAIN p.requests
             /\ p.requests[p.requests[j].from].id = p.requests[j].id
             /\ p.requests[p.requests[j].from].hop + 1 = p.requests[j].hop
    BY <1>1, <1>9 DEF Predecessors
  <2> QED
    BY <2>1, <1>9
<1>20. Promises(t, w, o)
  <2> SUFFICES ASSUME NEW j \in DOMAIN p.requests,
                      t.requests[j].id \in Navigations, t.requests[j].id \notin o["abandoned"],
                      t.requests[j].id \notin o["overtaken"]
               PROVE  /\ t.requests[j].response # 0 => t.requests[j].promise = "response"
                      /\ t.requests[j].response = 0 /\ ~w[t.requests[j].id].over =>
                           t.requests[j].promise = "pending"
    BY <1>4 DEF Promises
  <2>1. /\ p.requests[j].id = t.requests[j].id /\ p.requests[j].id \in Requests
        /\ p.requests[j].response # 0 => p.requests[j].promise = "response"
        /\ p.requests[j].response = 0 /\ ~v[p.requests[j].id].over => p.requests[j].promise = "pending"
    BY <1>1, <1>8, <1>9 DEF Promises, RequestSet
  <2>2. CASE j = i
    <3>1. q.promise = "pending"
      BY <2>1, <2>2, <1>2, <1>3 DEF q
    <3> QED
      BY <2>2, <3>1, <1>4, <1>5, <1>k
  <2>3. CASE j # i
    <3>1. t.requests[j] = p.requests[j] /\ w[p.requests[j].id].over = v[p.requests[j].id].over
      BY <2>1, <2>3, <1>4, <1>7
    <3> QED
      BY <2>1, <3>1
  <2> QED
    BY <2>2, <2>3
<1>21. Headers(t, w, o)
  <2>1. ASSUME NEW j \in DOMAIN p.requests,
               t.requests[j].id \notin o["misdirected"], t.requests[j].id \notin o["overtaken"],
               t.requests[j].hop = 1 \/ t.requests[j].response = 0
        PROVE  /\ t.requests[j].headers.hop = t.requests[j].hop
               /\ t.requests[j].hop \in w[t.requests[j].id].infos => t.requests[j].headers.wire
    <3>1. CASE j = i
      <4>1. e.hop = 1
        BY <2>1, <3>1, <1>4, <1>5, <1>k
      <4>2. r \notin o["misdirected"] /\ r \notin o["overtaken"]
        BY <2>1, <3>1, <1>4, <1>5
      <4>3. q.headers.hop = 1 /\ (1 \in v[r].infos => q.headers.wire)
        BY <4>1, <4>2, <1>1, <1>3 DEF Headers, q
      <4>4. b.headers.hop = 1 /\ (1 \in v[r].infos => b.headers.wire)
        BY <4>1, <4>3, <1>2, <1>5
      <4> QED
        BY <3>1, <4>1, <4>4, <1>4, <1>5, <1>7
    <3>2. CASE j # i
      <4>1. t.requests[j] = p.requests[j] /\ p.requests[j].id \in Requests
        BY <3>2, <1>4, <1>8 DEF RequestSet
      <4>2. w[p.requests[j].id].infos = v[p.requests[j].id].infos
        BY <4>1, <1>7
      <4> QED
        BY <2>1, <4>1, <4>2, <1>1 DEF Headers
    <3> QED
      BY <3>1, <3>2
  <2>2. ASSUME NEW j \in DOMAIN t.responses
        PROVE  t.responses[j].headers.hop = t.responses[j].hop \/ t.responses[j].id \in o["overtaken"]
    <3>1. CASE j = k
      BY <3>1, <1>2, <1>4, <1>6
    <3>2. CASE j \in DOMAIN p.responses
      BY <3>2, <1>1, <1>4 DEF Headers
    <3> QED
      BY <3>1, <3>2, <1>4
  <2> QED
    BY <2>1, <2>2, <1>4 DEF Headers
<1>22. PageInv(t, w, o)
  BY <1>14, <1>15, <1>16, <1>17, <1>18, <1>19, <1>20, <1>21 DEF PageInv
<1>23. ASSUME NEW z \in PageUrls PROVE Waiting(t, z) \subseteq Waiting(p, z) \cup {r}
  <2> SUFFICES ASSUME NEW l \in DOMAIN t.targets[z]
               PROVE  t.requests[t.targets[z][l]].id \in Waiting(p, z) \cup {r}
    BY DEF Waiting
  <2>1. CASE l \in DOMAIN p.targets[z] /\ t.targets[z][l] = p.targets[z][l]
    <3>1. t.requests[t.targets[z][l]].id = p.requests[p.targets[z][l]].id
      BY <2>1, <1>8, <1>9
    <3> QED
      BY <2>1, <3>1 DEF Waiting
  <2>2. CASE t.targets[z][l] = i
    BY <2>2, <1>4, <1>5
  <2> QED
    BY <2>1, <2>2, <1>11
<1>24. ASSUME e.hop = story[r].hops, NEW z \in PageUrls PROVE Waiting(t, z) \subseteq Waiting(p, z)
  <2> SUFFICES ASSUME NEW l \in DOMAIN t.targets[z]
               PROVE  t.requests[t.targets[z][l]].id \in Waiting(p, z)
    BY DEF Waiting
  <2>1. l \in DOMAIN p.targets[z] /\ t.targets[z][l] = p.targets[z][l]
    BY <1>2, <1>4, <1>24
  <2>2. t.requests[t.targets[z][l]].id = p.requests[p.targets[z][l]].id
    BY <2>1, <1>8, <1>9
  <2> QED
    BY <2>1, <2>2 DEF Waiting
<1> QED
  BY <1>22, <1>23, <1>24 DEF t, w, r

-----------------------------------------------------------------------------
(* What a handler tells the page, event by event.                          *)

\* A handler of the request c.id finds the page c.page, which knows of the
\* requests what c.view says; c.oddities is the history once it is done.
Context(c) ==
  /\ ViewOK(c.view, c.oddities)
  /\ c.id \in Requests
  /\ c.view[c.id].hops = Hops(c.id)

\* A Request of the hop h may be made: who waits at its url was noted, and the
\* other navigations were given up.
Fine(c, h) ==
  /\ \A s \in Waiting(c.page, UrlOf(c.id, h)) :
       s = c.id \/ (s \in c.oddities["crossed"] /\ c.id \in c.oddities["crossed"])
  /\ c.id \in Navigations =>
       \A n \in Navigations \ {c.id} :
         c.view[n].hop # 0 /\ c.view[n].open =>
           n \in c.oddities["abandoned"] \/ n \in c.oddities["overtaken"]

\* No redirect is told of.
NoRedirect(c, out) == \A e \in ToSet(out) : e.kind = "response" => e.hop = c.view[c.id].hops

\* The events told so far are right, if they and those at the hops c.also were
\* noted, and x is what they say of the request.
Good(c, out, x) ==
  /\ out \in Seq(EventSet)
  /\ x \in ViewSet /\ x.hops = c.view[c.id].hops
  /\ (/\ \A e \in RequestsIn(out) : Fine(c, e.hop)
      /\ \A h \in c.also : Fine(c, h)) =>
       /\ PageInv(FoldLeft(Observe, c.page, out), [c.view EXCEPT ![c.id] = x], c.oddities)
       /\ \A u \in PageUrls :
            Waiting(FoldLeft(Observe, c.page, out), u) \subseteq Waiting(c.page, u) \cup {c.id}
       /\ NoRedirect(c, out) =>
            \A u \in PageUrls :
              Waiting(FoldLeft(Observe, c.page, out), u) \subseteq Waiting(c.page, u)

\* A handler begins having told nothing.
LEMMA GoodStart ==
  ASSUME NEW c, Context(c), PageInv(c.page, c.view, c.oddities)
  PROVE  Good(c, <<>>, c.view[c.id])
<1>1. <<>> \in Seq(EventSet) /\ FoldLeft(Observe, c.page, <<>>) = c.page
  BY ObservedNothing
<1>2. [c.view EXCEPT ![c.id] = c.view[c.id]] = c.view /\ c.view[c.id] \in ViewSet
  BY DEF Context, ViewOK
<1> QED
  BY <1>1, <1>2 DEF Good

\* One event more among those told.
LEMMA OneEventMore ==
  ASSUME NEW out \in Seq(EventSet), NEW e \in EventSet
  PROVE  /\ Append(out, e) \in Seq(EventSet)
         /\ RequestsIn(out) \subseteq RequestsIn(Append(out, e))
         /\ e.kind = "request" => e \in RequestsIn(Append(out, e))
         /\ ToSet(Append(out, e)) = ToSet(out) \cup {e}
<1>1. /\ Append(out, e) \in Seq(EventSet)
      /\ DOMAIN out = 1 .. Len(out) /\ Len(out) \in Nat
      /\ DOMAIN Append(out, e) = 1 .. Len(out) + 1
      /\ Append(out, e)[Len(out) + 1] = e
      /\ \A i \in 1 .. Len(out) : Append(out, e)[i] = out[i]
  OBVIOUS
<1>2. ToSet(Append(out, e)) = ToSet(out) \cup {e}
  BY <1>1 DEF ToSet
<1> QED
  BY <1>1, <1>2 DEF RequestsIn

\* What it takes for one more event to be right.
LEMMA GoodMore ==
  ASSUME NEW c, Context(c), NEW out, NEW x, Good(c, out, x),
         NEW e \in EventSet, NEW y \in ViewSet, y.hops = x.hops,
         ASSUME NEW p,
                PageInv(p, [c.view EXCEPT ![c.id] = x], c.oddities),
                ViewOK([c.view EXCEPT ![c.id] = x], c.oddities),
                \A u \in PageUrls : Waiting(p, u) \subseteq Waiting(c.page, u) \cup {c.id},
                e.kind = "request" => Fine(c, e.hop),
                \A h \in c.also : Fine(c, h)
         PROVE  /\ PageInv(Observe(p, e), [[c.view EXCEPT ![c.id] = x] EXCEPT ![c.id] = y], c.oddities)
                /\ \A u \in PageUrls : Waiting(Observe(p, e), u) \subseteq Waiting(p, u) \cup {c.id}
                /\ (e.kind = "response" => e.hop = c.view[c.id].hops) =>
                     \A u \in PageUrls : Waiting(Observe(p, e), u) \subseteq Waiting(p, u)
  PROVE  Good(c, Append(out, e), y)
<1>1. out \in Seq(EventSet) /\ x \in ViewSet /\ x.hops = c.view[c.id].hops
  BY DEF Good
<1>2. /\ Append(out, e) \in Seq(EventSet)
      /\ RequestsIn(out) \subseteq RequestsIn(Append(out, e))
      /\ e.kind = "request" => e \in RequestsIn(Append(out, e))
      /\ ToSet(Append(out, e)) = ToSet(out) \cup {e}
  BY <1>1, OneEventMore
<1>3. FoldLeft(Observe, c.page, Append(out, e)) = Observe(FoldLeft(Observe, c.page, out), e)
  BY <1>1, ObservedOneMore
<1>4. [[c.view EXCEPT ![c.id] = x] EXCEPT ![c.id] = y] = [c.view EXCEPT ![c.id] = y]
  BY DEF Context, ViewOK
<1>5. ViewOK([c.view EXCEPT ![c.id] = x], c.oddities)
  BY <1>1 DEF Context, ViewOK
<1>6. ASSUME \A f \in RequestsIn(Append(out, e)) : Fine(c, f.hop), \A h \in c.also : Fine(c, h)
      PROVE  /\ PageInv(FoldLeft(Observe, c.page, Append(out, e)),
                        [c.view EXCEPT ![c.id] = y], c.oddities)
             /\ \A u \in PageUrls :
                  Waiting(FoldLeft(Observe, c.page, Append(out, e)), u)
                    \subseteq Waiting(c.page, u) \cup {c.id}
             /\ NoRedirect(c, Append(out, e)) =>
                  \A u \in PageUrls :
                    Waiting(FoldLeft(Observe, c.page, Append(out, e)), u) \subseteq Waiting(c.page, u)
  <2> DEFINE p == FoldLeft(Observe, c.page, out)
  <2>1. /\ PageInv(p, [c.view EXCEPT ![c.id] = x], c.oddities)
        /\ \A u \in PageUrls : Waiting(p, u) \subseteq Waiting(c.page, u) \cup {c.id}
        /\ NoRedirect(c, out) => \A u \in PageUrls : Waiting(p, u) \subseteq Waiting(c.page, u)
    BY <1>2, <1>6 DEF Good
  <2>2. e.kind = "request" => Fine(c, e.hop)
    BY <1>2, <1>6
  <2> HIDE DEF p
  <2>3. /\ PageInv(Observe(p, e), [[c.view EXCEPT ![c.id] = x] EXCEPT ![c.id] = y], c.oddities)
        /\ \A u \in PageUrls : Waiting(Observe(p, e), u) \subseteq Waiting(p, u) \cup {c.id}
        /\ (e.kind = "response" => e.hop = c.view[c.id].hops) =>
             \A u \in PageUrls : Waiting(Observe(p, e), u) \subseteq Waiting(p, u)
    BY <1>5, <1>6, <2>1, <2>2
  <2>4. \A u \in PageUrls : Waiting(Observe(p, e), u) \subseteq Waiting(c.page, u) \cup {c.id}
    BY <2>1, <2>3
  <2>5. NoRedirect(c, Append(out, e)) =>
          NoRedirect(c, out) /\ (e.kind = "response" => e.hop = c.view[c.id].hops)
    BY <1>2 DEF NoRedirect
  <2>6. NoRedirect(c, Append(out, e)) =>
          \A u \in PageUrls : Waiting(Observe(p, e), u) \subseteq Waiting(c.page, u)
    BY <2>1, <2>3, <2>5
  <2> QED
    BY <1>3, <1>4, <2>3, <2>4, <2>6 DEF p
<1> QED
  BY <1>1, <1>2, <1>6 DEF Good

\* The page may be known of less.
LEMMA GoodWeaker ==
  ASSUME NEW c, Context(c), NEW out, NEW x, Good(c, out, x),
         NEW y \in ViewSet, y.hops = x.hops, y.hop = x.hop,
         x.hop # 0 => y.open = x.open,
         x.over => y.over,
         c.id \notin c.oddities["misdirected"] => y.infos \cap 1 .. x.hop \subseteq x.infos
  PROVE  Good(c, out, y)
<1> DEFINE v == [c.view EXCEPT ![c.id] = x]
           w == [c.view EXCEPT ![c.id] = y]
           p == FoldLeft(Observe, c.page, out)
<1>1. out \in Seq(EventSet) /\ x \in ViewSet /\ x.hops = c.view[c.id].hops
  BY DEF Good
<1>2. ViewOK(v, c.oddities) /\ ViewOK(w, c.oddities)
      /\ v[c.id] = x /\ w[c.id] = y /\ \A s \in Requests : s # c.id => w[s] = v[s]
  BY <1>1 DEF Context, ViewOK
<1> HIDE DEF v, w, p
<1>3. ASSUME PageInv(p, v, c.oddities) PROVE PageInv(p, w, c.oddities)
  <2>1. \A s \in Requests :
          /\ w[s].hop = v[s].hop
          /\ w[s].hops = v[s].hops
          /\ v[s].hop # 0 => w[s].open = v[s].open
          /\ v[s].over => w[s].over
          /\ s \notin c.oddities["misdirected"] => w[s].infos \cap 1 .. v[s].hop \subseteq v[s].infos
    <3> SUFFICES ASSUME NEW s \in Requests
                 PROVE  /\ w[s].hop = v[s].hop
                        /\ w[s].hops = v[s].hops
                        /\ v[s].hop # 0 => w[s].open = v[s].open
                        /\ v[s].over => w[s].over
                        /\ s \notin c.oddities["misdirected"] => w[s].infos \cap 1 .. v[s].hop \subseteq v[s].infos
      OBVIOUS
    <3>1. CASE s = c.id
      BY <3>1, <1>2
    <3>2. CASE s # c.id
      BY <3>2, <1>2
    <3> QED
      BY <3>1, <3>2
  <2> QED
    BY <1>2, <1>3, <2>1, ViewWeaker
<1> QED
  BY <1>1, <1>3 DEF Good, v, w, p

\* When the handler is done, the page knows of its request what y says.
LEMMA GoodEnd ==
  ASSUME NEW c, Context(c), NEW out, NEW y, Good(c, out, y),
         \A e \in RequestsIn(out) : Fine(c, e.hop), \A h \in c.also : Fine(c, h)
  PROVE  PageInv(FoldLeft(Observe, c.page, out), [c.view EXCEPT ![c.id] = y], c.oddities)
BY DEF Good

\* The headers of the model are headers.
LEMMA HeaderTypes ==
  /\ NoHeaders \in HeaderSet
  /\ \A h \in Nat : /\ OnTheWire(h) \in HeaderSet /\ OnTheWire(h).hop = h /\ OnTheWire(h).wire
                    /\ Announced(h) \in HeaderSet /\ Announced(h).hop = h
BY DEF NoHeaders, OnTheWire, Announced, HeaderSet

\* A handler may tell of a request at its next hop.
LEMMA RequestTold ==
  ASSUME NEW c, Context(c), NEW out, NEW x, Good(c, out, x),
         NEW h \in Nat \ {0}, NEW headers \in HeaderSet, NEW y \in ViewSet,
         y.hops = x.hops, y.hop = h, y.open, h <= Len(Chain[c.id]),
         c.id \notin c.oddities["overtaken"] =>
           /\ h = x.hop + 1 /\ h <= x.hops
           /\ x.hop = 0 \/ ~x.open
           /\ y.infos \subseteq x.infos \cup {h}
           /\ c.id \notin c.oddities["misdirected"] =>
                headers.hop = h /\ (h \in y.infos => headers.wire)
  PROVE  Good(c, Append(out, RawEvent("request", c.id, h, headers, NoHeaders)), y)
<1> DEFINE e == RawEvent("request", c.id, h, headers, NoHeaders)
           r == c.id
           o == c.oddities
           w == [c.view EXCEPT ![r] = x]
<1>1. e \in EventSet /\ e.kind = "request" /\ e.id = r /\ e.hop = h /\ e.headers = headers
  BY HeaderTypes DEF Context, RawEvent, EventSet
<1>2. x \in ViewSet /\ w[r] = x /\ \A s \in Requests : s # r => w[s] = c.view[s]
  BY DEF Good, Context, ViewOK
<1> HIDE DEF e, w
<1>3. ASSUME NEW p, PageInv(p, w, o), ViewOK(w, o),
             \A u \in PageUrls : Waiting(p, u) \subseteq Waiting(c.page, u) \cup {r},
             Fine(c, h)
      PROVE  /\ PageInv(Observe(p, e), [w EXCEPT ![r] = y], o)
             /\ \A u \in PageUrls : Waiting(Observe(p, e), u) \subseteq Waiting(p, u)
  <2> DEFINE u == UrlOf(r, h)
  <2>1. u \in PageUrls
    BY ChainFacts DEF Context
  <2>2. \A k \in DOMAIN p.targets[u] :
          LET s == p.requests[p.targets[u][k]].id
          IN  s = r \/ (s \in o["crossed"] /\ r \in o["crossed"])
    <3>1. \A k \in DOMAIN p.targets[u] : p.requests[p.targets[u][k]].id \in Waiting(p, u)
      BY DEF Waiting
    <3> QED
      BY <1>3, <2>1, <3>1 DEF Fine
  <2>3. Fits(p, w, o, e, y)
    BY <1>1, <1>2, <2>2 DEF Fits
  <2>4. OthersGivenUp(w, o, e.id)
    <3> SUFFICES ASSUME r \in Navigations, NEW n \in Navigations, w[n].hop # 0, w[n].open
                 PROVE  n \in o["abandoned"] \/ n \in o["overtaken"]
      BY <1>1 DEF OthersGivenUp
    <3>1. CASE n = r
      BY <1>2, <3>1
    <3>2. CASE n # r
      <4>1. w[n] = c.view[n]
        BY <1>2, <3>2, NavigationsAssumption
      <4> QED
        BY <1>3, <3>2, <4>1 DEF Fine
    <3> QED
      BY <3>1, <3>2
  <2>5. Observe(p, e) = ObserveRequest(p, e)
    BY <1>1 DEF Observe
  <2> QED
    BY <1>1, <1>3, <2>3, <2>4, <2>5, RequestObserved
<1>4. Good(c, Append(out, e), y)
  BY <1>1, <1>3, GoodMore DEF w
<1> QED
  BY <1>4 DEF e

\* It may tell of the answer to the hop told of last.
LEMMA AnswerTold ==
  ASSUME NEW c, Context(c), NEW out, NEW x, Good(c, out, x),
         NEW h \in Nat \ {0}, NEW headers \in HeaderSet, NEW requestHeaders \in HeaderSet,
         h = x.hop, x.open, h <= x.hops,
         ~x.over \/ c.id \in c.oddities["overtaken"],
         headers.hop = h \/ c.id \in c.oddities["overtaken"],
         \/ requestHeaders = NoHeaders
         \/ requestHeaders.wire /\ (h = 1 => requestHeaders.hop = 1)
  PROVE  Good(c, Append(out, RawEvent("response", c.id, h, headers, requestHeaders)),
              [x EXCEPT !.open = FALSE])
<1> DEFINE e == RawEvent("response", c.id, h, headers, requestHeaders)
           r == c.id
           o == c.oddities
           w == [c.view EXCEPT ![r] = x]
           y == [x EXCEPT !.open = FALSE]
<1>1. e \in EventSet /\ e.kind = "response" /\ e.id = r /\ e.hop = h /\ e.headers = headers
      /\ e.requestHeaders = requestHeaders
  BY HeaderTypes DEF Context, RawEvent, EventSet
<1>2. x \in ViewSet /\ w[r] = x /\ x.hops = story[r].hops
      /\ x.hops = c.view[r].hops
  BY DEF Good, Context, ViewOK, Hops
<1>3. y \in ViewSet /\ y.hops = x.hops /\ [w EXCEPT ![r].open = FALSE] = [w EXCEPT ![r] = y]
  BY <1>2 DEF ViewSet
<1> HIDE DEF e, w, y
<1>4. ASSUME NEW p, PageInv(p, w, o), ViewOK(w, o),
             \A u \in PageUrls : Waiting(p, u) \subseteq Waiting(c.page, u) \cup {r}
      PROVE  /\ PageInv(Observe(p, e), [w EXCEPT ![r] = y], o)
             /\ \A u \in PageUrls : Waiting(Observe(p, e), u) \subseteq Waiting(p, u) \cup {r}
             /\ h = c.view[r].hops =>
                  \A u \in PageUrls : Waiting(Observe(p, e), u) \subseteq Waiting(p, u)
  <2>1. Answering(w, o, e)
    BY <1>1, <1>2 DEF Answering
  <2>2. Observe(p, e) = ObserveResponse(p, e)
    BY <1>1 DEF Observe
  <2>3. h = c.view[r].hops => e.hop = story[e.id].hops
    BY <1>1, <1>2
  <2>4. /\ PageInv(ObserveResponse(p, e), [w EXCEPT ![e.id].open = FALSE], o)
        /\ \A u \in PageUrls :
             Waiting(ObserveResponse(p, e), u) \subseteq Waiting(p, u) \cup {e.id}
        /\ e.hop = story[e.id].hops =>
             \A u \in PageUrls : Waiting(ObserveResponse(p, e), u) \subseteq Waiting(p, u)
    BY <1>1, <1>4, <2>1, ResponseObserved
  <2> QED
    BY <1>1, <1>3, <2>2, <2>3, <2>4
<1>5. Good(c, Append(out, e), y)
  BY <1>1, <1>3, <1>4, GoodMore DEF w
<1> QED
  BY <1>5 DEF e, y

\* It may tell of the headers on the wire of the hop told of last.
LEMMA HeadersTold ==
  ASSUME NEW c, Context(c), NEW out, NEW x, Good(c, out, x),
         NEW h \in Nat, NEW headers \in HeaderSet, x.hop # 0,
         \/ c.id \in c.oddities["misdirected"] \/ c.id \in c.oddities["overtaken"]
         \/ headers = OnTheWire(x.hop)
  PROVE  Good(c, Append(out, RawEvent("requestheaders", c.id, h, headers, NoHeaders)),
              [x EXCEPT !.infos = @ \cup {x.hop}])
<1> DEFINE e == RawEvent("requestheaders", c.id, h, headers, NoHeaders)
           r == c.id
           o == c.oddities
           w == [c.view EXCEPT ![r] = x]
           y == [x EXCEPT !.infos = @ \cup {x.hop}]
<1>1. e \in EventSet /\ e.kind = "requestheaders" /\ e.id = r /\ e.headers = headers
  BY HeaderTypes DEF Context, RawEvent, EventSet
<1>2. x \in ViewSet /\ w[r] = x
  BY DEF Good, Context, ViewOK
<1>3. y \in ViewSet /\ y.hops = x.hops
  <2>1. x.infos \cup {x.hop} \in SUBSET Nat
    BY <1>2 DEF ViewSet
  <2> QED
    BY <1>2, <2>1 DEF ViewSet
<1>5. [w EXCEPT ![r].infos = @ \cup {w[r].hop}] = [w EXCEPT ![r] = y]
  BY <1>2
<1> HIDE DEF e, w, y
<1>4. ASSUME NEW p, PageInv(p, w, o), ViewOK(w, o),
             \A u \in PageUrls : Waiting(p, u) \subseteq Waiting(c.page, u) \cup {r}
      PROVE  /\ PageInv(Observe(p, e), [w EXCEPT ![r] = y], o)
             /\ \A u \in PageUrls : Waiting(Observe(p, e), u) \subseteq Waiting(p, u)
  <2>1. Observe(p, e) = ObserveHeaders(p, e)
    BY <1>1 DEF Observe
  <2>2. /\ PageInv(ObserveHeaders(p, e), [w EXCEPT ![e.id].infos = @ \cup {w[e.id].hop}], o)
        /\ \A u \in PageUrls : Waiting(ObserveHeaders(p, e), u) = Waiting(p, u)
    BY <1>1, <1>2, <1>4, HeadersObserved
  <2> QED
    BY <1>1, <1>5, <2>1, <2>2
<1>6. Good(c, Append(out, e), y)
  BY <1>1, <1>3, <1>4, GoodMore DEF w
<1> QED
  BY <1>6 DEF e, y

\* It may tell of the end of a request it told of.
LEMMA FinishTold ==
  ASSUME NEW c, Context(c), NEW out, NEW x, Good(c, out, x), NEW h \in Nat,
         \/ x.hop # 0
         \/ c.id \in c.oddities["overtaken"] /\ h \in c.also /\ h <= Len(Chain[c.id])
  PROVE  Good(c, Append(out, RawEvent("requestfinished", c.id, h, NoHeaders, NoHeaders)), x)
<1> DEFINE e == RawEvent("requestfinished", c.id, h, NoHeaders, NoHeaders)
           r == c.id
           o == c.oddities
           w == [c.view EXCEPT ![r] = x]
<1>1. e \in EventSet /\ e.kind = "requestfinished" /\ e.id = r /\ e.hop = h
  BY HeaderTypes DEF Context, RawEvent, EventSet
<1>2. x \in ViewSet /\ w[r] = x /\ [w EXCEPT ![r] = x] = w
      /\ \A s \in Requests : s # r => w[s] = c.view[s]
  BY DEF Good, Context, ViewOK
<1> HIDE DEF e, w
<1>3. ASSUME NEW p, PageInv(p, w, o), ViewOK(w, o),
             \A u \in PageUrls : Waiting(p, u) \subseteq Waiting(c.page, u) \cup {r},
             \A a \in c.also : Fine(c, a)
      PROVE  /\ PageInv(Observe(p, e), w, o)
             /\ \A u \in PageUrls : Waiting(Observe(p, e), u) \subseteq Waiting(p, u)
  <2>1. Observe(p, e) = ObserveCompletion(p, e)
    BY <1>1 DEF Observe
  <2>2. CASE x.hop # 0
    <3>1. /\ PageInv(ObserveCompletion(p, e), w, o)
          /\ \A u \in PageUrls : Waiting(ObserveCompletion(p, e), u) = Waiting(p, u)
      BY <1>1, <1>2, <1>3, <2>2, CompletionObserved
    <3> QED
      BY <2>1, <3>1
  <2>3. CASE x.hop = 0
    <3>1. r \in o["overtaken"] /\ Fine(c, h) /\ h <= Len(Chain[r])
      BY <1>3, <2>3
    <3> DEFINE u == UrlOf(r, h)
    <3>2. u \in PageUrls
      BY <3>1, ChainFacts DEF Context
    <3>3. \A k \in DOMAIN p.targets[u] :
            LET s == p.requests[p.targets[u][k]].id
            IN  s = r \/ (s \in o["crossed"] /\ r \in o["crossed"])
      <4>1. \A k \in DOMAIN p.targets[u] : p.requests[p.targets[u][k]].id \in Waiting(p, u)
        BY DEF Waiting
      <4> QED
        BY <1>3, <3>1, <3>2, <4>1 DEF Fine
    <3>4. Fits(p, w, o, e, w[e.id])
      BY <1>1, <1>2, <2>3, <3>1, <3>3 DEF Fits
    <3>5. OthersGivenUp(w, o, e.id)
      <4> SUFFICES ASSUME r \in Navigations, NEW n \in Navigations, w[n].hop # 0, w[n].open
                   PROVE  n \in o["abandoned"] \/ n \in o["overtaken"]
        BY <1>1 DEF OthersGivenUp
      <4>1. n # r
        BY <1>2, <2>3
      <4>2. w[n] = c.view[n]
        BY <1>2, <4>1, NavigationsAssumption
      <4> QED
        BY <3>1, <4>1, <4>2 DEF Fine
    <3>6. /\ PageInv(ObserveCompletion(p, e), w, o)
          /\ \A z \in PageUrls : Waiting(ObserveCompletion(p, e), z) \subseteq Waiting(p, z)
      BY <1>1, <1>2, <1>3, <2>3, <3>1, <3>4, <3>5, EarlyCompletionObserved
    <3> QED
      BY <2>1, <3>6
  <2> QED
    BY <2>2, <2>3
<1>4. Good(c, Append(out, e), x)
  BY <1>1, <1>2, <1>3, GoodMore DEF w
<1> QED
  BY <1>4 DEF e

\* It may tell of the failure of a request it told of.
LEMMA FailTold ==
  ASSUME NEW c, Context(c), NEW out, NEW x, Good(c, out, x), NEW h \in Nat,
         x.hop # 0, x.over
  PROVE  Good(c, Append(out, RawEvent("requestfailed", c.id, h, NoHeaders, NoHeaders)), x)
<1> DEFINE e == RawEvent("requestfailed", c.id, h, NoHeaders, NoHeaders)
           r == c.id
           o == c.oddities
           w == [c.view EXCEPT ![r] = x]
<1>1. e \in EventSet /\ e.kind = "requestfailed" /\ e.id = r
  BY HeaderTypes DEF Context, RawEvent, EventSet
<1>2. x \in ViewSet /\ w[r] = x /\ [w EXCEPT ![r] = x] = w
  BY DEF Good, Context, ViewOK
<1> HIDE DEF e, w
<1>3. ASSUME NEW p, PageInv(p, w, o), ViewOK(w, o)
      PROVE  /\ PageInv(Observe(p, e), w, o)
             /\ \A u \in PageUrls : Waiting(Observe(p, e), u) \subseteq Waiting(p, u)
  <2>1. Observe(p, e) = ObserveFailure(p, e)
    BY <1>1 DEF Observe
  <2>2. /\ PageInv(ObserveFailure(p, e), w, o)
        /\ \A u \in PageUrls : Waiting(ObserveFailure(p, e), u) = Waiting(p, u)
    BY <1>1, <1>2, <1>3, FailureObserved
  <2> QED
    BY <2>1, <2>2
<1>4. Good(c, Append(out, e), x)
  BY <1>1, <1>2, <1>3, GoodMore DEF w
<1> QED
  BY <1>4 DEF e

-----------------------------------------------------------------------------
(* The answers that wait are one at most.                                  *)

\* The subsets of the domain of a sequence of one.
LEMMA SubsetsOfOne == /\ SUBSET {1} = {{}, {1}} /\ {1} # {} /\ {1} \ {1} = {} /\ Max({1}) = 1
<1>1. Max({1}) = 1
  BY DEF Max
<1>2. SUBSET {1} = {{}, {1}}
  OBVIOUS
<1> QED
  BY <1>1, <1>2

\* Where no response waited for the request event, none is handled.
LEMMA NothingHandled ==
  ASSUME NEW r, NEW s
  PROVE  HandleResponses(r, s, <<>>) = s
<1> DEFINE Eq(f) == f = [x \in SUBSET {} |->
                           IF x = {} THEN s ELSE HandleResponse(r, f[x \ {Max(x)}], <<>>[Max(x)])]
<1>1. DOMAIN <<>> = {}
  OBVIOUS
<1>2. \E f : Eq(f)
  <2> DEFINE g == [x \in SUBSET {} |-> s]
  <2>1. Eq(g)
    OBVIOUS
  <2> QED
    BY <2>1
<1> DEFINE it == CHOOSE f : Eq(f)
<1>3. Eq(it)
  BY <1>2
<1>4. HandleResponses(r, s, <<>>) = it[{}]
  BY <1>1 DEF HandleResponses, FoldLeft, MapThenFoldSet
<1> HIDE DEF it
<1>5. it[{}] = s
  BY <1>3
<1> QED
  BY <1>4, <1>5

\* The one response that waited is handled.
LEMMA OneHandled ==
  ASSUME NEW r, NEW s, NEW n
  PROVE  HandleResponses(r, s, <<n>>) = HandleResponse(r, s, n)
<1> DEFINE Eq(f) == f = [x \in SUBSET {1} |->
                           IF x = {} THEN s ELSE HandleResponse(r, f[x \ {Max(x)}], <<n>>[Max(x)])]
<1>1. DOMAIN <<n>> = {1} /\ <<n>>[1] = n
  OBVIOUS
<1>2. \E f : Eq(f)
  <2> DEFINE g == [x \in SUBSET {1} |-> IF x = {} THEN s ELSE HandleResponse(r, s, n)]
  <2>1. ASSUME NEW x \in SUBSET {1}, x # {} PROVE g[x \ {Max(x)}] = s /\ <<n>>[Max(x)] = n
    BY <2>1, <1>1, SubsetsOfOne
  <2>2. Eq(g)
    <3> DEFINE k == [x \in SUBSET {1} |->
                       IF x = {} THEN s ELSE HandleResponse(r, g[x \ {Max(x)}], <<n>>[Max(x)])]
    <3>1. \A x \in SUBSET {1} : g[x] = k[x]
      BY <2>1
    <3>2. g = k
      BY <3>1
    <3> QED
      BY <3>2
  <2> HIDE DEF g
  <2> QED
    BY <2>2
<1> DEFINE it == CHOOSE f : Eq(f)
<1>3. Eq(it)
  BY <1>2
<1>4. HandleResponses(r, s, <<n>>) = it[{1}]
  BY <1>1 DEF HandleResponses, FoldLeft, MapThenFoldSet
<1> HIDE DEF it
<1>5. it[{}] = s /\ it[{1}] = HandleResponse(r, it[{1} \ {Max({1})}], <<n>>[Max({1})])
  BY <1>3, SubsetsOfOne
<1> QED
  BY <1>1, <1>4, <1>5, SubsetsOfOne

\* The one response that was held is told of.
LEMMA OneGivenUp ==
  ASSUME NEW r, NEW s, NEW n
  PROVE  FoldLeft(LAMBDA t, h : GiveUp(r, t, h), s, <<n>>) = GiveUp(r, s, n)
<1> DEFINE Eq(f) == f = [x \in SUBSET {1} |->
                           IF x = {} THEN s ELSE GiveUp(r, f[x \ {Max(x)}], <<n>>[Max(x)])]
<1>1. DOMAIN <<n>> = {1} /\ <<n>>[1] = n
  OBVIOUS
<1>2. \E f : Eq(f)
  <2> DEFINE g == [x \in SUBSET {1} |-> IF x = {} THEN s ELSE GiveUp(r, s, n)]
  <2>1. ASSUME NEW x \in SUBSET {1}, x # {} PROVE g[x \ {Max(x)}] = s /\ <<n>>[Max(x)] = n
    BY <2>1, <1>1, SubsetsOfOne
  <2>2. Eq(g)
    <3> DEFINE k == [x \in SUBSET {1} |->
                       IF x = {} THEN s ELSE GiveUp(r, g[x \ {Max(x)}], <<n>>[Max(x)])]
    <3>1. \A x \in SUBSET {1} : g[x] = k[x]
      BY <2>1
    <3>2. g = k
      BY <3>1
    <3> QED
      BY <3>2
  <2> HIDE DEF g
  <2> QED
    BY <2>2
<1> DEFINE it == CHOOSE f : Eq(f)
<1>3. Eq(it)
  BY <1>2
<1>4. FoldLeft(LAMBDA t, h : GiveUp(r, t, h), s, <<n>>) = it[{1}]
  BY <1>1 DEF FoldLeft, MapThenFoldSet
<1> HIDE DEF it
<1>5. it[{}] = s /\ it[{1}] = GiveUp(r, it[{1} \ {Max({1})}], <<n>>[Max({1})])
  BY <1>3, SubsetsOfOne
<1> QED
  BY <1>1, <1>4, <1>5, SubsetsOfOne

-----------------------------------------------------------------------------
(* What a handler keeps of its request, and tells the page.                *)

HandlerSet == [a : AdapterSet, out : Seq(EventSet)]

\* A handler of c.id has come to s, and x is what it has told the page.
Handler(c, s, x) ==
  /\ s \in HandlerSet
  /\ \A k \in DOMAIN s.a.forResponse :
       s.a.forResponse[k].wire /\ s.a.forResponse[k].hop \in 1 .. x.hops
  /\ Good(c, s.out, x)

Overtaken(c) == c.id \in c.oddities["overtaken"]

\* The answer to the last hop may be told of.
Answerable(c, x) ==
  /\ x.open /\ x.hop = x.hops /\ x.hop # 0
  /\ ~x.over \/ Overtaken(c)

\* Nothing of the adapter has changed but what has to do with responses.
SameRequest(a, b) ==
  /\ b.meta = a.meta /\ b.requestInfos = a.requestInfos /\ b.cached = a.cached
  /\ b.discards = a.discards

\* The types of what a handler works on.
LEMMA AdapterFacts ==
  ASSUME NEW s \in HandlerSet
  PROVE  /\ s = [a |-> s.a, out |-> s.out] /\ s.a \in AdapterSet /\ s.out \in Seq(EventSet)
         /\ s.a.meta \in Nat /\ s.a.held \in Seq([hop : Nat, answers : Seq(Nat)])
         /\ s.a.requestInfos \in Seq(HeaderSet) /\ s.a.forResponse \in Seq(HeaderSet)
         /\ s.a.emitted \in BOOLEAN /\ s.a.cached \in BOOLEAN
         /\ s.a.heldResponses \in Seq(Nat) /\ s.a.responseInfos \in Seq(HeaderSet)
         /\ s.a.discards \in Nat
BY DEF HandlerSet, AdapterSet

\* The first of the headers that are queued.
LEMMA HeadersKept ==
  ASSUME NEW q \in Seq(HeaderSet), q # <<>>
  PROVE  /\ Head(q) \in HeaderSet /\ Head(q) = q[1] /\ 1 \in DOMAIN q
         /\ Tail(q) \in Seq(HeaderSet) /\ Shift(q) = Tail(q)
         /\ Len(Tail(q)) = Len(q) - 1
         /\ \A k \in DOMAIN Tail(q) : k + 1 \in DOMAIN q /\ Tail(q)[k] = q[k + 1]
<1>1. Len(q) \in Nat /\ Len(q) # 0 /\ DOMAIN q = 1 .. Len(q)
  OBVIOUS
<1>2. /\ Head(q) \in HeaderSet /\ Head(q) = q[1] /\ 1 \in DOMAIN q
      /\ Tail(q) \in Seq(HeaderSet) /\ Len(Tail(q)) = Len(q) - 1
      /\ DOMAIN Tail(q) = 1 .. Len(q) - 1
      /\ \A k \in 1 .. Len(q) - 1 : Tail(q)[k] = q[k + 1]
  BY <1>1
<1>3. \A k \in DOMAIN Tail(q) : k + 1 \in DOMAIN q /\ Tail(q)[k] = q[k + 1]
  BY <1>1, <1>2
<1> QED
  BY <1>2, <1>3 DEF Shift

\* The response is told of.
ResponseOut(c, s, t, x) ==
  /\ Handler(c, t, [x EXCEPT !.open = FALSE])
  /\ t.a = [s.a EXCEPT !.forResponse = Shift(@)]
  /\ RequestsIn(s.out) \subseteq RequestsIn(t.out)

\* emitResponseReceived tells of the answer, with headers of its hop.
LEMMA ResponseEmitted ==
  ASSUME NEW c, Context(c), NEW s, NEW x, Handler(c, s, x), Answerable(c, x),
         NEW headers \in HeaderSet, headers.hop = x.hop \/ Overtaken(c),
         NEW t, t = EmitResponse(c.id, s, x.hop, headers)
  PROVE  ResponseOut(c, s, t, x)
<1> DEFINE requestHeaders == IF s.a.forResponse = <<>> THEN NoHeaders ELSE Head(s.a.forResponse)
           e == RawEvent("response", c.id, x.hop, headers, requestHeaders)
           b == [s.a EXCEPT !.forResponse = Shift(@)]
<1>1. s \in HandlerSet /\ Good(c, s.out, x) /\ x \in ViewSet /\ x.hops = c.view[c.id].hops
  BY DEF Handler, Good
<1>2. x.hop \in Nat \ {0} /\ x.hops \in Nat
  BY <1>1 DEF Answerable, ViewSet
<1>3. requestHeaders \in HeaderSet /\
       \/ requestHeaders = NoHeaders
       \/ requestHeaders.wire /\ (x.hop = 1 => requestHeaders.hop = 1)
  <2>1. CASE s.a.forResponse # <<>>
    <3>1. /\ Head(s.a.forResponse) = s.a.forResponse[1] /\ 1 \in DOMAIN s.a.forResponse
          /\ Head(s.a.forResponse) \in HeaderSet
      BY <1>1, <2>1, AdapterFacts, HeadersKept
    <3>2. s.a.forResponse[1].wire /\ s.a.forResponse[1].hop \in 1 .. x.hops
      BY <3>1 DEF Handler
    <3> QED
      BY <1>2, <2>1, <3>1, <3>2 DEF Answerable
  <2>2. CASE s.a.forResponse = <<>>
    BY <2>2, HeaderTypes
  <2> QED
    BY <2>1, <2>2
<1>4. b \in AdapterSet /\ \A k \in DOMAIN b.forResponse :
        b.forResponse[k].wire /\ b.forResponse[k].hop \in 1 .. x.hops
  <2>1. b = [s.a EXCEPT !.forResponse = Shift(s.a.forResponse)]
    OBVIOUS
  <2>2. b.forResponse = Shift(s.a.forResponse)
    BY <1>1, AdapterFacts DEF AdapterSet
  <2>3. Shift(s.a.forResponse) \in Seq(HeaderSet)
    BY <1>1, AdapterFacts, HeadersKept DEF Shift
  <2>4. b \in AdapterSet
    BY <1>1, <2>1, <2>3, AdapterFacts DEF AdapterSet
  <2>5. CASE s.a.forResponse = <<>>
    BY <2>2, <2>4, <2>5 DEF Shift
  <2>6. CASE s.a.forResponse # <<>>
    <3>1. \A k \in DOMAIN Shift(s.a.forResponse) :
            k + 1 \in DOMAIN s.a.forResponse /\ Shift(s.a.forResponse)[k] = s.a.forResponse[k + 1]
      <4>1. s.a.forResponse \in Seq(HeaderSet)
        BY <1>1, AdapterFacts
      <4> QED
        BY <2>6, <4>1, HeadersKept
    <3> QED
      BY <2>2, <2>4, <3>1 DEF Handler
  <2> QED
    BY <2>5, <2>6
<1>5. t = [a |-> b, out |-> Append(s.out, e)]
  <2> DEFINE m == [s EXCEPT !.a.forResponse = Shift(@)]
  <2>1. m = [a |-> b, out |-> s.out]
    <3>1. s = [a |-> s.a, out |-> s.out]
      BY <1>1, AdapterFacts
    <3> QED
      BY <3>1
  <2>2. t = Emit(m, e)
    BY DEF EmitResponse
  <2> HIDE DEF m, e, b
  <2> QED
    BY <2>1, <2>2 DEF Emit
<1>6. Good(c, Append(s.out, e), [x EXCEPT !.open = FALSE])
  <2> HIDE DEF requestHeaders
  <2> QED
    BY <1>1, <1>2, <1>3, AnswerTold DEF Answerable, Overtaken
<1>7. e \in EventSet
  <2> HIDE DEF requestHeaders
  <2> QED
    BY <1>2, <1>3 DEF Context, RawEvent, EventSet
<1>8. [x EXCEPT !.open = FALSE].hops = x.hops
  BY <1>1 DEF ViewSet
<1> HIDE DEF e, b
<1>9. RequestsIn(s.out) \subseteq RequestsIn(t.out) /\ t.out \in Seq(EventSet)
  BY <1>1, <1>5, <1>7, OneEventMore, AdapterFacts
<1>10. t \in HandlerSet
  BY <1>4, <1>5, <1>9 DEF HandlerSet
<1>11. Handler(c, t, [x EXCEPT !.open = FALSE])
  BY <1>4, <1>5, <1>6, <1>8, <1>10 DEF Handler
<1> QED
  BY <1>5, <1>9, <1>11 DEF b, ResponseOut

\* What a handler keeps may change but for the headers for the response.
LEMMA KeptAnew ==
  ASSUME NEW c, NEW s, NEW x, Handler(c, s, x), NEW a \in AdapterSet,
         a.forResponse = s.a.forResponse
  PROVE  Handler(c, [a |-> a, out |-> s.out], x)
<1>1. s \in HandlerSet /\ s.out \in Seq(EventSet)
  BY AdapterFacts DEF Handler
<1>2. [a |-> a, out |-> s.out] \in HandlerSet
  BY <1>1 DEF HandlerSet
<1> QED
  BY <1>2 DEF Handler

\* The head of what is kept for a response is for the response to h.
InfosFit(c, s, h) ==
  s.a.responseInfos # <<>> => Head(s.a.responseInfos).hop = h \/ Overtaken(c)

\* A response was told of or is held.
ResponseDone(c, s, t, x) ==
  /\ SameRequest(s.a, t.a) /\ t.a.held = s.a.held /\ t.a.emitted = s.a.emitted
  /\ RequestsIn(s.out) \subseteq RequestsIn(t.out)
  /\ \/ t.a.responseInfos = s.a.responseInfos
     \/ s.a.responseInfos # <<>> /\ t.a.responseInfos = Tail(s.a.responseInfos)
  /\ \/ t.a.heldResponses = <<>> /\ Handler(c, t, [x EXCEPT !.open = FALSE])
     \/ t.a.heldResponses = <<x.hop>> /\ Handler(c, t, x)

\* handleNetworkResponseReceived tells of the answer or holds it.
LEMMA ResponseHandled ==
  ASSUME NEW c, Context(c), NEW s, NEW x, Handler(c, s, x), Answerable(c, x),
         s.a.heldResponses = <<>>, InfosFit(c, s, x.hop),
         NEW t, t = HandleResponse(c.id, s, x.hop)
  PROVE  ResponseDone(c, s, t, x)
<1>0. s = [a |-> s.a, out |-> s.out] /\ <<>> \in Seq(HeaderSet) /\ <<>> \in Seq(Nat)
  BY AdapterFacts DEF Handler
<1>1. s \in HandlerSet /\ x \in ViewSet /\ s = [a |-> s.a, out |-> s.out] /\ s.a \in AdapterSet
      /\ s.a.responseInfos \in Seq(HeaderSet)
  BY AdapterFacts DEF Handler, Good
<1>2. x.hop \in Nat /\ Announced(x.hop) \in HeaderSet /\ Announced(x.hop).hop = x.hop
  BY <1>1, HeaderTypes DEF ViewSet
<1>3. CASE t = EmitResponse(c.id, s, x.hop, Announced(x.hop))
  <2>0. ResponseOut(c, s, t, x)
    BY <1>2, <1>3, ResponseEmitted
  <2>1. /\ Handler(c, t, [x EXCEPT !.open = FALSE])
        /\ t.a = [s.a EXCEPT !.forResponse = Shift(@)]
        /\ RequestsIn(s.out) \subseteq RequestsIn(t.out)
    BY <2>0 DEF ResponseOut
  <2>2. /\ SameRequest(s.a, t.a) /\ t.a.held = s.a.held /\ t.a.emitted = s.a.emitted
        /\ t.a.responseInfos = s.a.responseInfos /\ t.a.heldResponses = s.a.heldResponses
    BY <1>1, <2>1 DEF AdapterSet, SameRequest
  <2> QED
    BY <2>1, <2>2 DEF ResponseDone
<1>4. CASE t = [s EXCEPT !.a.heldResponses = Append(@, x.hop)]
  <2> DEFINE b == [s.a EXCEPT !.heldResponses = <<x.hop>>]
  <2>1. Append(s.a.heldResponses, x.hop) = <<x.hop>> /\ <<x.hop>> \in Seq(Nat)
    BY <1>2
  <2>2. t = [a |-> b, out |-> s.out]
    <3>1. t = [s EXCEPT !.a.heldResponses = <<x.hop>>]
      BY <1>4, <2>1
    <3> QED
      BY <1>1, <3>1
  <2>3. /\ b \in AdapterSet /\ b.forResponse = s.a.forResponse
        /\ SameRequest(s.a, b) /\ b.held = s.a.held /\ b.emitted = s.a.emitted
        /\ b.responseInfos = s.a.responseInfos /\ b.heldResponses = <<x.hop>>
    BY <1>1, <2>1 DEF AdapterSet, SameRequest
  <2> HIDE DEF b
  <2>4. Handler(c, t, x)
    BY <2>2, <2>3, KeptAnew
  <2> QED
    BY <2>2, <2>3, <2>4 DEF ResponseDone
<1>5. CASE /\ s.a.responseInfos # <<>>
           /\ t = EmitResponse(c.id, [s EXCEPT !.a.responseInfos = Tail(@)], x.hop,
                               Head(s.a.responseInfos))
  <2> DEFINE b == [s.a EXCEPT !.responseInfos = Tail(s.a.responseInfos)]
             m == [a |-> b, out |-> s.out]
  <2>1. Tail(s.a.responseInfos) \in Seq(HeaderSet) /\ Head(s.a.responseInfos) \in HeaderSet
    BY <1>1, <1>5, HeadersKept
  <2>2. [s EXCEPT !.a.responseInfos = Tail(@)] = m
    <3>1. [s EXCEPT !.a.responseInfos = Tail(@)] = [s EXCEPT !.a.responseInfos = Tail(s.a.responseInfos)]
      OBVIOUS
    <3> DEFINE T == Tail(s.a.responseInfos)
    <3>2. [s EXCEPT !.a.responseInfos = T] = [a |-> [s.a EXCEPT !.responseInfos = T], out |-> s.out]
      <4> HIDE DEF T
      <4> QED
        BY <1>0
    <3> QED
      BY <3>1, <3>2
  <2>3. /\ b \in AdapterSet /\ b.forResponse = s.a.forResponse
        /\ SameRequest(s.a, b) /\ b.held = s.a.held /\ b.emitted = s.a.emitted
        /\ b.responseInfos = Tail(s.a.responseInfos) /\ b.heldResponses = <<>>
    BY <1>1, <2>1 DEF AdapterSet, SameRequest
  <2> HIDE DEF b
  <2>4. Handler(c, m, x) /\ m.a = b /\ m.out = s.out
    BY <2>3, KeptAnew
  <2>5. t = EmitResponse(c.id, m, x.hop, Head(s.a.responseInfos))
    BY <1>5, <2>2
  <2> HIDE DEF m
  <2>e. Head(s.a.responseInfos).hop = x.hop \/ Overtaken(c)
    BY <1>5 DEF InfosFit
  <2>f. ResponseOut(c, m, t, x)
    BY <2>1, <2>4, <2>5, <2>e, ResponseEmitted
  <2>6. /\ Handler(c, t, [x EXCEPT !.open = FALSE])
        /\ t.a = [m.a EXCEPT !.forResponse = Shift(@)]
        /\ RequestsIn(m.out) \subseteq RequestsIn(t.out)
    BY <2>f DEF ResponseOut
  <2>7. /\ SameRequest(b, t.a) /\ t.a.held = b.held /\ t.a.emitted = b.emitted
        /\ t.a.responseInfos = b.responseInfos /\ t.a.heldResponses = b.heldResponses
    BY <2>3, <2>4, <2>6 DEF AdapterSet, SameRequest
  <2> QED
    BY <1>5, <2>3, <2>4, <2>6, <2>7 DEF ResponseDone, SameRequest
<1> QED
  BY <1>3, <1>4, <1>5 DEF HandleResponse

\* What was held of a response is told of.
ResponsesOut(c, s, t, x) ==
  /\ SameRequest(s.a, t.a) /\ t.a.held = s.a.held /\ t.a.emitted = s.a.emitted
  /\ RequestsIn(s.out) \subseteq RequestsIn(t.out)
  /\ t.a.heldResponses = <<>>
  /\ \/ t.a.responseInfos = <<>>
     \/ s.a.heldResponses # <<>> /\ t.a.responseInfos = Shift(s.a.responseInfos)
  /\ Handler(c, t, IF s.a.heldResponses = <<>> THEN x ELSE [x EXCEPT !.open = FALSE])

\* flushPendingResponseEvent tells of the answer that is held.
LEMMA ResponsesFlushed ==
  ASSUME NEW c, Context(c), NEW s, NEW x, Handler(c, s, x),
         s.a.heldResponses # <<>> => s.a.heldResponses = <<x.hop>> /\ Answerable(c, x),
         InfosFit(c, s, x.hop), NEW t, t = FlushResponses(c.id, s)
  PROVE  ResponsesOut(c, s, t, x)
<1>0. s = [a |-> s.a, out |-> s.out] /\ <<>> \in Seq(HeaderSet) /\ <<>> \in Seq(Nat)
  BY AdapterFacts DEF Handler
<1>1. s \in HandlerSet /\ x \in ViewSet /\ s = [a |-> s.a, out |-> s.out] /\ s.a \in AdapterSet
      /\ s.a.responseInfos \in Seq(HeaderSet)
  BY AdapterFacts DEF Handler, Good
<1>2. x.hop \in Nat /\ Announced(x.hop) \in HeaderSet /\ Announced(x.hop).hop = x.hop
  BY <1>1, HeaderTypes DEF ViewSet
<1>3. CASE s.a.heldResponses = <<>>
  <2> DEFINE b == [s.a EXCEPT !.responseInfos = <<>>]
  <2>1. t = [a |-> b, out |-> s.out]
    BY <1>1, <1>3 DEF FlushResponses
  <2>2. /\ b \in AdapterSet /\ b.forResponse = s.a.forResponse
        /\ SameRequest(s.a, b) /\ b.held = s.a.held /\ b.emitted = s.a.emitted
        /\ b.responseInfos = <<>> /\ b.heldResponses = <<>>
    BY <1>0, <1>1, <1>3 DEF AdapterSet, SameRequest
  <2> HIDE DEF b
  <2>3. Handler(c, t, x)
    BY <2>1, <2>2, KeptAnew
  <2> QED
    BY <1>3, <2>1, <2>2, <2>3 DEF ResponsesOut
<1>4. CASE s.a.heldResponses # <<>>
  <2> DEFINE n == [s EXCEPT !.a.heldResponses = <<>>]
             headers == IF n.a.responseInfos = <<>> THEN Announced(x.hop)
                        ELSE Head(n.a.responseInfos)
             b == [s.a EXCEPT !.heldResponses = <<>>, !.responseInfos = Shift(s.a.responseInfos)]
             m == [a |-> b, out |-> s.out]
  <2>1. t = FoldLeft(LAMBDA u, h : GiveUp(c.id, u, h), n, <<x.hop>>)
    BY <1>4 DEF FlushResponses
  <2> HIDE DEF n
  <2>2. t = GiveUp(c.id, n, x.hop)
    BY <2>1, OneGivenUp
  <2>3. t = EmitResponse(c.id, [n EXCEPT !.a.responseInfos = Shift(@)], x.hop, headers)
    BY <2>2 DEF GiveUp
  <2>n. n = [a |-> [s.a EXCEPT !.heldResponses = <<>>], out |-> s.out]
    BY <1>0 DEF n
  <2>4. n.a.responseInfos = s.a.responseInfos
    BY <1>1, <2>n DEF AdapterSet
  <2>5. [n EXCEPT !.a.responseInfos = Shift(@)] = m
    <3>1. [n EXCEPT !.a.responseInfos = Shift(@)] = [n EXCEPT !.a.responseInfos = Shift(s.a.responseInfos)]
      BY <2>4
    <3> QED
      BY <2>n, <3>1
  <2>6. Shift(s.a.responseInfos) \in Seq(HeaderSet)
    BY <1>1, HeadersKept DEF Shift
  <2>7. /\ b \in AdapterSet /\ b.forResponse = s.a.forResponse
        /\ SameRequest(s.a, b) /\ b.held = s.a.held /\ b.emitted = s.a.emitted
        /\ b.responseInfos = Shift(s.a.responseInfos) /\ b.heldResponses = <<>>
    BY <1>0, <1>1, <2>6 DEF AdapterSet, SameRequest
  <2>8. headers \in HeaderSet /\ (headers.hop = x.hop \/ Overtaken(c))
    <3>1. CASE s.a.responseInfos = <<>>
      BY <1>2, <2>4, <3>1
    <3>2. CASE s.a.responseInfos # <<>>
      <4>1. Head(s.a.responseInfos) \in HeaderSet
        BY <1>1, <3>2, HeadersKept
      <4> QED
        BY <2>4, <3>2, <4>1 DEF InfosFit
    <3> QED
      BY <3>1, <3>2
  <2> HIDE DEF b, headers
  <2>9. Handler(c, m, x) /\ m.a = b /\ m.out = s.out
    BY <2>7, KeptAnew
  <2>10. t = EmitResponse(c.id, m, x.hop, headers)
    BY <2>3, <2>5
  <2> HIDE DEF m
  <2>f. ResponseOut(c, m, t, x)
    BY <1>4, <2>8, <2>9, <2>10, ResponseEmitted
  <2>11. /\ Handler(c, t, [x EXCEPT !.open = FALSE])
         /\ t.a = [m.a EXCEPT !.forResponse = Shift(@)]
         /\ RequestsIn(m.out) \subseteq RequestsIn(t.out)
    BY <2>f DEF ResponseOut
  <2>12. /\ SameRequest(b, t.a) /\ t.a.held = b.held /\ t.a.emitted = b.emitted
         /\ t.a.responseInfos = b.responseInfos /\ t.a.heldResponses = b.heldResponses
    BY <2>7, <2>9, <2>11 DEF AdapterSet, SameRequest
  <2> QED
    BY <1>4, <2>7, <2>9, <2>11, <2>12 DEF ResponsesOut, SameRequest
<1> QED
  BY <1>3, <1>4

\* The request event that is held may go out with these headers, and then
\* the page knows y of the request, but for the answer that waits.
Releasable(c, s, x, y, headers) ==
  /\ y \in ViewSet /\ y.hops = x.hops /\ y.open /\ y.hop # 0 /\ y.hop <= Len(Chain[c.id])
  /\ \/ s.a.held = <<[hop |-> y.hop, answers |-> <<>>]>>
     \/ /\ s.a.held = <<[hop |-> y.hop, answers |-> <<y.hop>>]>>
        /\ Answerable(c, y) /\ s.a.heldResponses = <<>> /\ InfosFit(c, s, y.hop)
  /\ headers \in HeaderSet
  /\ ~Overtaken(c) =>
       /\ y.hop = x.hop + 1 /\ y.hop <= x.hops
       /\ x.hop = 0 \/ ~x.open
       /\ y.infos \subseteq x.infos \cup {y.hop}
       /\ c.id \notin c.oddities["misdirected"] =>
            headers.hop = y.hop /\ (y.hop \in y.infos => headers.wire)

RequestOut(c, s, t, y) ==
  /\ SameRequest(s.a, t.a) /\ t.a.held = <<>> /\ t.a.emitted
  /\ RequestsIn(s.out) \subseteq RequestsIn(t.out)
  /\ \E e \in RequestsIn(t.out) : e.hop = y.hop
  /\ \/ t.a.responseInfos = s.a.responseInfos
     \/ s.a.responseInfos # <<>> /\ t.a.responseInfos = Tail(s.a.responseInfos)
  /\ IF Head(s.a.held).answers = <<>>
     THEN /\ t.a.heldResponses = s.a.heldResponses /\ t.a.responseInfos = s.a.responseInfos
          /\ Handler(c, t, y)
     ELSE \/ t.a.heldResponses = <<>> /\ Handler(c, t, [y EXCEPT !.open = FALSE])
          \/ t.a.heldResponses = <<y.hop>> /\ Handler(c, t, y)

\* A request event that is held goes out, and then its answer.
LEMMA RequestReleased ==
  ASSUME NEW c, Context(c), NEW s, NEW x, Handler(c, s, x), NEW y, NEW headers,
         Releasable(c, s, x, y, headers), NEW t, t = Release(c.id, s, headers)
  PROVE  RequestOut(c, s, t, y)
<1> DEFINE e == RawEvent("request", c.id, y.hop, headers, NoHeaders)
           b == [s.a EXCEPT !.held = <<>>, !.emitted = TRUE]
           m == [a |-> b, out |-> Append(s.out, e)]
           answers == Head(s.a.held).answers
<1>0. s = [a |-> s.a, out |-> s.out] /\ <<>> \in Seq([hop : Nat, answers : Seq(Nat)])
  BY AdapterFacts DEF Handler
<1>1. s \in HandlerSet /\ Good(c, s.out, x) /\ s.a \in AdapterSet /\ s.out \in Seq(EventSet)
  BY AdapterFacts DEF Handler
<1>2. y.hop \in Nat \ {0} /\ y \in ViewSet /\ headers \in HeaderSet
  BY DEF Releasable, ViewSet
<1>3. /\ s.a.held # <<>> /\ Tail(s.a.held) = <<>> /\ Head(s.a.held).hop = y.hop
      /\ \/ answers = <<>>
         \/ /\ answers = <<y.hop>>
            /\ Answerable(c, y) /\ s.a.heldResponses = <<>> /\ InfosFit(c, s, y.hop)
  <2>1. CASE s.a.held = <<[hop |-> y.hop, answers |-> <<>>]>>
    BY <2>1
  <2>2. CASE /\ s.a.held = <<[hop |-> y.hop, answers |-> <<y.hop>>]>>
             /\ Answerable(c, y) /\ s.a.heldResponses = <<>> /\ InfosFit(c, s, y.hop)
    BY <2>2
  <2> QED
    BY <2>1, <2>2 DEF Releasable
<1>4. e \in EventSet /\ e.kind = "request" /\ e.hop = y.hop
  BY <1>2, HeaderTypes DEF Context, RawEvent, EventSet
<1>5. Good(c, Append(s.out, e), y)
  BY <1>1, <1>2, RequestTold DEF Releasable, Overtaken
<1>6. /\ b \in AdapterSet /\ b.forResponse = s.a.forResponse /\ SameRequest(s.a, b)
      /\ b.held = <<>> /\ b.emitted /\ b.responseInfos = s.a.responseInfos
      /\ b.heldResponses = s.a.heldResponses
  BY <1>0, <1>1 DEF AdapterSet, SameRequest
<1>7. t = HandleResponses(c.id, m, answers)
  <2> DEFINE n == [s EXCEPT !.a.held = Tail(@), !.a.emitted = TRUE]
             E == RawEvent("request", c.id, Head(s.a.held).hop, headers, NoHeaders)
  <2>1. t = HandleResponses(c.id, Emit(n, E), answers)
    BY DEF Release
  <2>2. E = e
    BY <1>3
  <2>3. n = [a |-> b, out |-> s.out]
    <3>1. n = [s EXCEPT !.a.held = <<>>, !.a.emitted = TRUE]
      BY <1>0, <1>3
    <3> DEFINE k == [s EXCEPT !.a.held = <<>>]
    <3>2. k = [a |-> [s.a EXCEPT !.held = <<>>], out |-> s.out]
      BY <1>0
    <3>3. n = [k EXCEPT !.a.emitted = TRUE]
      BY <3>1
    <3> HIDE DEF k, n
    <3> QED
      BY <3>2, <3>3
  <2> HIDE DEF n, E, e, b
  <2>4. Emit(n, E) = m
    BY <2>2, <2>3 DEF Emit
  <2> HIDE DEF m, answers
  <2> QED
    BY <2>1, <2>4
<1> HIDE DEF e, b
<1>8. /\ Append(s.out, e) \in Seq(EventSet)
      /\ RequestsIn(s.out) \subseteq RequestsIn(Append(s.out, e))
      /\ e \in RequestsIn(Append(s.out, e))
  BY <1>1, <1>4, OneEventMore
<1>9. /\ m \in HandlerSet /\ m.a = b /\ m.out = Append(s.out, e)
      /\ Handler(c, m, y)
  <2>1. m \in HandlerSet
    BY <1>6, <1>8 DEF HandlerSet
  <2>2. x.hops = y.hops
    BY DEF Releasable
  <2> QED
    BY <1>5, <1>6, <2>1, <2>2 DEF Handler
<1> HIDE DEF m
<1>10. CASE answers = <<>>
  <2> HIDE DEF answers
  <2>0. HandleResponses(c.id, m, answers) = m
    BY <1>10, NothingHandled
  <2>1. t = m
    BY <1>7, <2>0
  <2> QED
    BY <1>4, <1>6, <1>8, <1>9, <1>10, <2>1 DEF RequestOut, answers
<1>11. CASE /\ answers = <<y.hop>> /\ answers # <<>>
            /\ Answerable(c, y) /\ s.a.heldResponses = <<>> /\ InfosFit(c, s, y.hop)
  <2> HIDE DEF answers
  <2>1. t = HandleResponse(c.id, m, y.hop)
    BY <1>7, <1>11, OneHandled
  <2>2. InfosFit(c, m, y.hop) /\ m.a.heldResponses = <<>>
    BY <1>6, <1>9, <1>11 DEF InfosFit
  <2>3. ResponseDone(c, m, t, y)
    BY <1>9, <1>11, <2>1, <2>2, ResponseHandled
  <2>4. SameRequest(s.a, t.a)
    BY <1>6, <1>9, <2>3 DEF ResponseDone, SameRequest
  <2>5. Head(s.a.held).answers # <<>>
    BY <1>11 DEF answers
  <2> QED
    BY <1>4, <1>6, <1>8, <1>9, <2>3, <2>4, <2>5 DEF RequestOut, ResponseDone
<1> QED
  BY <1>3, <1>10, <1>11

\* flushPendingRequestEvent does that if one is held.
LEMMA RequestFlushed ==
  ASSUME NEW c, Context(c), NEW s, NEW x, Handler(c, s, x), NEW y,
         s.a.held # <<>> => Releasable(c, s, x, y, Announced(y.hop)),
         NEW t, t = FlushRequest(c.id, s)
  PROVE  /\ s.a.held = <<>> => t = s
         /\ s.a.held # <<>> => RequestOut(c, s, t, y)
<1>1. CASE s.a.held = <<>>
  BY <1>1 DEF FlushRequest
<1>2. CASE s.a.held # <<>>
  <2>1. Releasable(c, s, x, y, Announced(y.hop))
    BY <1>2
  <2>2. Head(s.a.held).hop = y.hop
    <3>1. CASE s.a.held = <<[hop |-> y.hop, answers |-> <<>>]>>
      BY <3>1
    <3>2. CASE s.a.held = <<[hop |-> y.hop, answers |-> <<y.hop>>]>>
      BY <3>2
    <3> QED
      BY <2>1, <3>1, <3>2 DEF Releasable
  <2>3. t = Release(c.id, s, Announced(y.hop))
    BY <1>2, <2>2 DEF FlushRequest
  <2>4. RequestOut(c, s, t, y)
    BY <2>1, <2>3, RequestReleased
  <2> QED
    BY <1>2, <2>4
<1> QED
  BY <1>1, <1>2

\* Nothing but the response held is kept of a request that is over.
RequestOver(t) ==
  /\ t.a.meta = 0 /\ t.a.held = <<>> /\ t.a.requestInfos = <<>> /\ t.a.forResponse = <<>>
  /\ ~t.a.emitted /\ ~t.a.cached /\ t.a.discards = 0

\* onRequestSettled leaves nothing kept of the request but its answer.
LEMMA RequestSettled ==
  ASSUME NEW c, Context(c), NEW s, NEW x, Handler(c, s, x), NEW y,
         s.a.held = <<>> => y = x,
         s.a.held # <<>> => Releasable(c, s, x, y, Announced(y.hop)),
         NEW t, t = Settled(c.id, s)
  PROVE  /\ RequestOver(t)
         /\ RequestsIn(s.out) \subseteq RequestsIn(t.out)
         /\ s.a.held # <<>> => \E e \in RequestsIn(t.out) : e.hop = y.hop
         /\ IF s.a.held = <<>> \/ Head(s.a.held).answers = <<>>
            THEN t.a.heldResponses = s.a.heldResponses /\ Handler(c, t, y)
            ELSE \/ t.a.heldResponses = <<>> /\ Handler(c, t, [y EXCEPT !.open = FALSE])
                 \/ t.a.heldResponses = <<y.hop>> /\ Handler(c, t, y)
<1> DEFINE n == FlushRequest(c.id, s)
           b == [Fresh EXCEPT !.heldResponses = n.a.heldResponses,
                              !.responseInfos = n.a.responseInfos]
<1>1. /\ RequestsIn(s.out) \subseteq RequestsIn(n.out)
      /\ s.a.held # <<>> => \E e \in RequestsIn(n.out) : e.hop = y.hop
      /\ IF s.a.held = <<>> \/ Head(s.a.held).answers = <<>>
         THEN n.a.heldResponses = s.a.heldResponses /\ Handler(c, n, y)
         ELSE \/ n.a.heldResponses = <<>> /\ Handler(c, n, [y EXCEPT !.open = FALSE])
              \/ n.a.heldResponses = <<y.hop>> /\ Handler(c, n, y)
  <2>1. CASE s.a.held = <<>>
    BY <2>1 DEF FlushRequest
  <2>2. CASE s.a.held # <<>>
    <3> HIDE DEF n
    <3>1. n = FlushRequest(c.id, s)
      BY DEF n
    <3>2. RequestOut(c, s, n, y)
      BY <2>2, <3>1, RequestFlushed
    <3> QED
      BY <2>2, <3>2 DEF RequestOut
  <2> QED
    BY <2>1, <2>2
<1>2. t = [n EXCEPT !.a = b]
  BY DEF Settled
<1> HIDE DEF n
<1>3. n \in HandlerSet /\ n = [a |-> n.a, out |-> n.out]
      /\ n.a.heldResponses \in Seq(Nat) /\ n.a.responseInfos \in Seq(HeaderSet)
      /\ n.out \in Seq(EventSet)
  <2>1. n \in HandlerSet
    BY <1>1 DEF Handler
  <2> QED
    BY <2>1, AdapterFacts
<1>4. /\ b \in AdapterSet /\ b.forResponse = <<>> /\ b.heldResponses = n.a.heldResponses
      /\ b.meta = 0 /\ b.held = <<>> /\ b.requestInfos = <<>> /\ ~b.emitted /\ ~b.cached
      /\ b.discards = 0
  <2>1. /\ <<>> \in Seq(Nat) /\ <<>> \in Seq(HeaderSet)
        /\ <<>> \in Seq([hop : Nat, answers : Seq(Nat)])
    OBVIOUS
  <2> QED
    BY <1>3, <2>1 DEF AdapterSet, Fresh
<1> HIDE DEF b
<1>5. t = [a |-> b, out |-> n.out] /\ t.a = b /\ t.out = n.out
  BY <1>2, <1>3
<1>6. \A z : Handler(c, n, z) => Handler(c, t, z)
  <2>1. t \in HandlerSet
    BY <1>3, <1>4, <1>5 DEF HandlerSet
  <2>2. \A k \in DOMAIN t.a.forResponse : FALSE
    BY <1>4, <1>5
  <2> QED
    BY <1>5, <2>1, <2>2 DEF Handler
<1> QED
  BY <1>1, <1>4, <1>5, <1>6 DEF RequestOver

-----------------------------------------------------------------------------
(* The events of the browser.                                              *)

StorySet == [hops : Nat \ {0}, extra : SUBSET Nat, cached : BOOLEAN, end : Ends]

\* Sequences that are joined.
LEMMA Joined ==
  ASSUME NEW T, NEW s \in Seq(T), NEW t \in Seq(T)
  PROVE  /\ s \o t \in Seq(T) /\ Len(s \o t) = Len(s) + Len(t)
         /\ \A i \in 1 .. Len(s) + Len(t) :
              (s \o t)[i] = IF i <= Len(s) THEN s[i] ELSE t[i - Len(s)]
OBVIOUS

\* The main events in their order.
LEMMA MainEventsInOrder ==
  ASSUME NEW r \in Requests, story \in [Requests -> StorySet]
  PROVE  /\ Hops(r) \in Nat \ {0} /\ story[r].cached \in BOOLEAN /\ Answered(r) \in BOOLEAN
         /\ Bit(story[r].cached) \in {0, 1} /\ Bit(Answered(r)) \in {0, 1}
         /\ Len(MainEvents(r)) = Hops(r) + Bit(story[r].cached) + Bit(Answered(r)) + 1
         /\ \A i \in 1 .. Len(MainEvents(r)) :
              MainEvents(r)[i] =
                IF i <= Hops(r) THEN [kind |-> "sent", hop |-> i]
                ELSE IF i = Hops(r) + Bit(story[r].cached) + Bit(Answered(r)) + 1
                  THEN [kind |-> "end", hop |-> Hops(r)]
                ELSE IF i = Hops(r) + Bit(story[r].cached) + 1
                  THEN [kind |-> "response", hop |-> Hops(r)]
                ELSE [kind |-> "cached", hop |-> Hops(r)]
<1> DEFINE H == story[r].hops
           S == [kind : {"sent", "cached", "response", "end"}, hop : Nat]
           a == [h \in 1 .. H |-> [kind |-> "sent", hop |-> h]]
           b == IF story[r].cached THEN <<[kind |-> "cached", hop |-> H]>> ELSE <<>>
           c == IF Answered(r) THEN <<[kind |-> "response", hop |-> H]>> ELSE <<>>
           last == <<[kind |-> "end", hop |-> H]>>
           B == Bit(story[r].cached)
           C == Bit(Answered(r))
<1>1. H \in Nat \ {0} /\ story[r].cached \in BOOLEAN /\ Answered(r) \in BOOLEAN
  BY DEF StorySet, Answered
<1>2. a \in Seq(S) /\ Len(a) = H /\ \A i \in 1 .. H : a[i] = [kind |-> "sent", hop |-> i]
  <2>1. a \in [1 .. H -> S]
    BY <1>1
  <2>2. \A i \in 1 .. H : a[i] = [kind |-> "sent", hop |-> i]
    OBVIOUS
  <2>3. a \in Seq(S) /\ Len(a) = H
    <3> HIDE DEF a, S, H
    <3> QED
      BY <1>1, <2>1
  <2> QED
    BY <2>2, <2>3
<1>3. /\ b \in Seq(S) /\ Len(b) = B /\ B \in {0, 1}
      /\ B = 1 => b[1] = [kind |-> "cached", hop |-> H]
  <2> DEFINE k == [kind |-> "cached", hop |-> H]
  <2>1. k \in S
    BY <1>1
  <2> HIDE DEF S, k
  <2>2. story[r].cached => b = <<k>> /\ B = 1
    BY DEF Bit, k
  <2>3. ~story[r].cached => b = <<>> /\ B = 0
    BY DEF Bit
  <2>5. <<>> \in Seq(S) /\ Len(<<>>) = 0 /\ <<k>> \in Seq(S) /\ Len(<<k>>) = 1 /\ <<k>>[1] = k
    BY <2>1
  <2>6. (b = <<k>> /\ B = 1) \/ (b = <<>> /\ B = 0)
    BY <2>2, <2>3
  <2>4. /\ b \in Seq(S) /\ Len(b) = B /\ B \in {0, 1}
        /\ B = 1 => b[1] = k
    <3> HIDE DEF b, B
    <3>1. CASE b = <<k>> /\ B = 1
      BY <2>5, <3>1
    <3>2. CASE b = <<>> /\ B = 0
      BY <2>5, <3>2
    <3> QED
      BY <2>6, <3>1, <3>2
  <2> QED
    BY <2>4 DEF k
<1>4. /\ c \in Seq(S) /\ Len(c) = C /\ C \in {0, 1}
      /\ C = 1 => c[1] = [kind |-> "response", hop |-> H]
  <2> DEFINE k == [kind |-> "response", hop |-> H]
  <2>1. k \in S
    BY <1>1
  <2> HIDE DEF S, k
  <2>2. Answered(r) => c = <<k>> /\ C = 1
    BY DEF Bit, k
  <2>3. ~Answered(r) => c = <<>> /\ C = 0
    BY DEF Bit
  <2>5. <<>> \in Seq(S) /\ Len(<<>>) = 0 /\ <<k>> \in Seq(S) /\ Len(<<k>>) = 1 /\ <<k>>[1] = k
    BY <2>1
  <2>6. (c = <<k>> /\ C = 1) \/ (c = <<>> /\ C = 0)
    BY <2>2, <2>3
  <2>4. /\ c \in Seq(S) /\ Len(c) = C /\ C \in {0, 1}
        /\ C = 1 => c[1] = k
    <3> HIDE DEF c, C
    <3>1. CASE c = <<k>> /\ C = 1
      BY <2>5, <3>1
    <3>2. CASE c = <<>> /\ C = 0
      BY <2>5, <3>2
    <3> QED
      BY <2>6, <3>1, <3>2
  <2> QED
    BY <2>4 DEF k
<1>5. last \in Seq(S) /\ Len(last) = 1 /\ last[1] = [kind |-> "end", hop |-> H]
  <2>1. [kind |-> "end", hop |-> H] \in S
    BY <1>1
  <2> QED
    BY <2>1
<1>6. MainEvents(r) = ((a \o b) \o c) \o last
  BY DEF MainEvents
<1>7. Hops(r) = H
  BY DEF Hops
<1> HIDE DEF H, S, a, b, c, last, B, C
<1>n. H \in Nat /\ B \in 0 .. 1 /\ C \in 0 .. 1
  BY <1>1, <1>3, <1>4
<1>8. /\ a \o b \in Seq(S) /\ Len(a \o b) = H + B
      /\ \A i \in 1 .. H + B : (a \o b)[i] = IF i <= H THEN [kind |-> "sent", hop |-> i]
                                             ELSE [kind |-> "cached", hop |-> H]
  <2>1. a \o b \in Seq(S) /\ Len(a \o b) = H + B
    BY <1>1, <1>2, <1>3
  <2>2. \A i \in 1 .. H + B : (a \o b)[i] = IF i <= H THEN a[i] ELSE b[i - H]
    BY <1>1, <1>2, <1>3
  <2>3. \A i \in 1 .. H + B : i <= H \/ (B = 1 /\ i - H = 1)
    BY <1>1, <1>3
  <2> QED
    BY <1>1, <1>2, <1>3, <2>1, <2>2, <2>3
<1>9. /\ (a \o b) \o c \in Seq(S) /\ Len((a \o b) \o c) = H + B + C
      /\ \A i \in 1 .. H + B + C :
           ((a \o b) \o c)[i] = IF i <= H THEN [kind |-> "sent", hop |-> i]
                                ELSE IF i = H + B + 1 THEN [kind |-> "response", hop |-> H]
                                ELSE [kind |-> "cached", hop |-> H]
  <2> DEFINE e == a \o b
  <2> HIDE DEF e
  <2>0. e \in Seq(S) /\ Len(e) = H + B
        /\ \A i \in 1 .. H + B : e[i] = IF i <= H THEN [kind |-> "sent", hop |-> i]
                                        ELSE [kind |-> "cached", hop |-> H]
    BY <1>8 DEF e
  <2>1. e \o c \in Seq(S) /\ Len(e \o c) = H + B + C
    BY <1>1, <1>3, <1>4, <2>0
  <2>2. \A i \in 1 .. H + B + C : (e \o c)[i] = IF i <= H + B THEN e[i] ELSE c[i - (H + B)]
    BY <1>1, <1>3, <1>4, <2>0
  <2>3. \A i \in 1 .. H + B + C :
          \/ i <= H + B /\ i \in 1 .. H + B /\ i # H + B + 1
          \/ C = 1 /\ i - (H + B) = 1 /\ ~ (i <= H + B) /\ ~ (i <= H) /\ i = H + B + 1
    BY <1>n
  <2>4. \A i \in 1 .. H + B + C :
          (e \o c)[i] = IF i <= H THEN [kind |-> "sent", hop |-> i]
                        ELSE IF i = H + B + 1 THEN [kind |-> "response", hop |-> H]
                        ELSE [kind |-> "cached", hop |-> H]
    BY <1>4, <2>0, <2>2, <2>3
  <2> QED
    BY <2>1, <2>4 DEF e
<1>10. /\ Len(((a \o b) \o c) \o last) = H + B + C + 1
       /\ \A i \in 1 .. H + B + C + 1 :
            (((a \o b) \o c) \o last)[i] =
               IF i <= H THEN [kind |-> "sent", hop |-> i]
               ELSE IF i = H + B + C + 1 THEN [kind |-> "end", hop |-> H]
               ELSE IF i = H + B + 1 THEN [kind |-> "response", hop |-> H]
               ELSE [kind |-> "cached", hop |-> H]
  <2> DEFINE e == (a \o b) \o c
  <2>0. /\ e \in Seq(S) /\ Len(e) = H + B + C
        /\ \A i \in 1 .. H + B + C :
           e[i] = IF i <= H THEN [kind |-> "sent", hop |-> i]
                  ELSE IF i = H + B + 1 THEN [kind |-> "response", hop |-> H]
                  ELSE [kind |-> "cached", hop |-> H]
    BY <1>9
  <2> HIDE DEF e
  <2> DEFINE n == H + B + C
  <2>n. n \in Nat
    BY <1>n
  <2>m. e \in Seq(S) /\ Len(e) = n
    BY <2>0
  <2>1. Len(e \o last) = n + 1 /\ \A i \in 1 .. n + 1 : (e \o last)[i] = IF i <= n THEN e[i] ELSE last[i - n]
    <3> HIDE DEF n
    <3>0. last \in Seq(S)
      BY <1>5
    <3>3. Len(e \o last) = Len(e) + Len(last)
      BY <3>0, <2>m, Joined
    <3>1. Len(e \o last) = n + 1
      BY <1>5, <2>m, <3>3
    <3>2. \A i \in 1 .. Len(e) + Len(last) :
            (e \o last)[i] = IF i <= Len(e) THEN e[i] ELSE last[i - Len(e)]
      BY <3>0, <2>m, Joined
    <3>4. Len(e) = n /\ Len(e) + Len(last) = n + 1
      BY <1>5, <2>m
    <3> QED
      BY <3>1, <3>2, <3>4
  <2>2. \A i \in 1 .. H + B + C + 1 :
          (e \o last)[i] = IF i <= H + B + C THEN e[i] ELSE last[i - (H + B + C)]
    BY <2>1
  <2>3. \A i \in 1 .. H + B + C + 1 :
          \/ i <= H + B + C /\ i \in 1 .. H + B + C /\ i # H + B + C + 1
          \/ i - (H + B + C) = 1 /\ ~ (i <= H + B + C) /\ ~ (i <= H) /\ i = H + B + C + 1
    BY <1>n
  <2>4. \A i \in 1 .. H + B + C + 1 :
            (e \o last)[i] =
               IF i <= H THEN [kind |-> "sent", hop |-> i]
               ELSE IF i = H + B + C + 1 THEN [kind |-> "end", hop |-> H]
               ELSE IF i = H + B + 1 THEN [kind |-> "response", hop |-> H]
               ELSE [kind |-> "cached", hop |-> H]
    BY <1>5, <2>0, <2>2, <2>3
  <2> QED
    BY <2>1, <2>4 DEF e
<1> QED
  BY <1>1, <1>3, <1>4, <1>6, <1>7, <1>10 DEF B, C

\* The place of an extra info among those of its request.
Place(e) == 2 * e.hop + Bit(e.kind = "response")

\* The extra infos are numbered in their order.
LEMMA InfosInOrder ==
  ASSUME NEW r \in Requests, story \in [Requests -> StorySet]
  PROVE  /\ ExtraInfos(r) \subseteq [kind : {"request", "response"}, hop : 1 .. Hops(r)]
         /\ \A e \in ExtraInfos(r) : e.hop \in story[r].extra
         /\ \A e, f \in ExtraInfos(r) : /\ Place(e) \in Nat
                                        /\ Before(e, f) <=> Place(e) < Place(f)
                                        /\ Place(e) = Place(f) => e = f
<1>1. ExtraInfos(r) \subseteq [kind : {"request", "response"}, hop : 1 .. Hops(r)]
      /\ \A e \in ExtraInfos(r) : e.hop \in story[r].extra
  BY DEF ExtraInfos, Hops
<1> SUFFICES ASSUME NEW e \in ExtraInfos(r), NEW f \in ExtraInfos(r)
             PROVE  /\ Place(e) \in Nat
                    /\ Before(e, f) <=> Place(e) < Place(f)
                    /\ Place(e) = Place(f) => e = f
  BY <1>1
<1>2. /\ e.kind \in {"request", "response"} /\ e.hop \in Nat /\ e = [kind |-> e.kind, hop |-> e.hop]
      /\ f.kind \in {"request", "response"} /\ f.hop \in Nat /\ f = [kind |-> f.kind, hop |-> f.hop]
  BY <1>1, MainEventsInOrder
<1>3. /\ Place(e) = 2 * e.hop + IF e.kind = "response" THEN 1 ELSE 0
      /\ Place(f) = 2 * f.hop + IF f.kind = "response" THEN 1 ELSE 0
  BY DEF Place, Bit
<1> QED
  BY <1>2, <1>3 DEF Before

\* The next extra info is the first of those that have not been heard.
LEMMA NextInfo ==
  ASSUME NEW r \in Requests, story \in [Requests -> StorySet],
         heard[r] \subseteq ExtraInfos(r), heard[r] # ExtraInfos(r)
  PROVE  /\ NextExtra(r) \in ExtraInfos(r) \ heard[r]
         /\ \A f \in ExtraInfos(r) \ heard[r] : f = NextExtra(r) \/ Before(NextExtra(r), f)
<1> DEFINE E == ExtraInfos(r) \ heard[r]
           T == {Place(e) : e \in E}
<1>1. E # {}
  OBVIOUS
<1>2. T # {} /\ T \subseteq Nat
  BY <1>1, InfosInOrder
<1>3. PICK x \in T : \A y \in T : ~ (<<y, x>> \in OpToRel(<, Nat))
  BY <1>2, NatLessThanWellFounded, WFMin
<1>4. \A y \in T : ~ (y < x)
  BY <1>2, <1>3 DEF OpToRel
<1>5. PICK e \in E : Place(e) = x
  OBVIOUS
<1>6. \A f \in E : f = e \/ Before(e, f)
  <2> SUFFICES ASSUME NEW f \in E PROVE f = e \/ Before(e, f)
    OBVIOUS
  <2>1. Place(f) \in Nat /\ Place(e) \in Nat /\ ~ (Place(f) < Place(e))
        /\ (Before(e, f) <=> Place(e) < Place(f)) /\ (Place(e) = Place(f) => e = f)
    BY <1>4, <1>5, InfosInOrder
  <2> QED
    BY <2>1
<1> QED
  BY <1>5, <1>6 DEF NextExtra

\* What is heard before an info of the hop h is for hops up to h.
LEMMA InfoComes ==
  ASSUME NEW r \in Requests, story \in [Requests -> StorySet],
         heard[r] \subseteq ExtraInfos(r), heard[r] # ExtraInfos(r),
         \A e \in heard[r], f \in ExtraInfos(r) \ heard[r] : Before(e, f)
  PROVE  /\ NextExtra(r) \in ExtraInfos(r) \ heard[r]
         /\ NextExtra(r).kind \in {"request", "response"} /\ NextExtra(r).hop \in 1 .. Hops(r)
         /\ NextExtra(r) = [kind |-> NextExtra(r).kind, hop |-> NextExtra(r).hop]
         /\ \A e \in heard[r] \cup {NextExtra(r)} :
              \A f \in ExtraInfos(r) \ (heard[r] \cup {NextExtra(r)}) : Before(e, f)
         /\ NextExtra(r).kind = "response" =>
              \A h \in ResponsesHeard(r) : h < NextExtra(r).hop
<1> DEFINE n == NextExtra(r)
<1>1. /\ n \in ExtraInfos(r) \ heard[r]
      /\ \A f \in ExtraInfos(r) \ heard[r] : f = n \/ Before(n, f)
  BY NextInfo
<1> HIDE DEF n
<1>2. n.kind \in {"request", "response"} /\ n.hop \in 1 .. Hops(r) /\ n = [kind |-> n.kind, hop |-> n.hop]
  BY <1>1, InfosInOrder
<1>3. \A e \in heard[r] \cup {n} : \A f \in ExtraInfos(r) \ (heard[r] \cup {n}) : Before(e, f)
  BY <1>1
<1>4. ASSUME n.kind = "response", NEW h \in ResponsesHeard(r) PROVE h < n.hop
  <2>1. Before([kind |-> "response", hop |-> h], n)
    BY <1>1 DEF ResponsesHeard
  <2>2. h \in Nat /\ n.hop \in Nat
    BY <1>2, MainEventsInOrder DEF ResponsesHeard
  <2> QED
    BY <2>1, <2>2 DEF Before
<1> QED
  BY <1>1, <1>2, <1>3, <1>4 DEF n

\* Infos of responses up to a hop are no more than the hops.
LEMMA HeardCount ==
  ASSUME NEW r \in Requests, story \in [Requests -> StorySet]
  PROVE  /\ IsFiniteSet(ResponsesHeard(r)) /\ Cardinality(ResponsesHeard(r)) \in Nat
         /\ \A h \in Nat \ {0} :
              (\A g \in ResponsesHeard(r) : g < h) => Cardinality(ResponsesHeard(r)) <= h - 1
<1> DEFINE R == ResponsesHeard(r)
<1>0. Hops(r) \in Nat
  BY MainEventsInOrder
<1>1. R \subseteq 1 .. Hops(r) /\ R \subseteq Nat /\ \A g \in R : 1 <= g
  BY <1>0 DEF ResponsesHeard
<1>2. IsFiniteSet(R) /\ Cardinality(R) \in Nat
  <2>1. IsFiniteSet(1 .. Hops(r))
    BY <1>0, FS_Interval
  <2>2. IsFiniteSet(R)
    BY <1>1, <2>1, FS_Subset
  <2> QED
    BY <2>2, FS_CardinalityType
<1> HIDE DEF R
<1>3. ASSUME NEW h \in Nat \ {0}, \A g \in R : g < h PROVE Cardinality(R) <= h - 1
  <2>1. R \subseteq 1 .. h - 1
    BY <1>1, <1>3
  <2>2. IsFiniteSet(1 .. h - 1) /\ Cardinality(1 .. h - 1) = h - 1
    BY FS_Interval, h - 1 \in Nat
  <2> QED
    BY <2>1, <2>2, FS_Subset
<1> QED
  BY <1>2, <1>3 DEF R

-----------------------------------------------------------------------------
(* How far a request is.                                                   *)

\* How far a request is, and what is kept of it.
LEMMA Progress ==
  ASSUME AdapterInv, NEW r \in Requests
  PROVE  /\ story \in [Requests -> StorySet] /\ Hops(r) = story[r].hops
         /\ Hops(r) \in Nat \ {0} /\ Hops(r) <= Len(Chain[r]) /\ Len(Chain[r]) \in Nat
         /\ told[r] \in Nat /\ Sent(r) \in 0 .. Hops(r) /\ (Sent(r) = 0 <=> told[r] = 0)
         /\ Responded(r) \in BOOLEAN /\ Over(r) \in BOOLEAN
         /\ Responded(r) => Sent(r) = Hops(r) /\ Answered(r)
         /\ Over(r) => Sent(r) = Hops(r) /\ (Answered(r) => Responded(r))
         /\ adapter[r] \in AdapterSet /\ Held(r) /\ RequestInfosKept(r) /\ ResponseInfosKept(r)
         /\ HopTold(r) \in 0 .. Hops(r)
<1>1. story \in [Requests -> StorySet] /\ Hops(r) = story[r].hops
  BY DEF AdapterInv, StorySet, Hops
<1>2. /\ Hops(r) \in Nat \ {0} /\ Bit(story[r].cached) \in {0, 1} /\ Bit(Answered(r)) \in {0, 1}
      /\ Answered(r) \in BOOLEAN
      /\ Len(MainEvents(r)) = Hops(r) + Bit(story[r].cached) + Bit(Answered(r)) + 1
  BY <1>1, MainEventsInOrder
<1>3. told[r] \in Nat /\ told[r] <= Len(MainEvents(r)) /\ Hops(r) <= Len(Chain[r])
      /\ adapter[r] \in AdapterSet /\ Held(r) /\ RequestInfosKept(r) /\ ResponseInfosKept(r)
  BY DEF AdapterInv
<1>4. Len(Chain[r]) \in Nat
  BY ChainFacts
<1>5. Sent(r) \in 0 .. Hops(r) /\ (Sent(r) = 0 <=> told[r] = 0)
  BY <1>2, <1>3 DEF Sent
<1>6. Responded(r) \in BOOLEAN /\ Over(r) \in BOOLEAN
  BY DEF Responded, Over, Answered
<1>7. Responded(r) => Sent(r) = Hops(r) /\ Answered(r)
  BY <1>2, <1>3 DEF Sent, Responded
<1>8. Over(r) => Sent(r) = Hops(r) /\ (Answered(r) => Responded(r))
  BY <1>2, <1>3 DEF Sent, Responded, Over, Bit
<1>9. HopTold(r) \in 0 .. Hops(r)
  <2>1. adapter[r].held # <<>> => told[r] # 0
    BY <1>3 DEF Held
  <2> QED
    BY <1>2, <1>3, <1>5, <2>1 DEF HopTold
<1> QED
  BY <1>1, <1>2, <1>3, <1>4, <1>5, <1>6, <1>7, <1>8, <1>9

\* The next main event, and how far the request is once it was handled.
SentNext(r) ==
  /\ NextMain(r) = [kind |-> "sent", hop |-> told[r] + 1]
  /\ Sent(r) = told[r] /\ Sent(r)' = told[r] + 1 /\ told[r] < Hops(r)
  /\ ~Responded(r) /\ ~Responded(r)' /\ ~Over(r)'

CachedNext(r) ==
  /\ NextMain(r) = [kind |-> "cached", hop |-> Hops(r)]
  /\ Sent(r) = Hops(r) /\ Sent(r)' = Hops(r)
  /\ ~Responded(r) /\ ~Responded(r)' /\ ~Over(r)'

ResponseNext(r) ==
  /\ NextMain(r) = [kind |-> "response", hop |-> Hops(r)]
  /\ Sent(r) = Hops(r) /\ Sent(r)' = Hops(r)
  /\ ~Responded(r) /\ Responded(r)' /\ ~Over(r)'

EndNext(r) ==
  /\ NextMain(r) = [kind |-> "end", hop |-> Hops(r)]
  /\ Sent(r) = Hops(r) /\ Sent(r)' = Hops(r)
  /\ Responded(r) <=> Answered(r)
  /\ Responded(r)' = Responded(r) /\ Over(r)'

\* The main event that comes is of one of four kinds.
LEMMA MainComes ==
  ASSUME AdapterInv, NEW r \in Requests, ~Over(r), story' = story, told'[r] = told[r] + 1
  PROVE  /\ told'[r] <= Len(MainEvents(r)) /\ Hops(r)' = Hops(r) /\ told'[r] # 0
         /\ SentNext(r) \/ CachedNext(r) \/ ResponseNext(r) \/ EndNext(r)
<1> DEFINE H == Hops(r)
           B == Bit(story[r].cached)
           C == Bit(Answered(r))
           L == Len(MainEvents(r))
           n == told[r] + 1
<1>1. story \in [Requests -> StorySet] /\ told[r] \in Nat /\ told[r] <= L
  BY Progress DEF AdapterInv
<1>2. /\ H \in Nat \ {0} /\ B \in 0 .. 1 /\ C \in 0 .. 1 /\ L = H + B + C + 1
      /\ \A i \in 1 .. L :
           MainEvents(r)[i] =
                IF i <= H THEN [kind |-> "sent", hop |-> i]
                ELSE IF i = H + B + C + 1 THEN [kind |-> "end", hop |-> H]
                ELSE IF i = H + B + 1 THEN [kind |-> "response", hop |-> H]
                ELSE [kind |-> "cached", hop |-> H]
  BY <1>1, MainEventsInOrder
<1>3. n \in 1 .. L
  BY <1>1, <1>2 DEF Over
<1>4. NextMain(r) = MainEvents(r)[n]
  BY DEF NextMain
<1>5. /\ Hops(r)' = H
      /\ Sent(r) = (IF told[r] <= H THEN told[r] ELSE H)
      /\ Sent(r)' = (IF n <= H THEN n ELSE H)
      /\ Responded(r) <=> Answered(r) /\ told[r] > H + B
      /\ Responded(r)' <=> Answered(r) /\ n > H + B
      /\ Over(r)' <=> n = L
  BY DEF Hops, Sent, Responded, Over, Answered, MainEvents
<1>6. (Answered(r) <=> C = 1) /\ Answered(r) \in BOOLEAN
  BY DEF Bit, Answered
<1>7. Responded(r) \in BOOLEAN /\ Responded(r)' \in BOOLEAN
  BY DEF Responded, Answered
<1>8. n = told[r] + 1
  OBVIOUS
<1> HIDE DEF H, B, C, L, n
<1>13. NextMain(r) = IF n <= H THEN [kind |-> "sent", hop |-> n]
                     ELSE IF n = H + B + C + 1 THEN [kind |-> "end", hop |-> H]
                     ELSE IF n = H + B + 1 THEN [kind |-> "response", hop |-> H]
                     ELSE [kind |-> "cached", hop |-> H]
  BY <1>2, <1>3, <1>4
<1>14. H \in Nat /\ B \in 0 .. 1 /\ C \in 0 .. 1 /\ L = H + B + C + 1 /\ n \in Nat
  BY <1>2, <1>3
<1>9. CASE n <= H
  <2>1. NextMain(r) = [kind |-> "sent", hop |-> n]
    BY <1>2, <1>3, <1>4, <1>9
  <2>2. ~Responded(r) /\ ~Responded(r)'
    BY <1>1, <1>2, <1>5, <1>8, <1>9
  <2>3. ~Over(r)' /\ Sent(r) = told[r] /\ Sent(r)' = n /\ told[r] < H
    BY <1>1, <1>2, <1>5, <1>8, <1>9
  <2>4. SentNext(r)
    BY <1>8, <2>1, <2>2, <2>3 DEF SentNext, H
  <2> QED
    BY <1>1, <1>3, <1>5, <1>8, <2>4 DEF H, L
<1>10. CASE n = L
  <2>1. NextMain(r) = [kind |-> "end", hop |-> H]
    <3>1. ~ (n <= H) /\ n = H + B + C + 1
      BY <1>10, <1>14
    <3> QED
      BY <1>13, <3>1
  <2>2. Responded(r) <=> Answered(r)
    BY <1>1, <1>2, <1>5, <1>6, <1>8, <1>10
  <2>3. Responded(r)' <=> Answered(r)
    BY <1>1, <1>2, <1>5, <1>6, <1>8, <1>10
  <2>4. Over(r)' /\ Sent(r) = H /\ Sent(r)' = H
    BY <1>1, <1>2, <1>5, <1>8, <1>10
  <2>5. EndNext(r)
    BY <1>6, <1>7, <2>1, <2>2, <2>3, <2>4 DEF EndNext, H
  <2> QED
    BY <1>1, <1>3, <1>5, <1>8, <2>5 DEF H, L
<1>11. CASE n = H + B + 1 /\ n # L
  <2>1. NextMain(r) = [kind |-> "response", hop |-> H]
    <3>1. ~ (n <= H) /\ n # H + B + C + 1 /\ n = H + B + 1
      BY <1>11, <1>14
    <3> QED
      BY <1>13, <3>1
  <2>2. ~Responded(r) /\ Responded(r)'
    BY <1>1, <1>2, <1>5, <1>6, <1>8, <1>11
  <2>3. ~Over(r)' /\ Sent(r) = H /\ Sent(r)' = H
    BY <1>1, <1>2, <1>5, <1>8, <1>11
  <2>4. ResponseNext(r)
    BY <2>1, <2>2, <2>3 DEF ResponseNext, H
  <2> QED
    BY <1>1, <1>3, <1>5, <1>8, <2>4 DEF H, L
<1>12. CASE n > H /\ n # L /\ n # H + B + 1
  <2>1. NextMain(r) = [kind |-> "cached", hop |-> H]
    <3>1. ~ (n <= H) /\ n # H + B + C + 1 /\ n # H + B + 1
      BY <1>12, <1>14
    <3> QED
      BY <1>13, <3>1
  <2>2. ~Responded(r) /\ ~Responded(r)'
    BY <1>1, <1>2, <1>3, <1>5, <1>6, <1>8, <1>12
  <2>3. ~Over(r)' /\ Sent(r) = H /\ Sent(r)' = H
    BY <1>1, <1>2, <1>5, <1>8, <1>12
  <2>4. CachedNext(r)
    BY <2>1, <2>2, <2>3 DEF CachedNext, H
  <2> QED
    BY <1>1, <1>3, <1>5, <1>8, <2>4 DEF H, L
<1> QED
  BY <1>2, <1>3, <1>9, <1>10, <1>11, <1>12

\* Without a main event a request is as far as it was.
LEMMA NothingMain ==
  ASSUME story' = story, NEW r \in Requests, told'[r] = told[r]
  PROVE  /\ Hops(r)' = Hops(r) /\ Sent(r)' = Sent(r) /\ Responded(r)' = Responded(r)
         /\ Over(r)' = Over(r)
BY DEF Hops, Sent, Responded, Over, Answered, MainEvents

-----------------------------------------------------------------------------
(* A step of one request.                                                  *)

\* The view of a request.
LEMMA Viewed ==
  ASSUME AdapterInv
  PROVE  /\ ViewOK(View, oddities)
         /\ \A r \in Requests :
              /\ View[r] \in ViewSet /\ View[r].hops = Hops(r) /\ View[r].hop = HopTold(r)
              /\ View[r].open <=> /\ adapter[r].held = <<>>
                                  /\ ~Responded(r) \/ adapter[r].heldResponses # <<>>
              /\ View[r].over = Over(r)
              /\ View[r].infos = {h \in 1 .. Hops(r) : InfoHeard(r, h)}
<1>1. \A r \in Requests :
        View[r] = [hop |-> HopTold(r),
                   open |-> /\ adapter[r].held = <<>>
                            /\ ~Responded(r) \/ adapter[r].heldResponses # <<>>,
                   over |-> Over(r),
                   infos |-> {h \in 1 .. Hops(r) : InfoHeard(r, h)},
                   hops |-> Hops(r)]
  BY DEF View
<1>2. \A r \in Requests : View[r] \in ViewSet /\ View[r].hops <= Len(Chain[r])
  <2> SUFFICES ASSUME NEW r \in Requests
               PROVE  View[r] \in ViewSet /\ View[r].hops <= Len(Chain[r])
    OBVIOUS
  <2>1. /\ HopTold(r) \in Nat /\ Over(r) \in BOOLEAN /\ Hops(r) \in Nat
        /\ Hops(r) <= Len(Chain[r])
    BY Progress
  <2>2. {h \in 1 .. Hops(r) : InfoHeard(r, h)} \in SUBSET Nat
    BY <2>1
  <2> DEFINE open == /\ adapter[r].held = <<>>
                     /\ ~Responded(r) \/ adapter[r].heldResponses # <<>>
             infos == {h \in 1 .. Hops(r) : InfoHeard(r, h)}
  <2>3. open \in BOOLEAN
    OBVIOUS
  <2>4. View[r] = [hop |-> HopTold(r), open |-> open, over |-> Over(r), infos |-> infos,
                   hops |-> Hops(r)]
    BY <1>1
  <2> HIDE DEF open, infos
  <2>5. infos \in SUBSET Nat
    BY <2>2 DEF infos
  <2> QED
    BY <2>1, <2>3, <2>4, <2>5 DEF ViewSet
<1>3. View \in [Requests -> ViewSet]
  <2>1. View = [r \in Requests |-> View[r]]
    BY DEF View
  <2> QED
    BY <1>2, <2>1
<1>4. oddities = [o \in Oddities |-> oddities[o]]
  BY DEF AdapterInv
<1> QED
  BY <1>1, <1>2, <1>3, <1>4 DEF ViewOK

\* The history n goes on from o.
GoesOn(o, n) ==
  /\ n = [c \in Oddities |-> n[c]]
  /\ \A c \in Oddities : o[c] \subseteq n[c]

\* The context of a handler of r in this state, after which the history is n.
Here(r, n, also) ==
  [page |-> page, view |-> View, oddities |-> n, id |-> r, also |-> also]

\* A handler begins with what is kept and viewed.
LEMMA HereGood ==
  ASSUME NetworkInv, NEW r \in Requests, NEW n, GoesOn(oddities, n), NEW also
  PROVE  /\ Context(Here(r, n, also))
         /\ Handler(Here(r, n, also), Start(r), View[r])
<1> DEFINE c == Here(r, n, also)
<1>1. c.page = page /\ c.view = View /\ c.oddities = n /\ c.id = r
  BY DEF Here
<1>2. ViewOK(View, oddities) /\ View[r] \in ViewSet /\ View[r].hops = Hops(r)
  BY Viewed DEF NetworkInv
<1>3. ViewOK(View, n)
  BY <1>2 DEF ViewOK, GoesOn
<1> HIDE DEF c
<1>4. Context(c)
  BY <1>1, <1>2, <1>3 DEF Context
<1>5. PageInv(page, View, n)
  <2>1. \A s \in Requests : View[s].infos \cap 1 .. View[s].hop \subseteq View[s].infos
    OBVIOUS
  <2>2. PageInv(page, View, oddities) /\ \A o \in Oddities : oddities[o] \subseteq n[o]
    BY DEF NetworkInv, GoesOn
  <2> DEFINE v == View
  <2>3. ViewOK(v, oddities) /\ ViewOK(v, n) /\ PageInv(page, v, oddities)
        /\ \A s \in Requests : v[s].infos \cap 1 .. v[s].hop \subseteq v[s].infos
    BY <1>2, <1>3, <2>1, <2>2
  <2> HIDE DEF v
  <2>4. PageInv(page, v, n)
    BY <2>2, <2>3, ViewWeaker
  <2> QED
    BY <2>4 DEF v
<1>6. Good(c, <<>>, View[r])
  BY <1>1, <1>4, <1>5, GoodStart
<1>7. Start(r) \in HandlerSet /\ Start(r).a = adapter[r] /\ Start(r).out = <<>>
  BY Progress DEF Start, HandlerSet, NetworkInv
<1>8. \A k \in DOMAIN adapter[r].forResponse :
        adapter[r].forResponse[k].wire /\ adapter[r].forResponse[k].hop \in 1 .. Hops(r)
  BY Progress DEF NetworkInv, RequestInfosKept
<1>9. Handler(c, Start(r), View[r])
  BY <1>2, <1>6, <1>7, <1>8 DEF Handler
<1> QED
  BY <1>4, <1>9 DEF c

\* A step that notes what it does makes what it tells of fine.
LEMMA Noticed ==
  ASSUME NetworkInv, NEW r \in Requests, NEW o, GoesOn(oddities, o), NEW events, NEW also
  PROVE  /\ GoesOn(oddities, Noted(r, events, o))
         /\ Noted(r, events, o)["overtaken"] = o["overtaken"]
         /\ Noted(r, events, o)["misdirected"] = o["misdirected"]
         /\ \A e \in RequestsIn(events) : Fine(Here(r, Noted(r, events, o), also), e.hop)
<1> DEFINE n == Noted(r, events, o)
           c == Here(r, n, also)
<1>0. /\ PageInv(page, View, oddities) /\ AdapterInv
  BY DEF NetworkInv
<1>1. Current(page, View, oddities)
  BY <1>0 DEF PageInv
<1>2. /\ o = [x \in Oddities |-> o[x]] /\ \A x \in Oddities : oddities[x] \subseteq o[x]
      /\ {"crossed", "abandoned", "overtaken", "misdirected"} = Oddities
  BY DEF GoesOn, Oddities
<1>3. /\ n = [x \in Oddities |-> n[x]]
      /\ n["crossed"] = o["crossed"] \cup CrossedBy(r, events)
      /\ n["abandoned"] = o["abandoned"] \cup AbandonedBy(r, events)
      /\ n["overtaken"] = o["overtaken"] /\ n["misdirected"] = o["misdirected"]
  BY <1>2 DEF Noted
<1>4. GoesOn(oddities, n)
  <2>1. \A x \in Oddities : o[x] \subseteq n[x]
    BY <1>2, <1>3
  <2> QED
    BY <1>2, <1>3, <2>1 DEF GoesOn
<1>5. c.page = page /\ c.view = View /\ c.oddities = n /\ c.id = r
  BY DEF Here
<1> HIDE DEF n, c
<1>6. ASSUME NEW e \in RequestsIn(events) PROVE Fine(c, e.hop)
  <2> DEFINE u == UrlOf(r, e.hop)
             others == {page.requests[i].id :
                          i \in UNION {ToSet(page.targets[UrlOf(r, f.hop)]) :
                                         f \in RequestsIn(events)}} \ {r}
  <2>1. ASSUME NEW s \in Waiting(page, u), s # r
        PROVE  s \in n["crossed"] /\ r \in n["crossed"]
    <3>1. PICK k \in DOMAIN page.targets[u] : s = page.requests[page.targets[u][k]].id
      BY <2>1 DEF Waiting
    <3>2. page.targets[u][k] \in ToSet(page.targets[u])
      BY DEF ToSet
    <3>3. page.targets[u][k] \in UNION {ToSet(page.targets[UrlOf(r, f.hop)]) :
                                         f \in RequestsIn(events)}
      BY <3>2
    <3>4. s \in others
      BY <2>1, <3>1, <3>3
    <3>5. CrossedBy(r, events) = IF others = {} THEN {} ELSE others \cup {r}
      BY DEF CrossedBy
    <3> HIDE DEF others
    <3> QED
      BY <1>3, <3>4, <3>5
  <2>2. ASSUME r \in Navigations, NEW m \in Navigations \ {r},
               View[m].hop # 0 /\ View[m].open
        PROVE  m \in n["abandoned"] \/ m \in n["overtaken"]
    <3>1. m \in Requests
      BY NavigationsAssumption
    <3>2. page.byId[m] # 0 /\ page.requests[page.byId[m]].response = 0
      BY <1>1, <2>2, <3>1 DEF Current
    <3>3. m \in Unanswered \ {r}
      BY <3>2 DEF Unanswered
    <3>4. AbandonedBy(r, events) = Unanswered \ {r}
      BY <2>2 DEF AbandonedBy
    <3> QED
      BY <1>3, <3>3, <3>4
  <2> QED
    BY <1>5, <2>1, <2>2 DEF Fine
<1> QED
  BY <1>3, <1>4, <1>6 DEF n, c

\* A step of r leaves the other requests alone.
Alone(r) ==
  /\ story' = story /\ attached' \in BOOLEAN
  /\ told' \in [Requests -> Nat]
  /\ heard' \in [Requests -> SUBSET [kind : {"request", "response"}, hop : Nat]]
  /\ adapter' \in [Requests -> AdapterSet]
  /\ \A s \in Requests \ {r} :
       told'[s] = told[s] /\ heard'[s] = heard[s] /\ adapter'[s] = adapter[s]

\* A step of one request does not touch what is kept of others.
LEMMA OthersAlone ==
  ASSUME AdapterInv, NEW r, Alone(r), GoesOn(oddities, oddities'),
         NEW s \in Requests \ {r}
  PROVE  /\ Held(s)' /\ RequestInfosKept(s)' /\ ResponseInfosKept(s)'
         /\ View'[s] = View[s] /\ Over(s)' = Over(s) /\ ExtraInfos(s)' = ExtraInfos(s)
         /\ Len(MainEvents(s))' = Len(MainEvents(s))
<1>1. /\ adapter'[s] = adapter[s] /\ told'[s] = told[s] /\ heard'[s] = heard[s]
      /\ story' = story
  BY DEF Alone
<1>2. /\ oddities["overtaken"] \subseteq oddities'["overtaken"]
      /\ oddities["misdirected"] \subseteq oddities'["misdirected"]
  BY DEF GoesOn, Oddities
<1>3. /\ Hops(s)' = Hops(s) /\ Sent(s)' = Sent(s) /\ Responded(s)' = Responded(s)
      /\ Over(s)' = Over(s)
  BY <1>1, NothingMain
<1>4. HopTold(s)' = HopTold(s) /\ \A h : InfoHeard(s, h)' <=> InfoHeard(s, h)
  BY <1>1, <1>3 DEF HopTold, InfoHeard
<1>5. ResponsesHeard(s)' = ResponsesHeard(s) /\ Redirects(s)' = Redirects(s)
  BY <1>1, <1>3 DEF ResponsesHeard, Redirects
<1>6. Held(s)'
  <2>1. Held(s)
    BY DEF AdapterInv
  <2> QED
    BY <2>1, <1>1, <1>2, <1>3, <1>4 DEF Held
<1>7. RequestInfosKept(s)'
  <2>1. RequestInfosKept(s)
    BY DEF AdapterInv
  <2> QED
    BY <2>1, <1>1, <1>2, <1>3, <1>4 DEF RequestInfosKept
<1>8. ResponseInfosKept(s)'
  <2>1. ResponseInfosKept(s)
    BY DEF AdapterInv
  <2> QED
    BY <2>1, <1>1, <1>3, <1>5 DEF ResponseInfosKept
<1>9. View'[s] = View[s]
  <2>1. {h \in 1 .. Hops(s) : InfoHeard(s, h)}' = {h \in 1 .. Hops(s) : InfoHeard(s, h)}
    BY <1>3, <1>4
  <2>2. View[s] = [hop |-> HopTold(s),
                   open |-> /\ adapter[s].held = <<>>
                            /\ ~Responded(s) \/ adapter[s].heldResponses # <<>>,
                   over |-> Over(s),
                   infos |-> {h \in 1 .. Hops(s) : InfoHeard(s, h)},
                   hops |-> Hops(s)]
    BY DEF View
  <2>3. View'[s] = [hop |-> HopTold(s)',
                   open |-> /\ adapter'[s].held = <<>>
                            /\ ~Responded(s)' \/ adapter'[s].heldResponses # <<>>,
                   over |-> Over(s)',
                   infos |-> {h \in 1 .. Hops(s) : InfoHeard(s, h)}',
                   hops |-> Hops(s)']
    BY DEF View
  <2> QED
    BY <1>1, <1>3, <1>4, <2>1, <2>2, <2>3
<1>10. ExtraInfos(s)' = ExtraInfos(s) /\ Len(MainEvents(s))' = Len(MainEvents(s))
  BY <1>1 DEF ExtraInfos, MainEvents, Answered
<1> QED
  BY <1>3, <1>6, <1>7, <1>8, <1>9, <1>10

\* The step of r keeps what is known of r.
Kept(r) ==
  /\ told'[r] <= Len(MainEvents(r))
  /\ heard'[r] \subseteq ExtraInfos(r)
  /\ \A e \in heard'[r] : \A f \in ExtraInfos(r) \ heard'[r] : Before(e, f)
  /\ Over(r) => Over(r)'
  /\ Held(r)' /\ RequestInfosKept(r)' /\ ResponseInfosKept(r)'

\* A step keeps the invariant if it does so for its request.
LEMMA StepKeeps ==
  ASSUME NetworkInv, NEW r \in Requests, Alone(r), Kept(r), GoesOn(oddities, oddities'),
         \A s \in Requests : s \in oddities'["overtaken"] =>
           s \in oddities["overtaken"] \/ (s = r /\ Over(r)'),
         PageInv(page', [View EXCEPT ![r] = View'[r]], oddities')
  PROVE  NetworkInv'
<1>0. AdapterInv
  BY DEF NetworkInv
<1>1. story' \in [Requests -> [hops : Nat \ {0}, extra : SUBSET Nat, cached : BOOLEAN, end : Ends]]
      /\ story' = story
  BY <1>0 DEF AdapterInv, Alone
<1>2. /\ Hops(r)' = Hops(r) /\ ExtraInfos(r)' = ExtraInfos(r)
      /\ Len(MainEvents(r))' = Len(MainEvents(r))
  BY <1>1 DEF Hops, ExtraInfos, MainEvents, Answered
<1>3. \A s \in Requests : (Hops(s) <= Len(Chain[s]))'
  BY <1>0, <1>1 DEF AdapterInv, Hops
<1>4. \A s \in Requests : (told[s] <= Len(MainEvents(s)))'
  <2> SUFFICES ASSUME NEW s \in Requests PROVE (told[s] <= Len(MainEvents(s)))'
    OBVIOUS
  <2>1. CASE s = r
    BY <1>2, <2>1 DEF Kept
  <2>2. CASE s # r
    BY <1>0, <2>2, OthersAlone DEF AdapterInv, Alone
  <2> QED
    BY <2>1, <2>2
<1>5. \A s \in Requests :
        (heard[s] \subseteq ExtraInfos(s)
          /\ \A e \in heard[s], f \in ExtraInfos(s) \ heard[s] : Before(e, f))'
  <2> SUFFICES ASSUME NEW s \in Requests
               PROVE  /\ heard'[s] \subseteq ExtraInfos(s)'
                      /\ \A e \in heard'[s], f \in ExtraInfos(s)' \ heard'[s] : Before(e, f)
    BY DEF Before
  <2>1. CASE s = r
    BY <1>2, <2>1 DEF Kept
  <2>2. CASE s # r
    <3>1. heard'[s] = heard[s] /\ ExtraInfos(s)' = ExtraInfos(s)
      BY <1>0, <2>2, OthersAlone DEF Alone
    <3> QED
      BY <1>0, <3>1 DEF AdapterInv
  <2> QED
    BY <2>1, <2>2
<1>6. \A s \in Requests : (s \in oddities["overtaken"] => Over(s))'
  <2> SUFFICES ASSUME NEW s \in Requests, s \in oddities'["overtaken"] PROVE Over(s)'
    OBVIOUS
  <2>1. CASE s = r
    BY <1>0, <2>1 DEF AdapterInv, Kept
  <2>2. CASE s # r
    BY <1>0, <2>2, OthersAlone DEF AdapterInv
  <2> QED
    BY <2>1, <2>2
<1>7. \A s \in Requests : (Held(s) /\ RequestInfosKept(s) /\ ResponseInfosKept(s))'
  <2> SUFFICES ASSUME NEW s \in Requests
               PROVE  Held(s)' /\ RequestInfosKept(s)' /\ ResponseInfosKept(s)'
    OBVIOUS
  <2>1. CASE s = r
    BY <2>1 DEF Kept
  <2>2. CASE s # r
    BY <1>0, <2>2, OthersAlone
  <2> QED
    BY <2>1, <2>2
<1>8. oddities' = [o \in Oddities |-> oddities'[o]]
  BY DEF GoesOn
<1>9. AdapterInv'
  BY <1>1, <1>3, <1>4, <1>5, <1>6, <1>7, <1>8 DEF AdapterInv, Alone
<1>10. View' = [View EXCEPT ![r] = View'[r]]
  <2>1. /\ View = [s \in Requests |-> View[s]]
        /\ View' = [s \in Requests |-> View'[s]]
    BY DEF View
  <2>2. \A s \in Requests \ {r} : View'[s] = View[s]
    BY <1>0, OthersAlone
  <2> DEFINE v == View
             w == View'
  <2>3. v = [s \in Requests |-> v[s]] /\ w = [s \in Requests |-> w[s]]
        /\ \A s \in Requests \ {r} : w[s] = v[s]
    BY <2>1, <2>2
  <2> HIDE DEF v, w
  <2>4. w = [v EXCEPT ![r] = w[r]]
    BY <2>3
  <2> QED
    BY <2>4 DEF v, w
<1> QED
  BY <1>9, <1>10 DEF NetworkInv

\* A handler of r has come to t; o is the history but for what t tells of.
Step(r, t, o) ==
  /\ story' = story /\ attached' = attached
  /\ adapter' = [adapter EXCEPT ![r] = t.a]
  /\ page' = FoldLeft(Observe, page, t.out)
  /\ oddities' = Noted(r, t.out, o) /\ GoesOn(oddities, o)
  /\ \A s \in Requests : s \in o["overtaken"] =>
       s \in oddities["overtaken"] \/ (s = r /\ Over(r)')
  /\ \/ /\ ~Over(r)
        /\ told' = [told EXCEPT ![r] = @ + 1] /\ heard' = heard
     \/ /\ heard[r] # ExtraInfos(r)
        /\ told' = told /\ heard' = [heard EXCEPT ![r] = @ \cup {NextExtra(r)}]
     \/ told' = told /\ heard' = heard

\* What a step gives its handler to begin with.
LEMMA StepStarts ==
  ASSUME NetworkInv, NEW r \in Requests, NEW t, NEW o, Step(r, t, o), NEW also
  PROVE  /\ GoesOn(oddities, oddities')
         /\ oddities'["overtaken"] = o["overtaken"] /\ oddities'["misdirected"] = o["misdirected"]
         /\ Context(Here(r, oddities', also))
         /\ Handler(Here(r, oddities', also), Start(r), View[r])
         /\ \A e \in RequestsIn(t.out) : Fine(Here(r, oddities', also), e.hop)
         /\ adapter'[r] = t.a /\ Hops(r)' = Hops(r)
<1>1. oddities' = Noted(r, t.out, o) /\ GoesOn(oddities, o)
  BY DEF Step
<1>2. /\ GoesOn(oddities, oddities')
      /\ oddities'["overtaken"] = o["overtaken"] /\ oddities'["misdirected"] = o["misdirected"]
      /\ \A e \in RequestsIn(t.out) : Fine(Here(r, oddities', also), e.hop)
  BY <1>1, Noticed
<1>3. /\ Context(Here(r, oddities', also))
      /\ Handler(Here(r, oddities', also), Start(r), View[r])
  BY <1>2, HereGood
<1>4. adapter'[r] = t.a /\ Hops(r)' = Hops(r)
  BY DEF Step, NetworkInv, AdapterInv, Hops
<1> QED
  BY <1>2, <1>3, <1>4

\* A step keeps the invariant if its handler tells what the view then says.
LEMMA HandledKeeps ==
  ASSUME NetworkInv, NEW r \in Requests, NEW t, NEW o, Step(r, t, o), NEW also,
         Handler(Here(r, oddities', also), t, View'[r]),
         \A h \in also : Fine(Here(r, oddities', also), h),
         Held(r)', RequestInfosKept(r)', ResponseInfosKept(r)'
  PROVE  NetworkInv'
<1> DEFINE c == Here(r, oddities', also)
<1>0. AdapterInv
  BY DEF NetworkInv
<1>1. /\ GoesOn(oddities, oddities') /\ oddities'["overtaken"] = o["overtaken"]
      /\ Context(c) /\ \A e \in RequestsIn(t.out) : Fine(c, e.hop)
      /\ adapter'[r] = t.a
  BY StepStarts
<1>2. /\ story \in [Requests -> StorySet] /\ told[r] \in Nat /\ told[r] <= Len(MainEvents(r))
      /\ heard[r] \subseteq ExtraInfos(r)
      /\ \A e \in heard[r], f \in ExtraInfos(r) \ heard[r] : Before(e, f)
  BY <1>0, Progress DEF AdapterInv
<1>3. t.a \in AdapterSet
  BY AdapterFacts DEF Handler
<1>4. ExtraInfos(r) \subseteq [kind : {"request", "response"}, hop : Nat]
  BY <1>2, InfosInOrder, MainEventsInOrder
<1>5. /\ told' \in [Requests -> Nat]
      /\ told'[r] <= Len(MainEvents(r)) /\ (Over(r) => Over(r)')
      /\ \A s \in Requests \ {r} : told'[s] = told[s]
  <2>1. CASE ~Over(r) /\ told' = [told EXCEPT ![r] = @ + 1]
    <3>1. told'[r] = told[r] + 1 /\ story' = story
      BY <1>0, <2>1 DEF Step, AdapterInv
    <3>2. told'[r] <= Len(MainEvents(r))
      BY <1>0, <2>1, <3>1, MainComes
    <3> QED
      BY <1>0, <2>1, <3>2 DEF AdapterInv
  <2>2. CASE told' = told
    <3>1. Over(r)' = Over(r)
      BY <2>2, NothingMain DEF Step
    <3> QED
      BY <1>0, <1>2, <2>2, <3>1 DEF AdapterInv
  <2> QED
    BY <2>1, <2>2 DEF Step
<1>6. /\ heard' \in [Requests -> SUBSET [kind : {"request", "response"}, hop : Nat]]
      /\ heard'[r] \subseteq ExtraInfos(r)
      /\ \A e \in heard'[r] : \A f \in ExtraInfos(r) \ heard'[r] : Before(e, f)
      /\ \A s \in Requests \ {r} : heard'[s] = heard[s]
  <2>1. CASE heard' = heard
    BY <1>0, <1>2, <2>1 DEF AdapterInv
  <2>2. CASE heard[r] # ExtraInfos(r) /\ heard' = [heard EXCEPT ![r] = @ \cup {NextExtra(r)}]
    <3>1. /\ NextExtra(r) \in ExtraInfos(r) \ heard[r]
          /\ \A e \in heard[r] \cup {NextExtra(r)} :
               \A f \in ExtraInfos(r) \ (heard[r] \cup {NextExtra(r)}) : Before(e, f)
      BY <1>2, <2>2, InfoComes
    <3>2. heard'[r] = heard[r] \cup {NextExtra(r)}
      BY <1>0, <2>2 DEF AdapterInv
    <3> QED
      BY <1>0, <1>2, <1>4, <2>2, <3>1, <3>2 DEF AdapterInv
  <2> QED
    BY <2>1, <2>2 DEF Step
<1>7. Alone(r)
  BY <1>0, <1>3, <1>5, <1>6 DEF Alone, Step, AdapterInv
<1>8. Kept(r)
  BY <1>5, <1>6 DEF Kept
<1>9. PageInv(page', [View EXCEPT ![r] = View'[r]], oddities')
  <2>1. Good(c, t.out, View'[r])
    BY DEF Handler
  <2>2. PageInv(FoldLeft(Observe, c.page, t.out), [c.view EXCEPT ![c.id] = View'[r]], c.oddities)
    <3>1. c.also = also
      BY DEF Here
    <3> DEFINE y == View'[r]
    <3>2. Good(c, t.out, y) /\ \A h \in c.also : Fine(c, h)
      BY <2>1, <3>1
    <3> HIDE DEF c, y
    <3>3. PageInv(FoldLeft(Observe, c.page, t.out), [c.view EXCEPT ![c.id] = y], c.oddities)
      BY <1>1, <3>2, GoodEnd
    <3> QED
      BY <3>3 DEF y
  <2>3. c.page = page /\ c.view = View /\ c.id = r /\ c.oddities = oddities'
    BY DEF Here
  <2>4. page' = FoldLeft(Observe, page, t.out)
    BY DEF Step
  <2> HIDE DEF c
  <2> QED
    BY <2>2, <2>3, <2>4
<1>10. \A s \in Requests : s \in oddities'["overtaken"] =>
           s \in oddities["overtaken"] \/ (s = r /\ Over(r)')
  BY <1>1 DEF Step
<1> QED
  BY <1>1, <1>7, <1>8, <1>9, <1>10, StepKeeps

\* What the page knows of r after the step.
LEMMA ViewReached ==
  ASSUME NEW r \in Requests, NEW y \in ViewSet,
         y.hop = HopTold(r)', y.over = Over(r)', y.hops = Hops(r)',
         y.open <=> /\ adapter'[r].held = <<>>
                    /\ ~Responded(r)' \/ adapter'[r].heldResponses # <<>>,
         y.infos = {h \in 1 .. Hops(r)' : InfoHeard(r, h)'}
  PROVE  View'[r] = y
<1> DEFINE open == /\ adapter'[r].held = <<>>
                   /\ ~Responded(r)' \/ adapter'[r].heldResponses # <<>>
<1>1. View'[r] = [hop |-> HopTold(r)', open |-> open, over |-> Over(r)',
                  infos |-> {h \in 1 .. Hops(r)' : InfoHeard(r, h)'}, hops |-> Hops(r)']
  BY DEF View
<1>2. y = [hop |-> y.hop, open |-> y.open, over |-> y.over, infos |-> y.infos, hops |-> y.hops]
      /\ y.open \in BOOLEAN
  BY DEF ViewSet
<1>3. open \in BOOLEAN
  OBVIOUS
<1>4. y.open = open
  BY <1>2, <1>3
<1> QED
  BY <1>1, <1>2, <1>4

\* The view after a step.
LEMMA ViewAfter ==
  ASSUME AdapterInv, NEW r \in Requests, NEW y \in ViewSet,
         Hops(r)' = Hops(r), \A h : InfoHeard(r, h)' <=> InfoHeard(r, h),
         y.hop = HopTold(r)', y.over = Over(r)', y.hops = View[r].hops, y.infos = View[r].infos,
         y.open <=> /\ adapter'[r].held = <<>>
                    /\ ~Responded(r)' \/ adapter'[r].heldResponses # <<>>
  PROVE  View'[r] = y
<1>1. View[r].infos = {h \in 1 .. Hops(r) : InfoHeard(r, h)} /\ View[r].hops = Hops(r)
  BY Viewed
<1>2. {h \in 1 .. Hops(r)' : InfoHeard(r, h)'} = {h \in 1 .. Hops(r) : InfoHeard(r, h)}
  OBVIOUS
<1>3. y.infos = {h \in 1 .. Hops(r)' : InfoHeard(r, h)'} /\ y.hops = Hops(r)'
  BY <1>1, <1>2
<1> QED
  BY <1>3, ViewReached

-----------------------------------------------------------------------------
(* The main events.                                                        *)

MainOddities(r) ==
  [oddities EXCEPT !["overtaken"] =
     IF NextMain(r).kind = "end" /\ adapter[r].held # <<>> THEN @ \cup {r} ELSE @]

\* What a main event does, whichever comes.
LEMMA MainSteps ==
  ASSUME NetworkInv, NEW r \in Requests, HandleMainEvent(r)
  PROVE  /\ Step(r, AfterMain(r), MainOddities(r))
         /\ ~Over(r) /\ story' = story /\ told'[r] = told[r] + 1 /\ heard' = heard
         /\ SentNext(r) \/ CachedNext(r) \/ ResponseNext(r) \/ EndNext(r)
         /\ told'[r] # 0
         /\ oddities'["misdirected"] = oddities["misdirected"]
         /\ oddities'["overtaken"] =
              IF NextMain(r).kind = "end" /\ adapter[r].held # <<>>
              THEN oddities["overtaken"] \cup {r} ELSE oddities["overtaken"]
         /\ \A h : InfoHeard(r, h)' <=> InfoHeard(r, h)
         /\ ResponsesHeard(r)' = ResponsesHeard(r)
<1> DEFINE o == MainOddities(r)
<1>0. AdapterInv
  BY DEF NetworkInv
<1>1. /\ ~Over(r) /\ told' = [told EXCEPT ![r] = @ + 1]
      /\ adapter' = [adapter EXCEPT ![r] = AfterMain(r).a]
      /\ story' = story /\ heard' = heard /\ attached' = attached
      /\ page' = FoldLeft(Observe, page, AfterMain(r).out)
      /\ oddities' = Noted(r, AfterMain(r).out, o)
  BY DEF HandleMainEvent, Main, Observed, MainOddities
<1>2. told'[r] = told[r] + 1
  BY <1>0, <1>1 DEF AdapterInv
<1>3. told'[r] # 0 /\ Hops(r)' = Hops(r) /\ (SentNext(r) \/ CachedNext(r) \/ ResponseNext(r) \/ EndNext(r))
  BY <1>0, <1>1, <1>2, MainComes
<1>4. oddities = [x \in Oddities |-> oddities[x]]
      /\ Oddities = {"overtaken", "misdirected", "crossed", "abandoned"}
  BY <1>0 DEF AdapterInv, Oddities
<1>5. /\ o = [x \in Oddities |-> o[x]]
      /\ o["overtaken"] = IF NextMain(r).kind = "end" /\ adapter[r].held # <<>>
                          THEN oddities["overtaken"] \cup {r} ELSE oddities["overtaken"]
      /\ \A x \in Oddities : x # "overtaken" => o[x] = oddities[x]
  BY <1>4 DEF MainOddities
<1> HIDE DEF o
<1>6. GoesOn(oddities, o)
  BY <1>4, <1>5 DEF GoesOn
<1>7. NextMain(r).kind = "end" => Over(r)'
  BY <1>3 DEF SentNext, CachedNext, ResponseNext, EndNext
<1>8. Step(r, AfterMain(r), o)
  BY <1>1, <1>5, <1>6, <1>7 DEF Step
<1>9. oddities'["overtaken"] = o["overtaken"] /\ oddities'["misdirected"] = o["misdirected"]
  BY <1>8, StepStarts
<1>10. \A h : InfoHeard(r, h)' <=> InfoHeard(r, h)
  BY <1>1 DEF InfoHeard
<1>11. ResponsesHeard(r)' = ResponsesHeard(r)
  BY <1>1, <1>3 DEF ResponsesHeard
<1>12. oddities["misdirected"] = o["misdirected"]
  BY <1>4, <1>5
<1> QED
  BY <1>1, <1>2, <1>3, <1>5, <1>8, <1>9, <1>10, <1>11, <1>12 DEF o

\* A request served from the cache is told of with its answer.
LEMMA CachedHandled ==
  ASSUME NetworkInv, NEW r \in Requests, HandleMainEvent(r), CachedNext(r)
  PROVE  NetworkInv'
<1> DEFINE t == AfterMain(r)
           c == Here(r, oddities', {})
           b == [adapter[r] EXCEPT !.cached = TRUE]
<1>0. AdapterInv
  BY DEF NetworkInv
<1>1. /\ Step(r, t, MainOddities(r)) /\ ~Over(r)
      /\ oddities'["misdirected"] = oddities["misdirected"]
      /\ oddities'["overtaken"] = oddities["overtaken"]
      /\ told'[r] # 0
      /\ \A h : InfoHeard(r, h)' <=> InfoHeard(r, h)
      /\ ResponsesHeard(r)' = ResponsesHeard(r)
  <2>1. NextMain(r).kind # "end"
    BY DEF CachedNext
  <2> QED
    BY <2>1, MainSteps
<1>2. /\ Context(c) /\ Handler(c, Start(r), View[r]) /\ adapter'[r] = t.a /\ Hops(r)' = Hops(r)
  BY <1>1, StepStarts
<1>3. /\ Sent(r) = Hops(r) /\ Sent(r)' = Hops(r) /\ ~Responded(r) /\ ~Responded(r)' /\ ~Over(r)'
      /\ NextMain(r).kind = "cached"
  BY DEF CachedNext
<1>4. /\ Held(r) /\ RequestInfosKept(r) /\ ResponseInfosKept(r) /\ adapter[r] \in AdapterSet
      /\ told[r] # 0
  BY <1>0, <1>3, Progress
<1>5. t = [a |-> b, out |-> <<>>]
  BY <1>3 DEF AfterMain, HandleMain, ServedFromCache, Start
<1>6. /\ b \in AdapterSet /\ b.forResponse = adapter[r].forResponse /\ b.held = adapter[r].held
      /\ b.heldResponses = adapter[r].heldResponses /\ b.meta = adapter[r].meta
      /\ b.requestInfos = adapter[r].requestInfos /\ b.emitted = adapter[r].emitted
      /\ b.responseInfos = adapter[r].responseInfos /\ b.discards = adapter[r].discards
  BY <1>4 DEF AdapterSet
<1> HIDE DEF b, c
<1>7. t.a = b /\ t = [a |-> b, out |-> Start(r).out] /\ Start(r).a = adapter[r]
  BY <1>5 DEF Start
<1> HIDE DEF t
<1>8. Handler(c, t, View[r])
  BY <1>2, <1>6, <1>7, KeptAnew
<1>9. HopTold(r)' = HopTold(r)
  BY <1>2, <1>3, <1>6, <1>7 DEF HopTold
<1>10. View'[r] = View[r]
  <2> DEFINE y == View[r]
  <2>1. /\ y \in ViewSet /\ y.hops = View[r].hops /\ y.infos = View[r].infos
        /\ y.hop = HopTold(r) /\ y.over = Over(r)
        /\ y.open <=> /\ adapter[r].held = <<>>
                      /\ ~Responded(r) \/ adapter[r].heldResponses # <<>>
    BY <1>0, Viewed
  <2> HIDE DEF y
  <2>o. Over(r)' = Over(r)
    BY <1>1, <1>3 DEF Over
  <2>2. /\ y.hop = HopTold(r)' /\ y.over = Over(r)'
        /\ y.open <=> /\ adapter'[r].held = <<>>
                      /\ ~Responded(r)' \/ adapter'[r].heldResponses # <<>>
    BY <1>2, <1>3, <1>6, <1>7, <1>9, <2>1, <2>o
  <2>3. View'[r] = y
    BY <1>0, <1>1, <1>2, <2>1, <2>2, ViewAfter
  <2> QED
    BY <2>3 DEF y
<1>11. Held(r)'
  BY <1>1, <1>2, <1>3, <1>4, <1>6, <1>7, <1>9 DEF Held
<1>12. RequestInfosKept(r)'
  BY <1>1, <1>2, <1>3, <1>4, <1>6, <1>7 DEF RequestInfosKept
<1>13. ResponseInfosKept(r)'
  BY <1>1, <1>2, <1>3, <1>4, <1>6, <1>7 DEF ResponseInfosKept, Redirects
<1>14. Handler(Here(r, oddities', {}), t, View'[r])
  BY <1>8, <1>10 DEF c
<1> QED
  BY <1>1, <1>11, <1>12, <1>13, <1>14, HandledKeeps

\* What is known of a request with answers when a main event comes.
LEMMA InfosFitLast ==
  ASSUME AdapterInv, NEW r \in Requests, Sent(r) = Hops(r),
         ~Over(r) \/ r \in oddities["overtaken"],
         NEW c, c.id = r, GoesOn(oddities, c.oddities)
  PROVE  InfosFit(c, Start(r), Hops(r))
<1>1. CASE r \in oddities["overtaken"]
  BY <1>1 DEF InfosFit, Overtaken, GoesOn, Oddities
<1>2. CASE ~Over(r) /\ adapter[r].responseInfos # <<>>
  <2> DEFINE q == adapter[r].responseInfos
  <2>1. q \in Seq(HeaderSet) /\ Hops(r) \in Nat \ {0}
    BY Progress DEF AdapterSet
  <2>2. Head(q) = q[1] /\ 1 \in DOMAIN q /\ Head(q) \in HeaderSet
    BY <1>2, <2>1, HeadersKept
  <2>3. Redirects(r) = Hops(r) - 1
    BY <2>1 DEF Redirects
  <2>4. q[1].hop >= Redirects(r) + 1 /\ q[1].hop <= Hops(r)
    BY <1>2, <2>2, Progress DEF ResponseInfosKept
  <2>5. q[1].hop \in Nat
    BY <2>2 DEF HeaderSet
  <2>6. Head(q).hop = Hops(r)
    BY <2>1, <2>2, <2>3, <2>4, <2>5
  <2> QED
    BY <2>6 DEF InfosFit, Start
<1>3. CASE adapter[r].responseInfos = <<>>
  BY <1>3 DEF InfosFit, Start
<1> QED
  BY <1>1, <1>2, <1>3

\* Queued infos of hops in their order stay so when one is taken.
LEMMA InfosShifted ==
  ASSUME NEW q \in Seq(HeaderSet), q # <<>>, NEW R \in Nat, NEW H \in Nat,
         \A k \in DOMAIN q : q[k].hop >= R + k,
         \A k \in DOMAIN q : q[k].hop <= H
  PROVE  /\ Len(q) \in Nat /\ Len(Tail(q)) = Len(q) - 1
         /\ \A k \in DOMAIN Tail(q) : Tail(q)[k].hop >= R + k
         /\ \A k \in DOMAIN Tail(q) : Tail(q)[k].hop >= (R + 1) + k
         /\ \A k \in DOMAIN Tail(q) : Tail(q)[k].hop <= H
<1>1. /\ Len(q) \in Nat /\ Len(Tail(q)) = Len(q) - 1 /\ Tail(q) \in Seq(HeaderSet)
      /\ \A k \in DOMAIN Tail(q) : k + 1 \in DOMAIN q /\ Tail(q)[k] = q[k + 1]
  BY HeadersKept
<1> SUFFICES ASSUME NEW k \in DOMAIN Tail(q)
             PROVE  /\ Tail(q)[k].hop >= R + k /\ Tail(q)[k].hop >= (R + 1) + k
                    /\ Tail(q)[k].hop <= H
  BY <1>1
<1> DEFINE n == Tail(q)
<1>2. n \in Seq(HeaderSet) /\ k \in DOMAIN n
  BY <1>1
<1> HIDE DEF n
<1>3. k \in Nat /\ n[k] \in HeaderSet
  BY <1>2
<1>4. n[k].hop \in Nat
  BY <1>3 DEF HeaderSet
<1>5. n[k].hop >= R + (k + 1) /\ n[k].hop <= H
  BY <1>1 DEF n
<1>6. n[k].hop >= R + k /\ n[k].hop >= (R + 1) + k /\ n[k].hop <= H
  BY <1>3, <1>4, <1>5
<1> QED
  BY <1>6 DEF n

\* The answer is told of, held for its info, or waits for the request.
LEMMA AnswerHandled ==
  ASSUME NetworkInv, NEW r \in Requests, HandleMainEvent(r), ResponseNext(r)
  PROVE  NetworkInv'
<1> DEFINE t == AfterMain(r)
           c == Here(r, oddities', {})
           H == Hops(r)
           x == View[r]
<1>0. AdapterInv
  BY DEF NetworkInv
<1>3. /\ Sent(r) = H /\ Sent(r)' = H /\ ~Responded(r) /\ Responded(r)' /\ ~Over(r)'
      /\ NextMain(r).kind = "response" /\ NextMain(r).hop = H
  BY DEF ResponseNext
<1>1. /\ Step(r, t, MainOddities(r)) /\ ~Over(r)
      /\ oddities'["misdirected"] = oddities["misdirected"]
      /\ oddities'["overtaken"] = oddities["overtaken"]
      /\ told'[r] # 0
      /\ \A h : InfoHeard(r, h)' <=> InfoHeard(r, h)
      /\ ResponsesHeard(r)' = ResponsesHeard(r)
  <2>1. NextMain(r).kind # "end"
    BY <1>3
  <2> QED
    BY <2>1, MainSteps
<1>2. /\ Context(c) /\ Handler(c, Start(r), x) /\ adapter'[r] = t.a /\ Hops(r)' = H
      /\ GoesOn(oddities, oddities')
  BY <1>1, StepStarts
<1>4. /\ Held(r) /\ RequestInfosKept(r) /\ ResponseInfosKept(r) /\ adapter[r] \in AdapterSet
      /\ told[r] # 0 /\ H \in Nat \ {0}
  BY <1>0, <1>3, Progress
<1>5. t = ResponseReceived(r, Start(r), H)
  BY <1>3 DEF AfterMain, HandleMain
<1>6. c.id = r /\ c.oddities = oddities' /\ Start(r).a = adapter[r] /\ Start(r).out = <<>>
  BY DEF Here, Start
<1>7. /\ x \in ViewSet /\ x.hops = View[r].hops /\ x.infos = View[r].infos /\ x.hops = H
      /\ x.hop = HopTold(r) /\ x.over = Over(r)
      /\ x.open <=> adapter[r].held = <<>>
  BY <1>0, <1>3, Viewed
<1>o. Over(r)' = Over(r)
  BY <1>1, <1>3 DEF Over
<1> HIDE DEF c, t, x
<1>8. CASE adapter[r].held # <<>>
  <2> DEFINE b == [adapter[r] EXCEPT !.held = <<[hop |-> H, answers |-> <<H>>]>>]
  <2>1. adapter[r].held = <<[hop |-> H, answers |-> <<>>]>>
    BY <1>3, <1>4, <1>8 DEF Held
  <2>2. t = [Start(r) EXCEPT !.a.held[1].answers = Append(@, H)]
    BY <1>5, <1>6, <1>8 DEF ResponseReceived
  <2>3. t = [a |-> b, out |-> <<>>]
    <3> DEFINE s == Start(r)
    <3>1. s = [a |-> adapter[r], out |-> <<>>]
      BY DEF Start
    <3>2. [s.a.held EXCEPT ![1].answers = Append(@, H)] = <<[hop |-> H, answers |-> <<H>>]>>
      BY <2>1, <3>1
    <3>3. [s EXCEPT !.a.held[1].answers = Append(@, H)]
            = [s EXCEPT !.a = [s.a EXCEPT !.held = [s.a.held EXCEPT ![1].answers = Append(@, H)]]]
      BY <3>1
    <3> HIDE DEF s
    <3> QED
      BY <2>2, <3>1, <3>2, <3>3 DEF s
  <2>4. <<[hop |-> H, answers |-> <<H>>]>> \in Seq([hop : Nat, answers : Seq(Nat)])
    BY <1>4
  <2>5. /\ b \in AdapterSet /\ b.forResponse = adapter[r].forResponse
        /\ b.held = <<[hop |-> H, answers |-> <<H>>]>> /\ b.held # <<>>
        /\ b.heldResponses = adapter[r].heldResponses /\ b.meta = adapter[r].meta
        /\ b.requestInfos = adapter[r].requestInfos /\ b.emitted = adapter[r].emitted
        /\ b.responseInfos = adapter[r].responseInfos /\ b.discards = adapter[r].discards
    BY <1>4, <2>4 DEF AdapterSet
  <2> HIDE DEF b
  <2>6. Handler(c, t, x)
    BY <1>2, <1>6, <2>3, <2>5, KeptAnew
  <2>7. HopTold(r)' = HopTold(r) /\ adapter'[r] = b
    BY <1>2, <1>3, <1>8, <2>3, <2>5 DEF HopTold
  <2>8. View'[r] = x
    BY <1>0, <1>1, <1>2, <1>7, <1>8, <1>o, <2>5, <2>7, ViewAfter
  <2>9. Held(r)'
    <3>1. adapter[r].meta = H /\ adapter[r].heldResponses = <<>> /\ (adapter[r].emitted <=> HopTold(r) # 0)
      BY <1>1, <1>3, <1>4, <1>8 DEF Held
    <3> QED
      BY <1>1, <1>2, <1>3, <1>4, <2>5, <2>7, <3>1 DEF Held
  <2>10. RequestInfosKept(r)'
    BY <1>1, <1>2, <1>3, <1>4, <1>8, <2>5, <2>7 DEF RequestInfosKept
  <2>11. ResponseInfosKept(r)'
    BY <1>1, <1>2, <1>3, <1>4, <2>5, <2>7 DEF ResponseInfosKept, Redirects
  <2>12. Handler(Here(r, oddities', {}), t, View'[r])
    BY <2>6, <2>8 DEF c
  <2> QED
    BY <1>1, <2>9, <2>10, <2>11, <2>12, HandledKeeps
<1>9. CASE adapter[r].held = <<>>
  <2>1. t = HandleResponse(r, Start(r), H)
    BY <1>5, <1>6, <1>9 DEF ResponseReceived
  <2>2. adapter[r].heldResponses = <<>>
    BY <1>3, <1>4 DEF Held
  <2>3. x.hop = H /\ Answerable(c, x)
    BY <1>1, <1>3, <1>4, <1>7, <1>9 DEF HopTold, Answerable
  <2>4. InfosFit(c, Start(r), x.hop)
    BY <1>0, <1>1, <1>2, <1>3, <1>6, <2>3, InfosFitLast
  <2>5. ResponseDone(c, Start(r), t, x)
    <3>1. t = HandleResponse(c.id, Start(r), x.hop) /\ Start(r).a.heldResponses = <<>>
      BY <1>6, <2>1, <2>2, <2>3
    <3> QED
      BY <1>2, <2>3, <2>4, <3>1, ResponseHandled
  <2>6. /\ t.a.meta = adapter[r].meta /\ t.a.requestInfos = adapter[r].requestInfos
        /\ t.a.discards = adapter[r].discards /\ t.a.held = <<>>
        /\ t.a.emitted = adapter[r].emitted
        /\ \/ t.a.responseInfos = adapter[r].responseInfos
           \/ adapter[r].responseInfos # <<>> /\ t.a.responseInfos = Tail(adapter[r].responseInfos)
    BY <1>6, <1>9, <2>5 DEF ResponseDone, SameRequest
  <2> DEFINE y == [x EXCEPT !.open = (t.a.heldResponses # <<>>)]
  <2>7. Handler(c, t, y) /\ t.a.heldResponses \in {<<>>, <<H>>}
    <3>1. CASE t.a.heldResponses = <<>> /\ Handler(c, t, [x EXCEPT !.open = FALSE])
      BY <3>1
    <3>2. CASE t.a.heldResponses = <<x.hop>> /\ Handler(c, t, x)
      <4>1. y = x
        BY <1>7, <1>9, <3>2 DEF ViewSet
      <4> QED
        BY <2>3, <3>2, <4>1
    <3> QED
      BY <2>5, <3>1, <3>2 DEF ResponseDone
  <2>8. t.a \in AdapterSet /\ \A k \in DOMAIN t.a.forResponse :
          t.a.forResponse[k].wire /\ t.a.forResponse[k].hop \in 1 .. H
    <3>1. y.hops = H
      BY <1>7 DEF ViewSet
    <3> HIDE DEF y
    <3> QED
      BY <2>7, <3>1, AdapterFacts DEF Handler
  <2>9. HopTold(r)' = HopTold(r)
    BY <1>2, <1>3, <1>9, <2>6 DEF HopTold
  <2>10. View'[r] = y
    <3>1. /\ y \in ViewSet /\ y.hops = x.hops /\ y.infos = x.infos /\ y.hop = x.hop /\ y.over = x.over
          /\ y.open <=> t.a.heldResponses # <<>>
      BY <1>7 DEF ViewSet
    <3> HIDE DEF y
    <3> QED
      BY <1>0, <1>1, <1>2, <1>3, <1>7, <1>o, <2>6, <2>9, <3>1, ViewAfter
  <2> HIDE DEF y
  <2>11. Held(r)'
    <3>1. (adapter[r].emitted <=> HopTold(r) # 0) /\ adapter[r].meta \in {0, H}
      BY <1>1, <1>3, <1>4 DEF Held
    <3> QED
      BY <1>1, <1>2, <1>3, <2>6, <2>7, <2>9, <3>1 DEF Held
  <2>12. RequestInfosKept(r)'
    <3>1. /\ r \notin oddities["misdirected"] =>
               /\ \A h \in 1 .. H : InfoHeard(r, h) => h <= H
               /\ adapter[r].requestInfos = <<>>
      BY <1>1, <1>3, <1>4 DEF RequestInfosKept
    <3> QED
      BY <1>1, <1>2, <1>3, <2>6, <2>8, <3>1 DEF RequestInfosKept
  <2>13. ResponseInfosKept(r)'
    <3> DEFINE q == adapter[r].responseInfos
               n == t.a.responseInfos
    <3>1. q \in Seq(HeaderSet) /\ n \in Seq(HeaderSet) /\ adapter[r].discards \in Nat
      BY <1>4, <2>8 DEF AdapterSet
    <3>2. /\ Cardinality(ResponsesHeard(r)) + adapter[r].discards >= Redirects(r) + Len(q)
          /\ adapter[r].discards # 0 => q = <<>>
          /\ \A k \in DOMAIN q : q[k].hop >= Redirects(r) + k
          /\ \A k \in DOMAIN q : q[k].hop <= H
      BY <1>1, <1>4 DEF ResponseInfosKept
    <3>3. Redirects(r)' = Redirects(r) /\ Redirects(r) \in Nat
      BY <1>2, <1>3, <1>4 DEF Redirects
    <3>4. Cardinality(ResponsesHeard(r)) \in Nat
      BY <1>0, HeardCount, Progress
    <3>5. CASE n = q
      BY <1>1, <1>2, <2>6, <3>2, <3>3, <3>5 DEF ResponseInfosKept
    <3>6. CASE q # <<>> /\ n = Tail(q)
      <4>1. /\ Len(q) \in Nat /\ Len(n) = Len(q) - 1
            /\ \A k \in DOMAIN n : n[k].hop >= Redirects(r) + k
            /\ \A k \in DOMAIN n : n[k].hop <= H
        BY <1>4, <3>1, <3>2, <3>3, <3>6, InfosShifted
      <4>4. Cardinality(ResponsesHeard(r)) + adapter[r].discards >= Redirects(r) + Len(n)
        BY <3>1, <3>2, <3>3, <3>4, <4>1
      <4>5. adapter[r].discards = 0
        BY <3>2, <3>6
      <4> QED
        BY <1>1, <1>2, <2>6, <3>3, <4>1, <4>4, <4>5 DEF ResponseInfosKept
    <3> QED
      BY <2>6, <3>5, <3>6
  <2>14. Handler(Here(r, oddities', {}), t, View'[r])
    BY <2>7, <2>10 DEF c
  <2> QED
    BY <1>1, <2>11, <2>12, <2>13, <2>14, HandledKeeps
<1> QED
  BY <1>8, <1>9

\* The request event that is held may go out.
LEMMA HeldGoesOut ==
  ASSUME AdapterInv, NEW r \in Requests, adapter[r].held # <<>>,
         NEW c, c.id = r, GoesOn(oddities, c.oddities),
         NEW s, s.a.held = adapter[r].held, s.a.heldResponses = <<>>,
         Responded(r) => InfosFit(c, s, Hops(r)),
         NEW x, x.hop = HopTold(r), x.hops = Hops(r), ~x.open,
         x.infos = {h \in 1 .. Hops(r) : InfoHeard(r, h)},
         NEW y \in ViewSet, y.hop = Sent(r), y.open, y.hops = Hops(r), ~y.over \/ Overtaken(c),
         NEW headers \in HeaderSet,
         \/ y.infos = x.infos /\ headers = Announced(Sent(r))
         \/ /\ y.infos = x.infos \cup {Sent(r)}
            /\ headers = OnTheWire(Sent(r)) \/ r \in c.oddities["misdirected"]
  PROVE  Releasable(c, s, x, y, headers)
<1>1. /\ Hops(r) \in Nat \ {0} /\ Hops(r) <= Len(Chain[r]) /\ Len(Chain[r]) \in Nat
      /\ Sent(r) \in 0 .. Hops(r) /\ Held(r) /\ RequestInfosKept(r)
      /\ (Responded(r) => Sent(r) = Hops(r))
      /\ (Sent(r) = 0 <=> told[r] = 0)
  BY Progress
<1>2. /\ told[r] # 0
      /\ adapter[r].held = <<[hop |-> Sent(r), answers |-> IF Responded(r) THEN <<Hops(r)>> ELSE <<>>]>>
  BY <1>1 DEF Held
<1>3. Sent(r) \in Nat \ {0} /\ Sent(r) <= Hops(r) /\ HopTold(r) = Sent(r) - 1
  BY <1>1, <1>2 DEF HopTold
<1>4. oddities["misdirected"] \subseteq c.oddities["misdirected"]
  BY DEF GoesOn, Oddities
<1>5. r \notin c.oddities["misdirected"] => ~InfoHeard(r, Sent(r))
  BY <1>1, <1>4 DEF RequestInfosKept
<1>6. r \notin c.oddities["misdirected"] => headers.hop = Sent(r) /\ (Sent(r) \in y.infos => headers.wire)
  <2>1. Announced(Sent(r)).hop = Sent(r) /\ OnTheWire(Sent(r)).hop = Sent(r) /\ OnTheWire(Sent(r)).wire
    BY <1>3, HeaderTypes
  <2>2. r \notin c.oddities["misdirected"] => Sent(r) \notin x.infos
    BY <1>5
  <2> QED
    BY <2>1, <2>2
<1>7. \/ s.a.held = <<[hop |-> y.hop, answers |-> <<>>]>>
      \/ /\ s.a.held = <<[hop |-> y.hop, answers |-> <<y.hop>>]>>
         /\ Answerable(c, y) /\ s.a.heldResponses = <<>> /\ InfosFit(c, s, y.hop)
  <2>1. CASE Responded(r)
    BY <1>1, <1>2, <1>3, <2>1 DEF Answerable
  <2>2. CASE ~Responded(r)
    BY <1>2, <2>2
  <2> QED
    BY <2>1, <2>2
<1>8. y.hop = x.hop + 1 /\ y.hop <= x.hops /\ y.hop # 0 /\ y.hop <= Len(Chain[c.id])
  BY <1>1, <1>3
<1>9. y.infos \subseteq x.infos \cup {y.hop}
  OBVIOUS
<1> QED
  BY <1>6, <1>7, <1>8, <1>9 DEF Releasable

\* The redirect tells of the answer and the end of the hop before.
LEMMA RedirectEmitted ==
  ASSUME NEW c, Context(c), NEW s, NEW x, Handler(c, s, x),
         NEW h \in Nat, h - 1 \in Nat \ {0}, x.hop = h - 1, x.open, h - 1 <= x.hops, ~x.over,
         NEW t, t = EmitRedirect(c.id, s, h)
  PROVE  Handler(c, t, [x EXCEPT !.open = FALSE]) /\ t.a = s.a
<1> DEFINE e == RawEvent("response", c.id, h - 1, Announced(h - 1), NoHeaders)
           f == RawEvent("requestfinished", c.id, h - 1, NoHeaders, NoHeaders)
           y == [x EXCEPT !.open = FALSE]
<1>1. /\ s \in HandlerSet /\ s = [a |-> s.a, out |-> s.out] /\ s.out \in Seq(EventSet)
      /\ Good(c, s.out, x) /\ x \in ViewSet
  BY AdapterFacts DEF Handler, Good
<1>2. Announced(h - 1) \in HeaderSet /\ Announced(h - 1).hop = h - 1 /\ NoHeaders \in HeaderSet
  BY HeaderTypes
<1>3. Good(c, Append(s.out, e), y)
  BY <1>1, <1>2, AnswerTold
<1>4. y \in ViewSet /\ y.hop = x.hop /\ y.hops = x.hops
  BY <1>1 DEF ViewSet
<1> HIDE DEF e, y
<1>5. Good(c, Append(Append(s.out, e), f), y)
  BY <1>3, <1>4, FinishTold
<1>6. t = [a |-> s.a, out |-> Append(Append(s.out, e), f)]
  <2>1. t = Emit(Emit(s, e), f)
    BY DEF EmitRedirect, e
  <2> HIDE DEF f
  <2> QED
    BY <1>1, <2>1 DEF Emit
<1> HIDE DEF f
<1>7. t \in HandlerSet
  <2>1. Append(Append(s.out, e), f) \in Seq(EventSet) /\ s.a \in AdapterSet
    BY <1>1, <1>5, AdapterFacts DEF Good
  <2> QED
    BY <1>6, <2>1 DEF HandlerSet
<1>8. Handler(c, t, y)
  BY <1>4, <1>5, <1>6, <1>7 DEF Handler
<1> QED
  BY <1>6, <1>8 DEF y

\* The extra info of the redirect is dropped, or will be.
Discarded(s, t) ==
  /\ t.out = s.out
  /\ t.a.meta = s.a.meta /\ t.a.held = s.a.held /\ t.a.requestInfos = s.a.requestInfos
  /\ t.a.emitted = s.a.emitted /\ t.a.heldResponses = s.a.heldResponses
  /\ \/ /\ s.a.responseInfos # <<>> /\ t.a.responseInfos = Tail(s.a.responseInfos)
        /\ t.a.discards = s.a.discards
     \/ /\ s.a.responseInfos = <<>> /\ t.a.responseInfos = <<>>
        /\ t.a.discards = s.a.discards + 1

\* A redirect discards the info of its response, come or to come.
LEMMA InfoDiscarded ==
  ASSUME NEW c, NEW s, NEW x, Handler(c, s, x), NEW t, t = DiscardNextInfo(s)
  PROVE  Handler(c, t, x) /\ Discarded(s, t)
<1>1. /\ s = [a |-> s.a, out |-> s.out] /\ s.a \in AdapterSet
      /\ s.a.responseInfos \in Seq(HeaderSet) /\ s.a.discards \in Nat
  BY AdapterFacts DEF Handler
<1>2. CASE s.a.responseInfos # <<>>
  <2> DEFINE T == Tail(s.a.responseInfos)
             b == [s.a EXCEPT !.responseInfos = T]
  <2>1. T \in Seq(HeaderSet)
    BY <1>1, <1>2, HeadersKept
  <2>2. t = [s EXCEPT !.a.responseInfos = T]
    BY <1>2 DEF DiscardNextInfo
  <2>t. T = Tail(s.a.responseInfos)
    OBVIOUS
  <2> HIDE DEF T
  <2>3. t = [a |-> b, out |-> s.out]
    <3>1. s = [a |-> s.a, out |-> s.out]
      BY <1>1
    <3> QED
      BY <2>2, <3>1
  <2>4. /\ b \in AdapterSet /\ b.forResponse = s.a.forResponse
        /\ b.meta = s.a.meta /\ b.held = s.a.held /\ b.requestInfos = s.a.requestInfos
        /\ b.emitted = s.a.emitted /\ b.heldResponses = s.a.heldResponses
        /\ b.responseInfos = T /\ b.discards = s.a.discards
    BY <1>1, <2>1 DEF AdapterSet
  <2> HIDE DEF b
  <2>5. Handler(c, t, x) /\ t.a = b /\ t.out = s.out
    BY <2>3, <2>4, KeptAnew
  <2> QED
    BY <1>2, <2>4, <2>5, <2>t DEF Discarded
<1>3. CASE s.a.responseInfos = <<>>
  <2> DEFINE n == s.a.discards + 1
             b == [s.a EXCEPT !.discards = n]
  <2>1. n \in Nat
    BY <1>1
  <2>2. t = [s EXCEPT !.a.discards = n]
    BY <1>3 DEF DiscardNextInfo
  <2>t. n = s.a.discards + 1
    OBVIOUS
  <2> HIDE DEF n
  <2>3. t = [a |-> b, out |-> s.out]
    <3>1. s = [a |-> s.a, out |-> s.out]
      BY <1>1
    <3> QED
      BY <2>2, <3>1
  <2>4. /\ b \in AdapterSet /\ b.forResponse = s.a.forResponse
        /\ b.meta = s.a.meta /\ b.held = s.a.held /\ b.requestInfos = s.a.requestInfos
        /\ b.emitted = s.a.emitted /\ b.heldResponses = s.a.heldResponses
        /\ b.responseInfos = s.a.responseInfos /\ b.discards = n
    BY <1>1, <2>1 DEF AdapterSet
  <2> HIDE DEF b
  <2>5. Handler(c, t, x) /\ t.a = b /\ t.out = s.out
    BY <2>3, <2>4, KeptAnew
  <2> QED
    BY <1>3, <2>4, <2>5, <2>t DEF Discarded
<1> QED
  BY <1>2, <1>3

\* A request is held, or goes out with the headers that have come.
Queued(c, s, t, x, y) ==
  /\ t.a.meta = y.hop
  /\ t.a.heldResponses = s.a.heldResponses /\ t.a.responseInfos = s.a.responseInfos
  /\ t.a.discards = s.a.discards
  /\ \/ /\ s.a.requestInfos = <<>> /\ t.a.requestInfos = <<>>
        /\ t.a.held = <<[hop |-> y.hop, answers |-> <<>>]>>
        /\ t.a.emitted = s.a.emitted /\ Handler(c, t, x)
     \/ /\ s.a.requestInfos # <<>> /\ t.a.requestInfos = Tail(s.a.requestInfos)
        /\ t.a.held = <<>> /\ t.a.emitted /\ Handler(c, t, y)

\* Any state that fits what was told will do for a handler.
LEMMA HandlerMade ==
  ASSUME NEW c, NEW x, NEW a \in AdapterSet, NEW out, Good(c, out, x),
         \A k \in DOMAIN a.forResponse : a.forResponse[k].wire /\ a.forResponse[k].hop \in 1 .. x.hops,
         NEW t, t = [a |-> a, out |-> out]
  PROVE  Handler(c, t, x) /\ t.a = a /\ t.out = out
<1>1. out \in Seq(EventSet)
  BY DEF Good
<1>2. t \in HandlerSet /\ t.a = a /\ t.out = out
  BY <1>1 DEF HandlerSet
<1> QED
  BY <1>2 DEF Handler

\* queueRequestEvent tells of a hop, or holds it for its info.
LEMMA RequestQueued ==
  ASSUME NEW c, Context(c), NEW s, NEW x, Handler(c, s, x), s.a.held = <<>>,
         NEW y \in ViewSet, y.hops = x.hops, y.open, y.infos = x.infos,
         y.hop \in Nat \ {0}, y.hop <= Len(Chain[c.id]), y.hop = x.hop + 1, y.hop <= x.hops,
         x.hop = 0 \/ ~x.open,
         s.a.requestInfos # <<>> /\ c.id \notin c.oddities["misdirected"] =>
           s.a.requestInfos = <<OnTheWire(y.hop)>>,
         NEW t, t = QueueRequest(c.id, [s EXCEPT !.a.meta = y.hop], y.hop)
  PROVE  Queued(c, s, t, x, y)
<1> DEFINE h == y.hop
           m == [s EXCEPT !.a.meta = h]
           k == [s.a EXCEPT !.meta = h]
<1>1. /\ s = [a |-> s.a, out |-> s.out] /\ s.a \in AdapterSet /\ s.out \in Seq(EventSet)
      /\ s.a.requestInfos \in Seq(HeaderSet) /\ h \in Nat
  BY AdapterFacts DEF Handler
<1>2. m = [a |-> k, out |-> s.out]
  <2>1. s = [a |-> s.a, out |-> s.out]
    BY <1>1
  <2> QED
    BY <2>1
<1>3. /\ k \in AdapterSet /\ k.forResponse = s.a.forResponse
      /\ k.meta = h /\ k.held = <<>> /\ k.requestInfos = s.a.requestInfos
      /\ k.emitted = s.a.emitted /\ k.heldResponses = s.a.heldResponses
      /\ k.responseInfos = s.a.responseInfos /\ k.discards = s.a.discards
  BY <1>1 DEF AdapterSet
<1>4. t = QueueRequest(c.id, m, h)
  OBVIOUS
<1> HIDE DEF k, m
<1>5. m.a = k /\ m.out = s.out
  BY <1>2
<1>6. CASE s.a.requestInfos = <<>>
  <2> DEFINE q == <<[hop |-> h, answers |-> <<>>]>>
             b == [k EXCEPT !.held = q]
  <2>1. q \in Seq([hop : Nat, answers : Seq(Nat)])
    BY <1>1
  <2>2. t = [m EXCEPT !.a.held = Append(@, [hop |-> h, answers |-> <<>>])]
    BY <1>3, <1>4, <1>5, <1>6 DEF QueueRequest
  <2>3. Append(k.held, [hop |-> h, answers |-> <<>>]) = q
    BY <1>3
  <2>4. t = [m EXCEPT !.a.held = q]
    BY <1>5, <2>2, <2>3
  <2> HIDE DEF q
  <2>5. t = [a |-> b, out |-> s.out]
    BY <1>2, <2>4
  <2>6. /\ b \in AdapterSet /\ b.forResponse = s.a.forResponse
        /\ b.meta = h /\ b.held = q /\ b.requestInfos = <<>>
        /\ b.emitted = s.a.emitted /\ b.heldResponses = s.a.heldResponses
        /\ b.responseInfos = s.a.responseInfos /\ b.discards = s.a.discards
    BY <1>3, <1>6, <2>1 DEF AdapterSet
  <2> HIDE DEF b
  <2>7. Handler(c, t, x) /\ t.a = b
    BY <2>5, <2>6, KeptAnew
  <2> QED
    BY <1>6, <2>6, <2>7 DEF Queued, q
<1>7. CASE s.a.requestInfos # <<>>
  <2> DEFINE T == Tail(s.a.requestInfos)
             headers == Head(s.a.requestInfos)
             b == [k EXCEPT !.requestInfos = T, !.emitted = TRUE]
             e == RawEvent("request", c.id, h, headers, NoHeaders)
  <2>1. T \in Seq(HeaderSet) /\ headers \in HeaderSet
    BY <1>1, <1>7, HeadersKept
  <2>2. t = Emit([m EXCEPT !.a.requestInfos = Tail(@), !.a.emitted = TRUE], e)
    BY <1>3, <1>4, <1>5, <1>7 DEF QueueRequest
  <2>3. [m EXCEPT !.a.requestInfos = Tail(@), !.a.emitted = TRUE] = [a |-> b, out |-> s.out]
    <3> DEFINE n == [m EXCEPT !.a.requestInfos = T]
    <3>1. n = [a |-> [k EXCEPT !.requestInfos = T], out |-> s.out]
      <4> HIDE DEF T
      <4> QED
        BY <1>2
    <3>2. [m EXCEPT !.a.requestInfos = Tail(@), !.a.emitted = TRUE] = [n EXCEPT !.a.emitted = TRUE]
      BY <1>3, <1>5
    <3> HIDE DEF n, T
    <3> QED
      BY <3>1, <3>2
  <2>4. c.id \notin c.oddities["misdirected"] => headers.hop = h /\ headers.wire
    <3>1. OnTheWire(h).hop = h /\ OnTheWire(h).wire
      BY <1>1, HeaderTypes
    <3>2. Head(<<OnTheWire(h)>>) = OnTheWire(h)
      OBVIOUS
    <3> QED
      BY <1>7, <3>1, <3>2
  <2>5. Good(c, s.out, x)
    BY DEF Handler
  <2> HIDE DEF headers
  <2>6. Good(c, Append(s.out, e), y)
    <3>1. y.infos \subseteq x.infos \cup {h}
      OBVIOUS
    <3> QED
      BY <2>1, <2>4, <2>5, <3>1, RequestTold
  <2>e. e \in EventSet
    BY <1>1, <2>1, HeaderTypes DEF Context, RawEvent, EventSet
  <2> HIDE DEF e, T
  <2>7. /\ b \in AdapterSet /\ b.forResponse = s.a.forResponse
        /\ b.meta = h /\ b.held = <<>> /\ b.requestInfos = T
        /\ b.emitted /\ b.heldResponses = s.a.heldResponses
        /\ b.responseInfos = s.a.responseInfos /\ b.discards = s.a.discards
    BY <1>3, <2>1 DEF AdapterSet
  <2> HIDE DEF b
  <2>8. t = [a |-> b, out |-> Append(s.out, e)]
    BY <2>2, <2>3 DEF Emit
  <2>9. \A l \in DOMAIN b.forResponse : b.forResponse[l].wire /\ b.forResponse[l].hop \in 1 .. y.hops
    BY <2>7 DEF Handler
  <2>10. Handler(c, t, y) /\ t.a = b
    <3> DEFINE g == Append(s.out, e)
    <3>1. b \in AdapterSet /\ Good(c, g, y) /\ t = [a |-> b, out |-> g]
      BY <2>6, <2>7, <2>8
    <3> HIDE DEF g, h
    <3> QED
      BY <2>9, <3>1, HandlerMade
  <2>11. T = Tail(s.a.requestInfos)
    BY DEF T
  <2> QED
    BY <1>7, <2>7, <2>10, <2>11 DEF Queued
<1> QED
  BY <1>6, <1>7

\* A view that says no more than another is good as well.
LEMMA HandlerWeaker ==
  ASSUME NEW c, Context(c), NEW s, NEW x, Handler(c, s, x),
         NEW y \in ViewSet, y.hops = x.hops, y.hop = x.hop,
         x.hop # 0 => y.open = x.open,
         x.over => y.over,
         c.id \notin c.oddities["misdirected"] => y.infos \cap 1 .. x.hop \subseteq x.infos
  PROVE  Handler(c, s, y)
<1>1. Good(c, s.out, y)
  BY GoodWeaker DEF Handler
<1> QED
  BY <1>1 DEF Handler

\* The request event and the answer of the hop before are told of when a
\* request is sent on, and m is what the handler has come to.
SentOn(r, c, m, x) ==
  /\ Handler(c, m, x)
  /\ x.hop = told[r] /\ x.hops = Hops(r) /\ x.infos = View[r].infos /\ x.over = Over(r)
  /\ told[r] # 0 => ~x.open
  /\ m.a.held = <<>> /\ m.a.heldResponses = <<>>
  /\ m.a.requestInfos = adapter[r].requestInfos
  /\ m.a.emitted <=> told[r] # 0
  /\ \/ /\ told[r] = 0
        /\ m.a.responseInfos = adapter[r].responseInfos /\ m.a.discards = adapter[r].discards
     \/ /\ told[r] # 0 /\ adapter[r].responseInfos # <<>>
        /\ m.a.responseInfos = Tail(adapter[r].responseInfos)
        /\ m.a.discards = adapter[r].discards
     \/ /\ told[r] # 0 /\ adapter[r].responseInfos = <<>> /\ m.a.responseInfos = <<>>
        /\ m.a.discards = adapter[r].discards + 1

\* Before the next hop is told of, the one before has been.
LEMMA HopFinished ==
  ASSUME AdapterInv, NEW r \in Requests, told[r] # 0, told[r] < Hops(r), ~Over(r), ~Responded(r),
         NEW c, Context(c), c.id = r, GoesOn(oddities, c.oddities),
         Handler(c, Start(r), View[r]),
         NEW s, s = FlushRequest(r, Start(r))
  PROVE  \E x \in ViewSet :
           /\ Handler(c, s, x)
           /\ x.hop = told[r] /\ x.hops = Hops(r) /\ x.infos = View[r].infos
           /\ x.over = Over(r) /\ x.open
           /\ s.a.held = <<>> /\ s.a.heldResponses = <<>> /\ s.a.emitted
           /\ s.a.requestInfos = adapter[r].requestInfos
           /\ s.a.responseInfos = adapter[r].responseInfos
           /\ s.a.discards = adapter[r].discards
<1> DEFINE v == View[r]
           H == Hops(r)
<1>1. /\ H \in Nat \ {0} /\ told[r] \in Nat /\ Sent(r) = told[r] /\ Held(r)
      /\ Over(r) \in BOOLEAN
  BY Progress DEF Sent
<1>2. Start(r).a = adapter[r]
  BY DEF Start
<1>3. /\ v \in ViewSet /\ v.hops = H /\ v.hop = HopTold(r) /\ v.over = Over(r)
      /\ v.infos = {h \in 1 .. H : InfoHeard(r, h)}
      /\ v.open <=> adapter[r].held = <<>>
  BY Viewed
<1> HIDE DEF v
<1>4. adapter[r].heldResponses = <<>>
  BY <1>1 DEF Held
<1>5. CASE adapter[r].held = <<>>
  <2>1. s = Start(r)
    BY <1>2, <1>5 DEF FlushRequest
  <2>2. v.hop = told[r] /\ v.open /\ adapter[r].emitted
    BY <1>1, <1>3, <1>5 DEF Held, HopTold
  <2> QED
    BY <1>2, <1>3, <1>4, <1>5, <2>1, <2>2 DEF v
<1>6. CASE adapter[r].held # <<>>
  <2> DEFINE y == [hop |-> told[r], open |-> TRUE, over |-> Over(r), infos |-> v.infos, hops |-> H]
  <2>1. /\ y \in ViewSet /\ y.hop = told[r] /\ y.open /\ y.over = Over(r)
        /\ y.infos = v.infos /\ y.hops = H
    BY <1>1, <1>3 DEF ViewSet
  <2> HIDE DEF y
  <2>2. Announced(told[r]) \in HeaderSet
    BY <1>1, HeaderTypes
  <2>3. Releasable(c, Start(r), v, y, Announced(y.hop))
    <3>1. Start(r).a.held = adapter[r].held /\ Start(r).a.heldResponses = <<>>
      BY <1>2, <1>4
    <3>2. ~v.open /\ v.hop = HopTold(r) /\ y.hop = Sent(r) /\ Announced(y.hop) = Announced(Sent(r))
      BY <1>1, <1>3, <1>6, <2>1
    <3> QED
      BY <1>3, <1>6, <2>1, <2>2, <3>1, <3>2, HeldGoesOut
  <2>4. RequestOut(c, Start(r), s, y)
    <3>1. Handler(c, Start(r), v) /\ Start(r).a.held # <<>> /\ s = FlushRequest(c.id, Start(r))
      BY <1>2, <1>6 DEF v
    <3> QED
      BY <2>3, <3>1, RequestFlushed
  <2>5. Head(Start(r).a.held).answers = <<>>
    <3>1. adapter[r].held = <<[hop |-> Sent(r), answers |-> <<>>]>>
      BY <1>1, <1>6 DEF Held
    <3> QED
      BY <1>2, <3>1
  <2>6. /\ Handler(c, s, y) /\ s.a.held = <<>> /\ s.a.emitted
        /\ s.a.heldResponses = adapter[r].heldResponses
        /\ s.a.responseInfos = adapter[r].responseInfos
        /\ s.a.requestInfos = adapter[r].requestInfos /\ s.a.discards = adapter[r].discards
    BY <1>2, <2>4, <2>5 DEF RequestOut, SameRequest
  <2> QED
    BY <1>4, <2>1, <2>6 DEF v
<1> QED
  BY <1>5, <1>6

\* Before the next hop is told of, the answer to the one before has been.
LEMMA HopStarts ==
  ASSUME AdapterInv, NEW r \in Requests, ~Over(r), ~Responded(r), told[r] < Hops(r),
         NEW c, Context(c), c.id = r, GoesOn(oddities, c.oddities),
         Handler(c, Start(r), View[r]),
         NEW m,
         m = IF told[r] + 1 = 1 THEN Start(r)
             ELSE DiscardNextInfo(EmitRedirect(r, FlushRequest(r, Start(r)), told[r] + 1))
  PROVE  \E x \in ViewSet : SentOn(r, c, m, x)
<1> DEFINE v == View[r]
           H == Hops(r)
           h == told[r] + 1
<1>1. /\ H \in Nat \ {0} /\ told[r] \in Nat /\ Sent(r) = told[r] /\ Held(r)
      /\ Over(r) \in BOOLEAN
  BY Progress DEF Sent
<1>2. Start(r).a = adapter[r]
  BY DEF Start
<1>4. adapter[r].heldResponses = <<>>
  BY <1>1 DEF Held
<1>5. CASE told[r] = 0
  <2>1. m = Start(r)
    BY <1>5
  <2>2. adapter[r].held = <<>>
    BY <1>1, <1>5 DEF Held
  <2>3. HopTold(r) = 0 /\ ~adapter[r].emitted
    BY <1>1, <1>5, <2>2 DEF Held, HopTold
  <2>4. /\ v \in ViewSet /\ v.hops = H /\ v.hop = 0 /\ v.over = Over(r)
    BY <2>3, Viewed
  <2> QED
    BY <1>2, <1>4, <1>5, <2>1, <2>2, <2>3, <2>4 DEF SentOn
<1>6. CASE told[r] # 0
  <2> DEFINE s == FlushRequest(r, Start(r))
             q == EmitRedirect(r, s, h)
  <2>1. PICK x \in ViewSet :
           /\ Handler(c, s, x)
           /\ x.hop = told[r] /\ x.hops = Hops(r) /\ x.infos = View[r].infos
           /\ x.over = Over(r) /\ x.open
           /\ s.a.held = <<>> /\ s.a.heldResponses = <<>> /\ s.a.emitted
           /\ s.a.requestInfos = adapter[r].requestInfos
           /\ s.a.responseInfos = adapter[r].responseInfos
           /\ s.a.discards = adapter[r].discards
    BY <1>6, HopFinished
  <2> DEFINE y == [x EXCEPT !.open = FALSE]
  <2>2. m = DiscardNextInfo(q)
    BY <1>1, <1>6
  <2>3. y \in ViewSet /\ y.hop = x.hop /\ y.hops = x.hops /\ y.infos = x.infos /\ y.over = x.over /\ ~y.open
    BY DEF ViewSet
  <2>4. h \in Nat /\ h - 1 = told[r] /\ h - 1 \in Nat \ {0} /\ h - 1 <= x.hops
    BY <1>1, <1>6, <2>1
  <2> HIDE DEF s
  <2>5. Handler(c, q, y) /\ q.a = s.a
    <3> HIDE DEF h
    <3> QED
      BY <2>1, <2>4, RedirectEmitted
  <2> HIDE DEF q, y
  <2>6. Handler(c, m, y) /\ Discarded(q, m)
    BY <2>2, <2>5, InfoDiscarded
  <2> QED
    BY <1>6, <2>1, <2>3, <2>5, <2>6 DEF SentOn, Discarded
<1> QED
  BY <1>5, <1>6

\* A hop is told of, or held, after the redirect that led to it.
LEMMA SentHandled ==
  ASSUME NetworkInv, NEW r \in Requests, HandleMainEvent(r), SentNext(r)
  PROVE  NetworkInv'
<1> DEFINE t == AfterMain(r)
           c == Here(r, oddities', {})
           H == Hops(r)
           h == told[r] + 1
           m == IF h = 1 THEN Start(r)
                ELSE DiscardNextInfo(EmitRedirect(r, FlushRequest(r, Start(r)), h))
<1>0. AdapterInv
  BY DEF NetworkInv
<1>3. /\ Sent(r) = told[r] /\ Sent(r)' = h /\ told[r] < H
      /\ ~Responded(r) /\ ~Responded(r)' /\ ~Over(r)'
      /\ NextMain(r).kind = "sent" /\ NextMain(r).hop = h
  BY DEF SentNext
<1>1. /\ Step(r, t, MainOddities(r)) /\ ~Over(r)
      /\ oddities'["misdirected"] = oddities["misdirected"]
      /\ oddities'["overtaken"] = oddities["overtaken"]
      /\ told'[r] # 0 /\ told'[r] = h
      /\ \A g : InfoHeard(r, g)' <=> InfoHeard(r, g)
      /\ ResponsesHeard(r)' = ResponsesHeard(r)
  <2>1. NextMain(r).kind # "end"
    BY <1>3
  <2> QED
    BY <2>1, MainSteps
<1>2. /\ Context(c) /\ Handler(c, Start(r), View[r]) /\ adapter'[r] = t.a /\ Hops(r)' = H
      /\ GoesOn(oddities, oddities')
  BY <1>1, StepStarts
<1>4. /\ Held(r) /\ RequestInfosKept(r) /\ ResponseInfosKept(r) /\ adapter[r] \in AdapterSet
      /\ H \in Nat \ {0} /\ told[r] \in Nat /\ H <= Len(Chain[r]) /\ Len(Chain[r]) \in Nat
  BY <1>0, <1>3, Progress
<1>5. t = QueueRequest(r, [m EXCEPT !.a.meta = h], h)
  BY <1>3 DEF AfterMain, HandleMain, RequestWillBeSent
<1>6. c.id = r /\ c.oddities = oddities'
  BY DEF Here
<1> HIDE DEF c, t, h
<1>h. h = told[r] + 1 /\ h \in Nat \ {0}
  BY <1>4 DEF h
<1>7. PICK x \in ViewSet : SentOn(r, c, m, x)
  <2>1. m = IF told[r] + 1 = 1 THEN Start(r)
            ELSE DiscardNextInfo(EmitRedirect(r, FlushRequest(r, Start(r)), told[r] + 1))
    BY <1>h
  <2> HIDE DEF m
  <2> QED
    BY <1>0, <1>1, <1>2, <1>3, <1>6, <2>1, HopStarts
<1> HIDE DEF m
<1>8. /\ x.hop = told[r] /\ x.hops = H /\ x.infos = View[r].infos /\ x.over = Over(r)
      /\ told[r] # 0 => ~x.open
      /\ Handler(c, m, x) /\ m.a.held = <<>> /\ m.a.heldResponses = <<>>
      /\ m.a.requestInfos = adapter[r].requestInfos
      /\ m.a.emitted <=> told[r] # 0
  BY <1>7 DEF SentOn
<1>o. Over(r)' = Over(r)
  BY <1>1, <1>3 DEF Over
<1> DEFINE y == [hop |-> h, open |-> TRUE, over |-> x.over, infos |-> x.infos, hops |-> H]
<1>9. /\ y \in ViewSet /\ y.hop = h /\ y.open /\ y.over = x.over /\ y.infos = x.infos
      /\ y.hops = H
  BY <1>4, <1>h DEF ViewSet
<1> HIDE DEF y
<1>10. r \notin oddities["misdirected"] =>
         /\ adapter[r].requestInfos = IF told[r] = 0 /\ InfoHeard(r, 1) THEN <<OnTheWire(1)>> ELSE <<>>
         /\ \A g \in 1 .. H : InfoHeard(r, g) => g <= told[r] \/ (told[r] = 0 /\ g = 1)
  BY <1>1, <1>3, <1>4 DEF RequestInfosKept
<1>11. Queued(c, m, t, x, y)
  <2>1. m.a.requestInfos # <<>> /\ c.id \notin c.oddities["misdirected"] =>
          m.a.requestInfos = <<OnTheWire(y.hop)>>
    BY <1>1, <1>6, <1>8, <1>9, <1>10, <1>h
  <2>2. /\ y.hop \in Nat \ {0} /\ y.hop <= Len(Chain[c.id]) /\ y.hop = x.hop + 1 /\ y.hop <= x.hops
        /\ x.hop = 0 \/ ~x.open
    BY <1>3, <1>4, <1>6, <1>8, <1>9, <1>h
  <2>3. t = QueueRequest(c.id, [m EXCEPT !.a.meta = y.hop], y.hop)
    BY <1>5, <1>6, <1>9
  <2> QED
    BY <1>2, <1>7, <1>8, <1>9, <2>1, <2>2, <2>3, RequestQueued
<1>12. /\ t.a.meta = h /\ t.a.heldResponses = <<>> /\ t.a.responseInfos = m.a.responseInfos
       /\ t.a.discards = m.a.discards
  BY <1>8, <1>9, <1>11 DEF Queued
<1>13. ResponseInfosKept(r)'
  <2> DEFINE q == adapter[r].responseInfos
             n == t.a.responseInfos
  <2>1. q \in Seq(HeaderSet) /\ adapter[r].discards \in Nat
    BY <1>4 DEF AdapterSet
  <2>2. /\ Cardinality(ResponsesHeard(r)) + adapter[r].discards >= Redirects(r) + Len(q)
        /\ adapter[r].discards # 0 => q = <<>>
        /\ \A k \in DOMAIN q : q[k].hop >= Redirects(r) + k
        /\ \A k \in DOMAIN q : q[k].hop <= H
    BY <1>1, <1>4 DEF ResponseInfosKept
  <2>3. Redirects(r)' = told[r] /\ Redirects(r) = IF told[r] = 0 THEN 0 ELSE told[r] - 1
    BY <1>3, <1>4, <1>h DEF Redirects
  <2>4. Cardinality(ResponsesHeard(r)) \in Nat
    BY <1>0, HeardCount, Progress
  <2>5. CASE told[r] = 0 /\ n = q /\ t.a.discards = adapter[r].discards
    BY <1>1, <1>2, <2>2, <2>3, <2>5 DEF ResponseInfosKept
  <2>6. CASE /\ told[r] # 0 /\ q # <<>> /\ n = Tail(q)
             /\ t.a.discards = adapter[r].discards
    <3>1. Redirects(r) \in Nat /\ Redirects(r)' = Redirects(r) + 1
      BY <1>4, <2>3, <2>6
    <3>2. /\ Len(q) \in Nat /\ Len(n) = Len(q) - 1
          /\ \A k \in DOMAIN n : n[k].hop >= (Redirects(r) + 1) + k
          /\ \A k \in DOMAIN n : n[k].hop <= H
      BY <1>4, <2>1, <2>2, <2>6, <3>1, InfosShifted
    <3>3. Cardinality(ResponsesHeard(r)) + adapter[r].discards >= (Redirects(r) + 1) + Len(n)
      BY <2>1, <2>2, <2>4, <3>1, <3>2
    <3>4. adapter[r].discards = 0
      BY <2>2, <2>6
    <3> QED
      BY <1>1, <1>2, <2>6, <3>1, <3>2, <3>3, <3>4 DEF ResponseInfosKept
  <2>7. CASE /\ told[r] # 0 /\ q = <<>> /\ n = <<>>
             /\ t.a.discards = adapter[r].discards + 1
    <3>1. Redirects(r) \in Nat /\ Redirects(r)' = Redirects(r) + 1
      BY <1>4, <2>3, <2>7
    <3>2. Len(q) = 0 /\ Len(n) = 0 /\ DOMAIN n = {}
      BY <2>7
    <3>3. Cardinality(ResponsesHeard(r)) + t.a.discards >= (Redirects(r) + 1) + Len(n)
      BY <2>1, <2>2, <2>4, <2>7, <3>1, <3>2
    <3> QED
      BY <1>1, <1>2, <2>7, <3>1, <3>2, <3>3 DEF ResponseInfosKept
  <2> QED
    BY <1>7, <1>12, <2>5, <2>6, <2>7 DEF SentOn
<1>14. \E z \in ViewSet :
         /\ Handler(c, t, z) /\ z.hops = H /\ z.infos = x.infos /\ z.over = x.over
         /\ \/ /\ t.a.held = <<[hop |-> h, answers |-> <<>>]>> /\ adapter[r].requestInfos = <<>>
               /\ t.a.requestInfos = <<>> /\ (t.a.emitted <=> told[r] # 0)
               /\ z.hop = told[r] /\ ~z.open
            \/ /\ adapter[r].requestInfos # <<>> /\ t.a.held = <<>> /\ t.a.emitted
               /\ t.a.requestInfos = Tail(adapter[r].requestInfos)
               /\ z.hop = h /\ z.open
  <2>1. CASE /\ m.a.requestInfos = <<>> /\ t.a.requestInfos = <<>>
             /\ t.a.held = <<[hop |-> y.hop, answers |-> <<>>]>>
             /\ t.a.emitted = m.a.emitted /\ Handler(c, t, x)
    <3> DEFINE z == [x EXCEPT !.open = FALSE]
    <3>1. /\ z \in ViewSet /\ z.hop = x.hop /\ z.hops = x.hops /\ z.infos = x.infos
          /\ z.over = x.over /\ ~z.open /\ (x.hop # 0 => z.open = x.open)
      BY <1>8 DEF ViewSet
    <3> HIDE DEF z
    <3>2. z.infos \cap 1 .. x.hop \subseteq x.infos
      BY <3>1
    <3>3. Handler(c, t, z)
      BY <1>2, <2>1, <3>1, <3>2, HandlerWeaker
    <3> QED
      BY <1>8, <1>9, <2>1, <3>1, <3>3
  <2>2. CASE /\ m.a.requestInfos # <<>> /\ t.a.requestInfos = Tail(m.a.requestInfos)
             /\ t.a.held = <<>> /\ t.a.emitted /\ Handler(c, t, y)
    BY <1>8, <1>9, <2>2
  <2> QED
    BY <1>11, <2>1, <2>2 DEF Queued
<1>15. PICK z \in ViewSet :
         /\ Handler(c, t, z) /\ z.hops = H /\ z.infos = x.infos /\ z.over = x.over
         /\ \/ /\ t.a.held = <<[hop |-> h, answers |-> <<>>]>> /\ adapter[r].requestInfos = <<>>
               /\ t.a.requestInfos = <<>> /\ (t.a.emitted <=> told[r] # 0)
               /\ z.hop = told[r] /\ ~z.open
            \/ /\ adapter[r].requestInfos # <<>> /\ t.a.held = <<>> /\ t.a.emitted
               /\ t.a.requestInfos = Tail(adapter[r].requestInfos)
               /\ z.hop = h /\ z.open
  BY <1>14
<1>16. /\ HopTold(r)' = z.hop
       /\ t.a.emitted <=> z.hop # 0
       /\ t.a.held # <<>> => t.a.held = <<[hop |-> h, answers |-> <<>>]>>
       /\ z.open <=> t.a.held = <<>>
  <2>1. HopTold(r)' = IF t.a.held = <<>> THEN h ELSE h - 1
    BY <1>2, <1>3 DEF HopTold
  <2>2. h - 1 = told[r] /\ h # 0
    BY <1>4, <1>h
  <2>3. CASE /\ t.a.held = <<[hop |-> h, answers |-> <<>>]>>
             /\ (t.a.emitted <=> told[r] # 0)
             /\ z.hop = told[r] /\ ~z.open
    <3>1. t.a.held # <<>>
      BY <2>3
    <3> QED
      BY <2>1, <2>2, <2>3, <3>1
  <2>4. CASE t.a.held = <<>> /\ t.a.emitted /\ z.hop = h /\ z.open
    BY <2>1, <2>2, <2>4
  <2> QED
    BY <1>15, <2>3, <2>4
<1>17. View'[r] = z
  <2>1. View[r].hops = H
    BY <1>0, Viewed
  <2>2. /\ z.hop = HopTold(r)' /\ z.over = Over(r)' /\ z.hops = View[r].hops /\ z.infos = View[r].infos
    BY <1>8, <1>15, <1>16, <1>o, <2>1
  <2>3. z.open <=> /\ adapter'[r].held = <<>>
                   /\ ~Responded(r)' \/ adapter'[r].heldResponses # <<>>
    BY <1>2, <1>3, <1>16
  <2> QED
    BY <1>0, <1>1, <1>2, <1>15, <2>2, <2>3, ViewAfter
<1>18. Held(r)'
  BY <1>1, <1>2, <1>3, <1>12, <1>16 DEF Held
<1>19. RequestInfosKept(r)'
  <2>1. \A k \in DOMAIN t.a.forResponse :
          t.a.forResponse[k].wire /\ t.a.forResponse[k].hop \in 1 .. H
    BY <1>15 DEF Handler
  <2>2. r \notin oddities["misdirected"] =>
          /\ t.a.held # <<>> => ~InfoHeard(r, h)
          /\ \A g \in 1 .. H : InfoHeard(r, g) => g <= h
          /\ t.a.requestInfos = <<>>
    <3>1. SUFFICES ASSUME r \notin oddities["misdirected"]
                   PROVE  /\ t.a.held # <<>> => ~InfoHeard(r, h)
                          /\ \A g \in 1 .. H : InfoHeard(r, g) => g <= h
                          /\ t.a.requestInfos = <<>>
      OBVIOUS
    <3>2. \A g \in 1 .. H : InfoHeard(r, g) => g <= h
      BY <1>4, <1>10, <1>h, <3>1
    <3>3. CASE t.a.held # <<>>
      <4>1. adapter[r].requestInfos = <<>> /\ t.a.requestInfos = <<>>
        BY <1>15, <3>3
      <4>2. ~(told[r] = 0 /\ InfoHeard(r, 1))
        BY <1>10, <3>1, <4>1
      <4>3. h \in 1 .. H
        BY <1>3, <1>4, <1>h
      <4>4. InfoHeard(r, h) => h <= told[r] \/ (told[r] = 0 /\ h = 1)
        BY <1>10, <3>1, <4>3
      <4>5. ~InfoHeard(r, h)
        BY <1>4, <1>h, <4>2, <4>4
      <4> QED
        BY <3>2, <4>1, <4>5
    <3>4. CASE t.a.held = <<>>
      <4>1. adapter[r].requestInfos # <<>> /\ t.a.requestInfos = Tail(adapter[r].requestInfos)
        BY <1>15, <3>4
      <4>2. adapter[r].requestInfos = <<OnTheWire(1)>>
        BY <1>10, <3>1, <4>1
      <4>3. t.a.requestInfos = <<>>
        BY <4>1, <4>2
      <4> QED
        BY <3>2, <3>4, <4>3
    <3> QED
      BY <3>3, <3>4
  <2> QED
    BY <1>1, <1>2, <1>3, <2>1, <2>2 DEF RequestInfosKept
<1>20. Handler(Here(r, oddities', {}), t, View'[r])
  BY <1>15, <1>17 DEF c
<1> QED
  BY <1>1, <1>13, <1>18, <1>19, <1>20, HandledKeeps DEF t

\* What the end of a request makes of the request event that is held, if any:
\* s is what the handler has come to, x what the page knows, t what it leaves.
EndSettled(r, c, s, t) ==
  /\ RequestOver(t)
  /\ RequestsIn(s.out) \subseteq RequestsIn(t.out)
  /\ adapter[r].held # <<>> => \E e \in RequestsIn(t.out) : e.hop = Hops(r)
  /\ t.a.heldResponses # <<>> => /\ t.a.heldResponses = <<Hops(r)>>
                                 /\ Responded(r) /\ adapter[r].held # <<>>
  /\ \E z \in ViewSet :
       /\ Handler(c, t, z)
       /\ z.hop = Hops(r) /\ z.hops = Hops(r) /\ z.infos = View[r].infos /\ z.over
       /\ z.open <=> ~Responded(r) \/ t.a.heldResponses # <<>>

\* The end of a request tells what was held of it first.
LEMMA RequestEnds ==
  ASSUME AdapterInv, NEW r \in Requests, ~Over(r), Sent(r) = Hops(r),
         NEW c, Context(c), c.id = r, GoesOn(oddities, c.oddities),
         adapter[r].held # <<>> => Overtaken(c),
         NEW s, NEW x, Handler(c, s, x), s.a.held = adapter[r].held, s.a.heldResponses = <<>>,
         x.hop = HopTold(r), x.hops = Hops(r), x.infos = View[r].infos, x.over,
         x.open <=> adapter[r].held = <<>> /\ ~Responded(r),
         NEW t, t = Settled(r, s)
  PROVE  EndSettled(r, c, s, t)
<1> DEFINE H == Hops(r)
           y == IF adapter[r].held = <<>> THEN x
                ELSE [hop |-> H, open |-> TRUE, over |-> TRUE, infos |-> x.infos, hops |-> H]
<1>1. /\ H \in Nat \ {0} /\ Held(r) /\ Responded(r) \in BOOLEAN
      /\ View[r].infos = {h \in 1 .. H : InfoHeard(r, h)}
  BY Progress, Viewed
<1>2. x \in ViewSet
  BY DEF Handler, Good
<1>3. adapter[r].held = <<>> => y = x /\ x.hop = H
  BY DEF HopTold
<1>4. adapter[r].held # <<>> =>
        /\ y \in ViewSet /\ y.hop = H /\ y.open /\ y.over /\ y.infos = x.infos /\ y.hops = H
  BY <1>1, <1>2 DEF ViewSet
<1> HIDE DEF y
<1>5. s.a.held # <<>> => Releasable(c, s, x, y, Announced(y.hop))
  <2>1. SUFFICES ASSUME adapter[r].held # <<>> PROVE Releasable(c, s, x, y, Announced(y.hop))
    OBVIOUS
  <2>2. /\ y \in ViewSet /\ y.hop = Sent(r) /\ y.open /\ y.hops = H /\ Overtaken(c)
        /\ Announced(y.hop) = Announced(Sent(r)) /\ Announced(y.hop) \in HeaderSet
        /\ y.infos = x.infos /\ ~x.open /\ InfosFit(c, s, H)
    BY <1>1, <1>4, <2>1, HeaderTypes DEF InfosFit
  <2> QED
    BY <1>1, <2>1, <2>2, HeldGoesOut
<1>6. /\ RequestOver(t)
      /\ RequestsIn(s.out) \subseteq RequestsIn(t.out)
      /\ s.a.held # <<>> => \E e \in RequestsIn(t.out) : e.hop = y.hop
      /\ IF s.a.held = <<>> \/ Head(s.a.held).answers = <<>>
         THEN t.a.heldResponses = s.a.heldResponses /\ Handler(c, t, y)
         ELSE \/ t.a.heldResponses = <<>> /\ Handler(c, t, [y EXCEPT !.open = FALSE])
              \/ t.a.heldResponses = <<y.hop>> /\ Handler(c, t, y)
  <2>1. t = Settled(c.id, s)
    OBVIOUS
  <2> QED
    BY <1>3, <1>5, <2>1, RequestSettled
<1>7. CASE adapter[r].held = <<>>
  BY <1>2, <1>3, <1>6, <1>7 DEF EndSettled
<1>8. CASE adapter[r].held # <<>>
  <2>1. adapter[r].held = <<[hop |-> H, answers |-> IF Responded(r) THEN <<H>> ELSE <<>>]>>
    BY <1>1, <1>8 DEF Held
  <2>2. CASE ~Responded(r)
    <3>1. Head(s.a.held).answers = <<>>
      BY <2>1, <2>2
    <3> QED
      BY <1>4, <1>6, <1>8, <2>2, <3>1 DEF EndSettled
  <2>3. CASE Responded(r)
    <3>1. Head(s.a.held).answers # <<>>
      <4>1. s.a.held = <<[hop |-> H, answers |-> <<H>>]>>
        BY <2>1, <2>3
      <4>2. Head(s.a.held).answers = <<H>>
        BY <4>1
      <4>3. <<H>> # <<>>
        OBVIOUS
      <4> QED
        BY <4>2, <4>3
    <3> DEFINE z == [y EXCEPT !.open = FALSE]
    <3>2. /\ z \in ViewSet /\ z.hop = H /\ ~z.open /\ z.over /\ z.infos = x.infos /\ z.hops = H
      BY <1>4, <1>8 DEF ViewSet
    <3>3. CASE t.a.heldResponses = <<>> /\ Handler(c, t, z)
      <4> HIDE DEF z
      <4> QED
        BY <1>4, <1>6, <1>8, <2>3, <3>2, <3>3 DEF EndSettled
    <3>4. CASE t.a.heldResponses = <<y.hop>> /\ Handler(c, t, y)
      BY <1>4, <1>6, <1>8, <2>3, <3>4 DEF EndSettled
    <3> QED
      BY <1>6, <1>8, <3>1, <3>3, <3>4
  <2> QED
    BY <2>2, <2>3
<1> QED
  BY <1>7, <1>8

\* The end is told of the last hop, found by its id.
LEMMA EndTold ==
  ASSUME AdapterInv, NEW r \in Requests, ~Over(r), Sent(r) = Hops(r),
         NEW c, Context(c), c.id = r, GoesOn(oddities, c.oddities),
         adapter[r].held # <<>> => Overtaken(c) /\ Hops(r) \in c.also,
         NEW s, NEW x, Handler(c, s, x), s.a.held = adapter[r].held, s.a.heldResponses = <<>>,
         s.a.meta = adapter[r].meta,
         x.hop = HopTold(r), x.hops = Hops(r), x.infos = View[r].infos, x.over,
         x.open <=> adapter[r].held = <<>> /\ ~Responded(r),
         NEW t,
         t = IF story[r].end \in {"finished", "spared"}
             THEN Settled(r, Emit(s, RawEvent("requestfinished", r, s.a.meta, NoHeaders, NoHeaders)))
             ELSE Emit(Settled(r, s), RawEvent("requestfailed", r, s.a.meta, NoHeaders, NoHeaders))
  PROVE  EndSettled(r, c, s, t)
<1> DEFINE H == Hops(r)
<1>1. /\ H \in Nat \ {0} /\ Held(r) /\ H <= Len(Chain[r])
  BY Progress
<1>2. s.a.meta \in Nat /\ (adapter[r].held # <<>> => s.a.meta = H)
  BY <1>1, AdapterFacts DEF Held, Handler
<1>3. /\ s = [a |-> s.a, out |-> s.out] /\ s.a \in AdapterSet /\ s.out \in Seq(EventSet)
      /\ Good(c, s.out, x)
      /\ \A k \in DOMAIN s.a.forResponse :
           s.a.forResponse[k].wire /\ s.a.forResponse[k].hop \in 1 .. x.hops
  BY AdapterFacts DEF Handler
<1>4. CASE story[r].end \in {"finished", "spared"}
  <2> DEFINE e == RawEvent("requestfinished", r, s.a.meta, NoHeaders, NoHeaders)
             g == Append(s.out, e)
             q == Emit(s, e)
  <2>1. \/ x.hop # 0
        \/ c.id \in c.oddities["overtaken"] /\ s.a.meta \in c.also /\ s.a.meta <= Len(Chain[c.id])
    BY <1>1, <1>2 DEF HopTold, Overtaken
  <2>2. Good(c, g, x)
    <3>1. e = RawEvent("requestfinished", c.id, s.a.meta, NoHeaders, NoHeaders)
      OBVIOUS
    <3> HIDE DEF e
    <3> QED
      BY <1>2, <1>3, <2>1, <3>1, FinishTold
  <2>e. e \in EventSet
    BY <1>2, HeaderTypes DEF RawEvent, EventSet
  <2>t. t = Settled(r, q)
    BY <1>4
  <2> HIDE DEF e
  <2>3. RequestsIn(s.out) \subseteq RequestsIn(g)
    BY <1>3, <2>e, OneEventMore
  <2>4. q = [a |-> s.a, out |-> g]
    <3> HIDE DEF g
    <3>1. q = [s EXCEPT !.out = g]
      BY DEF Emit, g
    <3> QED
      BY <1>3, <3>1
  <2> HIDE DEF g, q
  <2>5. Handler(c, q, x) /\ q.a = s.a /\ q.out = g
    BY <1>3, <2>2, <2>4, HandlerMade
  <2>6. EndSettled(r, c, q, t)
    BY <2>t, <2>5, RequestEnds
  <2> QED
    BY <2>3, <2>5, <2>6 DEF EndSettled
<1>5. CASE story[r].end \notin {"finished", "spared"}
  <2> DEFINE e == RawEvent("requestfailed", r, s.a.meta, NoHeaders, NoHeaders)
             q == Settled(r, s)
             g == Append(q.out, e)
  <2>1. EndSettled(r, c, s, q)
    BY RequestEnds
  <2>t. t = Emit(q, e)
    BY <1>5
  <2> HIDE DEF q
  <2>2. PICK z \in ViewSet :
       /\ Handler(c, q, z)
       /\ z.hop = H /\ z.hops = H /\ z.infos = View[r].infos /\ z.over
       /\ z.open <=> ~Responded(r) \/ q.a.heldResponses # <<>>
    BY <2>1 DEF EndSettled
  <2>3. /\ q = [a |-> q.a, out |-> q.out] /\ q.a \in AdapterSet /\ q.out \in Seq(EventSet)
        /\ Good(c, q.out, z)
        /\ \A k \in DOMAIN q.a.forResponse :
             q.a.forResponse[k].wire /\ q.a.forResponse[k].hop \in 1 .. z.hops
    BY <2>2, AdapterFacts DEF Handler
  <2>4. Good(c, g, z)
    <3>1. e = RawEvent("requestfailed", c.id, s.a.meta, NoHeaders, NoHeaders)
      OBVIOUS
    <3>2. z.hop # 0
      BY <1>1, <2>2
    <3> HIDE DEF e
    <3> QED
      BY <1>2, <2>2, <2>3, <3>1, <3>2, FailTold
  <2>e. e \in EventSet
    BY <1>2, HeaderTypes DEF RawEvent, EventSet
  <2> HIDE DEF e
  <2>5. RequestsIn(q.out) \subseteq RequestsIn(g)
    BY <2>3, <2>e, OneEventMore
  <2>6. t = [a |-> q.a, out |-> g]
    <3> HIDE DEF g
    <3>1. t = [q EXCEPT !.out = g]
      BY <2>t DEF Emit, g
    <3> QED
      BY <2>3, <3>1
  <2> HIDE DEF g
  <2>7. Handler(c, t, z) /\ t.a = q.a /\ t.out = g
    BY <2>2, <2>3, <2>4, <2>6, HandlerMade
  <2>8. RequestOver(t)
    BY <2>1, <2>7 DEF EndSettled, RequestOver
  <2>9. adapter[r].held # <<>> => \E d \in RequestsIn(t.out) : d.hop = H
    BY <2>1, <2>5, <2>7 DEF EndSettled
  <2>10. RequestsIn(s.out) \subseteq RequestsIn(t.out)
    BY <2>1, <2>5, <2>7 DEF EndSettled
  <2>11. t.a.heldResponses # <<>> => /\ t.a.heldResponses = <<H>>
                                     /\ Responded(r) /\ adapter[r].held # <<>>
    BY <2>1, <2>7 DEF EndSettled
  <2> QED
    BY <2>2, <2>7, <2>8, <2>9, <2>10, <2>11 DEF EndSettled
<1> QED
  BY <1>4, <1>5

\* The end of a request keeps the invariant, also when it overtakes.
LEMMA EndHandled ==
  ASSUME NetworkInv, NEW r \in Requests, HandleMainEvent(r), EndNext(r)
  PROVE  NetworkInv'
<1> DEFINE t == AfterMain(r)
           H == Hops(r)
           also == IF adapter[r].held # <<>> THEN {H} ELSE {}
           c == Here(r, oddities', also)
           s == FlushResponses(r, Start(r))
           v == View[r]
<1>0. AdapterInv
  BY DEF NetworkInv
<1>3. /\ Sent(r) = H /\ Sent(r)' = H /\ Responded(r)' = Responded(r) /\ Over(r)'
      /\ NextMain(r).kind = "end" /\ NextMain(r).hop = H
  BY DEF EndNext
<1>1. /\ Step(r, t, MainOddities(r)) /\ ~Over(r)
      /\ oddities'["misdirected"] = oddities["misdirected"]
      /\ oddities'["overtaken"] = IF adapter[r].held # <<>>
                                  THEN oddities["overtaken"] \cup {r} ELSE oddities["overtaken"]
      /\ told'[r] # 0
      /\ \A h : InfoHeard(r, h)' <=> InfoHeard(r, h)
  BY <1>3, MainSteps
<1> HIDE DEF also
<1>2. /\ Context(c) /\ Handler(c, Start(r), v) /\ adapter'[r] = t.a /\ Hops(r)' = H
      /\ GoesOn(oddities, oddities')
      /\ \A e \in RequestsIn(t.out) : Fine(c, e.hop)
  BY <1>1, StepStarts
<1>4. /\ Held(r) /\ H \in Nat \ {0} /\ Responded(r) \in BOOLEAN
  BY <1>0, Progress
<1>5. c.id = r /\ c.oddities = oddities' /\ Start(r).a = adapter[r] /\ c.also = also
  BY DEF Here, Start
<1>6. /\ v \in ViewSet /\ v.hops = H /\ v.hop = HopTold(r)
      /\ v.open <=> /\ adapter[r].held = <<>>
                    /\ ~Responded(r) \/ adapter[r].heldResponses # <<>>
      /\ v.over = Over(r)
  BY <1>0, Viewed
<1>7. t = IF story[r].end \in {"finished", "spared"}
          THEN Settled(r, Emit(s, RawEvent("requestfinished", r, s.a.meta, NoHeaders, NoHeaders)))
          ELSE Emit(Settled(r, s), RawEvent("requestfailed", r, s.a.meta, NoHeaders, NoHeaders))
  BY <1>3 DEF AfterMain, HandleMain, LoadingEnded, LoadingFinished, LoadingFailed
<1> HIDE DEF c, t, v
<1>8. adapter[r].held # <<>> => Overtaken(c) /\ H \in c.also
  BY <1>1, <1>5 DEF Overtaken, also
<1>9. adapter[r].heldResponses # <<>> =>
        /\ adapter[r].held = <<>> /\ adapter[r].heldResponses = <<H>> /\ Responded(r)
        /\ v.hop = H
  BY <1>3, <1>4, <1>6 DEF Held, HopTold
<1>10. ResponsesOut(c, Start(r), s, v)
  <2>1. Start(r).a.heldResponses # <<>> => Start(r).a.heldResponses = <<v.hop>> /\ Answerable(c, v)
    BY <1>1, <1>4, <1>5, <1>6, <1>9 DEF Answerable
  <2>2. InfosFit(c, Start(r), v.hop)
    <3>1. CASE adapter[r].held # <<>>
      BY <1>8, <3>1 DEF InfosFit
    <3>2. CASE adapter[r].held = <<>>
      <4>1. v.hop = H
        BY <1>3, <1>6, <3>2 DEF HopTold
      <4> QED
        BY <1>0, <1>1, <1>2, <1>3, <1>5, <4>1, InfosFitLast
    <3> QED
      BY <3>1, <3>2
  <2>3. s = FlushResponses(c.id, Start(r))
    BY <1>5
  <2> HIDE DEF s
  <2> QED
    BY <1>2, <2>1, <2>2, <2>3, ResponsesFlushed
<1> HIDE DEF s
<1> DEFINE w == IF adapter[r].heldResponses = <<>> THEN v ELSE [v EXCEPT !.open = FALSE]
           x == [w EXCEPT !.over = TRUE]
<1>11. Handler(c, s, w) /\ s.a.held = adapter[r].held /\ s.a.heldResponses = <<>> /\ s.a.meta = adapter[r].meta
  BY <1>5, <1>10 DEF ResponsesOut, SameRequest
<1>12. /\ w \in ViewSet /\ w.hops = H /\ w.hop = HopTold(r) /\ w.infos = v.infos
       /\ w.open <=> adapter[r].held = <<>> /\ ~Responded(r)
  <2>1. CASE adapter[r].heldResponses = <<>>
    BY <1>6, <2>1
  <2>2. CASE adapter[r].heldResponses # <<>>
    BY <1>6, <1>9, <2>2 DEF ViewSet
  <2> QED
    BY <2>1, <2>2
<1> HIDE DEF w
<1>13. /\ x \in ViewSet /\ x.hops = H /\ x.hop = HopTold(r) /\ x.infos = w.infos /\ x.over
       /\ x.open = w.open
  BY <1>12 DEF ViewSet
<1> HIDE DEF x
<1>14. Handler(c, s, x)
  <2>1. x.infos \cap 1 .. w.hop \subseteq w.infos /\ x.hops = w.hops /\ x.hop = w.hop
    BY <1>12, <1>13
  <2> QED
    BY <1>2, <1>11, <1>13, <2>1, HandlerWeaker
<1>15. EndSettled(r, c, s, t)
  <2>1. x.infos = View[r].infos /\ (x.open <=> adapter[r].held = <<>> /\ ~Responded(r))
    BY <1>12, <1>13 DEF v
  <2> QED
    BY <1>0, <1>1, <1>2, <1>3, <1>5, <1>7, <1>8, <1>11, <1>13, <1>14, <2>1, EndTold
<1>16. PICK z \in ViewSet :
         /\ Handler(c, t, z)
         /\ z.hop = H /\ z.hops = H /\ z.infos = View[r].infos /\ z.over
         /\ z.open <=> ~Responded(r) \/ t.a.heldResponses # <<>>
  BY <1>15 DEF EndSettled
<1>17. /\ RequestOver(t)
       /\ t.a.heldResponses # <<>> => t.a.heldResponses = <<H>> /\ Responded(r) /\ adapter[r].held # <<>>
       /\ adapter[r].held # <<>> => \E e \in RequestsIn(t.out) : e.hop = H
  BY <1>15 DEF EndSettled
<1>18. View'[r] = z
  <2>1. HopTold(r)' = H
    BY <1>2, <1>3, <1>17 DEF HopTold, RequestOver
  <2>2. z.over = Over(r)'
    <3>1. Over(r)' \in BOOLEAN
      BY DEF Over
    <3> QED
      BY <1>3, <1>16, <3>1 DEF ViewSet
  <2>3. View[r].hops = H
    BY <1>6 DEF v
  <2>4. z.open <=> /\ adapter'[r].held = <<>>
                   /\ ~Responded(r)' \/ adapter'[r].heldResponses # <<>>
    BY <1>2, <1>3, <1>16, <1>17 DEF RequestOver
  <2> QED
    BY <1>0, <1>1, <1>2, <1>16, <2>1, <2>2, <2>3, <2>4, ViewAfter
<1>19. Held(r)'
  BY <1>1, <1>2, <1>3, <1>17 DEF Held, RequestOver
<1>20. RequestInfosKept(r)'
  BY <1>2, <1>3, <1>17 DEF RequestInfosKept, RequestOver
<1>21. ResponseInfosKept(r)'
  BY <1>3 DEF ResponseInfosKept
<1>22. Handler(Here(r, oddities', also), t, View'[r])
  BY <1>16, <1>18 DEF c
<1>23. \A h \in also : Fine(Here(r, oddities', also), h)
  BY <1>2, <1>17 DEF also, c
<1> QED
  BY <1>1, <1>19, <1>20, <1>21, <1>22, <1>23, HandledKeeps DEF t

\* Every main event keeps the invariant.
LEMMA MainHandled ==
  ASSUME NetworkInv, NEW r \in Requests, HandleMainEvent(r)
  PROVE  NetworkInv'
BY MainSteps, SentHandled, CachedHandled, AnswerHandled, EndHandled

-----------------------------------------------------------------------------
(* The extra infos.                                                        *)

InfoOddities(r) ==
  [oddities EXCEPT !["misdirected"] =
     IF /\ NextExtra(r).kind = "request"
        /\ NextExtra(r).hop # adapter[r].meta
        /\ told[r] # 0 \/ NextExtra(r).hop # 1
     THEN @ \cup {r} ELSE @]

\* What an extra info does, whichever comes.
LEMMA ExtraSteps ==
  ASSUME NetworkInv, NEW r \in Requests, HandleExtraInfo(r),
         NEW e, e = NextExtra(r)
  PROVE  /\ Step(r, AfterExtra(r), InfoOddities(r))
         /\ story' = story /\ told' = told
         /\ Hops(r)' = Hops(r) /\ Sent(r)' = Sent(r) /\ Responded(r)' = Responded(r)
         /\ Over(r)' = Over(r)
         /\ e.kind \in {"request", "response"} /\ e.hop \in 1 .. Hops(r)
         /\ oddities'["overtaken"] = oddities["overtaken"]
         /\ oddities'["misdirected"] =
              IF /\ e.kind = "request"
                 /\ e.hop # adapter[r].meta
                 /\ told[r] # 0 \/ e.hop # 1
              THEN oddities["misdirected"] \cup {r} ELSE oddities["misdirected"]
         /\ \A h : InfoHeard(r, h)' <=> InfoHeard(r, h) \/ (e.kind = "request" /\ h = e.hop)
         /\ e.kind = "request" => ~InfoHeard(r, e.hop) /\ ResponsesHeard(r)' = ResponsesHeard(r)
         /\ e.kind = "response" => /\ \A h \in ResponsesHeard(r) : h < e.hop
                                   /\ ResponsesHeard(r)' = ResponsesHeard(r) \cup {e.hop}
<1> DEFINE o == InfoOddities(r)
<1>0. AdapterInv
  BY DEF NetworkInv
<1>1. /\ heard[r] # ExtraInfos(r) /\ told' = told
      /\ adapter' = [adapter EXCEPT ![r] = AfterExtra(r).a]
      /\ story' = story /\ heard' = [heard EXCEPT ![r] = @ \cup {e}] /\ attached' = attached
      /\ page' = FoldLeft(Observe, page, AfterExtra(r).out)
      /\ oddities' = Noted(r, AfterExtra(r).out, o)
  BY DEF HandleExtraInfo, Extra, Observed, InfoOddities
<1>2. heard'[r] = heard[r] \cup {e}
  BY <1>0, <1>1 DEF AdapterInv
<1>3. Hops(r)' = Hops(r) /\ Sent(r)' = Sent(r) /\ Responded(r)' = Responded(r) /\ Over(r)' = Over(r)
  BY <1>1, NothingMain
<1>4. oddities = [x \in Oddities |-> oddities[x]]
      /\ Oddities = {"overtaken", "misdirected", "crossed", "abandoned"}
  BY <1>0 DEF AdapterInv, Oddities
<1>5. /\ o = [x \in Oddities |-> o[x]]
      /\ o["misdirected"] = IF /\ e.kind = "request"
                               /\ e.hop # adapter[r].meta
                               /\ told[r] # 0 \/ e.hop # 1
                            THEN oddities["misdirected"] \cup {r} ELSE oddities["misdirected"]
      /\ \A x \in Oddities : x # "misdirected" => o[x] = oddities[x]
  BY <1>4 DEF InfoOddities
<1> HIDE DEF o
<1>6. GoesOn(oddities, o)
  BY <1>4, <1>5 DEF GoesOn
<1>7. o["overtaken"] = oddities["overtaken"]
  BY <1>4, <1>5
<1>8. Step(r, AfterExtra(r), o)
  BY <1>1, <1>6, <1>7 DEF Step
<1>9. oddities'["overtaken"] = o["overtaken"] /\ oddities'["misdirected"] = o["misdirected"]
  BY <1>8, StepStarts
<1>10. /\ e \in ExtraInfos(r) \ heard[r]
       /\ e.kind \in {"request", "response"} /\ e.hop \in 1 .. Hops(r)
       /\ e = [kind |-> e.kind, hop |-> e.hop]
       /\ e.kind = "response" => \A h \in ResponsesHeard(r) : h < e.hop
  <2>1. /\ story \in [Requests -> StorySet] /\ heard[r] \subseteq ExtraInfos(r)
        /\ \A d \in heard[r], f \in ExtraInfos(r) \ heard[r] : Before(d, f)
    BY <1>0, Progress DEF AdapterInv
  <2> QED
    BY <1>1, <2>1, InfoComes
<1>11. \A h : InfoHeard(r, h)' <=> InfoHeard(r, h) \/ (e.kind = "request" /\ h = e.hop)
  <2> TAKE h
  <2>1. InfoHeard(r, h)' <=> [kind |-> "request", hop |-> h] \in heard[r] \cup {e}
    BY <1>2 DEF InfoHeard
  <2>2. [kind |-> "request", hop |-> h] = e <=> e.kind = "request" /\ h = e.hop
    BY <1>10
  <2> QED
    BY <2>1, <2>2 DEF InfoHeard
<1>12. e.kind = "request" => ~InfoHeard(r, e.hop)
  BY <1>10 DEF InfoHeard
<1>13. ResponsesHeard(r)' = {h \in 1 .. Hops(r) : [kind |-> "response", hop |-> h] \in heard[r] \cup {e}}
  BY <1>2, <1>3 DEF ResponsesHeard
<1>14. e.kind = "request" => ResponsesHeard(r)' = ResponsesHeard(r)
  <2>1. ASSUME e.kind = "request", NEW h PROVE [kind |-> "response", hop |-> h] # e
    BY <2>1
  <2> QED
    BY <1>13, <2>1 DEF ResponsesHeard
<1>15. e.kind = "response" => ResponsesHeard(r)' = ResponsesHeard(r) \cup {e.hop}
  <2>1. ASSUME e.kind = "response", NEW h PROVE [kind |-> "response", hop |-> h] = e <=> h = e.hop
    BY <1>10, <2>1
  <2> QED
    BY <1>10, <1>13, <2>1 DEF ResponsesHeard
<1> QED
  BY <1>1, <1>3, <1>5, <1>7, <1>8, <1>9, <1>10, <1>11, <1>12, <1>14, <1>15 DEF o

\* No more infos of responses, and as many redirects.
LEMMA InfosRemain ==
  ASSUME AdapterInv, NEW r \in Requests, Hops(r)' = Hops(r), Sent(r)' = Sent(r),
         Over(r)' => FALSE, ~Over(r),
         ResponsesHeard(r)' = ResponsesHeard(r),
         adapter'[r].discards = adapter[r].discards,
         \/ adapter'[r].responseInfos = adapter[r].responseInfos
         \/ adapter[r].responseInfos # <<>> /\ adapter'[r].responseInfos = Tail(adapter[r].responseInfos)
         \/ adapter'[r].responseInfos = <<>>
  PROVE  ResponseInfosKept(r)'
<1> DEFINE q == adapter[r].responseInfos
           n == adapter'[r].responseInfos
           H == Hops(r)
<1>0. H \in Nat \ {0} /\ adapter[r] \in AdapterSet /\ ResponseInfosKept(r) /\ Sent(r) \in Nat
  BY Progress
<1>1. q \in Seq(HeaderSet) /\ adapter[r].discards \in Nat
  BY <1>0 DEF AdapterSet
<1>2. /\ Cardinality(ResponsesHeard(r)) + adapter[r].discards >= Redirects(r) + Len(q)
      /\ adapter[r].discards # 0 => q = <<>>
      /\ \A k \in DOMAIN q : q[k].hop >= Redirects(r) + k
      /\ \A k \in DOMAIN q : q[k].hop <= H
  BY <1>0 DEF ResponseInfosKept
<1>3. Redirects(r)' = Redirects(r) /\ Redirects(r) \in Nat
  BY <1>0 DEF Redirects
<1>4. Cardinality(ResponsesHeard(r)) \in Nat
  BY HeardCount, Progress
<1>5. CASE n = q
  BY <1>2, <1>3, <1>5 DEF ResponseInfosKept
<1>6. CASE q # <<>> /\ n = Tail(q)
  <2>1. /\ Len(q) \in Nat /\ Len(n) = Len(q) - 1
        /\ \A k \in DOMAIN n : n[k].hop >= Redirects(r) + k
        /\ \A k \in DOMAIN n : n[k].hop <= H
    BY <1>0, <1>1, <1>2, <1>3, <1>6, InfosShifted
  <2>4. Cardinality(ResponsesHeard(r)) + adapter[r].discards >= Redirects(r) + Len(n)
    BY <1>1, <1>2, <1>3, <1>4, <2>1
  <2>5. adapter[r].discards = 0
    BY <1>2, <1>6
  <2> QED
    BY <1>3, <2>1, <2>4, <2>5 DEF ResponseInfosKept
<1>7. CASE n = <<>>
  <2>1. Len(n) = 0 /\ DOMAIN n = {} /\ Len(q) \in Nat
    BY <1>1, <1>7
  <2>2. Cardinality(ResponsesHeard(r)) + adapter[r].discards >= Redirects(r) + Len(n)
    BY <1>1, <1>2, <1>3, <1>4, <2>1
  <2> QED
    BY <1>3, <1>7, <2>1, <2>2 DEF ResponseInfosKept
<1> QED
  BY <1>5, <1>6, <1>7

\* A handler of an extra info has come to t, and w is what the page knows.
InfoDone(r, t, w, c) ==
  /\ w \in ViewSet /\ Handler(c, t, w)
  /\ w.hops = Hops(r) /\ w.over = Over(r)
  /\ t.a.meta = adapter[r].meta /\ t.a.discards = adapter[r].discards

\* The first info of a request: it is kept for what is to come.
InfoKept(r, h) ==
  [Start(r) EXCEPT !.a.forResponse = Append(@, OnTheWire(h))]

\* An info of a request is kept for the answer too.
LEMMA KeptForResponse ==
  ASSUME NetworkInv, NEW r \in Requests, NEW c, c.id = r, Context(c),
         Handler(c, Start(r), View[r]), NEW h \in 1 .. Hops(r), NEW q, q = InfoKept(r, h)
  PROVE  /\ Handler(c, q, View[r]) /\ q.out = <<>>
         /\ q.a = [adapter[r] EXCEPT !.forResponse = Append(adapter[r].forResponse, OnTheWire(h))]
<1> DEFINE f == adapter[r].forResponse
           g == Append(f, OnTheWire(h))
           b == [adapter[r] EXCEPT !.forResponse = g]
           v == View[r]
<1>0. /\ AdapterInv /\ adapter[r] \in AdapterSet /\ Hops(r) \in Nat
  BY Progress DEF NetworkInv
<1>1. v.hops = Hops(r)
  BY <1>0, Viewed
<1> HIDE DEF v
<1>2. f \in Seq(HeaderSet)
  BY <1>0 DEF AdapterSet
<1>3. OnTheWire(h) \in HeaderSet /\ OnTheWire(h).hop = h /\ OnTheWire(h).wire
  BY <1>0, HeaderTypes
<1>4. \A k \in DOMAIN f : f[k].wire /\ f[k].hop \in 1 .. Hops(r)
  BY <1>1 DEF Handler, Start, v
<1>5. g \in Seq(HeaderSet) /\ \A k \in DOMAIN g : g[k].wire /\ g[k].hop \in 1 .. Hops(r)
  <2> DEFINE w == OnTheWire(h)
  <2>1. w \in HeaderSet /\ w.hop = h /\ w.wire
    BY <1>3
  <2> HIDE DEF w
  <2>2. g = Append(f, w)
    BY DEF w
  <2> HIDE DEF f, g
  <2>3. /\ g \in Seq(HeaderSet) /\ DOMAIN g = DOMAIN f \cup {Len(f) + 1}
        /\ \A k \in DOMAIN f : g[k] = f[k]
        /\ g[Len(f) + 1] = w
    BY <1>2, <2>1, <2>2
  <2> QED
    BY <1>4, <2>1, <2>3
<1> HIDE DEF g
<1>6. q = [a |-> b, out |-> <<>>]
  <2>1. q = [Start(r) EXCEPT !.a.forResponse = g]
    BY DEF InfoKept, g, Start
  <2> QED
    BY <2>1 DEF Start
<1>7. b \in AdapterSet /\ b.forResponse = g
  BY <1>0, <1>5 DEF AdapterSet
<1> HIDE DEF b
<1>8. Good(c, <<>>, v)
  BY DEF Handler, Start, v
<1>9. Handler(c, q, v) /\ q.a = b /\ q.out = <<>>
  <2>1. \A k \in DOMAIN b.forResponse : b.forResponse[k].wire /\ b.forResponse[k].hop \in 1 .. v.hops
    BY <1>1, <1>5, <1>7
  <2> QED
    BY <1>6, <1>7, <1>8, <2>1, HandlerMade
<1> QED
  BY <1>9 DEF b, g, v

\* An info of a request releases the request event that is held.
LEMMA InfoReleases ==
  ASSUME NetworkInv, NEW r \in Requests, NEW c, c.id = r, Context(c),
         GoesOn(oddities, c.oddities), adapter[r].held # <<>>,
         NEW h \in 1 .. Hops(r), NEW q, q = InfoKept(r, h), Handler(c, q, View[r]), q.out = <<>>,
         q.a = [adapter[r] EXCEPT !.forResponse = Append(adapter[r].forResponse, OnTheWire(h))],
         h # Sent(r) => r \in c.oddities["misdirected"],
         NEW t, t = Release(r, q, OnTheWire(h))
  PROVE  \E w : /\ InfoDone(r, t, w, c)
                /\ w.infos = View[r].infos \cup {h} /\ w.hop = Sent(r)
                /\ t.a.held = <<>> /\ t.a.emitted /\ t.a.requestInfos = adapter[r].requestInfos
                /\ \/ t.a.responseInfos = adapter[r].responseInfos
                   \/ /\ adapter[r].responseInfos # <<>>
                      /\ t.a.responseInfos = Tail(adapter[r].responseInfos)
                /\ t.a.heldResponses # <<>> => t.a.heldResponses = <<Hops(r)>> /\ Responded(r)
                /\ w.open <=> ~Responded(r) \/ t.a.heldResponses # <<>>
<1> DEFINE v == View[r]
           H == Hops(r)
           y == [hop |-> Sent(r), open |-> TRUE, over |-> FALSE,
                 infos |-> v.infos \cup {Sent(r)}, hops |-> H]
<1>0. AdapterInv
  BY DEF NetworkInv
<1>1. /\ H \in Nat \ {0} /\ Held(r) /\ Sent(r) \in 0 .. H /\ Responded(r) \in BOOLEAN
      /\ adapter[r] \in AdapterSet /\ (Responded(r) => Sent(r) = H) /\ Over(r) \in BOOLEAN
  BY <1>0, Progress
<1>2. /\ v \in ViewSet /\ v.hops = H /\ v.hop = HopTold(r) /\ ~v.open /\ v.over = Over(r)
      /\ v.infos = {g \in 1 .. H : InfoHeard(r, g)}
  BY <1>0, Viewed
<1>3. /\ q.a.held = adapter[r].held /\ q.a.heldResponses = adapter[r].heldResponses
      /\ q.a.meta = adapter[r].meta /\ q.a.requestInfos = adapter[r].requestInfos
      /\ q.a.responseInfos = adapter[r].responseInfos /\ q.a.discards = adapter[r].discards
  BY <1>1 DEF AdapterSet
<1>4. /\ ~Over(r) /\ adapter[r].heldResponses = <<>>
      /\ adapter[r].held = <<[hop |-> Sent(r), answers |-> IF Responded(r) THEN <<H>> ELSE <<>>]>>
  BY <1>1 DEF Held
<1>5. /\ y \in ViewSet /\ y.hop = Sent(r) /\ y.open /\ ~y.over /\ y.infos = v.infos \cup {Sent(r)}
      /\ y.hops = H
  BY <1>1, <1>2 DEF ViewSet
<1> HIDE DEF y, v
<1>6. Releasable(c, q, v, y, OnTheWire(h))
  <2>1. Responded(r) => InfosFit(c, q, H)
    <3>1. SUFFICES ASSUME Responded(r) PROVE InfosFit(c, q, H)
      OBVIOUS
    <3>2. InfosFit(c, Start(r), H)
      BY <1>0, <1>1, <1>4, <3>1, InfosFitLast
    <3> QED
      BY <1>3, <3>2 DEF InfosFit, Start
  <2>2. OnTheWire(h) \in HeaderSet
    BY <1>1, HeaderTypes
  <2>3. OnTheWire(h) = OnTheWire(Sent(r)) \/ r \in c.oddities["misdirected"]
    OBVIOUS
  <2> QED
    BY <1>0, <1>2, <1>3, <1>4, <1>5, <2>1, <2>2, <2>3, HeldGoesOut
<1>7. RequestOut(c, q, t, y)
  <2>1. Handler(c, q, v) /\ t = Release(c.id, q, OnTheWire(h))
    BY DEF v
  <2> QED
    BY <1>6, <2>1, RequestReleased
<1>8. /\ t.a.meta = adapter[r].meta /\ t.a.requestInfos = adapter[r].requestInfos
      /\ t.a.discards = adapter[r].discards /\ t.a.held = <<>> /\ t.a.emitted
      /\ \/ t.a.responseInfos = adapter[r].responseInfos
         \/ adapter[r].responseInfos # <<>> /\ t.a.responseInfos = Tail(adapter[r].responseInfos)
  BY <1>3, <1>7 DEF RequestOut, SameRequest
<1>9. \E z \in ViewSet :
        /\ Handler(c, t, z) /\ z.hop = Sent(r) /\ ~z.over /\ z.hops = H
        /\ z.infos = v.infos \cup {Sent(r)}
        /\ t.a.heldResponses # <<>> => t.a.heldResponses = <<H>> /\ Responded(r)
        /\ z.open <=> ~Responded(r) \/ t.a.heldResponses # <<>>
  <2>1. CASE ~Responded(r)
    <3>1. q.a.held = <<[hop |-> Sent(r), answers |-> <<>>]>>
      BY <1>3, <1>4, <2>1
    <3>2. Head(q.a.held).answers = <<>>
      BY <3>1
    <3>3. t.a.heldResponses = <<>> /\ Handler(c, t, y)
      BY <1>3, <1>4, <1>7, <3>2 DEF RequestOut
    <3> QED
      BY <1>5, <2>1, <3>3
  <2>2. CASE Responded(r)
    <3>1. q.a.held = <<[hop |-> Sent(r), answers |-> <<H>>]>>
      BY <1>3, <1>4, <2>2
    <3>2. Head(q.a.held).answers = <<H>> /\ <<H>> # <<>>
      BY <3>1
    <3> DEFINE z == [y EXCEPT !.open = FALSE]
    <3>3. /\ z \in ViewSet /\ z.hop = Sent(r) /\ ~z.open /\ ~z.over /\ z.infos = y.infos
          /\ z.hops = H
      BY <1>5 DEF ViewSet
    <3>4. CASE t.a.heldResponses = <<>> /\ Handler(c, t, z)
      <4> HIDE DEF z
      <4> QED
        BY <1>5, <2>2, <3>3, <3>4
    <3>5. CASE t.a.heldResponses = <<y.hop>> /\ Handler(c, t, y)
      BY <1>1, <1>5, <2>2, <3>5
    <3> QED
      BY <1>7, <3>2, <3>4, <3>5 DEF RequestOut
  <2> QED
    BY <1>1, <2>1, <2>2
<1>10. PICK z \in ViewSet :
        /\ Handler(c, t, z) /\ z.hop = Sent(r) /\ ~z.over /\ z.hops = H
        /\ z.infos = v.infos \cup {Sent(r)}
        /\ t.a.heldResponses # <<>> => t.a.heldResponses = <<H>> /\ Responded(r)
        /\ z.open <=> ~Responded(r) \/ t.a.heldResponses # <<>>
  BY <1>9
<1> DEFINE w == [z EXCEPT !.infos = v.infos \cup {h}]
<1>11. /\ w \in ViewSet /\ w.hop = z.hop /\ w.hops = z.hops /\ w.over = z.over /\ w.open = z.open
       /\ w.infos = v.infos \cup {h}
  BY <1>1, <1>2 DEF ViewSet
<1> HIDE DEF w
<1>12. Handler(c, t, w)
  <2>1. c.id \notin c.oddities["misdirected"] => w.infos \cap 1 .. z.hop \subseteq z.infos
    BY <1>10, <1>11
  <2> QED
    BY <1>10, <1>11, <2>1, HandlerWeaker
<1>13. w.over = Over(r)
  BY <1>1, <1>4, <1>10, <1>11 DEF ViewSet
<1> QED
  BY <1>8, <1>10, <1>11, <1>12, <1>13 DEF InfoDone, v

HeadersOut(r, q, h) == Emit(q, RawEvent("requestheaders", r, q.a.meta, OnTheWire(h), NoHeaders))

InfoQueued(q, h) == [q EXCEPT !.a.requestInfos = Append(@, OnTheWire(h))]

\* The info is for the request event that went out last.
LEMMA InfoTold ==
  ASSUME NetworkInv, NEW r \in Requests, NEW c, c.id = r, Context(c),
         adapter[r].held = <<>>, adapter[r].emitted, adapter[r].meta # 0,
         NEW h \in 1 .. Hops(r), NEW q, q = InfoKept(r, h), Handler(c, q, View[r]), q.out = <<>>,
         q.a = [adapter[r] EXCEPT !.forResponse = Append(adapter[r].forResponse, OnTheWire(h))],
         h # Sent(r) => r \in c.oddities["misdirected"],
         NEW t, t = HeadersOut(r, q, h)
  PROVE  \E w : /\ InfoDone(r, t, w, c) /\ t.a = q.a
                /\ w.infos = View[r].infos \cup {h} /\ w.hop = View[r].hop
                /\ w.open = View[r].open
<1> DEFINE v == View[r]
           H == Hops(r)
           e == RawEvent("requestheaders", r, q.a.meta, OnTheWire(h), NoHeaders)
           x == [v EXCEPT !.infos = @ \cup {v.hop}]
           w == [v EXCEPT !.infos = @ \cup {h}]
           g == Append(<<>>, e)
<1>0. AdapterInv
  BY DEF NetworkInv
<1>1. /\ H \in Nat \ {0} /\ Held(r) /\ Sent(r) \in 0 .. H /\ adapter[r] \in AdapterSet
      /\ Over(r) \in BOOLEAN
  BY <1>0, Progress
<1>2. /\ v \in ViewSet /\ v.hops = H /\ v.hop = Sent(r) /\ v.over = Over(r) /\ v.hop # 0
  <2>1. HopTold(r) = Sent(r) /\ Sent(r) # 0
    BY <1>1 DEF HopTold, Held
  <2> QED
    BY <1>0, <2>1, Viewed
<1>3. OnTheWire(h) \in HeaderSet /\ q.a.meta \in Nat
  BY <1>1, HeaderTypes DEF AdapterSet
<1>4. Good(c, <<>>, v)
  BY DEF Handler
<1> HIDE DEF v
<1>5. Good(c, g, x)
  <2>1. \/ c.id \in c.oddities["misdirected"] \/ c.id \in c.oddities["overtaken"]
        \/ OnTheWire(h) = OnTheWire(v.hop)
    BY <1>2
  <2>2. e = RawEvent("requestheaders", c.id, q.a.meta, OnTheWire(h), NoHeaders)
    OBVIOUS
  <2> HIDE DEF e
  <2> QED
    BY <1>2, <1>3, <1>4, <2>1, <2>2, HeadersTold
<1>6. /\ x \in ViewSet /\ x.hop = v.hop /\ x.hops = v.hops /\ x.open = v.open /\ x.over = v.over
      /\ x.infos = v.infos \cup {v.hop}
  BY <1>2 DEF ViewSet
<1>7. /\ w \in ViewSet /\ w.hop = v.hop /\ w.hops = v.hops /\ w.open = v.open /\ w.over = v.over
      /\ w.infos = v.infos \cup {h}
  BY <1>1, <1>2 DEF ViewSet
<1> HIDE DEF x, w, e
<1>8. Good(c, g, w)
  <2>1. c.id \notin c.oddities["misdirected"] => w.infos \cap 1 .. x.hop \subseteq x.infos
    BY <1>2, <1>6, <1>7
  <2> QED
    BY <1>5, <1>6, <1>7, <2>1, GoodWeaker
<1>9. t = [a |-> q.a, out |-> g]
  <2>1. q = [a |-> q.a, out |-> q.out]
    BY AdapterFacts DEF Handler
  <2>2. t = [q EXCEPT !.out = g]
    BY DEF HeadersOut, Emit, e
  <2> HIDE DEF g
  <2> QED
    BY <2>1, <2>2
<1> HIDE DEF g
<1>10. q.a \in AdapterSet
  BY AdapterFacts DEF Handler
<1>11. Handler(c, t, w) /\ t.a = q.a
  <2> DEFINE b == q.a
  <2>1. \A k \in DOMAIN b.forResponse : b.forResponse[k].wire /\ b.forResponse[k].hop \in 1 .. w.hops
    BY <1>2, <1>7 DEF Handler, v
  <2>2. b \in AdapterSet /\ t = [a |-> b, out |-> g]
    BY <1>9, <1>10
  <2> HIDE DEF b
  <2>3. Handler(c, t, w) /\ t.a = b
    BY <1>8, <2>1, <2>2, HandlerMade
  <2> QED
    BY <2>3 DEF b
<1>12. t.a.meta = adapter[r].meta /\ t.a.discards = adapter[r].discards
  <2>1. q.a.meta = adapter[r].meta /\ q.a.discards = adapter[r].discards
    BY <1>1 DEF AdapterSet
  <2> QED
    BY <1>11, <2>1
<1> QED
  BY <1>2, <1>7, <1>11, <1>12 DEF InfoDone, v

\* The info waits for the request event to come.
LEMMA InfoWaits ==
  ASSUME NetworkInv, NEW r \in Requests, NEW c, c.id = r, Context(c),
         adapter[r].held = <<>>,
         NEW h \in 1 .. Hops(r), NEW q, q = InfoKept(r, h), Handler(c, q, View[r]), q.out = <<>>,
         q.a = [adapter[r] EXCEPT !.forResponse = Append(adapter[r].forResponse, OnTheWire(h))],
         r \notin c.oddities["misdirected"] => told[r] = 0,
         NEW t, t = InfoQueued(q, h)
  PROVE  \E w : /\ InfoDone(r, t, w, c)
                /\ t.a.requestInfos = Append(adapter[r].requestInfos, OnTheWire(h))
                /\ t.a.held = <<>> /\ t.a.emitted = adapter[r].emitted
                /\ t.a.heldResponses = adapter[r].heldResponses
                /\ t.a.responseInfos = adapter[r].responseInfos
                /\ w.infos = View[r].infos \cup {h} /\ w.hop = View[r].hop
                /\ w.open = View[r].open
<1> DEFINE v == View[r]
           H == Hops(r)
           w == [v EXCEPT !.infos = @ \cup {h}]
           i == Append(adapter[r].requestInfos, OnTheWire(h))
           b == [q.a EXCEPT !.requestInfos = i]
<1>0. AdapterInv
  BY DEF NetworkInv
<1>1. /\ H \in Nat \ {0} /\ Held(r) /\ Sent(r) \in 0 .. H /\ adapter[r] \in AdapterSet
      /\ (Sent(r) = 0 <=> told[r] = 0)
  BY <1>0, Progress
<1>2. /\ v \in ViewSet /\ v.hops = H /\ v.hop = Sent(r) /\ v.over = Over(r)
  <2>1. HopTold(r) = Sent(r)
    BY <1>1 DEF HopTold, Held
  <2> QED
    BY <1>0, <2>1, Viewed
<1>3. OnTheWire(h) \in HeaderSet /\ adapter[r].requestInfos \in Seq(HeaderSet)
  BY <1>1, HeaderTypes DEF AdapterSet
<1>4. i \in Seq(HeaderSet)
  <2> DEFINE o == OnTheWire(h)
  <2>1. o \in HeaderSet
    BY <1>3
  <2>2. i = Append(adapter[r].requestInfos, o)
    OBVIOUS
  <2> HIDE DEF o, i
  <2> QED
    BY <1>3, <2>1, <2>2
<1> HIDE DEF v
<1>7. /\ w \in ViewSet /\ w.hop = v.hop /\ w.hops = v.hops /\ w.open = v.open /\ w.over = v.over
      /\ w.infos = v.infos \cup {h}
  BY <1>1, <1>2 DEF ViewSet
<1> HIDE DEF w
<1>8. Handler(c, q, w)
  <2>1. c.id \notin c.oddities["misdirected"] => w.infos \cap 1 .. v.hop \subseteq v.infos
    BY <1>1, <1>2
  <2>2. Handler(c, q, v)
    BY DEF v
  <2> QED
    BY <1>7, <2>1, <2>2, HandlerWeaker
<1>9. q = [a |-> q.a, out |-> q.out] /\ q.a \in AdapterSet
  BY AdapterFacts DEF Handler
<1>5. q.a.requestInfos = adapter[r].requestInfos
  BY <1>1 DEF AdapterSet
<1>10. t = [a |-> b, out |-> q.out]
  <2>1. t = [q EXCEPT !.a.requestInfos = i]
    BY <1>5 DEF InfoQueued
  <2>2. q = [a |-> q.a, out |-> q.out]
    BY <1>9
  <2> HIDE DEF i
  <2> QED
    BY <2>1, <2>2
<1> HIDE DEF i
<1>11. /\ b \in AdapterSet /\ b.forResponse = q.a.forResponse /\ b.requestInfos = i
       /\ b.held = q.a.held /\ b.emitted = q.a.emitted /\ b.heldResponses = q.a.heldResponses
       /\ b.responseInfos = q.a.responseInfos /\ b.meta = q.a.meta /\ b.discards = q.a.discards
  BY <1>4, <1>9 DEF AdapterSet
<1> HIDE DEF b
<1>12. Handler(c, t, w) /\ t.a = b
  <2> DEFINE g == q.out
  <2>1. \A k \in DOMAIN b.forResponse : b.forResponse[k].wire /\ b.forResponse[k].hop \in 1 .. w.hops
    BY <1>8, <1>11 DEF Handler
  <2>2. Good(c, g, w) /\ b \in AdapterSet
    BY <1>8, <1>11 DEF Handler
  <2> DEFINE u == t
  <2>3. u = [a |-> b, out |-> g]
    BY <1>10
  <2> HIDE DEF g, u
  <2>4. Handler(c, u, w) /\ u.a = b
    BY <2>1, <2>2, <2>3, HandlerMade
  <2> QED
    BY <2>4 DEF u
<1>13. /\ q.a.held = <<>> /\ q.a.emitted = adapter[r].emitted
       /\ q.a.heldResponses = adapter[r].heldResponses
       /\ q.a.responseInfos = adapter[r].responseInfos /\ q.a.meta = adapter[r].meta
       /\ q.a.discards = adapter[r].discards
  BY <1>1 DEF AdapterSet
<1> QED
  BY <1>2, <1>7, <1>11, <1>12, <1>13 DEF InfoDone, v, i

\* What is left to see when an info has been handled.
LEMMA InfoViewed ==
  ASSUME NetworkInv, NEW r \in Requests, NEW c, NEW t, NEW w, InfoDone(r, t, w, c),
         adapter'[r] = t.a, Hops(r)' = Hops(r), Over(r)' = Over(r), Responded(r)' = Responded(r),
         w.hop = HopTold(r)',
         w.infos = {g \in 1 .. Hops(r) : InfoHeard(r, g)'},
         w.open <=> t.a.held = <<>> /\ (~Responded(r) \/ t.a.heldResponses # <<>>)
  PROVE  Handler(c, t, View'[r])
<1>1. w.infos = {g \in 1 .. Hops(r)' : InfoHeard(r, g)'}
  OBVIOUS
<1>2. /\ w \in ViewSet /\ Handler(c, t, w) /\ w.over = Over(r)' /\ w.hops = Hops(r)'
  BY DEF InfoDone
<1>3. w.open <=> /\ adapter'[r].held = <<>>
                 /\ ~Responded(r)' \/ adapter'[r].heldResponses # <<>>
  OBVIOUS
<1>4. View'[r] = w
  BY <1>1, <1>2, <1>3, ViewReached
<1> QED
  BY <1>2, <1>4

\* An info of a request keeps the invariant, also out of step.
LEMMA RequestInfoHandled ==
  ASSUME NetworkInv, NEW r \in Requests, HandleExtraInfo(r), NextExtra(r).kind = "request"
  PROVE  NetworkInv'
<1> DEFINE t == AfterExtra(r)
           c == Here(r, oddities', {})
           H == Hops(r)
           h == NextExtra(r).hop
           q == InfoKept(r, h)
           v == View[r]
           a == adapter[r]
<1>0. AdapterInv
  BY DEF NetworkInv
<1>1. /\ Step(r, t, InfoOddities(r)) /\ story' = story /\ told' = told
      /\ H' = H /\ Sent(r)' = Sent(r) /\ Responded(r)' = Responded(r) /\ Over(r)' = Over(r)
      /\ h \in 1 .. H
      /\ oddities'["overtaken"] = oddities["overtaken"]
      /\ oddities'["misdirected"] = IF h # a.meta /\ (told[r] # 0 \/ h # 1)
                                    THEN oddities["misdirected"] \cup {r} ELSE oddities["misdirected"]
      /\ \A g : InfoHeard(r, g)' <=> InfoHeard(r, g) \/ g = h
      /\ ~InfoHeard(r, h) /\ ResponsesHeard(r)' = ResponsesHeard(r)
  BY ExtraSteps
<1>2. /\ Context(c) /\ Handler(c, Start(r), v) /\ adapter'[r] = t.a
      /\ GoesOn(oddities, oddities')
  BY <1>1, StepStarts
<1>3. /\ Held(r) /\ RequestInfosKept(r) /\ ResponseInfosKept(r) /\ a \in AdapterSet
      /\ H \in Nat \ {0} /\ told[r] \in Nat /\ Sent(r) \in 0 .. H /\ (Sent(r) = 0 <=> told[r] = 0)
      /\ Responded(r) \in BOOLEAN /\ Over(r) \in BOOLEAN
  BY <1>0, Progress
<1>4. c.id = r /\ c.oddities = oddities' /\ Start(r).a = a
  BY DEF Here, Start
<1>5. t = IF a.held # <<>> THEN Release(r, q, OnTheWire(h))
          ELSE IF a.emitted /\ a.meta # 0
            THEN Emit(q, RawEvent("requestheaders", r, a.meta, OnTheWire(h), NoHeaders))
          ELSE [q EXCEPT !.a.requestInfos = Append(@, OnTheWire(h))]
  BY <1>4 DEF AfterExtra, HandleExtra, RequestExtraInfo, InfoKept
<1>6. /\ v.hop = HopTold(r) /\ v.infos = {g \in 1 .. H : InfoHeard(r, g)} /\ v.over = Over(r)
      /\ v.open <=> a.held = <<>> /\ (~Responded(r) \/ a.heldResponses # <<>>)
  BY <1>0, Viewed
<1> HIDE DEF c, t, h
<1>7. /\ Handler(c, q, v) /\ q.out = <<>>
      /\ q.a = [a EXCEPT !.forResponse = Append(a.forResponse, OnTheWire(h))]
  BY <1>1, <1>2, <1>4, KeptForResponse
<1>8. q.a.meta = a.meta
  BY <1>3, <1>7 DEF AdapterSet
<1>i. v.infos \cup {h} = {g \in 1 .. H : InfoHeard(r, g)'}
  BY <1>1, <1>6
<1>p. H' = H /\ Over(r)' = Over(r) /\ Responded(r)' = Responded(r)
  BY <1>1
<1>m. r \notin oddities'["misdirected"] =>
        /\ r \notin oddities["misdirected"]
        /\ h = a.meta \/ (told[r] = 0 /\ h = 1)
  BY <1>1
<1>k. r \notin oddities'["misdirected"] =>
        /\ a.held # <<>> => ~InfoHeard(r, Sent(r))
        /\ \A g \in 1 .. H : InfoHeard(r, g) => g <= Sent(r) \/ (told[r] = 0 /\ g = 1)
        /\ ~Over(r) => a.requestInfos = IF told[r] = 0 /\ InfoHeard(r, 1)
                                         THEN <<OnTheWire(1)>> ELSE <<>>
  BY <1>3, <1>m DEF RequestInfosKept
<1> HIDE DEF q, v
<1> SUFFICES /\ Handler(c, t, View'[r])
             /\ Held(r)' /\ RequestInfosKept(r)' /\ ResponseInfosKept(r)'
  BY <1>1, HandledKeeps DEF c, t
<1>r. \A w : InfoDone(r, t, w, c) =>
        \A k \in DOMAIN t.a.forResponse : t.a.forResponse[k].wire /\ t.a.forResponse[k].hop \in 1 .. H
  BY DEF InfoDone, Handler
<1>9. CASE a.held # <<>>
  <2>1. t = Release(r, q, OnTheWire(h))
    BY <1>5, <1>9
  <2>2. ~Over(r) /\ a.meta = Sent(r) /\ told[r] # 0
    BY <1>3, <1>9 DEF Held
  <2>3. h # Sent(r) => r \in c.oddities["misdirected"]
    BY <1>4, <1>m, <2>2
  <2>4. PICK w : /\ InfoDone(r, t, w, c)
                 /\ w.infos = v.infos \cup {h} /\ w.hop = Sent(r)
                 /\ t.a.held = <<>> /\ t.a.emitted /\ t.a.requestInfos = a.requestInfos
                 /\ \/ t.a.responseInfos = a.responseInfos
                    \/ a.responseInfos # <<>> /\ t.a.responseInfos = Tail(a.responseInfos)
                 /\ t.a.heldResponses # <<>> => t.a.heldResponses = <<H>> /\ Responded(r)
                 /\ w.open <=> ~Responded(r) \/ t.a.heldResponses # <<>>
    <3>1. /\ Handler(c, q, View[r]) /\ q.out = <<>> /\ q = InfoKept(r, h)
          /\ q.a = [adapter[r] EXCEPT !.forResponse = Append(adapter[r].forResponse, OnTheWire(h))]
      BY <1>7 DEF q, v
    <3> QED
      BY <1>1, <1>2, <1>4, <1>9, <2>1, <2>3, <3>1, InfoReleases DEF v
  <2>5. HopTold(r)' = Sent(r)
    BY <1>1, <1>2, <2>4 DEF HopTold
  <2>6. t.a.meta = a.meta /\ t.a.discards = a.discards
    BY <2>4 DEF InfoDone
  <2>7. Handler(c, t, View'[r])
    BY <1>2, <1>i, <1>p, <2>4, <2>5, InfoViewed
  <2>8. Held(r)'
    BY <1>1, <1>2, <1>3, <2>2, <2>4, <2>5, <2>6 DEF Held
  <2>9. RequestInfosKept(r)'
    <3>1. r \notin oddities'["misdirected"] => \A g \in 1 .. H : InfoHeard(r, g)' => g <= Sent(r)
      BY <1>1, <1>3, <1>k, <1>m, <2>2
    <3>2. r \notin oddities'["misdirected"] => t.a.requestInfos = <<>>
      BY <1>k, <2>2, <2>4
    <3>3. t.a.held = <<>>
      BY <2>4
    <3> QED
      BY <1>1, <1>2, <1>r, <2>2, <2>4, <3>1, <3>2, <3>3 DEF RequestInfosKept
  <2>10. ResponseInfosKept(r)'
    BY <1>0, <1>1, <1>2, <2>2, <2>4, <2>6, InfosRemain
  <2> QED
    BY <2>7, <2>8, <2>9, <2>10
<1>10. CASE a.held = <<>> /\ a.emitted /\ a.meta # 0
  <2>1. t = HeadersOut(r, q, h)
    BY <1>5, <1>8, <1>10 DEF HeadersOut
  <2>2. ~Over(r) /\ a.meta = Sent(r) /\ told[r] # 0
    BY <1>3, <1>10 DEF Held
  <2>3. h # Sent(r) => r \in c.oddities["misdirected"]
    BY <1>4, <1>m, <2>2
  <2>4. PICK w : /\ InfoDone(r, t, w, c) /\ t.a = q.a
                 /\ w.infos = v.infos \cup {h} /\ w.hop = v.hop
                 /\ w.open = v.open
    <3>1. /\ Handler(c, q, View[r]) /\ q.out = <<>> /\ q = InfoKept(r, h)
          /\ q.a = [adapter[r] EXCEPT !.forResponse = Append(adapter[r].forResponse, OnTheWire(h))]
      BY <1>7 DEF q, v
    <3>2. /\ c.id = r /\ Context(c) /\ adapter[r].held = <<>> /\ adapter[r].emitted
          /\ adapter[r].meta # 0 /\ h \in 1 .. Hops(r)
          /\ h # Sent(r) => r \in c.oddities["misdirected"]
          /\ t = HeadersOut(r, q, h)
      BY <1>1, <1>2, <1>4, <1>10, <2>1, <2>3
    <3> HIDE DEF a, H
    <3> QED
      BY <3>1, <3>2, InfoTold DEF v
  <2>5. /\ t.a.held = a.held /\ t.a.heldResponses = a.heldResponses /\ t.a.meta = a.meta
        /\ t.a.requestInfos = a.requestInfos /\ t.a.emitted = a.emitted
        /\ t.a.responseInfos = a.responseInfos /\ t.a.discards = a.discards
    <3>1. t.a = [a EXCEPT !.forResponse = Append(a.forResponse, OnTheWire(h))]
      BY <1>7, <2>4
    <3> QED
      BY <1>3, <3>1 DEF AdapterSet
  <2>6. HopTold(r)' = HopTold(r)
    BY <1>1, <1>2, <2>5 DEF HopTold
  <2>7. Handler(c, t, View'[r])
    BY <1>2, <1>6, <1>i, <1>p, <2>4, <2>5, <2>6, InfoViewed
  <2>8. Held(r)'
    BY <1>1, <1>2, <1>3, <2>5, <2>6 DEF Held
  <2>9. RequestInfosKept(r)'
    <3>1. r \notin oddities'["misdirected"] => \A g \in 1 .. H : InfoHeard(r, g)' => g <= Sent(r)
      BY <1>1, <1>3, <1>k, <1>m, <2>2
    <3>2. r \notin oddities'["misdirected"] => t.a.requestInfos = <<>>
      BY <1>k, <2>2, <2>5
    <3>3. t.a.held = <<>>
      BY <1>10, <2>5
    <3> QED
      BY <1>1, <1>2, <1>r, <2>2, <2>4, <3>1, <3>2, <3>3 DEF RequestInfosKept
  <2>10. ResponseInfosKept(r)'
    BY <1>0, <1>1, <1>2, <2>2, <2>5, InfosRemain
  <2> QED
    BY <2>7, <2>8, <2>9, <2>10
<1>11. CASE a.held = <<>> /\ ~(a.emitted /\ a.meta # 0)
  <2>1. t = InfoQueued(q, h)
    BY <1>5, <1>11 DEF InfoQueued
  <2>2. r \notin oddities'["misdirected"] => told[r] = 0 /\ h = 1
    <3>1. h = a.meta => FALSE
      <4>1. SUFFICES ASSUME h = a.meta PROVE FALSE
        OBVIOUS
      <4>2. a.meta # 0 /\ ~a.emitted
        BY <1>1, <1>3, <1>11, <4>1
      <4>3. ~Over(r) /\ a.meta = Sent(r)
        BY <1>3, <4>2 DEF Held
      <4>4. HopTold(r) # 0
        BY <1>11, <4>2, <4>3 DEF HopTold
      <4> QED
        BY <1>3, <4>2, <4>3, <4>4 DEF Held
    <3> QED
      BY <1>m, <3>1
  <2>4. PICK w : /\ InfoDone(r, t, w, c)
                 /\ t.a.requestInfos = Append(a.requestInfos, OnTheWire(h))
                 /\ t.a.held = <<>> /\ t.a.emitted = a.emitted
                 /\ t.a.heldResponses = a.heldResponses
                 /\ t.a.responseInfos = a.responseInfos
                 /\ w.infos = v.infos \cup {h} /\ w.hop = v.hop
                 /\ w.open = v.open
    <3>1. /\ Handler(c, q, View[r]) /\ q.out = <<>> /\ q = InfoKept(r, h)
          /\ q.a = [adapter[r] EXCEPT !.forResponse = Append(adapter[r].forResponse, OnTheWire(h))]
      BY <1>7 DEF q, v
    <3>2. r \notin c.oddities["misdirected"] => told[r] = 0
      BY <1>4, <2>2
    <3>3. /\ c.id = r /\ Context(c) /\ adapter[r].held = <<>> /\ h \in 1 .. Hops(r)
          /\ t = InfoQueued(q, h)
      BY <1>1, <1>2, <1>4, <1>11, <2>1
    <3>4. \E w : /\ InfoDone(r, t, w, c)
                /\ t.a.requestInfos = Append(adapter[r].requestInfos, OnTheWire(h))
                /\ t.a.held = <<>> /\ t.a.emitted = adapter[r].emitted
                /\ t.a.heldResponses = adapter[r].heldResponses
                /\ t.a.responseInfos = adapter[r].responseInfos
                /\ w.infos = View[r].infos \cup {h} /\ w.hop = View[r].hop
                /\ w.open = View[r].open
      <4> HIDE DEF a, H
      <4> QED
        BY <3>1, <3>2, <3>3, InfoWaits
    <3> QED
      BY <3>4 DEF v
  <2>5. t.a.meta = a.meta /\ t.a.discards = a.discards
    BY <2>4 DEF InfoDone
  <2>6. HopTold(r)' = HopTold(r)
    BY <1>1, <1>2, <1>11, <2>4 DEF HopTold
  <2>7. Handler(c, t, View'[r])
    BY <1>2, <1>6, <1>11, <1>i, <1>p, <2>4, <2>6, InfoViewed
  <2>8. Held(r)'
    BY <1>1, <1>2, <1>3, <1>11, <2>4, <2>5, <2>6 DEF Held
  <2>9. RequestInfosKept(r)'
    <3>1. r \notin oddities'["misdirected"] =>
            \A g \in 1 .. H : InfoHeard(r, g)' => told[r] = 0 /\ g = 1
      BY <1>1, <1>3, <1>k, <2>2
    <3>2. r \notin oddities'["misdirected"] /\ ~Over(r) =>
            t.a.requestInfos = <<OnTheWire(1)>> /\ InfoHeard(r, 1)' /\ told[r] = 0
      <4>1. SUFFICES ASSUME r \notin oddities'["misdirected"], ~Over(r)
                     PROVE  t.a.requestInfos = <<OnTheWire(1)>> /\ InfoHeard(r, 1)' /\ told[r] = 0
        OBVIOUS
      <4>2. told[r] = 0 /\ h = 1
        BY <2>2, <4>1
      <4>3. a.requestInfos = <<>>
        BY <1>1, <1>k, <4>1, <4>2
      <4> QED
        BY <1>1, <2>4, <4>2, <4>3
    <3> QED
      BY <1>1, <1>2, <1>r, <2>4, <3>1, <3>2 DEF RequestInfosKept
  <2>10. ResponseInfosKept(r)'
    <3>1. Over(r) => ResponseInfosKept(r)'
      BY <1>1 DEF ResponseInfosKept
    <3>2. ~Over(r) => ResponseInfosKept(r)'
      BY <1>0, <1>1, <1>2, <2>4, <2>5, InfosRemain
    <3> QED
      BY <3>1, <3>2
  <2> QED
    BY <2>7, <2>8, <2>9, <2>10
<1> QED
  BY <1>9, <1>10, <1>11

\* What the extra info of a response leaves.
ResponseInfoDone(r, t, w, c) ==
  /\ w \in ViewSet /\ Handler(c, t, w)
  /\ w.hops = Hops(r) /\ w.over = Over(r) /\ w.hop = View[r].hop /\ w.infos = View[r].infos
  /\ t.a.meta = adapter[r].meta /\ t.a.held = adapter[r].held
  /\ t.a.emitted = adapter[r].emitted /\ t.a.requestInfos = adapter[r].requestInfos
  /\ t.a.heldResponses \in {adapter[r].heldResponses, <<>>}
  /\ w.open <=> t.a.held = <<>> /\ (~Responded(r) \/ t.a.heldResponses # <<>>)

\* It is the info of the answer that is held.
LEMMA InfoOfLast ==
  ASSUME AdapterInv, NEW r \in Requests, adapter[r].discards = 0, ~Over(r),
         NEW h \in 1 .. Hops(r), \A g \in ResponsesHeard(r) : g < h
  PROVE  /\ h >= Redirects(r) + Len(adapter[r].responseInfos) + 1
         /\ adapter[r].heldResponses # <<>> => h = Hops(r)
<1>1. /\ story \in [Requests -> StorySet] /\ Hops(r) \in Nat \ {0} /\ ResponseInfosKept(r)
      /\ adapter[r] \in AdapterSet /\ Held(r) /\ Sent(r) \in Nat
      /\ Responded(r) => Sent(r) = Hops(r)
  BY Progress
<1> DEFINE n == Cardinality(ResponsesHeard(r))
           l == Len(adapter[r].responseInfos)
<1>2. n \in Nat /\ n <= h - 1
  BY <1>1, HeardCount
<1>3. n >= Redirects(r) + l
  <2>1. n + adapter[r].discards >= Redirects(r) + l
    BY <1>1 DEF ResponseInfosKept
  <2> HIDE DEF n, l
  <2> QED
    BY <1>2, <2>1
<1>4. l \in Nat /\ Redirects(r) \in Nat
  BY <1>1 DEF AdapterSet, Redirects
<1>5. adapter[r].heldResponses # <<>> => Redirects(r) = Hops(r) - 1
  BY <1>1 DEF Held, Redirects
<1> HIDE DEF n, l
<1>6. h >= Redirects(r) + l + 1
  BY <1>1, <1>2, <1>3, <1>4
<1>7. adapter[r].heldResponses # <<>> => h = Hops(r)
  BY <1>1, <1>2, <1>3, <1>4, <1>5
<1> QED
  BY <1>6, <1>7 DEF l

\* An info of a response that a redirect has discarded is dropped.
LEMMA InfoDropped ==
  ASSUME NetworkInv, NEW r \in Requests, NEW c, Handler(c, Start(r), View[r]),
         adapter[r].discards > 0,
         NEW b, b = [adapter[r] EXCEPT !.discards = adapter[r].discards - 1],
         NEW t, t = [a |-> b, out |-> <<>>]
  PROVE  /\ \E w : ResponseInfoDone(r, t, w, c)
         /\ t.a.responseInfos = adapter[r].responseInfos
         /\ t.a.discards = adapter[r].discards - 1
<1> DEFINE v == View[r]
<1>1. AdapterInv /\ adapter[r] \in AdapterSet
  BY Progress DEF NetworkInv
<1>2. adapter[r].discards \in Nat /\ adapter[r].discards - 1 \in Nat
  BY <1>1 DEF AdapterSet
<1>3. /\ v \in ViewSet /\ v.hops = Hops(r) /\ v.over = Over(r)
      /\ v.open <=> adapter[r].held = <<>> /\ (~Responded(r) \/ adapter[r].heldResponses # <<>>)
  BY <1>1, Viewed
<1>4. /\ b \in AdapterSet /\ b.forResponse = adapter[r].forResponse /\ b.meta = adapter[r].meta
      /\ b.held = adapter[r].held /\ b.emitted = adapter[r].emitted
      /\ b.requestInfos = adapter[r].requestInfos /\ b.heldResponses = adapter[r].heldResponses
      /\ b.responseInfos = adapter[r].responseInfos /\ b.discards = adapter[r].discards - 1
  BY <1>1, <1>2 DEF AdapterSet
<1>5. Good(c, <<>>, v) /\ \A k \in DOMAIN b.forResponse :
        b.forResponse[k].wire /\ b.forResponse[k].hop \in 1 .. v.hops
  BY <1>4 DEF Handler, Start
<1> HIDE DEF v
<1>6. Handler(c, t, v) /\ t.a = b
  BY <1>4, <1>5, HandlerMade
<1> QED
  BY <1>3, <1>4, <1>6 DEF ResponseInfoDone, v

InfosWith(r, h) == Append(adapter[r].responseInfos, OnTheWire(h))

InfoForResponse(r, h) ==
  [a |-> [adapter[r] EXCEPT !.responseInfos = InfosWith(r, h)], out |-> <<>>]

\* An info that comes before its response is queued.
LEMMA InfoWaitsForResponse ==
  ASSUME NetworkInv, NEW r \in Requests, NEW c, Handler(c, Start(r), View[r]),
         NEW h \in 1 .. Hops(r), NEW t, t = InfoForResponse(r, h)
  PROVE  /\ \E w : ResponseInfoDone(r, t, w, c)
         /\ t.a.responseInfos = InfosWith(r, h)
         /\ t.a.discards = adapter[r].discards
<1> DEFINE v == View[r]
           i == InfosWith(r, h)
           b == [adapter[r] EXCEPT !.responseInfos = i]
<1>t. t = [a |-> b, out |-> <<>>]
  BY DEF InfoForResponse
<1>1. AdapterInv /\ adapter[r] \in AdapterSet /\ Hops(r) \in Nat
  BY Progress DEF NetworkInv
<1>2. i \in Seq(HeaderSet)
  <2> DEFINE o == OnTheWire(h)
             q == adapter[r].responseInfos
  <2>1. o \in HeaderSet /\ q \in Seq(HeaderSet) /\ i = Append(q, o)
    BY <1>1, HeaderTypes DEF AdapterSet, InfosWith
  <2> HIDE DEF o, q, i
  <2> QED
    BY <2>1
<1> HIDE DEF i
<1>3. /\ v \in ViewSet /\ v.hops = Hops(r) /\ v.over = Over(r)
      /\ v.open <=> adapter[r].held = <<>> /\ (~Responded(r) \/ adapter[r].heldResponses # <<>>)
  BY <1>1, Viewed
<1>4. /\ b \in AdapterSet /\ b.forResponse = adapter[r].forResponse /\ b.meta = adapter[r].meta
      /\ b.held = adapter[r].held /\ b.emitted = adapter[r].emitted
      /\ b.requestInfos = adapter[r].requestInfos /\ b.heldResponses = adapter[r].heldResponses
      /\ b.responseInfos = i /\ b.discards = adapter[r].discards
  BY <1>1, <1>2 DEF AdapterSet
<1>5. Good(c, <<>>, v) /\ \A k \in DOMAIN b.forResponse :
        b.forResponse[k].wire /\ b.forResponse[k].hop \in 1 .. v.hops
  BY <1>4 DEF Handler, Start
<1> HIDE DEF v, b
<1>6. Handler(c, t, v) /\ t.a = b
  BY <1>4, <1>5, <1>t, HandlerMade
<1> QED
  BY <1>3, <1>4, <1>6 DEF ResponseInfoDone, v, i

\* An info releases the response that is held for it.
LEMMA HeldResponseTold ==
  ASSUME NetworkInv, NEW r \in Requests, NEW c, c.id = r, Context(c),
         Handler(c, Start(r), View[r]), adapter[r].heldResponses # <<>>,
         Over(r) => Overtaken(c),
         NEW h \in 1 .. Hops(r), h = Hops(r) \/ Overtaken(c),
         NEW b, b = [adapter[r] EXCEPT !.heldResponses = Tail(adapter[r].heldResponses)],
         NEW t, t = EmitResponse(r, [a |-> b, out |-> <<>>], Head(adapter[r].heldResponses), OnTheWire(h))
  PROVE  /\ \E w : ResponseInfoDone(r, t, w, c)
         /\ t.a.responseInfos = adapter[r].responseInfos
         /\ t.a.discards = adapter[r].discards
<1> DEFINE v == View[r]
           H == Hops(r)
           s == [a |-> b, out |-> <<>>]
           w == [v EXCEPT !.open = FALSE]
<1>1. /\ AdapterInv /\ adapter[r] \in AdapterSet /\ H \in Nat \ {0} /\ Held(r)
      /\ Responded(r) \in BOOLEAN /\ Responded(r) => Sent(r) = H
  BY Progress DEF NetworkInv
<1>2. /\ adapter[r].heldResponses = <<H>> /\ Responded(r) /\ adapter[r].held = <<>>
  BY <1>1 DEF Held
<1>3. /\ v \in ViewSet /\ v.hops = H /\ v.over = Over(r) /\ v.open /\ v.hop = H
  <2>1. HopTold(r) = H
    BY <1>1, <1>2 DEF HopTold
  <2> QED
    BY <1>1, <1>2, <2>1, Viewed
<1>t. Tail(adapter[r].heldResponses) = <<>> /\ Head(adapter[r].heldResponses) = H
  BY <1>2
<1>4. /\ b \in AdapterSet /\ b.forResponse = adapter[r].forResponse /\ b.meta = adapter[r].meta
      /\ b.held = adapter[r].held /\ b.emitted = adapter[r].emitted
      /\ b.requestInfos = adapter[r].requestInfos /\ b.heldResponses = <<>>
      /\ b.responseInfos = adapter[r].responseInfos /\ b.discards = adapter[r].discards
  <2>1. b = [adapter[r] EXCEPT !.heldResponses = <<>>]
    BY <1>t
  <2>2. <<>> \in Seq(Nat)
    OBVIOUS
  <2> QED
    BY <1>1, <2>1, <2>2 DEF AdapterSet
<1>5. Good(c, <<>>, v) /\ \A k \in DOMAIN b.forResponse :
        b.forResponse[k].wire /\ b.forResponse[k].hop \in 1 .. v.hops
  BY <1>4 DEF Handler, Start
<1>7. /\ w \in ViewSet /\ w.hop = v.hop /\ w.hops = v.hops /\ w.infos = v.infos /\ w.over = v.over
      /\ ~w.open
  BY <1>3 DEF ViewSet
<1> HIDE DEF v
<1>6. Handler(c, s, v) /\ s.a = b
  BY <1>4, <1>5, HandlerMade
<1>8. ResponseOut(c, s, t, v)
  <2>1. OnTheWire(h) \in HeaderSet /\ (OnTheWire(h).hop = v.hop \/ Overtaken(c))
    BY <1>1, <1>3, HeaderTypes
  <2>2. Answerable(c, v)
    BY <1>1, <1>3 DEF Answerable
  <2>3. t = EmitResponse(c.id, s, v.hop, OnTheWire(h))
    BY <1>3, <1>t
  <2> HIDE DEF s
  <2> QED
    BY <1>6, <2>1, <2>2, <2>3, ResponseEmitted
<1> HIDE DEF s
<1>9. Handler(c, t, w) /\ t.a = [b EXCEPT !.forResponse = Shift(b.forResponse)]
  BY <1>6, <1>8 DEF ResponseOut
<1>10. /\ t.a.meta = b.meta /\ t.a.held = b.held /\ t.a.emitted = b.emitted
       /\ t.a.requestInfos = b.requestInfos /\ t.a.heldResponses = <<>>
       /\ t.a.responseInfos = b.responseInfos /\ t.a.discards = b.discards
  BY <1>4, <1>9 DEF AdapterSet
<1> HIDE DEF w
<1> QED
  BY <1>2, <1>3, <1>4, <1>7, <1>9, <1>10 DEF ResponseInfoDone, v

\* An info of a response keeps the invariant.
LEMMA ResponseInfoHandled ==
  ASSUME NetworkInv, NEW r \in Requests, HandleExtraInfo(r), NextExtra(r).kind = "response"
  PROVE  NetworkInv'
<1> DEFINE t == AfterExtra(r)
           c == Here(r, oddities', {})
           H == Hops(r)
           h == NextExtra(r).hop
           a == adapter[r]
           i == Append(a.responseInfos, OnTheWire(h))
           N == Cardinality(ResponsesHeard(r))
<1>0. AdapterInv
  BY DEF NetworkInv
<1>1. /\ Step(r, t, InfoOddities(r)) /\ story' = story /\ told' = told
      /\ H' = H /\ Sent(r)' = Sent(r) /\ Responded(r)' = Responded(r) /\ Over(r)' = Over(r)
      /\ h \in 1 .. H
      /\ oddities'["overtaken"] = oddities["overtaken"]
      /\ oddities'["misdirected"] = oddities["misdirected"]
      /\ \A g : InfoHeard(r, g)' <=> InfoHeard(r, g)
      /\ \A g \in ResponsesHeard(r) : g < h
      /\ ResponsesHeard(r)' = ResponsesHeard(r) \cup {h}
  <2>1. NextExtra(r).kind # "request"
    OBVIOUS
  <2> QED
    BY <2>1, ExtraSteps
<1>2. /\ Context(c) /\ Handler(c, Start(r), View[r]) /\ adapter'[r] = t.a
      /\ GoesOn(oddities, oddities')
  BY <1>1, StepStarts
<1>3. /\ story \in [Requests -> StorySet]
      /\ Held(r) /\ RequestInfosKept(r) /\ ResponseInfosKept(r) /\ a \in AdapterSet
      /\ H \in Nat \ {0} /\ told[r] \in Nat /\ Sent(r) \in 0 .. H /\ (Sent(r) = 0 <=> told[r] = 0)
      /\ Responded(r) \in BOOLEAN /\ Over(r) \in BOOLEAN
  BY <1>0, Progress
<1>4. c.id = r /\ c.oddities = oddities' /\ Start(r) = [a |-> a, out |-> <<>>]
  BY DEF Here, Start
<1>5. a.discards \in Nat /\ a.responseInfos \in Seq(HeaderSet) /\ Redirects(r) \in Nat
  BY <1>3 DEF AdapterSet, Redirects
<1>6. N \in Nat /\ N' = N + 1
  <2>1. IsFiniteSet(ResponsesHeard(r)) /\ N \in Nat
    BY <1>3, HeardCount
  <2>2. h \notin ResponsesHeard(r)
    BY <1>1, <1>3
  <2> QED
    BY <1>1, <2>1, <2>2, FS_AddElement
<1> HIDE DEF c, h
<1>7. t = IF a.discards > 0 THEN [a |-> [a EXCEPT !.discards = a.discards - 1], out |-> <<>>]
          ELSE IF a.heldResponses # <<>>
            THEN EmitResponse(r, [a |-> [a EXCEPT !.heldResponses = Tail(a.heldResponses)], out |-> <<>>],
                              Head(a.heldResponses), OnTheWire(h))
          ELSE [a |-> [a EXCEPT !.responseInfos = i], out |-> <<>>]
  <2>1. t = ResponseExtraInfo(r, Start(r), h)
    BY DEF AfterExtra, HandleExtra, h
  <2> HIDE DEF t
  <2>2. t = IF a.discards > 0 THEN [Start(r) EXCEPT !.a.discards = @ - 1]
            ELSE IF a.heldResponses # <<>>
              THEN EmitResponse(r, [Start(r) EXCEPT !.a.heldResponses = Tail(@)],
                                Head(a.heldResponses), OnTheWire(h))
            ELSE [Start(r) EXCEPT !.a.responseInfos = Append(@, OnTheWire(h))]
    BY <1>4, <2>1 DEF ResponseExtraInfo
  <2>3. [Start(r) EXCEPT !.a.discards = @ - 1] = [a |-> [a EXCEPT !.discards = a.discards - 1], out |-> <<>>]
    <3> DEFINE s == Start(r)
               n == a.discards - 1
    <3>1. s.a.discards - 1 = n /\ s = [a |-> a, out |-> <<>>]
      BY <1>4
    <3>2. [s EXCEPT !.a.discards = @ - 1] = [s EXCEPT !.a.discards = n]
      BY <3>1
    <3> HIDE DEF s, n
    <3>3. [s EXCEPT !.a.discards = n] = [a |-> [a EXCEPT !.discards = n], out |-> <<>>]
      BY <3>1
    <3> QED
      BY <3>2, <3>3 DEF s, n
  <2>4. [Start(r) EXCEPT !.a.heldResponses = Tail(@)] = [a |-> [a EXCEPT !.heldResponses = Tail(a.heldResponses)], out |-> <<>>]
    <3> DEFINE s == Start(r)
               n == Tail(a.heldResponses)
    <3>1. Tail(s.a.heldResponses) = n /\ s = [a |-> a, out |-> <<>>]
      BY <1>4
    <3>2. [s EXCEPT !.a.heldResponses = Tail(@)] = [s EXCEPT !.a.heldResponses = n]
      BY <3>1
    <3> HIDE DEF s, n
    <3>3. [s EXCEPT !.a.heldResponses = n] = [a |-> [a EXCEPT !.heldResponses = n], out |-> <<>>]
      BY <3>1
    <3> QED
      BY <3>2, <3>3 DEF s, n
  <2>5. [Start(r) EXCEPT !.a.responseInfos = Append(@, OnTheWire(h))] = [a |-> [a EXCEPT !.responseInfos = i], out |-> <<>>]
    <3> DEFINE s == Start(r)
    <3>1. Append(s.a.responseInfos, OnTheWire(h)) = i /\ s = [a |-> a, out |-> <<>>]
      BY <1>4
    <3>2. [s EXCEPT !.a.responseInfos = Append(@, OnTheWire(h))] = [s EXCEPT !.a.responseInfos = i]
      BY <3>1
    <3> HIDE DEF s, i
    <3>3. [s EXCEPT !.a.responseInfos = i] = [a |-> [a EXCEPT !.responseInfos = i], out |-> <<>>]
      BY <3>1
    <3> QED
      BY <3>2, <3>3 DEF s
  <2> QED
    BY <2>2, <2>3, <2>4, <2>5
<1> HIDE DEF t, i
<1>8. ~Over(r) => /\ N + a.discards >= Redirects(r) + Len(a.responseInfos)
                  /\ a.discards # 0 => a.responseInfos = <<>>
                  /\ \A k \in DOMAIN a.responseInfos : a.responseInfos[k].hop >= Redirects(r) + k
                  /\ \A k \in DOMAIN a.responseInfos : a.responseInfos[k].hop <= H
  BY <1>3 DEF ResponseInfosKept
<1>9. Redirects(r)' = Redirects(r)
  BY <1>1 DEF Redirects
<1>l. Len(a.responseInfos) \in Nat
  BY <1>5
<1>10. /\ \E w : ResponseInfoDone(r, t, w, c)
       /\ ResponseInfosKept(r)'
  <2>1. CASE a.discards > 0
    <3>1. /\ \E w : ResponseInfoDone(r, t, w, c)
          /\ t.a.responseInfos = a.responseInfos
          /\ t.a.discards = a.discards - 1
      BY <1>2, <1>7, <2>1, InfoDropped
    <3>2. ~Over(r) => /\ N' + t.a.discards >= Redirects(r) + Len(t.a.responseInfos)
                      /\ t.a.discards # 0 => t.a.responseInfos = <<>>
      <4> HIDE DEF N
      <4> QED
        BY <1>5, <1>6, <1>8, <1>l, <2>1, <3>1
    <3>3. ResponseInfosKept(r)'
      BY <1>1, <1>2, <1>8, <1>9, <3>1, <3>2 DEF ResponseInfosKept
    <3> QED
      BY <3>1, <3>3
  <2>2. CASE a.discards = 0 /\ a.heldResponses # <<>>
    <3>1. Over(r) => Overtaken(c)
      BY <1>1, <1>3, <1>4, <2>2 DEF Held, Overtaken
    <3>2. h = H \/ Overtaken(c)
      BY <1>0, <1>1, <2>2, <3>1, InfoOfLast
    <3>3. t = EmitResponse(r, [a |-> [a EXCEPT !.heldResponses = Tail(a.heldResponses)], out |-> <<>>],
                           Head(a.heldResponses), OnTheWire(h))
      BY <1>5, <1>7, <2>2
    <3>4. /\ \E w : ResponseInfoDone(r, t, w, c)
          /\ t.a.responseInfos = a.responseInfos
          /\ t.a.discards = a.discards
      BY <1>1, <1>2, <1>4, <2>2, <3>1, <3>2, <3>3, HeldResponseTold
    <3>5. ~Over(r) => /\ N' + t.a.discards >= Redirects(r) + Len(t.a.responseInfos)
                      /\ t.a.discards # 0 => t.a.responseInfos = <<>>
      <4> HIDE DEF N
      <4> QED
        BY <1>5, <1>6, <1>8, <1>l, <3>4
    <3>6. ResponseInfosKept(r)'
      BY <1>1, <1>2, <1>8, <1>9, <3>4, <3>5 DEF ResponseInfosKept
    <3> QED
      BY <3>4, <3>6
  <2>3. CASE a.discards = 0 /\ a.heldResponses = <<>>
    <3>1. t = [a |-> [a EXCEPT !.responseInfos = i], out |-> <<>>]
      BY <1>5, <1>7, <2>3
    <3>2. /\ \E w : ResponseInfoDone(r, t, w, c)
          /\ t.a.responseInfos = i
          /\ t.a.discards = a.discards
      <4>1. t = InfoForResponse(r, h) /\ i = InfosWith(r, h)
        BY <3>1 DEF i, InfoForResponse, InfosWith
      <4> QED
        BY <1>1, <1>2, <4>1, InfoWaitsForResponse
    <3>3. ~Over(r) => h >= Redirects(r) + Len(a.responseInfos) + 1
      BY <1>0, <1>1, <2>3, InfoOfLast
    <3>4. OnTheWire(h) \in HeaderSet /\ OnTheWire(h).hop = h
      BY <1>1, <1>3, HeaderTypes
    <3>5. /\ Len(i) = Len(a.responseInfos) + 1
          /\ DOMAIN i = DOMAIN a.responseInfos \cup {Len(a.responseInfos) + 1}
          /\ \A k \in DOMAIN a.responseInfos : i[k] = a.responseInfos[k]
          /\ i[Len(a.responseInfos) + 1].hop = h
      <4> DEFINE q == a.responseInfos
                 o == OnTheWire(h)
      <4>1. q \in Seq(HeaderSet) /\ o \in HeaderSet /\ o.hop = h /\ i = Append(q, o)
        BY <1>5, <3>4 DEF i
      <4> HIDE DEF q, o
      <4>2. /\ Len(i) = Len(q) + 1 /\ DOMAIN i = DOMAIN q \cup {Len(q) + 1}
            /\ \A k \in DOMAIN q : i[k] = q[k]
            /\ i[Len(q) + 1] = o
        BY <4>1
      <4> QED
        BY <4>1, <4>2 DEF q
    <3>6. ~Over(r) => /\ \A k \in DOMAIN i : i[k].hop >= Redirects(r) + k
                      /\ \A k \in DOMAIN i : i[k].hop <= H
      BY <1>1, <1>3, <1>5, <1>8, <1>l, <3>3, <3>5
    <3>7. ~Over(r) => N' + t.a.discards >= Redirects(r) + Len(i)
      <4> HIDE DEF N
      <4> QED
        BY <1>5, <1>6, <1>8, <1>l, <2>3, <3>2, <3>5
    <3>8. ResponseInfosKept(r)'
      BY <1>1, <1>2, <1>9, <2>3, <3>2, <3>6, <3>7 DEF ResponseInfosKept
    <3> QED
      BY <3>2, <3>8
  <2> QED
    BY <1>5, <2>1, <2>2, <2>3
<1>11. PICK w : ResponseInfoDone(r, t, w, c)
  BY <1>10
<1>12. /\ w \in ViewSet /\ Handler(c, t, w) /\ w.hops = H /\ w.over = Over(r)
       /\ w.hop = View[r].hop /\ w.infos = View[r].infos
       /\ t.a.meta = a.meta /\ t.a.held = a.held /\ t.a.emitted = a.emitted
       /\ t.a.requestInfos = a.requestInfos /\ t.a.heldResponses \in {a.heldResponses, <<>>}
       /\ w.open <=> t.a.held = <<>> /\ (~Responded(r) \/ t.a.heldResponses # <<>>)
  BY <1>11 DEF ResponseInfoDone
<1>13. HopTold(r)' = HopTold(r)
  BY <1>1, <1>2, <1>12 DEF HopTold
<1>14. View'[r] = w
  <2>1. View[r].hop = HopTold(r) /\ View[r].hops = H
    BY <1>0, Viewed
  <2>2. w.over = Over(r)' /\ w.hop = HopTold(r)' /\ w.hops = View[r].hops
    BY <1>1, <1>12, <1>13, <2>1
  <2>3. w.open <=> /\ adapter'[r].held = <<>>
                   /\ ~Responded(r)' \/ adapter'[r].heldResponses # <<>>
    BY <1>1, <1>2, <1>12
  <2> QED
    BY <1>0, <1>1, <1>12, <2>2, <2>3, ViewAfter
<1>15. Held(r)'
  BY <1>1, <1>2, <1>3, <1>12, <1>13 DEF Held
<1>16. RequestInfosKept(r)'
  <2>1. \A k \in DOMAIN t.a.forResponse : t.a.forResponse[k].wire /\ t.a.forResponse[k].hop \in 1 .. H
    BY <1>12 DEF Handler
  <2> QED
    BY <1>1, <1>2, <1>3, <1>12, <2>1 DEF RequestInfosKept
<1>17. Handler(Here(r, oddities', {}), t, View'[r])
  BY <1>12, <1>14 DEF c
<1> QED
  BY <1>1, <1>10, <1>15, <1>16, <1>17, HandledKeeps DEF t

\* Every extra info keeps the invariant.
LEMMA ExtraHandled ==
  ASSUME NetworkInv, NEW r \in Requests, HandleExtraInfo(r)
  PROVE  NetworkInv'
BY ExtraSteps, RequestInfoHandled, ResponseInfoHandled

-----------------------------------------------------------------------------
(* The timers.                                                             *)

\* What the timers do.
LEMMA TimerSteps ==
  ASSUME NetworkInv, NEW r \in Requests, GiveUpOnRequestInfo(r) \/ GiveUpOnResponseInfo(r)
  PROVE  /\ GiveUpOnRequestInfo(r) =>
              adapter[r].held # <<>> /\ Step(r, AfterRequestTimer(r), oddities)
         /\ GiveUpOnResponseInfo(r) =>
              adapter[r].heldResponses # <<>> /\ Step(r, AfterResponseTimer(r), oddities)
         /\ story' = story /\ told' = told /\ heard' = heard
         /\ Hops(r)' = Hops(r) /\ Sent(r)' = Sent(r) /\ Responded(r)' = Responded(r)
         /\ Over(r)' = Over(r)
         /\ oddities'["overtaken"] = oddities["overtaken"]
         /\ oddities'["misdirected"] = oddities["misdirected"]
         /\ \A h : InfoHeard(r, h)' <=> InfoHeard(r, h)
         /\ ResponsesHeard(r)' = ResponsesHeard(r)
<1>0. AdapterInv
  BY DEF NetworkInv
<1>1. GoesOn(oddities, oddities)
  BY <1>0 DEF AdapterInv, GoesOn
<1>2. story' = story /\ told' = told /\ heard' = heard /\ attached' = attached
  BY DEF GiveUpOnRequestInfo, GiveUpOnResponseInfo, RequestTimer, ResponseTimer
<1>3. GiveUpOnRequestInfo(r) =>
        adapter[r].held # <<>> /\ Step(r, AfterRequestTimer(r), oddities)
  BY <1>1, <1>2 DEF GiveUpOnRequestInfo, RequestTimer, Observed, Step
<1>4. GiveUpOnResponseInfo(r) =>
        adapter[r].heldResponses # <<>> /\ Step(r, AfterResponseTimer(r), oddities)
  BY <1>1, <1>2 DEF GiveUpOnResponseInfo, ResponseTimer, Observed, Step
<1>5. oddities'["overtaken"] = oddities["overtaken"] /\ oddities'["misdirected"] = oddities["misdirected"]
  BY <1>3, <1>4, StepStarts
<1>6. Hops(r)' = Hops(r) /\ Sent(r)' = Sent(r) /\ Responded(r)' = Responded(r) /\ Over(r)' = Over(r)
  BY <1>2, NothingMain
<1>7. \A h : InfoHeard(r, h)' <=> InfoHeard(r, h)
  BY <1>2 DEF InfoHeard
<1>8. ResponsesHeard(r)' = ResponsesHeard(r)
  BY <1>2, <1>6 DEF ResponsesHeard
<1> QED
  BY <1>2, <1>3, <1>4, <1>5, <1>6, <1>7, <1>8

\* The request event that is held goes out as announced.
LEMMA HeldFlushed ==
  ASSUME AdapterInv, NEW r \in Requests, NEW c, c.id = r, Context(c),
         GoesOn(oddities, c.oddities), adapter[r].held # <<>>,
         Handler(c, Start(r), View[r]), NEW t, t = FlushRequest(r, Start(r))
  PROVE  /\ t.a.meta = Sent(r) /\ t.a.requestInfos = adapter[r].requestInfos
         /\ t.a.discards = adapter[r].discards /\ t.a.held = <<>> /\ t.a.emitted
         /\ \/ t.a.responseInfos = adapter[r].responseInfos
            \/ adapter[r].responseInfos # <<>> /\ t.a.responseInfos = Tail(adapter[r].responseInfos)
         /\ t.a.heldResponses # <<>> => t.a.heldResponses = <<Hops(r)>> /\ Responded(r)
         /\ \E z \in ViewSet :
              /\ Handler(c, t, z) /\ z.hop = Sent(r) /\ ~z.over /\ z.hops = Hops(r)
              /\ z.infos = View[r].infos
              /\ z.open <=> ~Responded(r) \/ t.a.heldResponses # <<>>
<1> DEFINE v == View[r]
           H == Hops(r)
           y == [hop |-> Sent(r), open |-> TRUE, over |-> FALSE, infos |-> v.infos, hops |-> H]
           q == Start(r)
<1>1. /\ H \in Nat \ {0} /\ Held(r) /\ Sent(r) \in 0 .. H /\ Responded(r) \in BOOLEAN
      /\ adapter[r] \in AdapterSet /\ (Responded(r) => Sent(r) = H) /\ Over(r) \in BOOLEAN
  BY Progress
<1>2. /\ v \in ViewSet /\ v.hops = H /\ v.hop = HopTold(r) /\ ~v.open /\ v.over = Over(r)
      /\ v.infos = {g \in 1 .. H : InfoHeard(r, g)}
  BY Viewed
<1>3. q.a = adapter[r]
  BY DEF Start
<1>4. /\ ~Over(r) /\ adapter[r].heldResponses = <<>> /\ adapter[r].meta = Sent(r)
      /\ adapter[r].held = <<[hop |-> Sent(r), answers |-> IF Responded(r) THEN <<H>> ELSE <<>>]>>
  BY <1>1 DEF Held
<1>5. /\ y \in ViewSet /\ y.hop = Sent(r) /\ y.open /\ ~y.over /\ y.infos = v.infos
      /\ y.hops = H
  BY <1>1, <1>2 DEF ViewSet
<1> HIDE DEF y, v, q
<1>6. Releasable(c, q, v, y, Announced(y.hop))
  <2>1. Responded(r) => InfosFit(c, q, H)
    BY <1>1, <1>4, InfosFitLast DEF q
  <2>2. Announced(y.hop) \in HeaderSet /\ Announced(y.hop) = Announced(Sent(r))
    BY <1>1, <1>5, HeaderTypes
  <2> QED
    BY <1>2, <1>3, <1>4, <1>5, <2>1, <2>2, HeldGoesOut
<1>7. RequestOut(c, q, t, y)
  <2>1. Handler(c, q, v) /\ t = FlushRequest(c.id, q) /\ q.a.held # <<>>
    BY <1>3 DEF v, q
  <2> QED
    BY <1>6, <2>1, RequestFlushed
<1>8. /\ t.a.meta = Sent(r) /\ t.a.requestInfos = adapter[r].requestInfos
      /\ t.a.discards = adapter[r].discards /\ t.a.held = <<>> /\ t.a.emitted
      /\ \/ t.a.responseInfos = adapter[r].responseInfos
         \/ adapter[r].responseInfos # <<>> /\ t.a.responseInfos = Tail(adapter[r].responseInfos)
  BY <1>3, <1>4, <1>7 DEF RequestOut, SameRequest
<1>9. /\ t.a.heldResponses # <<>> => t.a.heldResponses = <<H>> /\ Responded(r)
      /\ \E z \in ViewSet :
           /\ Handler(c, t, z) /\ z.hop = Sent(r) /\ ~z.over /\ z.hops = H
           /\ z.infos = v.infos
           /\ z.open <=> ~Responded(r) \/ t.a.heldResponses # <<>>
  <2>1. CASE ~Responded(r)
    <3>1. q.a.held = <<[hop |-> Sent(r), answers |-> <<>>]>>
      BY <1>3, <1>4, <2>1
    <3>2. Head(q.a.held).answers = <<>>
      BY <3>1
    <3>3. t.a.heldResponses = <<>> /\ Handler(c, t, y)
      BY <1>3, <1>4, <1>7, <3>2 DEF RequestOut
    <3> QED
      BY <1>5, <2>1, <3>3
  <2>2. CASE Responded(r)
    <3>1. q.a.held = <<[hop |-> Sent(r), answers |-> <<H>>]>>
      BY <1>3, <1>4, <2>2
    <3>2. Head(q.a.held).answers = <<H>> /\ <<H>> # <<>>
      BY <3>1
    <3> DEFINE z == [y EXCEPT !.open = FALSE]
    <3>3. /\ z \in ViewSet /\ z.hop = Sent(r) /\ ~z.open /\ ~z.over /\ z.infos = y.infos
          /\ z.hops = H
      BY <1>5 DEF ViewSet
    <3>4. CASE t.a.heldResponses = <<>> /\ Handler(c, t, z)
      <4> HIDE DEF z
      <4> QED
        BY <1>5, <2>2, <3>3, <3>4
    <3>5. CASE t.a.heldResponses = <<y.hop>> /\ Handler(c, t, y)
      BY <1>1, <1>5, <2>2, <3>5
    <3> QED
      BY <1>7, <3>2, <3>4, <3>5 DEF RequestOut
  <2> QED
    BY <1>1, <2>1, <2>2
<1> QED
  BY <1>8, <1>9 DEF v

\* The timer of a request event tells of it with the headers announced.
LEMMA RequestTimerHandled ==
  ASSUME NetworkInv, NEW r \in Requests, GiveUpOnRequestInfo(r)
  PROVE  NetworkInv'
<1> DEFINE t == AfterRequestTimer(r)
           c == Here(r, oddities', {})
           H == Hops(r)
           a == adapter[r]
<1>0. AdapterInv
  BY DEF NetworkInv
<1>1. /\ Step(r, t, oddities) /\ told' = told /\ a.held # <<>>
      /\ H' = H /\ Sent(r)' = Sent(r) /\ Responded(r)' = Responded(r) /\ Over(r)' = Over(r)
      /\ oddities'["overtaken"] = oddities["overtaken"]
      /\ oddities'["misdirected"] = oddities["misdirected"]
      /\ \A h : InfoHeard(r, h)' <=> InfoHeard(r, h)
      /\ ResponsesHeard(r)' = ResponsesHeard(r)
  BY TimerSteps
<1>2. /\ Context(c) /\ Handler(c, Start(r), View[r]) /\ adapter'[r] = t.a
      /\ GoesOn(oddities, oddities')
  BY <1>1, StepStarts
<1>3. /\ Held(r) /\ RequestInfosKept(r) /\ Responded(r) \in BOOLEAN /\ Over(r) \in BOOLEAN
  BY <1>0, Progress
<1>4. c.id = r /\ c.oddities = oddities'
  BY DEF Here
<1>5. t = FlushRequest(r, Start(r))
  BY DEF AfterRequestTimer
<1> HIDE DEF c, t
<1>6. ~Over(r) /\ told[r] # 0
  BY <1>1, <1>3 DEF Held
<1>7. /\ t.a.meta = Sent(r) /\ t.a.requestInfos = a.requestInfos
      /\ t.a.discards = a.discards /\ t.a.held = <<>> /\ t.a.emitted
      /\ \/ t.a.responseInfos = a.responseInfos
         \/ a.responseInfos # <<>> /\ t.a.responseInfos = Tail(a.responseInfos)
      /\ t.a.heldResponses # <<>> => t.a.heldResponses = <<H>> /\ Responded(r)
      /\ \E z \in ViewSet :
           /\ Handler(c, t, z) /\ z.hop = Sent(r) /\ ~z.over /\ z.hops = H
           /\ z.infos = View[r].infos
           /\ z.open <=> ~Responded(r) \/ t.a.heldResponses # <<>>
  BY <1>0, <1>1, <1>2, <1>4, <1>5, HeldFlushed
<1>8. PICK z \in ViewSet :
           /\ Handler(c, t, z) /\ z.hop = Sent(r) /\ ~z.over /\ z.hops = H
           /\ z.infos = View[r].infos
           /\ z.open <=> ~Responded(r) \/ t.a.heldResponses # <<>>
  BY <1>7
<1>9. HopTold(r)' = Sent(r)
  BY <1>1, <1>2, <1>7 DEF HopTold
<1>10. View'[r] = z
  <2>1. View[r].hops = H
    BY <1>0, Viewed
  <2>2. z.hop = HopTold(r)' /\ z.over = Over(r)' /\ z.hops = View[r].hops
    BY <1>1, <1>3, <1>6, <1>8, <1>9, <2>1 DEF ViewSet
  <2>3. z.open <=> /\ adapter'[r].held = <<>>
                   /\ ~Responded(r)' \/ adapter'[r].heldResponses # <<>>
    BY <1>1, <1>2, <1>7, <1>8
  <2> QED
    BY <1>0, <1>1, <1>8, <2>2, <2>3, ViewAfter
<1>11. Held(r)'
  <2>1. Sent(r) # 0
    BY <1>0, <1>6, Progress
  <2> QED
    BY <1>1, <1>2, <1>6, <1>7, <1>9, <2>1 DEF Held
<1>12. RequestInfosKept(r)'
  <2>1. \A k \in DOMAIN t.a.forResponse : t.a.forResponse[k].wire /\ t.a.forResponse[k].hop \in 1 .. H
    BY <1>8 DEF Handler
  <2> QED
    BY <1>1, <1>2, <1>3, <1>7, <2>1 DEF RequestInfosKept
<1>13. ResponseInfosKept(r)'
  BY <1>0, <1>1, <1>2, <1>6, <1>7, InfosRemain
<1>14. Handler(Here(r, oddities', {}), t, View'[r])
  BY <1>8, <1>10 DEF c
<1> QED
  BY <1>1, <1>11, <1>12, <1>13, <1>14, HandledKeeps DEF t

\* The timer of a response tells of it likewise.
LEMMA ResponseTimerHandled ==
  ASSUME NetworkInv, NEW r \in Requests, GiveUpOnResponseInfo(r)
  PROVE  NetworkInv'
<1> DEFINE t == AfterResponseTimer(r)
           c == Here(r, oddities', {})
           H == Hops(r)
           a == adapter[r]
           v == View[r]
<1>0. AdapterInv
  BY DEF NetworkInv
<1>1. /\ Step(r, t, oddities) /\ told' = told /\ a.heldResponses # <<>>
      /\ H' = H /\ Sent(r)' = Sent(r) /\ Responded(r)' = Responded(r) /\ Over(r)' = Over(r)
      /\ oddities'["overtaken"] = oddities["overtaken"]
      /\ oddities'["misdirected"] = oddities["misdirected"]
      /\ \A h : InfoHeard(r, h)' <=> InfoHeard(r, h)
      /\ ResponsesHeard(r)' = ResponsesHeard(r)
  BY TimerSteps
<1>2. /\ Context(c) /\ Handler(c, Start(r), v) /\ adapter'[r] = t.a
      /\ GoesOn(oddities, oddities')
  BY <1>1, StepStarts
<1>3. /\ Held(r) /\ RequestInfosKept(r) /\ Responded(r) \in BOOLEAN /\ Over(r) \in BOOLEAN
      /\ Sent(r) \in 0 .. H /\ H \in Nat \ {0} /\ (Responded(r) => Sent(r) = H)
  BY <1>0, Progress
<1>4. c.id = r /\ c.oddities = oddities' /\ Start(r).a = a
  BY DEF Here, Start
<1>5. t = FlushResponses(r, Start(r))
  BY DEF AfterResponseTimer
<1>6. /\ a.held = <<>> /\ a.heldResponses = <<H>> /\ Responded(r) /\ Sent(r) = H
      /\ Over(r) => r \in oddities["overtaken"]
  BY <1>1, <1>3 DEF Held
<1>7. /\ v \in ViewSet /\ v.hops = H /\ v.over = Over(r) /\ v.open /\ v.hop = H /\ HopTold(r) = H
  <2>1. HopTold(r) = H
    BY <1>6 DEF HopTold
  <2> QED
    BY <1>0, <1>6, <2>1, Viewed
<1> HIDE DEF c, t, v
<1>8. ResponsesOut(c, Start(r), t, v)
  <2>1. Start(r).a.heldResponses = <<v.hop>> /\ Answerable(c, v)
    BY <1>1, <1>3, <1>4, <1>6, <1>7 DEF Answerable, Overtaken
  <2>2. InfosFit(c, Start(r), v.hop)
    BY <1>0, <1>2, <1>3, <1>4, <1>6, <1>7, InfosFitLast
  <2> QED
    BY <1>2, <1>4, <1>5, <2>1, <2>2, ResponsesFlushed
<1> DEFINE w == [v EXCEPT !.open = FALSE]
<1>9. /\ w \in ViewSet /\ w.hop = v.hop /\ w.hops = v.hops /\ w.infos = v.infos /\ w.over = v.over
      /\ ~w.open
  BY <1>7 DEF ViewSet
<1> HIDE DEF w
<1>10. /\ t.a.meta = a.meta /\ t.a.requestInfos = a.requestInfos /\ t.a.discards = a.discards
       /\ t.a.held = <<>> /\ t.a.emitted = a.emitted /\ t.a.heldResponses = <<>>
       /\ t.a.responseInfos = <<>> \/ t.a.responseInfos = Shift(a.responseInfos)
       /\ Handler(c, t, w)
  BY <1>4, <1>6, <1>8 DEF ResponsesOut, SameRequest, w
<1>11. HopTold(r)' = H
  BY <1>1, <1>2, <1>6, <1>10 DEF HopTold
<1>12. View'[r] = w
  <2>1. View[r].hops = w.hops /\ w.infos = View[r].infos /\ w.hop = HopTold(r)' /\ w.over = Over(r)'
    BY <1>1, <1>7, <1>9, <1>11 DEF v
  <2>2. w.open <=> /\ adapter'[r].held = <<>>
                   /\ ~Responded(r)' \/ adapter'[r].heldResponses # <<>>
    BY <1>1, <1>2, <1>6, <1>9, <1>10
  <2> QED
    BY <1>0, <1>1, <1>9, <2>1, <2>2, ViewAfter
<1>13. Held(r)'
  BY <1>1, <1>2, <1>3, <1>7, <1>10, <1>11 DEF Held
<1>14. RequestInfosKept(r)'
  <2>1. \A k \in DOMAIN t.a.forResponse : t.a.forResponse[k].wire /\ t.a.forResponse[k].hop \in 1 .. H
    BY <1>7, <1>9, <1>10 DEF Handler
  <2> QED
    BY <1>1, <1>2, <1>3, <1>10, <2>1 DEF RequestInfosKept
<1>15. ResponseInfosKept(r)'
  <2>1. Over(r) => ResponseInfosKept(r)'
    BY <1>1 DEF ResponseInfosKept
  <2>2. \/ t.a.responseInfos = <<>>
        \/ a.responseInfos # <<>> /\ t.a.responseInfos = Tail(a.responseInfos)
    BY <1>10 DEF Shift
  <2>3. ~Over(r) => ResponseInfosKept(r)'
    BY <1>0, <1>1, <1>2, <1>10, <2>2, InfosRemain
  <2> QED
    BY <2>1, <2>3
<1>16. Handler(Here(r, oddities', {}), t, View'[r])
  BY <1>10, <1>12 DEF c
<1> QED
  BY <1>1, <1>13, <1>14, <1>15, <1>16, HandledKeeps DEF t

-----------------------------------------------------------------------------
(* A navigation is committed.                                              *)

\* A commit gives up on navigations that are not answered.
LEMMA CommitHandled ==
  ASSUME NetworkInv, NEW r \in Requests, Commit(r)
  PROVE  NetworkInv'
<1>0. AdapterInv /\ PageInv(page, View, oddities)
  BY DEF NetworkInv
<1>1. /\ story' = story /\ told' = told /\ heard' = heard /\ attached' = attached
      /\ adapter' = adapter /\ page' = ResolveDangling(page)
      /\ oddities' = [oddities EXCEPT !["abandoned"] = @ \cup Unanswered]
  BY DEF Commit, netVars
<1>2. oddities = [x \in Oddities |-> oddities[x]]
      /\ Oddities = {"overtaken", "misdirected", "crossed", "abandoned"}
  BY <1>0 DEF AdapterInv, Oddities
<1>3. /\ oddities' = [x \in Oddities |-> oddities'[x]]
      /\ oddities'["abandoned"] = oddities["abandoned"] \cup Unanswered
      /\ \A x \in Oddities : x # "abandoned" => oddities'[x] = oddities[x]
  BY <1>1, <1>2
<1>4. GoesOn(oddities, oddities') /\ oddities'["overtaken"] = oddities["overtaken"]
      /\ oddities'["misdirected"] = oddities["misdirected"]
  BY <1>2, <1>3 DEF GoesOn
<1>5. Hops(r)' = Hops(r) /\ Sent(r)' = Sent(r) /\ Responded(r)' = Responded(r) /\ Over(r)' = Over(r)
  BY <1>1, NothingMain
<1>6. /\ Held(r) /\ RequestInfosKept(r) /\ ResponseInfosKept(r)
  BY <1>0, Progress
<1>7. HopTold(r)' = HopTold(r)
  BY <1>1, <1>5 DEF HopTold
<1>8. \A h : InfoHeard(r, h)' <=> InfoHeard(r, h)
  BY <1>1 DEF InfoHeard
<1>9. ResponsesHeard(r)' = ResponsesHeard(r) /\ Redirects(r)' = Redirects(r)
  BY <1>1, <1>5 DEF ResponsesHeard, Redirects
<1>10. Kept(r)
  <2>1. Held(r)'
    BY <1>1, <1>4, <1>5, <1>6, <1>7 DEF Held
  <2>2. RequestInfosKept(r)'
    BY <1>1, <1>4, <1>5, <1>6, <1>8 DEF RequestInfosKept
  <2>3. ResponseInfosKept(r)'
    BY <1>1, <1>5, <1>6, <1>9 DEF ResponseInfosKept
  <2>4. /\ told'[r] <= Len(MainEvents(r)) /\ heard'[r] \subseteq ExtraInfos(r)
        /\ \A e \in heard'[r] : \A f \in ExtraInfos(r) \ heard'[r] : Before(e, f)
    BY <1>0, <1>1 DEF AdapterInv
  <2> QED
    BY <1>5, <2>1, <2>2, <2>3, <2>4 DEF Kept
<1>11. Alone(r)
  BY <1>0, <1>1 DEF Alone, AdapterInv
<1>12. ViewOK(View, oddities) /\ ViewOK(View, oddities')
  BY <1>0, <1>4, Viewed DEF ViewOK, GoesOn
<1>13. PageInv(page, View, oddities')
  BY <1>0, <1>4, <1>12, ViewWeaker DEF GoesOn
<1>14. \A n \in Navigations :
         View[n].hop # 0 /\ View[n].open => n \in oddities'["abandoned"] \/ n \in oddities'["overtaken"]
  <2> SUFFICES ASSUME NEW n \in Navigations, View[n].hop # 0, View[n].open
               PROVE  n \in oddities'["abandoned"]
    OBVIOUS
  <2>1. n \in Requests
    BY NavigationsAssumption
  <2>2. Current(page, View, oddities)
    BY <1>0 DEF PageInv
  <2>3. page.byId[n] # 0 /\ page.requests[page.byId[n]].response = 0
    <3> DEFINE v == View
    <3>1. v[n].hop # 0 /\ v[n].open /\ Current(page, v, oddities)
      BY <2>2
    <3> HIDE DEF v
    <3> QED
      BY <2>1, <3>1 DEF Current
  <2> QED
    BY <1>3, <2>3 DEF Unanswered
<1>15. PageInv(page', View, oddities')
  BY <1>1, <1>12, <1>13, <1>14, ResolveKeeps
<1>16. [View EXCEPT ![r] = View'[r]] = View
  <2>1. View' = View
    <3>1. \A s \in Requests : /\ HopTold(s)' = HopTold(s) /\ Responded(s)' = Responded(s)
                              /\ Over(s)' = Over(s) /\ Hops(s)' = Hops(s)
                              /\ {h \in 1 .. Hops(s)' : InfoHeard(s, h)'} = {h \in 1 .. Hops(s) : InfoHeard(s, h)}
      <4> TAKE s \in Requests
      <4>1. Hops(s)' = Hops(s) /\ Sent(s)' = Sent(s) /\ Responded(s)' = Responded(s) /\ Over(s)' = Over(s)
        BY <1>1, NothingMain
      <4>2. HopTold(s)' = HopTold(s)
        BY <1>1, <4>1 DEF HopTold
      <4>3. \A h : InfoHeard(s, h)' <=> InfoHeard(s, h)
        BY <1>1 DEF InfoHeard
      <4> QED
        BY <4>1, <4>2, <4>3
    <3> QED
      BY <1>1, <3>1 DEF View
  <2>2. View = [s \in Requests |-> View[s]]
    BY DEF View
  <2> DEFINE v == View
  <2>3. v = [s \in Requests |-> v[s]] /\ View'[r] = v[r]
    BY <2>1, <2>2
  <2> HIDE DEF v
  <2>4. [v EXCEPT ![r] = View'[r]] = v
    BY <2>3
  <2> QED
    BY <2>4 DEF v
<1>17. PageInv(page', [View EXCEPT ![r] = View'[r]], oddities')
  BY <1>15, <1>16
<1> QED
  BY <1>4, <1>10, <1>11, <1>17, StepKeeps DEF NetworkInv

-----------------------------------------------------------------------------
(* The frame is detached.                                                  *)

\* What the end of a frame does to the requests of it.
LEMMA DetachSteps ==
  ASSUME AdapterInv, DetachFrame
  PROVE  /\ story' = story /\ told' = told /\ heard' = heard /\ attached' \in BOOLEAN
         /\ GoesOn(oddities, oddities')
         /\ oddities'["overtaken"] = oddities["overtaken"]
         /\ oddities'["misdirected"] = oddities["misdirected"]
         /\ page' = FoldSet(LetGo, page, Detached)
         /\ Detached \subseteq Framed /\ Detached \subseteq Requests /\ IsFiniteSet(Detached)
         /\ \A r \in Requests :
              /\ Hops(r)' = Hops(r) /\ Sent(r)' = Sent(r) /\ Responded(r)' = Responded(r)
              /\ Over(r)' = Over(r)
              /\ \A h : InfoHeard(r, h)' <=> InfoHeard(r, h)
              /\ ResponsesHeard(r)' = ResponsesHeard(r)
              /\ r \in Detached =>
                   /\ CrossedBy(r, AfterDetach(r).out) \subseteq oddities'["crossed"]
                   /\ adapter'[r] = AfterDetach(r).a
              /\ r \notin Detached => adapter'[r] = adapter[r]
<1> DEFINE crossed == UNION {CrossedBy(r, AfterDetach(r).out) : r \in Detached}
<1>1. /\ story' = story /\ told' = told /\ heard' = heard /\ attached' = FALSE
      /\ adapter' = [r \in Requests |->
                       IF r \in Detached THEN AfterDetach(r).a ELSE adapter[r]]
  BY DEF DetachFrame, FrameDetached
<1>2. page' = FoldSet(LetGo, page, Detached)
  BY DEF DetachFrame
<1>3. oddities' = [oddities EXCEPT !["crossed"] = @ \cup crossed]
  BY DEF DetachFrame
<1>4. \A r \in Detached : CrossedBy(r, AfterDetach(r).out) \subseteq crossed
  OBVIOUS
<1> HIDE DEF crossed
<1>5. oddities = [x \in Oddities |-> oddities[x]]
      /\ Oddities = {"overtaken", "misdirected", "crossed", "abandoned"}
  BY DEF AdapterInv, Oddities
<1>6. /\ oddities' = [x \in Oddities |-> oddities'[x]]
      /\ oddities'["crossed"] = oddities["crossed"] \cup crossed
      /\ \A x \in Oddities : x # "crossed" => oddities'[x] = oddities[x]
  BY <1>3, <1>5
<1>7. GoesOn(oddities, oddities') /\ oddities'["overtaken"] = oddities["overtaken"]
      /\ oddities'["misdirected"] = oddities["misdirected"]
  BY <1>5, <1>6 DEF GoesOn
<1>8. Detached \subseteq Framed /\ Detached \subseteq Requests /\ IsFiniteSet(Detached)
  <2>1. Detached \subseteq Framed /\ Detached \subseteq Requests
    BY RequestsAssumption DEF Detached
  <2> QED
    BY <2>1, RequestsAssumption, FS_Subset
<1>9. ASSUME NEW r \in Requests
      PROVE  /\ Hops(r)' = Hops(r) /\ Sent(r)' = Sent(r) /\ Responded(r)' = Responded(r)
             /\ Over(r)' = Over(r)
             /\ \A h : InfoHeard(r, h)' <=> InfoHeard(r, h)
             /\ ResponsesHeard(r)' = ResponsesHeard(r)
  <2>1. Hops(r)' = Hops(r) /\ Sent(r)' = Sent(r) /\ Responded(r)' = Responded(r) /\ Over(r)' = Over(r)
    BY <1>1, NothingMain
  <2>2. \A h : InfoHeard(r, h)' <=> InfoHeard(r, h)
    BY <1>1 DEF InfoHeard
  <2>3. ResponsesHeard(r)' = ResponsesHeard(r)
    BY <1>1, <2>1 DEF ResponsesHeard
  <2> QED
    BY <2>1, <2>2, <2>3
<1>10. ASSUME NEW r \in Requests
       PROVE  /\ r \in Detached =>
                   /\ CrossedBy(r, AfterDetach(r).out) \subseteq oddities'["crossed"]
                   /\ adapter'[r] = AfterDetach(r).a
              /\ r \notin Detached => adapter'[r] = adapter[r]
  BY <1>1, <1>4, <1>6
<1> QED
  BY <1>1, <1>2, <1>7, <1>8, <1>9, <1>10

\* A sequence of two.
LEMMA AppendToOne ==
  ASSUME NEW e, NEW f
  PROVE  /\ DOMAIN Append(<<e>>, f) = {1, 2}
         /\ Append(<<e>>, f)[1] = e /\ Append(<<e>>, f)[2] = f
<1> DEFINE s == <<e>>
           S == {e, f}
<1>1. s \in Seq(S) /\ Len(s) = 1 /\ s[1] = e /\ f \in S
  OBVIOUS
<1> HIDE DEF s, S
<1>2. /\ DOMAIN Append(s, f) = 1 .. Len(s) + 1
      /\ Append(s, f)[Len(s) + 1] = f
      /\ \A i \in 1 .. Len(s) : Append(s, f)[i] = s[i]
  BY <1>1
<1>3. DOMAIN Append(s, f) = {1, 2} /\ Append(s, f)[2] = f /\ Append(s, f)[1] = e
  BY <1>1, <1>2
<1> QED
  BY <1>3 DEF s

\* emitResponseReceived emits one event, a response.
LEMMA ResponseEvent ==
  ASSUME NEW r, NEW s, s = [a |-> s.a, out |-> s.out], NEW h, NEW headers,
         NEW t, t = EmitResponse(r, s, h, headers)
  PROVE  \E f : t.out = Append(s.out, f) /\ f.hop = h /\ f.kind = "response"
<1> DEFINE requestHeaders == IF s.a.forResponse = <<>> THEN NoHeaders ELSE Head(s.a.forResponse)
           f == RawEvent("response", r, h, headers, requestHeaders)
           F == Shift(s.a.forResponse)
           n == [s EXCEPT !.a.forResponse = Shift(@)]
<1>1. n = [s EXCEPT !.a.forResponse = F]
  OBVIOUS
<1> HIDE DEF F, n
<1>2. n = [a |-> [s.a EXCEPT !.forResponse = F], out |-> s.out]
  BY <1>1
<1>3. t = Emit(n, f)
  BY DEF EmitResponse, n
<1>4. f.hop = h /\ f.kind = "response"
  BY DEF RawEvent
<1> HIDE DEF f
<1>5. t.out = Append(s.out, f)
  BY <1>2, <1>3 DEF Emit
<1> QED
  BY <1>4, <1>5

\* handleNetworkResponseReceived emits one or none.
LEMMA ResponseEvents ==
  ASSUME NEW r, NEW s, s = [a |-> s.a, out |-> s.out], NEW h, NEW t, t = HandleResponse(r, s, h)
  PROVE  t.out = s.out \/ \E f : t.out = Append(s.out, f) /\ f.hop = h /\ f.kind = "response"
<1>1. CASE t = EmitResponse(r, s, h, Announced(h))
  <2> DEFINE headers == Announced(h)
  <2>1. t = EmitResponse(r, s, h, headers)
    BY <1>1
  <2> HIDE DEF headers
  <2>2. \E f : t.out = Append(s.out, f) /\ f.hop = h /\ f.kind = "response"
    BY <2>1, ResponseEvent
  <2> QED
    BY <2>2
<1>2. CASE t = [s EXCEPT !.a.heldResponses = Append(@, h)]
  <2> DEFINE q == Append(s.a.heldResponses, h)
  <2>1. t = [s EXCEPT !.a.heldResponses = q]
    BY <1>2
  <2> HIDE DEF q
  <2>2. t.out = s.out
    BY <2>1
  <2> QED
    BY <2>2
<1>3. CASE t = EmitResponse(r, [s EXCEPT !.a.responseInfos = Tail(@)], h, Head(s.a.responseInfos))
  <2> DEFINE q == Tail(s.a.responseInfos)
             n == [s EXCEPT !.a.responseInfos = Tail(@)]
  <2>1. n = [s EXCEPT !.a.responseInfos = q]
    OBVIOUS
  <2> HIDE DEF q, n
  <2>2. n = [a |-> [s.a EXCEPT !.responseInfos = q], out |-> s.out]
    BY <2>1
  <2>3. n = [a |-> n.a, out |-> n.out] /\ n.out = s.out
    BY <2>2
  <2>4. t = EmitResponse(r, n, h, Head(s.a.responseInfos))
    BY <1>3 DEF n
  <2> QED
    BY <2>3, <2>4, ResponseEvent
<1> QED
  BY <1>1, <1>2, <1>3 DEF HandleResponse

\* The events that let a held request event go are of no redirect.
LEMMA FlushTells ==
  ASSUME AdapterInv, NEW r \in Requests, NEW t, t = FlushRequest(r, Start(r))
  PROVE  \A e \in ToSet(t.out) :
           /\ e.kind = "response" => e.hop = Hops(r)
           /\ e.kind = "request" => e.hop = Sent(r)
<1> DEFINE a == adapter[r]
           H == Hops(r)
<1>1. /\ Held(r) /\ a \in AdapterSet
  BY Progress
<1>2. CASE a.held = <<>>
  <2>1. t.out = <<>>
    BY <1>2 DEF FlushRequest, Start
  <2>2. ToSet(t.out) = {}
    BY <2>1 DEF ToSet
  <2> QED
    BY <2>2
<1>3. CASE a.held # <<>>
  <2> DEFINE next == Head(a.held)
             e == RawEvent("request", r, next.hop, Announced(next.hop), NoHeaders)
             b == [a EXCEPT !.held = Tail(@), !.emitted = TRUE]
             m == [a |-> b, out |-> <<e>>]
  <2>1. a.held = <<[hop |-> Sent(r), answers |-> IF Responded(r) THEN <<H>> ELSE <<>>]>>
    BY <1>1, <1>3 DEF Held
  <2>2. next.answers = IF Responded(r) THEN <<H>> ELSE <<>>
    BY <2>1
  <2>3. t = HandleResponses(r, m, next.answers)
    <3> DEFINE s == Start(r)
    <3>1. s = [a |-> a, out |-> <<>>]
      BY DEF Start
    <3> HIDE DEF s
    <3>2. t = Release(r, s, Announced(next.hop))
      BY <1>3, <3>1 DEF FlushRequest, s
    <3>3. Emit([s EXCEPT !.a.held = Tail(@), !.a.emitted = TRUE], e) = m
      <4> HIDE DEF e
      <4>1. Append(<<>>, e) = <<e>>
        OBVIOUS
      <4> DEFINE n == [s EXCEPT !.a.held = Tail(@), !.a.emitted = TRUE]
                 T == Tail(a.held)
                 n1 == [s EXCEPT !.a.held = T]
      <4>2. n = [n1 EXCEPT !.a.emitted = TRUE]
        BY <3>1
      <4>3. b = [[a EXCEPT !.held = T] EXCEPT !.emitted = TRUE]
        OBVIOUS
      <4> HIDE DEF T
      <4>4. n1 = [a |-> [a EXCEPT !.held = T], out |-> <<>>]
        BY <3>1
      <4> HIDE DEF n1, n, b
      <4>5. n = [a |-> b, out |-> <<>>]
        BY <4>2, <4>3, <4>4
      <4>6. Emit(n, e) = m
        BY <4>1, <4>5 DEF Emit
      <4> QED
        BY <4>6 DEF n
    <3> QED
      BY <3>1, <3>2, <3>3 DEF Release
  <2>4. e.kind = "request" /\ m.out = <<e>> /\ e.hop = Sent(r)
    <3>1. next.hop = Sent(r)
      BY <2>1
    <3> QED
      BY <3>1 DEF RawEvent
  <2>5. ToSet(<<e>>) = {e}
    <3> HIDE DEF e
    <3>1. DOMAIN <<e>> = {1} /\ <<e>>[1] = e
      OBVIOUS
    <3> QED
      BY <3>1 DEF ToSet
  <2> HIDE DEF e, m, b, next
  <2>6. CASE ~Responded(r)
    <3>1. t = m
      BY <2>2, <2>3, <2>6, NothingHandled
    <3> QED
      BY <2>4, <2>5, <3>1
  <2>7. CASE Responded(r)
    <3>1. t = HandleResponse(r, m, H)
      BY <2>2, <2>3, <2>7, OneHandled
    <3>2. m = [a |-> m.a, out |-> m.out]
      BY DEF m
    <3>3. t.out = m.out \/ \E f : t.out = Append(m.out, f) /\ f.hop = H /\ f.kind = "response"
      BY <3>1, <3>2, ResponseEvents
    <3>4. CASE t.out = m.out
      BY <2>4, <2>5, <3>4
    <3>5. CASE \E f : t.out = Append(m.out, f) /\ f.hop = H /\ f.kind = "response"
      <4>1. PICK f : t.out = Append(m.out, f) /\ f.hop = H /\ f.kind = "response"
        BY <3>5
      <4>2. /\ DOMAIN Append(<<e>>, f) = {1, 2}
            /\ Append(<<e>>, f)[1] = e /\ Append(<<e>>, f)[2] = f
        BY AppendToOne
      <4>3. \A g \in ToSet(t.out) : g = e \/ g = f
        BY <2>4, <4>1, <4>2 DEF ToSet
      <4> QED
        BY <2>4, <4>1, <4>3
    <3> QED
      BY <3>3, <3>4, <3>5
  <2>8. Responded(r) \in BOOLEAN
    BY Progress
  <2> QED
    BY <2>6, <2>7, <2>8
<1> QED
  BY <1>2, <1>3

-----------------------------------------------------------------------------
(* What the frame being detached lets go.                                  *)

\* The page comes to know of a detached request what its view says then,
\* whatever the page knows of the others.
LEMMA LetGoTold ==
  ASSUME AdapterInv, DetachFrame, NEW r \in Detached, NEW c, c.id = r, Context(c),
         GoesOn(oddities, c.oddities), Handler(c, Start(r), View[r])
  PROVE  /\ Handler(c, AfterDetach(r), View'[r])
         /\ Held(r)' /\ RequestInfosKept(r)' /\ ResponseInfosKept(r)'
         /\ adapter'[r] \in AdapterSet
         /\ \A e \in ToSet(AfterDetach(r).out) :
              /\ e.kind = "response" => e.hop = Hops(r)
              /\ e.kind = "request" => e.hop = Sent(r)
<1> DEFINE t == FlushRequest(r, Start(r))
           d == AfterDetach(r)
           b == [t.a EXCEPT !.meta = 0]
           a == adapter[r]
           H == Hops(r)
<1>1. /\ r \in Requests /\ GoesOn(oddities, oddities')
      /\ oddities'["overtaken"] = oddities["overtaken"]
      /\ oddities'["misdirected"] = oddities["misdirected"]
      /\ story' = story /\ told' = told
  BY DetachSteps
<1>2. /\ Hops(r)' = H /\ Sent(r)' = Sent(r) /\ Responded(r)' = Responded(r)
      /\ Over(r)' = Over(r)
      /\ \A h : InfoHeard(r, h)' <=> InfoHeard(r, h)
      /\ ResponsesHeard(r)' = ResponsesHeard(r)
      /\ adapter'[r] = d.a
  BY <1>1, DetachSteps
<1>3. /\ Held(r) /\ RequestInfosKept(r) /\ ResponseInfosKept(r) /\ a \in AdapterSet
      /\ Over(r) \in BOOLEAN /\ Responded(r) \in BOOLEAN /\ H \in Nat \ {0}
      /\ Sent(r) \in 0 .. H /\ (Sent(r) = 0 <=> told[r] = 0) /\ told[r] \in Nat
  BY <1>1, Progress
<1>4. a.meta # 0
  BY DEF Detached
<1>5. ~Over(r) /\ told[r] # 0 /\ a.meta = Sent(r) /\ Sent(r) # 0
  BY <1>3, <1>4 DEF Held
<1>6. /\ t.a.requestInfos = a.requestInfos
      /\ t.a.discards = a.discards /\ t.a.held = <<>>
      /\ (t.a.emitted <=> Sent(r) # 0)
      /\ \/ t.a.responseInfos = a.responseInfos
         \/ a.responseInfos # <<>> /\ t.a.responseInfos = Tail(a.responseInfos)
      /\ t.a.heldResponses # <<>> => t.a.heldResponses = <<H>> /\ Responded(r)
      /\ \E z \in ViewSet :
           /\ Handler(c, t, z) /\ z.hop = Sent(r) /\ ~z.over /\ z.hops = H
           /\ z.infos = View[r].infos
           /\ z.open <=> ~Responded(r) \/ t.a.heldResponses # <<>>
  <2>1. CASE a.held # <<>>
    BY <1>1, <1>5, <2>1, HeldFlushed
  <2>2. CASE a.held = <<>>
    <3>1. t = Start(r) /\ t.a = a
      BY <2>2 DEF FlushRequest, Start
    <3>2. HopTold(r) = Sent(r)
      BY <2>2 DEF HopTold
    <3>3. /\ View[r] \in ViewSet /\ View[r].hops = H /\ View[r].hop = Sent(r)
          /\ View[r].open <=> ~Responded(r) \/ a.heldResponses # <<>>
          /\ ~View[r].over
      BY <1>1, <1>5, <2>2, <3>2, Viewed
    <3>4. (a.emitted <=> Sent(r) # 0) /\ (a.heldResponses # <<>> => a.heldResponses = <<H>> /\ Responded(r))
      BY <1>3, <1>5, <3>2 DEF Held
    <3> DEFINE z == View[r]
    <3>5. /\ z \in ViewSet
          /\ Handler(c, t, z) /\ z.hop = Sent(r) /\ ~z.over /\ z.hops = H
          /\ z.infos = View[r].infos
          /\ z.open <=> ~Responded(r) \/ t.a.heldResponses # <<>>
      BY <3>1, <3>3
    <3> HIDE DEF z, t
    <3> QED
      BY <2>2, <3>1, <3>4, <3>5
  <2> QED
    BY <2>1, <2>2
<1>7. PICK z \in ViewSet :
           /\ Handler(c, t, z) /\ z.hop = Sent(r) /\ ~z.over /\ z.hops = H
           /\ z.infos = View[r].infos
           /\ z.open <=> ~Responded(r) \/ t.a.heldResponses # <<>>
  BY <1>6
<1>8. d = [t EXCEPT !.a.meta = 0]
  BY DEF AfterDetach
<1>e. \A e \in ToSet(t.out) :
       /\ e.kind = "response" => e.hop = H
       /\ e.kind = "request" => e.hop = Sent(r)
  <2>1. t = FlushRequest(r, Start(r))
    OBVIOUS
  <2> HIDE DEF t
  <2> QED
    BY <1>1, <2>1, FlushTells
<1> HIDE DEF t, d
<1>9. /\ t = [a |-> t.a, out |-> t.out] /\ t.a \in AdapterSet /\ t.out \in Seq(EventSet)
      /\ Good(c, t.out, z)
      /\ \A k \in DOMAIN t.a.forResponse :
           t.a.forResponse[k].wire /\ t.a.forResponse[k].hop \in 1 .. H
  BY <1>7, AdapterFacts DEF Handler
<1>10. d = [a |-> b, out |-> t.out]
  BY <1>8, <1>9
<1>11. /\ b \in AdapterSet /\ b.meta = 0 /\ b.requestInfos = t.a.requestInfos
       /\ b.discards = t.a.discards /\ b.held = t.a.held /\ b.emitted = t.a.emitted
       /\ b.responseInfos = t.a.responseInfos /\ b.heldResponses = t.a.heldResponses
       /\ b.forResponse = t.a.forResponse
  BY <1>9 DEF AdapterSet
<1> HIDE DEF b
<1>12. d.a = b /\ d.out = t.out
  BY <1>10
<1>13. HopTold(r)' = Sent(r)
  BY <1>2, <1>6, <1>11, <1>12 DEF HopTold
<1>14. View'[r] = z
  <2>1. View[r].hops = H
    BY <1>1, Viewed
  <2>2. z.hop = HopTold(r)' /\ z.over = Over(r)' /\ z.hops = View[r].hops
    BY <1>2, <1>3, <1>5, <1>7, <1>13, <2>1 DEF ViewSet
  <2>3. z.open <=> /\ adapter'[r].held = <<>>
                   /\ ~Responded(r)' \/ adapter'[r].heldResponses # <<>>
    BY <1>2, <1>6, <1>7, <1>11, <1>12
  <2> QED
    BY <1>1, <1>2, <1>7, <2>2, <2>3, ViewAfter
<1>15. Handler(c, d, z)
  <2>1. d \in HandlerSet
    BY <1>9, <1>10, <1>11 DEF HandlerSet
  <2>2. \A k \in DOMAIN d.a.forResponse : d.a.forResponse[k].wire /\ d.a.forResponse[k].hop \in 1 .. z.hops
    BY <1>7, <1>9, <1>11, <1>12
  <2> QED
    BY <1>9, <1>12, <2>1, <2>2 DEF Handler
<1>16. Held(r)'
  BY <1>1, <1>2, <1>5, <1>6, <1>11, <1>12, <1>13 DEF Held
<1>17. RequestInfosKept(r)'
  BY <1>1, <1>2, <1>3, <1>5, <1>6, <1>9, <1>11, <1>12 DEF RequestInfosKept
<1>18. ResponseInfosKept(r)'
  BY <1>1, <1>2, <1>5, <1>6, <1>11, <1>12, InfosRemain
<1>19. \A e \in ToSet(d.out) :
       /\ e.kind = "response" => e.hop = H
       /\ e.kind = "request" => e.hop = Sent(r)
  BY <1>e, <1>12
<1> QED
  BY <1>2, <1>11, <1>12, <1>14, <1>15, <1>16, <1>17, <1>18, <1>19 DEF d

\* Nothing becomes of a request that is not detached.
LEMMA NotLetGo ==
  ASSUME AdapterInv, DetachFrame, NEW r \in Requests \ Detached
  PROVE  /\ Held(r)' /\ RequestInfosKept(r)' /\ ResponseInfosKept(r)'
         /\ adapter'[r] \in AdapterSet /\ View'[r] = View[r]
<1>1. /\ adapter'[r] = adapter[r] /\ story' = story /\ told' = told /\ heard' = heard
      /\ oddities'["overtaken"] = oddities["overtaken"]
      /\ oddities'["misdirected"] = oddities["misdirected"]
      /\ Hops(r)' = Hops(r) /\ Sent(r)' = Sent(r) /\ Responded(r)' = Responded(r)
      /\ Over(r)' = Over(r)
      /\ \A h : InfoHeard(r, h)' <=> InfoHeard(r, h)
      /\ ResponsesHeard(r)' = ResponsesHeard(r)
  BY DetachSteps
<1>2. HopTold(r)' = HopTold(r) /\ Redirects(r)' = Redirects(r)
  BY <1>1 DEF HopTold, Redirects
<1>3. Held(r) /\ RequestInfosKept(r) /\ ResponseInfosKept(r) /\ adapter[r] \in AdapterSet
  BY Progress
<1>4. Held(r)'
  BY <1>1, <1>2, <1>3 DEF Held
<1>5. RequestInfosKept(r)'
  BY <1>1, <1>2, <1>3 DEF RequestInfosKept
<1>6. ResponseInfosKept(r)'
  BY <1>1, <1>2, <1>3 DEF ResponseInfosKept
<1>7. View'[r] = View[r]
  <2>1. /\ View[r] \in ViewSet /\ View[r].hop = HopTold(r) /\ View[r].over = Over(r)
        /\ View[r].open <=> /\ adapter[r].held = <<>>
                            /\ ~Responded(r) \/ adapter[r].heldResponses # <<>>
    BY Viewed
  <2> DEFINE y == View[r]
  <2>2. /\ y \in ViewSet /\ y.hop = HopTold(r)' /\ y.over = Over(r)'
        /\ y.hops = View[r].hops /\ y.infos = View[r].infos
        /\ y.open <=> /\ adapter'[r].held = <<>>
                      /\ ~Responded(r)' \/ adapter'[r].heldResponses # <<>>
    BY <1>1, <1>2, <2>1
  <2> HIDE DEF y
  <2>3. View'[r] = y
    BY <1>1, <2>2, ViewAfter
  <2> QED
    BY <2>3 DEF y
<1> QED
  BY <1>1, <1>3, <1>4, <1>5, <1>6, <1>7

-----------------------------------------------------------------------------
(* The page once the frame is detached.                                    *)

\* What the page knows once the requests of x have been let go.
Known1(x) == [r \in Requests |-> IF r \in x THEN View'[r] ELSE View[r]]

\* The pages that know that, where no more requests wait than before.
LetGoPages(x) ==
  {p \in PageSet :
     /\ PageInv(p, Known1(x), oddities')
     /\ \A u \in PageUrls : Waiting(p, u) \subseteq Waiting(page, u)}

\* One request more of the frame is let go, and the page is told.
LEMMA OneLetGo ==
  ASSUME NetworkInv, DetachFrame, NEW x \in SUBSET Detached, NEW r \in Detached \ x,
         NEW p \in LetGoPages(x)
  PROVE  LetGo(r, p) \in LetGoPages(x \cup {r})
<1> DEFINE v == Known1(x)
           c == [page |-> p, view |-> v, oddities |-> oddities', id |-> r, also |-> {}]
           out == AfterDetach(r).out
           y == View'[r]
<1>0. AdapterInv
  BY DEF NetworkInv
<1>1. /\ r \in Requests /\ r \in Framed /\ GoesOn(oddities, oddities')
      /\ CrossedBy(r, out) \subseteq oddities'["crossed"]
      /\ Detached \subseteq Requests
  BY <1>0, DetachSteps
<1>2. View \in [Requests -> ViewSet] /\ View[r].hops = Hops(r)
      /\ \A s \in Requests : View[s].hops = Hops(s) /\ Hops(s) <= Len(Chain[s])
  BY <1>0, <1>1, Viewed DEF ViewOK, AdapterInv
<1>3. \A s \in Detached : View'[s] \in ViewSet /\ View'[s].hops = Hops(s)
  <2> SUFFICES ASSUME NEW s \in Detached PROVE View'[s] \in ViewSet /\ View'[s].hops = Hops(s)
    OBVIOUS
  <2> DEFINE h == Here(s, oddities', {})
  <2>1. s \in Requests /\ Context(h) /\ Handler(h, Start(s), View[s]) /\ h.id = s
        /\ h.oddities = oddities' /\ h.view = View
    BY <1>1, HereGood DEF Here
  <2> HIDE DEF h
  <2>2. Handler(h, AfterDetach(s), View'[s])
    BY <1>0, <1>1, <2>1, LetGoTold
  <2> QED
    BY <1>2, <2>1, <2>2 DEF Handler, Good
<1>4. ViewOK(v, oddities') /\ v[r] = View[r]
      /\ Known1(x \cup {r}) = [v EXCEPT ![r] = y]
  <2>1. \A s \in Requests : v[s] = (IF s \in x THEN View'[s] ELSE View[s])
    BY DEF Known1
  <2>2. v = [s \in Requests |-> v[s]]
    BY DEF Known1
  <2>3. \A s \in Requests : v[s] \in ViewSet /\ v[s].hops <= Len(Chain[s])
    <3> SUFFICES ASSUME NEW s \in Requests PROVE v[s] \in ViewSet /\ v[s].hops <= Len(Chain[s])
      OBVIOUS
    <3>1. CASE s \in x
      BY <1>2, <1>3, <2>1, <3>1
    <3>2. CASE s \notin x
      BY <1>2, <2>1, <3>2
    <3> QED
      BY <3>1, <3>2
  <2> DEFINE w == Known1(x \cup {r})
  <2>4. \A s \in Requests : w[s] = (IF s \in x \cup {r} THEN View'[s] ELSE View[s])
    BY DEF Known1
  <2>5. w = [s \in Requests |-> w[s]]
    BY DEF Known1
  <2>6. v[r] = View[r] /\ w[r] = y
    BY <1>1, <2>1, <2>4
  <2>7. \A s \in Requests : s # r => w[s] = v[s]
    BY <2>1, <2>4
  <2> HIDE DEF v, w, y
  <2>8. w = [v EXCEPT ![r] = y]
    BY <1>1, <2>2, <2>5, <2>6, <2>7
  <2>9. v \in [Requests -> ViewSet]
    BY <2>2, <2>3
  <2>10. ViewOK(v, oddities')
    BY <1>1, <2>3, <2>9 DEF ViewOK, GoesOn
  <2> QED
    BY <2>6, <2>8, <2>10 DEF w
<1>5. c.page = p /\ c.view = v /\ c.oddities = oddities' /\ c.id = r /\ c.also = {}
  OBVIOUS
<1>6. PageInv(p, v, oddities') /\ \A u \in PageUrls : Waiting(p, u) \subseteq Waiting(page, u)
  BY DEF LetGoPages
<1> HIDE DEF c, v
<1>7. Context(c)
  BY <1>1, <1>2, <1>4, <1>5 DEF Context
<1>8. Good(c, <<>>, View[r])
  BY <1>4, <1>5, <1>6, <1>7, GoodStart
<1>9. Handler(c, Start(r), View[r])
  <2>1. Start(r) \in HandlerSet /\ Start(r).a = adapter[r] /\ Start(r).out = <<>>
    BY <1>0, <1>1, Progress DEF Start, HandlerSet
  <2>2. \A k \in DOMAIN adapter[r].forResponse :
          adapter[r].forResponse[k].wire /\ adapter[r].forResponse[k].hop \in 1 .. Hops(r)
    BY <1>0, <1>1, Progress DEF RequestInfosKept
  <2> QED
    BY <1>2, <1>8, <2>1, <2>2 DEF Handler
<1>10. Handler(c, AfterDetach(r), y)
       /\ \A e \in ToSet(out) :
            /\ e.kind = "response" => e.hop = Hops(r)
            /\ e.kind = "request" => e.hop = Sent(r)
  BY <1>0, <1>1, <1>5, <1>7, <1>9, LetGoTold
<1>11. Good(c, out, y)
  BY <1>10 DEF Handler
<1> HIDE DEF out, y
<1>12. \A e \in RequestsIn(out) : Fine(c, e.hop)
  <2> SUFFICES ASSUME NEW e \in RequestsIn(out) PROVE Fine(c, e.hop)
    OBVIOUS
  <2> DEFINE u == UrlOf(r, e.hop)
             others == {page.requests[i].id :
                          i \in UNION {ToSet(page.targets[UrlOf(r, f.hop)]) :
                                         f \in RequestsIn(out)}} \ {r}
  <2>1. r \notin Navigations
    BY <1>1, NavigationsAssumption
  <2>2. ASSUME NEW s \in Waiting(p, u), s # r
        PROVE  s \in oddities'["crossed"] /\ r \in oddities'["crossed"]
    <3>0. u \in PageUrls
      <4>1. e.hop \in 0 .. Len(Chain[r])
        <5>1. e.hop = Sent(r)
          BY <1>10 DEF RequestsIn
        <5>2. Sent(r) \in 0 .. Hops(r) /\ Hops(r) \in Nat /\ Hops(r) <= Len(Chain[r])
              /\ Len(Chain[r]) \in Nat
          BY <1>0, <1>1, Progress
        <5> QED
          BY <5>1, <5>2
      <4> QED
        BY <1>1, <4>1, ChainFacts
    <3>1. s \in Waiting(page, u)
      BY <1>6, <2>2, <3>0
    <3>2. PICK k \in DOMAIN page.targets[u] : s = page.requests[page.targets[u][k]].id
      BY <3>1 DEF Waiting
    <3>3. page.targets[u][k] \in ToSet(page.targets[u])
      BY DEF ToSet
    <3>4. page.targets[u][k] \in UNION {ToSet(page.targets[UrlOf(r, f.hop)]) :
                                         f \in RequestsIn(out)}
      BY <3>3
    <3>5. s \in others
      BY <2>2, <3>2, <3>4
    <3>6. CrossedBy(r, out) = IF others = {} THEN {} ELSE others \cup {r}
      BY DEF CrossedBy
    <3> HIDE DEF others
    <3> QED
      BY <1>1, <3>5, <3>6 DEF out
  <2> QED
    BY <1>5, <2>1, <2>2 DEF Fine
<1>13. PageInv(FoldLeft(Observe, p, out), [v EXCEPT ![r] = y], oddities')
  BY <1>5, <1>7, <1>11, <1>12, GoodEnd
<1>14. \A u \in PageUrls : Waiting(FoldLeft(Observe, p, out), u) \subseteq Waiting(p, u)
  <2>1. NoRedirect(c, out)
    BY <1>2, <1>4, <1>5, <1>10 DEF NoRedirect
  <2> QED
    BY <1>5, <1>11, <1>12, <2>1 DEF Good
<1>15. LetGo(r, p) = FoldLeft(Observe, p, out)
  BY DEF LetGo, out
<1> DEFINE q == LetGo(r, p)
<1>16. /\ PageInv(q, Known1(x \cup {r}), oddities')
       /\ \A u \in PageUrls : Waiting(q, u) \subseteq Waiting(page, u)
  BY <1>4, <1>6, <1>13, <1>14, <1>15
<1> HIDE DEF q
<1>17. q \in PageSet
  BY <1>16 DEF PageInv, Shape
<1>18. q \in LetGoPages(x \cup {r})
  BY <1>16, <1>17 DEF LetGoPages
<1> QED
  BY <1>18 DEF q

\* The end of a frame keeps the invariant, in whichever order its requests go.
LEMMA DetachHandled ==
  ASSUME NetworkInv, DetachFrame
  PROVE  NetworkInv'
<1>0. AdapterInv /\ PageInv(page, View, oddities)
  BY DEF NetworkInv
<1>1. /\ story' = story /\ told' = told /\ heard' = heard /\ attached' \in BOOLEAN
      /\ GoesOn(oddities, oddities') /\ oddities'["overtaken"] = oddities["overtaken"]
      /\ page' = FoldSet(LetGo, page, Detached)
      /\ Detached \subseteq Requests /\ IsFiniteSet(Detached)
      /\ \A r \in Requests : Hops(r)' = Hops(r) /\ Over(r)' = Over(r)
  BY <1>0, DetachSteps
<1>2. \A r \in Requests :
        Held(r)' /\ RequestInfosKept(r)' /\ ResponseInfosKept(r)' /\ adapter'[r] \in AdapterSet
  <2> SUFFICES ASSUME NEW r \in Requests
               PROVE  /\ Held(r)' /\ RequestInfosKept(r)' /\ ResponseInfosKept(r)'
                      /\ adapter'[r] \in AdapterSet
    OBVIOUS
  <2>1. CASE r \in Detached
    <3> DEFINE h == Here(r, oddities', {})
    <3>1. Context(h) /\ Handler(h, Start(r), View[r]) /\ h.id = r /\ h.oddities = oddities'
      BY <1>1, HereGood DEF Here
    <3> HIDE DEF h
    <3> QED
      BY <1>0, <1>1, <2>1, <3>1, LetGoTold
  <2>2. CASE r \notin Detached
    BY <1>0, <2>2, NotLetGo
  <2> QED
    BY <2>1, <2>2
<1>3. AdapterInv'
  <2>1. adapter' \in [Requests -> AdapterSet]
    <3>1. adapter' = [r \in Requests |-> adapter'[r]]
      BY DEF DetachFrame, FrameDetached
    <3> QED
      BY <1>2, <3>1
  <2>2. \A r \in Requests : /\ Len(MainEvents(r))' = Len(MainEvents(r))
                            /\ ExtraInfos(r)' = ExtraInfos(r)
    BY <1>1 DEF MainEvents, ExtraInfos, Answered
  <2>3. oddities' = [o \in Oddities |-> oddities'[o]]
    BY <1>1 DEF GoesOn
  <2>4. story' \in [Requests -> [hops : Nat \ {0}, extra : SUBSET Nat, cached : BOOLEAN, end : Ends]]
        /\ told' \in [Requests -> Nat]
        /\ heard' \in [Requests -> SUBSET [kind : {"request", "response"}, hop : Nat]]
    BY <1>0, <1>1 DEF AdapterInv
  <2>5. \A r \in Requests : Hops(r)' <= Len(Chain[r]) /\ told'[r] <= Len(MainEvents(r))'
    BY <1>0, <1>1, <2>2 DEF AdapterInv
  <2>6. \A r \in Requests : heard'[r] \subseteq ExtraInfos(r)'
    BY <1>0, <1>1, <2>2 DEF AdapterInv
  <2>7. \A r \in Requests : \A e \in heard'[r], f \in ExtraInfos(r)' \ heard'[r] : Before(e, f)
    BY <1>0, <1>1, <2>2 DEF AdapterInv
  <2>8. \A r \in Requests : r \in oddities'["overtaken"] => Over(r)'
    BY <1>0, <1>1 DEF AdapterInv
  <2> QED
    BY <1>1, <1>2, <2>1, <2>3, <2>4, <2>5, <2>6, <2>7, <2>8 DEF AdapterInv, Before
<1>4. page \in LetGoPages({})
  <2>1. ViewOK(View, oddities) /\ ViewOK(View, oddities')
    BY <1>0, <1>1, Viewed DEF ViewOK, GoesOn
  <2>2. PageInv(page, View, oddities')
    <3> DEFINE v == View
    <3>1. ViewOK(v, oddities) /\ ViewOK(v, oddities') /\ PageInv(page, v, oddities)
          /\ \A o \in Oddities : oddities[o] \subseteq oddities'[o]
      BY <1>0, <1>1, <2>1 DEF GoesOn
    <3> HIDE DEF v
    <3>2. PageInv(page, v, oddities')
      BY <3>1, ViewWeaker
    <3> QED
      BY <3>2 DEF v
  <2>3. Known1({}) = View
    <3>1. View = [r \in Requests |-> View[r]]
      BY DEF View
    <3> DEFINE v == View
    <3>2. Known1({}) = [r \in Requests |-> v[r]] /\ v = [r \in Requests |-> v[r]]
      BY <3>1 DEF Known1
    <3> HIDE DEF v
    <3>3. Known1({}) = v
      BY <3>2
    <3> QED
      BY <3>3 DEF v
  <2>4. page \in PageSet
    BY <1>0 DEF PageInv, Shape
  <2> QED
    BY <2>2, <2>3, <2>4 DEF LetGoPages
<1>5. FoldSet(LetGo, page, Detached) \in LetGoPages(Detached)
  <2> DEFINE W == [x \in SUBSET Detached |-> LetGoPages(x)]
  <2>1. page \in W[{}]
    BY <1>4
  <2>2. \A x \in SUBSET Detached : \A r \in Detached \ x : \A q \in W[x] :
          LetGo(r, q) \in W[x \cup {r}]
    <3> SUFFICES ASSUME NEW x \in SUBSET Detached, NEW r \in Detached \ x, NEW q \in LetGoPages(x)
                 PROVE  LetGo(r, q) \in LetGoPages(x \cup {r})
      OBVIOUS
    <3> QED
      BY OneLetGo
  <2>3. W[Detached] = LetGoPages(Detached)
    OBVIOUS
  <2> HIDE DEF W
  <2>4. FoldSet(LetGo, page, Detached) \in W[Detached]
    BY <1>1, <2>1, <2>2, LetGoFold
  <2> QED
    BY <2>3, <2>4
<1>6. PageInv(page', Known1(Detached), oddities')
  BY <1>1, <1>5 DEF LetGoPages
<1>7. Known1(Detached) = View'
  <2>1. View' = [r \in Requests |-> View'[r]]
    BY DEF View
  <2>2. \A r \in Requests : r \notin Detached => View'[r] = View[r]
    BY <1>0, NotLetGo
  <2> DEFINE w == View'
  <2>3. \A r \in Requests : (IF r \in Detached THEN View'[r] ELSE View[r]) = w[r]
    BY <2>2
  <2>4. Known1(Detached) = [r \in Requests |-> w[r]]
    BY <2>3 DEF Known1
  <2>5. w = [r \in Requests |-> w[r]]
    BY <2>1
  <2> QED
    BY <2>4, <2>5
<1> QED
  BY <1>3, <1>6, <1>7 DEF NetworkInv

-----------------------------------------------------------------------------
(* The invariant.                                                          *)

\* A request that nothing was told of.
LEMMA NothingYet ==
  ASSUME Init, NEW r \in Requests
  PROVE  /\ story[r] \in StoriesOf(r) /\ adapter[r] = Fresh /\ told[r] = 0 /\ heard[r] = {}
         /\ Hops(r) \in Nat \ {0} /\ Hops(r) <= Len(Chain[r])
         /\ Sent(r) = 0 /\ Responded(r) = FALSE /\ Over(r) = FALSE /\ HopTold(r) = 0
         /\ told[r] <= Len(MainEvents(r)) /\ (\A h : ~InfoHeard(r, h))
         /\ ResponsesHeard(r) = {} /\ Redirects(r) = 0
<1>1. /\ \A s \in Requests : story[s] \in Stories[s]
      /\ adapter[r] = Fresh /\ told[r] = 0 /\ heard[r] = {}
      /\ story \in [Requests -> UNION {Stories[s] : s \in Requests}]
  BY DEF Init, NetworkInit
<1>2. story[r] \in StoriesOf(r)
  BY <1>1, StoriesAssumption
<1>3. Len(Chain[r]) \in Nat
  BY ChainFacts
<1>4. story[r].hops \in 1 .. Len(Chain[r])
  BY <1>2 DEF StoriesOf
<1>5. Hops(r) \in Nat \ {0} /\ Hops(r) <= Len(Chain[r])
  BY <1>3, <1>4 DEF Hops
<1>6. story \in [Requests -> StorySet]
  <2>1. \A s \in Requests : story[s] \in StorySet
    <3> SUFFICES ASSUME NEW s \in Requests PROVE story[s] \in StorySet
      OBVIOUS
    <3>1. story[s] \in StoriesOf(s) /\ Len(Chain[s]) \in Nat
      BY <1>1, StoriesAssumption, ChainFacts
    <3> QED
      BY <3>1 DEF StoriesOf, StorySet
  <2> QED
    BY <1>1, <2>1
<1>7. /\ Bit(story[r].cached) \in {0, 1} /\ Bit(Answered(r)) \in {0, 1}
      /\ Len(MainEvents(r)) = Hops(r) + Bit(story[r].cached) + Bit(Answered(r)) + 1
  BY <1>6, MainEventsInOrder
<1>8. Sent(r) = 0 /\ Responded(r) = FALSE /\ Over(r) = FALSE /\ told[r] <= Len(MainEvents(r))
  <2>1. Hops(r) \in Nat /\ Len(MainEvents(r)) \in Nat /\ Len(MainEvents(r)) # 0
    BY <1>5, <1>7
  <2>2. Sent(r) = 0 /\ ~Over(r) /\ told[r] <= Len(MainEvents(r))
    BY <1>1, <2>1 DEF Sent, Over
  <2>3. ~Responded(r)
    BY <1>1, <1>7, <2>1 DEF Responded
  <2>4. Responded(r) \in BOOLEAN /\ Over(r) \in BOOLEAN
    BY DEF Responded, Over, Answered
  <2> QED
    BY <2>2, <2>3, <2>4
<1>9. HopTold(r) = 0
  BY <1>1, <1>8 DEF HopTold, Fresh
<1>10. (\A h : ~InfoHeard(r, h)) /\ ResponsesHeard(r) = {} /\ Redirects(r) = 0
  BY <1>1, <1>8 DEF InfoHeard, ResponsesHeard, Redirects
<1> QED
  BY <1>1, <1>2, <1>5, <1>8, <1>9, <1>10

\* The invariant holds at the start.
LEMMA NetworkInitially ==
  ASSUME Init
  PROVE  NetworkInv
<1>1. /\ told = [r \in Requests |-> 0] /\ heard = [r \in Requests |-> {}]
      /\ attached = TRUE /\ adapter = [r \in Requests |-> Fresh]
      /\ page = PageInit /\ oddities = [o \in Oddities |-> {}]
      /\ story \in [Requests -> UNION {Stories[r] : r \in Requests}]
  BY DEF Init, NetworkInit
<1>2. Fresh \in AdapterSet
  <2>1. /\ <<>> \in Seq([hop : Nat, answers : Seq(Nat)]) /\ <<>> \in Seq(HeaderSet)
        /\ <<>> \in Seq(Nat)
    OBVIOUS
  <2> QED
    BY <2>1 DEF Fresh, AdapterSet
<1>3. /\ Fresh.meta = 0 /\ Fresh.held = <<>> /\ Fresh.requestInfos = <<>>
      /\ Fresh.forResponse = <<>> /\ ~Fresh.emitted /\ Fresh.heldResponses = <<>>
      /\ Fresh.responseInfos = <<>> /\ Fresh.discards = 0
  BY DEF Fresh
<1>4. oddities["overtaken"] = {} /\ oddities["misdirected"] = {} /\ oddities["crossed"] = {}
  BY <1>1 DEF Oddities
<1>5. \A r \in Requests : Held(r) /\ RequestInfosKept(r) /\ ResponseInfosKept(r)
  <2> SUFFICES ASSUME NEW r \in Requests
               PROVE  Held(r) /\ RequestInfosKept(r) /\ ResponseInfosKept(r)
    OBVIOUS
  <2>1. /\ adapter[r] = Fresh /\ told[r] = 0 /\ Sent(r) = 0 /\ ~Responded(r) /\ ~Over(r)
        /\ HopTold(r) = 0 /\ (\A h : ~InfoHeard(r, h))
        /\ ResponsesHeard(r) = {} /\ Redirects(r) = 0
    BY NothingYet
  <2>2. Held(r)
    BY <1>3, <2>1 DEF Held
  <2>3. RequestInfosKept(r)
    <3>1. DOMAIN <<>> = {}
      OBVIOUS
    <3> QED
      BY <1>3, <2>1, <3>1 DEF RequestInfosKept
  <2>4. ResponseInfosKept(r)
    <3>1. Cardinality(ResponsesHeard(r)) = 0
      BY <2>1, FS_EmptySet
    <3>2. DOMAIN <<>> = {} /\ Len(<<>>) = 0
      OBVIOUS
    <3> QED
      BY <1>3, <2>1, <3>1, <3>2 DEF ResponseInfosKept
  <2> QED
    BY <2>2, <2>3, <2>4
<1>6. AdapterInv
  <2>1. story \in [Requests -> [hops : Nat \ {0}, extra : SUBSET Nat, cached : BOOLEAN, end : Ends]]
    <3>1. \A r \in Requests :
            story[r] \in [hops : Nat \ {0}, extra : SUBSET Nat, cached : BOOLEAN, end : Ends]
      <4> SUFFICES ASSUME NEW r \in Requests
                   PROVE  story[r] \in [hops : Nat \ {0}, extra : SUBSET Nat, cached : BOOLEAN, end : Ends]
        OBVIOUS
      <4>1. story[r] \in StoriesOf(r) /\ Len(Chain[r]) \in Nat
        BY NothingYet, ChainFacts
      <4> QED
        BY <4>1 DEF StoriesOf
    <3> QED
      BY <1>1, <3>1
  <2>2. \A r \in Requests : Hops(r) <= Len(Chain[r]) /\ told[r] <= Len(MainEvents(r)) /\ heard[r] = {}
    BY NothingYet
  <2>3. told \in [Requests -> Nat]
        /\ heard \in [Requests -> SUBSET [kind : {"request", "response"}, hop : Nat]]
        /\ adapter \in [Requests -> AdapterSet]
    BY <1>1, <1>2
  <2>4. oddities = [o \in Oddities |-> oddities[o]]
    BY <1>1
  <2> QED
    BY <1>1, <1>4, <1>5, <2>1, <2>2, <2>3, <2>4 DEF AdapterInv
<1>7. /\ page.requests = <<>> /\ page.responses = <<>>
      /\ page.byId = [r \in Requests |-> 0] /\ page.byUrl = [u \in PageUrls |-> <<>>]
      /\ page.targets = [u \in PageUrls |-> <<>>] /\ page \in PageSet
  <2>1. <<>> \in Seq(RequestSet) /\ <<>> \in Seq(ResponseSet) /\ <<>> \in Seq(Nat)
    OBVIOUS
  <2>2. /\ [r \in Requests |-> 0] \in [Requests -> Nat]
        /\ [u \in PageUrls |-> <<>>] \in [PageUrls -> Seq(Nat)]
    BY <2>1
  <2> QED
    BY <1>1, <2>1, <2>2 DEF PageInit, PageSet
<1>8. /\ DOMAIN page.requests = {} /\ DOMAIN page.responses = {} /\ Len(page.requests) = 0
      /\ \A u \in PageUrls : DOMAIN page.targets[u] = {} /\ DOMAIN page.byUrl[u] = {}
      /\ \A r \in Requests : page.byId[r] = 0
  BY <1>7
<1>9. \A r \in Requests : View[r].hop = 0
  BY <1>6, NothingYet, Viewed
<1> DEFINE v == View
<1>10. PageInv(page, v, oddities)
  <2>1. \A r \in Requests : v[r].hop = 0
    BY <1>9
  <2> HIDE DEF v
  <2>2. Shape(page)
    <3>1. \A r \in Requests : page.byId[r] \in 0 .. Len(page.requests)
      BY <1>8
    <3> QED
      BY <1>7, <1>8, <3>1 DEF Shape
  <2>3. Current(page, v, oddities)
    BY <1>8, <2>1 DEF Current
  <2>4. Objects(page, v, oddities) /\ Answers(page) /\ Predecessors(page, oddities)
    BY <1>8 DEF Objects, Answers, Predecessors
  <2>5. Redirected(page, v, oddities)
    BY <1>8, <2>1 DEF Redirected
  <2>6. Promises(page, v, oddities) /\ Headers(page, v, oddities)
    BY <1>8 DEF Promises, Headers
  <2> QED
    BY <2>2, <2>3, <2>4, <2>5, <2>6 DEF PageInv
<1> QED
  BY <1>6, <1>10 DEF NetworkInv

\* Where nothing changes it stays.
LEMMA NothingHappens ==
  ASSUME NetworkInv, UNCHANGED vars
  PROVE  NetworkInv'
<1>1. /\ story' = story /\ told' = told /\ heard' = heard /\ attached' = attached
      /\ adapter' = adapter /\ page' = page /\ oddities' = oddities
  BY DEF vars, netVars
<1>2. \A r \in Requests :
        /\ Hops(r)' = Hops(r) /\ Sent(r)' = Sent(r) /\ Responded(r)' = Responded(r)
        /\ Over(r)' = Over(r) /\ HopTold(r)' = HopTold(r) /\ Redirects(r)' = Redirects(r)
        /\ (\A h : InfoHeard(r, h)' <=> InfoHeard(r, h))
        /\ ResponsesHeard(r)' = ResponsesHeard(r)
        /\ Len(MainEvents(r))' = Len(MainEvents(r)) /\ ExtraInfos(r)' = ExtraInfos(r)
  <2> SUFFICES ASSUME NEW r \in Requests
               PROVE  /\ Hops(r)' = Hops(r) /\ Sent(r)' = Sent(r) /\ Responded(r)' = Responded(r)
                      /\ Over(r)' = Over(r) /\ HopTold(r)' = HopTold(r) /\ Redirects(r)' = Redirects(r)
                      /\ (\A h : InfoHeard(r, h)' <=> InfoHeard(r, h))
                      /\ ResponsesHeard(r)' = ResponsesHeard(r)
                      /\ Len(MainEvents(r))' = Len(MainEvents(r)) /\ ExtraInfos(r)' = ExtraInfos(r)
    OBVIOUS
  <2>1. Hops(r)' = Hops(r) /\ Sent(r)' = Sent(r) /\ Responded(r)' = Responded(r) /\ Over(r)' = Over(r)
    BY <1>1, NothingMain
  <2>2. HopTold(r)' = HopTold(r) /\ Redirects(r)' = Redirects(r)
    BY <1>1, <2>1 DEF HopTold, Redirects
  <2>3. (\A h : InfoHeard(r, h)' <=> InfoHeard(r, h))
        /\ ResponsesHeard(r)' = ResponsesHeard(r)
    BY <1>1, <2>1 DEF InfoHeard, ResponsesHeard
  <2>4. Len(MainEvents(r))' = Len(MainEvents(r)) /\ ExtraInfos(r)' = ExtraInfos(r)
    BY <1>1 DEF MainEvents, ExtraInfos, Answered
  <2> QED
    BY <2>1, <2>2, <2>3, <2>4
<1>3. \A r \in Requests : Held(r)' /\ RequestInfosKept(r)' /\ ResponseInfosKept(r)'
  <2> SUFFICES ASSUME NEW r \in Requests
               PROVE  Held(r)' /\ RequestInfosKept(r)' /\ ResponseInfosKept(r)'
    OBVIOUS
  <2>1. Held(r) /\ RequestInfosKept(r) /\ ResponseInfosKept(r)
    BY Progress DEF NetworkInv
  <2>2. Held(r)'
    BY <1>1, <1>2, <2>1 DEF Held
  <2>3. RequestInfosKept(r)'
    BY <1>1, <1>2, <2>1 DEF RequestInfosKept
  <2>4. ResponseInfosKept(r)'
    BY <1>1, <1>2, <2>1 DEF ResponseInfosKept
  <2> QED
    BY <2>2, <2>3, <2>4
<1>4. AdapterInv'
  <2>1. AdapterInv
    BY DEF NetworkInv
  <2>2. \A r \in Requests : Hops(r)' <= Len(Chain[r]) /\ told'[r] <= Len(MainEvents(r))'
    BY <1>1, <1>2, <2>1 DEF AdapterInv
  <2>3. \A r \in Requests : heard'[r] \subseteq ExtraInfos(r)'
    BY <1>1, <1>2, <2>1 DEF AdapterInv
  <2>4. \A r \in Requests : \A e \in heard'[r], f \in ExtraInfos(r)' \ heard'[r] : Before(e, f)
    BY <1>1, <1>2, <2>1 DEF AdapterInv
  <2>5. \A r \in Requests : r \in oddities'["overtaken"] => Over(r)'
    BY <1>1, <1>2, <2>1 DEF AdapterInv
  <2>6. /\ story' \in [Requests -> [hops : Nat \ {0}, extra : SUBSET Nat, cached : BOOLEAN, end : Ends]]
        /\ told' \in [Requests -> Nat]
        /\ heard' \in [Requests -> SUBSET [kind : {"request", "response"}, hop : Nat]]
        /\ attached' \in BOOLEAN /\ adapter' \in [Requests -> AdapterSet]
        /\ oddities' = [o \in Oddities |-> oddities'[o]]
    BY <1>1, <2>1 DEF AdapterInv
  <2> QED
    BY <1>3, <2>2, <2>3, <2>4, <2>5, <2>6 DEF AdapterInv, Before
<1>5. View' = View
  <2>1. \A r \in Requests :
          {h \in 1 .. Hops(r)' : InfoHeard(r, h)'} = {h \in 1 .. Hops(r) : InfoHeard(r, h)}
    BY <1>2
  <2> QED
    BY <1>1, <1>2, <2>1 DEF View
<1> QED
  BY <1>1, <1>4, <1>5 DEF NetworkInv

\* Every step keeps it.
LEMMA NextKeepsNetwork ==
  ASSUME NetworkInv, [Next]_vars
  PROVE  NetworkInv'
<1>1. ASSUME NEW r \in Requests, HandleMainEvent(r) PROVE NetworkInv'
  BY <1>1, MainHandled
<1>2. ASSUME NEW r \in Requests, HandleExtraInfo(r) PROVE NetworkInv'
  BY <1>2, ExtraHandled
<1>3. ASSUME NEW r \in Requests, GiveUpOnRequestInfo(r) PROVE NetworkInv'
  BY <1>3, RequestTimerHandled
<1>4. ASSUME NEW r \in Requests, GiveUpOnResponseInfo(r) PROVE NetworkInv'
  BY <1>4, ResponseTimerHandled
<1>5. ASSUME NEW r \in Requests, Commit(r) PROVE NetworkInv'
  BY <1>5, CommitHandled
<1>6. CASE DetachFrame
  BY <1>6, DetachHandled
<1>7. CASE UNCHANGED vars
  BY <1>7, NothingHappens
<1> QED
  BY <1>1, <1>2, <1>3, <1>4, <1>5, <1>6, <1>7 DEF Next

\* The invariant says what the properties do.
LEMMA NetworkInvSays ==
  ASSUME NetworkInv
  PROVE  OneObject /\ Linked /\ HeadersBelong
<1> DEFINE v == View
           p == page
           o == oddities
<1>0. AdapterInv /\ PageInv(p, v, o)
  BY DEF NetworkInv
<1>1. /\ Shape(p) /\ Current(p, v, o) /\ Objects(p, v, o) /\ Answers(p) /\ Redirected(p, v, o)
      /\ Predecessors(p, o) /\ Promises(p, v, o) /\ Headers(p, v, o)
  BY <1>0 DEF PageInv
<1>2. \A r \in Requests : \A h \in 1 .. v[r].hops : InfoHeard(r, h) => h \in v[r].infos
  BY <1>0, Viewed
<1>3. \A r \in Requests : v[r] \in ViewSet /\ v[r].hop = HopTold(r) /\ v[r].hops = Hops(r)
                          /\ HopTold(r) \in 0 .. Hops(r) /\ Hops(r) \in Nat
  BY <1>0, Viewed, Progress
<1>4. /\ DOMAIN p.requests = 1 .. Len(p.requests) /\ Len(p.requests) \in Nat
      /\ \A i \in DOMAIN p.requests : p.requests[i] \in RequestSet
  BY <1>1, PageFacts
<1> HIDE DEF v
<1>5. OneObject
  <2> SUFFICES ASSUME NEW i \in DOMAIN p.requests, NEW j \in DOMAIN p.requests,
                      p.requests[i].id = p.requests[j].id,
                      p.requests[i].hop = p.requests[j].hop,
                      p.requests[i].id \notin o["overtaken"]
               PROVE  i = j
    BY DEF OneObject, Is
  <2> QED
    BY <1>1 DEF Objects
<1>6. AnswersBelong
  <2> SUFFICES ASSUME NEW k \in DOMAIN p.responses
               PROVE  /\ p.responses[k].of # 0
                      /\ p.requests[p.responses[k].of].id = p.responses[k].id
                      /\ p.requests[p.responses[k].of].hop = p.responses[k].hop
    BY DEF AnswersBelong
  <2>1. /\ p.responses[k].of \in DOMAIN p.requests
        /\ p.requests[p.responses[k].of].id = p.responses[k].id
        /\ p.requests[p.responses[k].of].hop = p.responses[k].hop
    BY <1>1 DEF Answers
  <2> QED
    BY <1>4, <2>1
<1>7. NavigationAnswered
  BY <1>1 DEF NavigationAnswered, Promises, Is
<1>8. RedirectsLinked
  <2> SUFFICES ASSUME NEW i \in DOMAIN p.requests,
                      p.requests[i].id \notin o["crossed"], p.requests[i].id \notin o["overtaken"]
               PROVE  IF p.requests[i].hop = 1 THEN p.requests[i].from = 0
                      ELSE /\ p.requests[i].from # 0
                           /\ p.requests[p.requests[i].from].id = p.requests[i].id
                           /\ p.requests[p.requests[i].from].hop + 1 = p.requests[i].hop
    BY DEF RedirectsLinked, Is
  <2>1. IF p.requests[i].hop = 1 THEN p.requests[i].from = 0
        ELSE /\ p.requests[i].from \in DOMAIN p.requests
             /\ p.requests[p.requests[i].from].id = p.requests[i].id
             /\ p.requests[p.requests[i].from].hop + 1 = p.requests[i].hop
    BY <1>1 DEF Predecessors
  <2> QED
    BY <1>4, <2>1
<1>9. RequestHeaders
  <2> SUFFICES ASSUME NEW i \in DOMAIN p.requests,
                      p.requests[i].id \notin o["misdirected"],
                      p.requests[i].id \notin o["overtaken"],
                      p.requests[i].hop = 1 \/ p.requests[i].response = 0
               PROVE  /\ p.requests[i].headers.hop = p.requests[i].hop
                      /\ InfoHeard(p.requests[i].id, p.requests[i].hop) => p.requests[i].headers.wire
    BY DEF RequestHeaders, Is
  <2> DEFINE r == p.requests[i].id
             h == p.requests[i].hop
  <2>1. r \in Requests /\ h \in Nat
    BY <1>4 DEF RequestSet
  <2>2. 1 <= h /\ h <= v[r].hop
    BY <1>1 DEF Objects
  <2>3. h \in 1 .. v[r].hops
    BY <1>3, <2>1, <2>2
  <2>4. p.requests[i].headers.hop = h /\ (h \in v[r].infos => p.requests[i].headers.wire)
    BY <1>1 DEF Headers
  <2>5. InfoHeard(r, h) => h \in v[r].infos
    BY <1>2, <2>1, <2>3
  <2> QED
    BY <2>4, <2>5
<1>10. ResponseHeaders
  BY <1>1 DEF ResponseHeaders, Headers, Is
<1> QED
  BY <1>5, <1>6, <1>7, <1>8, <1>9, <1>10 DEF Linked, HeadersBelong

\* Whatever the requests, their chains and how they end, and however events,
\* extra infos, timers, the end of a frame and navigations come: what the
\* page knows of each request is what the adapter has told of it.
THEOREM NetworkInvariant == Spec => []NetworkInv
<1>1. Init => NetworkInv
  BY NetworkInitially
<1>2. NetworkInv /\ [Next]_vars => NetworkInv'
  BY NextKeepsNetwork
<1> QED
  BY <1>1, <1>2, PTL DEF Spec

\* A hop gets one Request object, unless its end overtook it.
THEOREM OneObjectAlways == Spec => []OneObject
<1>1. NetworkInv => OneObject
  BY NetworkInvSays
<1> QED
  BY <1>1, NetworkInvariant, PTL

\* Responses are linked to the Requests they answer, redirects to the hop
\* before, and response() of an answered navigation is its answer.
THEOREM LinkedAlways == Spec => []Linked
<1>1. NetworkInv => Linked
  BY NetworkInvSays
<1> QED
  BY <1>1, NetworkInvariant, PTL

\* The headers of one hop are never shown for another.
THEOREM HeadersBelongAlways == Spec => []HeadersBelong
<1>1. NetworkInv => HeadersBelong
  BY NetworkInvSays
<1> QED
  BY <1>1, NetworkInvariant, PTL

=============================================================================
