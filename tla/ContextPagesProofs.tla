------------------------- MODULE ContextPagesProofs -------------------------
(***************************************************************************)
(* Proofs about ContextPages, for any tabs, adapters, polls and calls of   *)
(* newPage: the page event of a tab is sent once, and a page whose tab is  *)
(* gone knows it.                                                          *)
(***************************************************************************)
EXTENDS ContextPages, FiniteSetTheorems, SequenceTheorems, TLAPS

-----------------------------------------------------------------------------
(* The inductive invariant.                                                *)

In(q, e) == \E i \in 1..Len(q) : q[i] = e

CreatedEvent(c, t) == [kind |-> "created", call |-> c, tab |-> t]
RefusedEvent(c) == [kind |-> "refused", call |-> c]

\* The end of a tab is told once, after all else that is told of it.
TabsInOrder(q, tb) ==
  /\ \A t \in Targets : \A j \in 1..Len(q) : q[j] = Event("attached", t) =>
       /\ tb[t] # "none"
       /\ tb[t] = "gone" => \E i \in 1..Len(q) : i > j /\ q[i] = Event("gone", t)
  /\ \A t \in Targets : \A i, j \in 1..Len(q) :
       q[i] = Event("gone", t) => tb[t] = "gone" /\ (q[j] = q[i] => i = j)

\* createTarget is answered once.
CallsInOrder(q, cl, ct) ==
  /\ \A c \in Calls, t \in Targets : \A i, j \in 1..Len(q) :
       q[i] = CreatedEvent(c, t) =>
         ct[c] = t /\ cl[c] = "asked" /\ (q[j] = q[i] => i = j)
  /\ \A c \in Calls : \A i, j \in 1..Len(q) :
       q[i] = RefusedEvent(c) =>
         ct[c] = NoTarget /\ cl[c] = "asked" /\ (q[j] = q[i] => i = j)
  /\ \A c \in Calls :
       cl[c] = "asked" /\ ct[c] # NoTarget => In(q, CreatedEvent(c, ct[c]))

Queue == TabsInOrder(events, tab) /\ CallsInOrder(events, call, callTab)

\* The end of the tab has been told.
Left(t) == tab[t] = "gone" /\ ~In(events, Event("gone", t))

\* Tabs that newPage made, by the calls that did, and the adapters they got.
Own(t) == \E c \in Calls : callTab[c] = t

Returned(a) == \E c \in Calls : call[c] = "done" /\ callPage[c] = a

CallsPlaced ==
  /\ \A c \in Calls :
       /\ callTab[c] # NoTarget =>
            call[c] # "idle" /\ OpenerOf[callTab[c]] = NoTarget /\ tab[callTab[c]] # "none"
       /\ call[c] \in {"looking", "awaiting", "registering", "done"} => callTab[c] # NoTarget
       /\ call[c] \in {"awaiting", "registering", "done"} =>
            callPage[c] # NoAdapter /\ callPage[c][1] = callTab[c]
  /\ \A c, d \in Calls : callTab[c] = callTab[d] /\ callTab[c] # NoTarget => c = d

\* Each call that waits for a tab is counted until it is known which.
Waiting == {c \in Calls : call[c] = "asked" /\ callTab[c] \notin creatingIds}

\* What is known of a target is an adapter of it.
Maps ==
  /\ \A t \in Targets :
       /\ pages[t] # NoAdapter => pages[t][1] = t
       /\ pending[t] # NoAdapter => pending[t][1] = t
       /\ initializing[t] # NoAdapter =>
            initializing[t][1] = t /\ stage[initializing[t]] \in {"creating", "failed"}
       /\ tab[t] = "none" =>
            t \notin creatingIds /\ \A a \in Adapters : a[1] = t => stage[a] = "unused"
  /\ \A a \in emits : stage[a] # "unused"
  /\ \A a \in closingPages : a[1] \in closedHere

\* The adapter is being made; it has got as far as to be a page.
Young(a) == stage[a] \in {"creating", "installing"}
Grown(a) == stage[a] \in {"emitting", "announcing", "introducing", "settled"}

\* The context, or a popup, has to do with the page of the adapter.
Shown(a) == a \in pageSet \/ \E b \in Adapters : opener[b] = a

\* A tab that has not left has one adapter at most that is neither closed nor
\* failed, and the maps have it.
Placed ==
  closing = "no" => \A a \in Adapters : ~Left(a[1]) =>
    /\ Young(a) => pending[a[1]] = a /\ pages[a[1]] = NoAdapter
    /\ Grown(a) /\ (a \notin closed \/ a[1] \notin closedHere) => pages[a[1]] = a
    /\ Shown(a) /\ a \notin closed => pages[a[1]] = a
    /\ a \in closingPages => pages[a[1]] = a

\* When it has left, what there is of it is closed or was missed, or will not
\* get to be a page.
Gone ==
  closing = "no" => \A a \in Adapters : Left(a[1]) =>
    \/ a \in closed \cup missed
    \/ stage[a] \in {"unused", "creating", "failed"} /\ ~Shown(a) /\ pages[a[1]] # a

\* Made to be emitted, and not yet looked at again whether it is newPage's.
Early(a) == a \in emits /\ (stage[a] = "installing" \/ (stage[a] = "creating" /\ ~Left(a[1])))

\* No other adapter of a tab without opener is made meanwhile.
Alone ==
  \A a \in Adapters :
    a[1] \notin closedHere /\ OpenerOf[a[1]] = NoTarget /\ Early(a) =>
      /\ pending[a[1]] = a /\ pages[a[1]] = NoAdapter
      /\ closing # "no" => a \in awaited
      /\ closing # "done"
      /\ stage[a] = "installing" => initializing[a[1]] = NoAdapter
      /\ \A b \in Adapters : b[1] = a[1] /\ b # a => stage[b] \in {"unused", "failed"}

\* newPage's tab is known as such before any adapter of it is a page, so that
\* none is emitted.
Taken ==
  \A c \in Calls : callTab[c] # NoTarget /\ callTab[c] \notin closedHere =>
    /\ call[c] # "asked" => callTab[c] \in manualIds \/ Left(callTab[c])
    /\ \A a \in Adapters : a[1] = callTab[c] =>
         /\ Early(a) /\ call[c] # "asked" => a[1] \in creatingIds
         /\ stage[a] = "installing" => call[c] # "asked"
         /\ stage[a] \notin {"emitting", "announcing", "introducing"}

\* Any other tab has one adapter, but for those that failed.
Single ==
  \A a, b \in Adapters :
    a[1] = b[1] /\ a # b /\ a[1] \notin closedHere /\ ~Own(a[1]) =>
      stage[a] \in {"unused", "failed"} \/ stage[b] \in {"unused", "failed"}

\* An adapter is announced when its promise is settled, and by newPage.
Counted ==
  \A a \in Adapters :
    /\ announced[a] > 0 => stage[a] = "settled" \/ Returned(a)
    /\ announced[a] > 1 => stage[a] = "settled" /\ Returned(a)
    /\ Own(a[1]) /\ a[1] \notin closedHere =>
         announced[a] <= 1 /\ (announced[a] > 0 => Returned(a))

AdaptersInv == Maps /\ Placed /\ Gone /\ Alone /\ Taken /\ Single /\ Counted

IInv ==
  /\ ContextTypeOK /\ Queue /\ CallsPlaced /\ AdaptersInv
  /\ manualPending <= Cardinality(Waiting)

-----------------------------------------------------------------------------
(* The queue.                                                              *)

LEMMA EventForms ==
  ASSUME NEW e \in Events
  PROVE  /\ e.kind \in {"attached", "gone", "created", "refused", "targets"}
         /\ e.kind = "attached" => e.tab \in Targets /\ e = Event("attached", e.tab)
         /\ e.kind = "gone" => e.tab \in Targets /\ e = Event("gone", e.tab)
         /\ e.kind = "created" => /\ e.call \in Calls /\ e.tab \in Targets
                                  /\ e = CreatedEvent(e.call, e.tab)
         /\ e.kind = "refused" => e.call \in Calls /\ e = RefusedEvent(e.call)
         /\ e.kind = "targets" => e.tabs \subseteq Targets
  BY DEF Events, Event, CreatedEvent, RefusedEvent

LEMMA Kinds ==
  ASSUME NEW t \in Targets, NEW c \in Calls, NEW T \in SUBSET Targets
  PROVE  /\ Event("attached", t) \in Events /\ Event("attached", t).kind = "attached"
         /\ Event("gone", t) \in Events /\ Event("gone", t).kind = "gone"
         /\ CreatedEvent(c, t) \in Events /\ CreatedEvent(c, t).kind = "created"
         /\ RefusedEvent(c) \in Events /\ RefusedEvent(c).kind = "refused"
         /\ [kind |-> "targets", tabs |-> T] \in Events
         /\ [kind |-> "targets", tabs |-> T].kind = "targets"
  BY DEF Events, Event, CreatedEvent, RefusedEvent

LEMMA Injective ==
  ASSUME NEW t \in Targets, NEW u \in Targets, NEW c \in Calls, NEW d \in Calls
  PROVE  /\ Event("attached", t) = Event("attached", u) => t = u
         /\ Event("gone", t) = Event("gone", u) => t = u
         /\ CreatedEvent(c, t) = CreatedEvent(d, u) => c = d /\ t = u
         /\ RefusedEvent(c) = RefusedEvent(d) => c = d
<1>1. /\ Event("attached", t).tab = t /\ Event("attached", u).tab = u
      /\ Event("gone", t).tab = t /\ Event("gone", u).tab = u
      /\ CreatedEvent(c, t).tab = t /\ CreatedEvent(d, u).tab = u
      /\ CreatedEvent(c, t).call = c /\ CreatedEvent(d, u).call = d
      /\ RefusedEvent(c).call = c /\ RefusedEvent(d).call = d
  BY DEF Event, CreatedEvent, RefusedEvent
<1>2. QED
  BY <1>1

\* The rest of the queue, once its head is handled.
LEMMA TailFacts ==
  ASSUME NEW q \in Seq(Events), q # << >>
  PROVE  /\ Tail(q) \in Seq(Events) /\ Head(q) \in Events /\ Head(q) = q[1]
         /\ Len(q) \in Nat \ {0} /\ Len(Tail(q)) = Len(q) - 1
         /\ \A i \in 1..(Len(q) - 1) : Tail(q)[i] = q[i + 1]
         /\ \A e : In(Tail(q), e) => In(q, e)
         /\ \A e : In(q, e) => In(Tail(q), e) \/ e = Head(q)
<1>1. /\ Tail(q) \in Seq(Events) /\ Head(q) \in Events /\ Head(q) = q[1]
      /\ Len(q) \in Nat \ {0} /\ Len(Tail(q)) = Len(q) - 1
      /\ \A i \in 1..(Len(q) - 1) : Tail(q)[i] = q[i + 1]
  OBVIOUS
<1>2. ASSUME NEW e, In(Tail(q), e) PROVE In(q, e)
  <2>1. PICK i \in 1..(Len(q) - 1) : Tail(q)[i] = e
    BY <1>1, <1>2 DEF In
  <2>2. i + 1 \in 1..Len(q) /\ q[i + 1] = e
    BY <1>1, <2>1
  <2>3. QED
    BY <2>2 DEF In
<1>3. ASSUME NEW e, In(q, e), e # Head(q) PROVE In(Tail(q), e)
  <2>1. PICK i \in 1..Len(q) : q[i] = e
    BY <1>3 DEF In
  <2>2. i - 1 \in 1..(Len(q) - 1) /\ Tail(q)[i - 1] = e
    BY <1>1, <1>3, <2>1
  <2>3. QED
    BY <1>1, <2>2 DEF In
<1>4. QED
  BY <1>1, <1>2, <1>3

LEMMA TailInOrder ==
  ASSUME NEW q \in Seq(Events), q # << >>, NEW tb, TabsInOrder(q, tb)
  PROVE  /\ TabsInOrder(Tail(q), tb)
         /\ \A t \in Targets :
              /\ Head(q) = Event("gone", t) => tb[t] = "gone" /\ ~In(Tail(q), Event("gone", t))
              /\ Head(q) = Event("attached", t) =>
                   tb[t] # "none" /\ (tb[t] = "gone" => In(q, Event("gone", t)))
<1>1. PICK r : r = Tail(q)
  OBVIOUS
<1>2. /\ r \in Seq(Events) /\ Head(q) = q[1] /\ Len(q) \in Nat \ {0}
      /\ Len(r) = Len(q) - 1 /\ \A i \in 1..Len(r) : r[i] = q[i + 1] /\ i + 1 \in 1..Len(q)
  BY <1>1, TailFacts
<1>3. ASSUME NEW t \in Targets, NEW j \in 1..Len(r), r[j] = Event("attached", t)
      PROVE  /\ tb[t] # "none"
             /\ tb[t] = "gone" => \E i \in 1..Len(r) : i > j /\ r[i] = Event("gone", t)
  <2>1. q[j + 1] = Event("attached", t) /\ j + 1 \in 1..Len(q)
    BY <1>2, <1>3
  <2>2. tb[t] # "none"
    BY <2>1 DEF TabsInOrder
  <2>3. ASSUME tb[t] = "gone"
        PROVE  \E i \in 1..Len(r) : i > j /\ r[i] = Event("gone", t)
    <3>1. PICK i \in 1..Len(q) : i > j + 1 /\ q[i] = Event("gone", t)
      BY <2>1, <2>3 DEF TabsInOrder
    <3>2. i - 1 \in 1..Len(r) /\ i - 1 > j /\ r[i - 1] = Event("gone", t)
      BY <1>2, <3>1
    <3>3. QED
      BY <3>2
  <2>4. QED
    BY <2>2, <2>3
<1>4. ASSUME NEW t \in Targets, NEW i \in 1..Len(r), NEW j \in 1..Len(r),
             r[i] = Event("gone", t)
      PROVE  tb[t] = "gone" /\ (r[j] = r[i] => i = j)
  <2>1. /\ i + 1 \in 1..Len(q) /\ q[i + 1] = Event("gone", t)
        /\ j + 1 \in 1..Len(q) /\ q[j + 1] = r[j]
    BY <1>2, <1>4
  <2>2. tb[t] = "gone" /\ (q[j + 1] = q[i + 1] => i + 1 = j + 1)
    BY <2>1 DEF TabsInOrder
  <2>3. QED
    BY <1>4, <2>1, <2>2
<1>5. ASSUME NEW t \in Targets, Head(q) = Event("gone", t)
      PROVE  tb[t] = "gone" /\ ~In(r, Event("gone", t))
  <2>1. 1 \in 1..Len(q) /\ q[1] = Event("gone", t)
    BY <1>2, <1>5
  <2>2. ASSUME NEW i \in 1..Len(r), r[i] = Event("gone", t) PROVE FALSE
    <3>1. i + 1 \in 1..Len(q) /\ q[i + 1] = q[1]
      BY <1>2, <2>1, <2>2
    <3>2. 1 = i + 1
      BY <2>1, <3>1 DEF TabsInOrder
    <3>3. QED
      BY <3>2
  <2>3. QED
    BY <2>1, <2>2 DEF TabsInOrder, In
<1>6. ASSUME NEW t \in Targets, Head(q) = Event("attached", t)
      PROVE  tb[t] # "none" /\ (tb[t] = "gone" => In(q, Event("gone", t)))
  <2>1. 1 \in 1..Len(q) /\ q[1] = Event("attached", t)
    BY <1>2, <1>6
  <2>2. QED
    BY <2>1 DEF TabsInOrder, In
<1>7. QED
  BY <1>1, <1>3, <1>4, <1>5, <1>6 DEF TabsInOrder

\* What is told later comes after.
LEMMA MoreFacts ==
  ASSUME NEW q \in Seq(Events), NEW s \in Seq(Events)
  PROVE  /\ q \o s \in Seq(Events) /\ Len(q \o s) = Len(q) + Len(s)
         /\ Len(q) \in Nat /\ Len(s) \in Nat
         /\ \A i \in 1..Len(q) : (q \o s)[i] = q[i]
         /\ \A i \in 1..Len(s) : (q \o s)[Len(q) + i] = s[i]
         /\ \A i \in 1..Len(q \o s) :
              i \in 1..Len(q) \/ (i - Len(q) \in 1..Len(s) /\ i = Len(q) + (i - Len(q)))
         /\ \A e : In(q \o s, e) <=> In(q, e) \/ In(s, e)
<1>1. PICK r : r = q \o s
  OBVIOUS
<1>2. /\ r \in Seq(Events) /\ Len(r) = Len(q) + Len(s)
      /\ Len(q) \in Nat /\ Len(s) \in Nat
      /\ \A i \in 1..Len(q) : r[i] = q[i]
      /\ \A i \in 1..Len(s) : r[Len(q) + i] = s[i]
      /\ \A i \in 1..Len(r) :
           i \in 1..Len(q) \/ (i - Len(q) \in 1..Len(s) /\ i = Len(q) + (i - Len(q)))
  BY <1>1, ConcatProperties
<1>3. ASSUME NEW e, In(r, e) PROVE In(q, e) \/ In(s, e)
  BY <1>2, <1>3 DEF In
<1>4. ASSUME NEW e, In(q, e) PROVE In(r, e)
  BY <1>2, <1>4 DEF In
<1>5. ASSUME NEW e, In(s, e) PROVE In(r, e)
  <2>1. PICK i \in 1..Len(s) : s[i] = e
    BY <1>5 DEF In
  <2>2. Len(q) + i \in 1..Len(r) /\ r[Len(q) + i] = e
    BY <1>2, <2>1
  <2>3. QED
    BY <2>2 DEF In
<1>6. QED
  BY <1>1, <1>2, <1>3, <1>4, <1>5

\* Tabs that are there may be told of once more.
LEMMA MoreInOrder ==
  ASSUME NEW q \in Seq(Events), NEW s \in Seq(Events), NEW tb, TabsInOrder(q, tb),
         \A t \in Targets :
           ~In(s, Event("gone", t)) /\ (In(s, Event("attached", t)) => tb[t] \in {"open", "closing"})
  PROVE  /\ TabsInOrder(q \o s, tb)
         /\ \A t \in Targets : In(q \o s, Event("gone", t)) <=> In(q, Event("gone", t))
<1>1. PICK r : r = q \o s
  OBVIOUS
<1>2. /\ r \in Seq(Events) /\ Len(r) = Len(q) + Len(s)
      /\ Len(q) \in Nat /\ Len(s) \in Nat
      /\ \A i \in 1..Len(q) : r[i] = q[i]
      /\ \A i \in 1..Len(s) : r[Len(q) + i] = s[i]
      /\ \A i \in 1..Len(r) :
           i \in 1..Len(q) \/ (i - Len(q) \in 1..Len(s) /\ i = Len(q) + (i - Len(q)))
      /\ \A e : In(r, e) <=> In(q, e) \/ In(s, e)
  BY <1>1, MoreFacts
<1>3. ASSUME NEW i \in 1..Len(r), i \notin 1..Len(q) PROVE In(s, r[i])
  <2>1. i - Len(q) \in 1..Len(s) /\ r[i] = s[i - Len(q)]
    BY <1>2, <1>3
  <2>2. QED
    BY <2>1 DEF In
<1>4. ASSUME NEW t \in Targets, NEW j \in 1..Len(r), r[j] = Event("attached", t)
      PROVE  /\ tb[t] # "none"
             /\ tb[t] = "gone" => \E i \in 1..Len(r) : i > j /\ r[i] = Event("gone", t)
  <2>1. CASE j \in 1..Len(q)
    <3>1. q[j] = Event("attached", t)
      BY <1>2, <1>4, <2>1
    <3>2. tb[t] # "none"
      BY <2>1, <3>1 DEF TabsInOrder
    <3>3. ASSUME tb[t] = "gone"
          PROVE  \E i \in 1..Len(r) : i > j /\ r[i] = Event("gone", t)
      <4>1. PICK i \in 1..Len(q) : i > j /\ q[i] = Event("gone", t)
        BY <2>1, <3>1, <3>3 DEF TabsInOrder
      <4>2. i \in 1..Len(r) /\ r[i] = Event("gone", t)
        BY <1>2, <4>1
      <4>3. QED
        BY <4>1, <4>2
    <3>4. QED
      BY <3>2, <3>3
  <2>2. CASE j \notin 1..Len(q)
    BY <1>3, <1>4, <2>2
  <2>3. QED
    BY <2>1, <2>2
<1>5. ASSUME NEW t \in Targets, NEW i \in 1..Len(r), NEW j \in 1..Len(r),
             r[i] = Event("gone", t)
      PROVE  tb[t] = "gone" /\ (r[j] = r[i] => i = j)
  <2>1. i \in 1..Len(q) /\ q[i] = Event("gone", t)
    BY <1>2, <1>3, <1>5
  <2>2. ASSUME r[j] = r[i] PROVE i = j
    <3>1. j \in 1..Len(q) /\ q[j] = Event("gone", t)
      BY <1>2, <1>3, <1>5, <2>2
    <3>2. QED
      BY <2>1, <3>1 DEF TabsInOrder
  <2>3. QED
    BY <2>1, <2>2 DEF TabsInOrder
<1>6. QED
  BY <1>1, <1>2, <1>4, <1>5 DEF TabsInOrder

LEMMA OneFacts ==
  ASSUME NEW e \in Events
  PROVE  <<e>> \in Seq(Events) /\ Len(<<e>>) = 1 /\ \A f : In(<<e>>, f) <=> f = e
<1>1. <<e>> \in Seq(Events) /\ Len(<<e>>) = 1 /\ <<e>>[1] = e
  OBVIOUS
<1>2. QED
  BY <1>1 DEF In

LEMMA TwoFacts ==
  ASSUME NEW e \in Events, NEW f \in Events
  PROVE  /\ <<e, f>> \in Seq(Events) /\ Len(<<e, f>>) = 2
         /\ <<e, f>>[1] = e /\ <<e, f>>[2] = f
         /\ \A g : In(<<e, f>>, g) <=> g = e \/ g = f
<1>1. <<e, f>> \in Seq(Events) /\ Len(<<e, f>>) = 2 /\ <<e, f>>[1] = e /\ <<e, f>>[2] = f
  OBVIOUS
<1>2. PICK s : s = <<e, f>>
  OBVIOUS
<1>3. Len(s) = 2 /\ s[1] = e /\ s[2] = f
  BY <1>1, <1>2
<1>4. \A g : In(s, g) <=> g = e \/ g = f
  BY <1>3 DEF In
<1>5. QED
  BY <1>1, <1>2, <1>4

\* The end of a tab is told after all else.
LEMMA GoneInOrder ==
  ASSUME NEW q \in Seq(Events), NEW tb, NEW tb2, NEW t \in Targets,
         TabsInOrder(q, tb), tb[t] # "gone", tb2[t] = "gone",
         \A u \in Targets : u # t => tb2[u] = tb[u]
  PROVE  /\ TabsInOrder(Append(q, Event("gone", t)), tb2)
         /\ \A u \in Targets :
              In(Append(q, Event("gone", t)), Event("gone", u)) <=> In(q, Event("gone", u)) \/ u = t
<1>1. PICK r : r = Append(q, Event("gone", t))
  OBVIOUS
<1>e. Event("gone", t) \in Events
  BY DEF Events, Event
<1>2. /\ Len(q) \in Nat /\ Len(r) = Len(q) + 1 /\ r[Len(q) + 1] = Event("gone", t)
      /\ \A i \in 1..Len(q) : r[i] = q[i]
  BY <1>1, <1>e, AppendProperties
<1>d. ASSUME NEW u \in Targets, NEW w \in Targets
      PROVE  Event("gone", u) # Event("attached", w) /\ (Event("gone", u) = Event("gone", w) => u = w)
  <2>1. /\ Event("gone", u).kind = "gone" /\ Event("attached", w).kind = "attached"
        /\ Event("gone", u).tab = u /\ Event("gone", w).tab = w
    BY DEF Event
  <2>2. QED
    BY <2>1
<1>3. ASSUME NEW u \in Targets, NEW j \in 1..Len(r), r[j] = Event("attached", u)
      PROVE  /\ tb2[u] # "none"
             /\ tb2[u] = "gone" => \E i \in 1..Len(r) : i > j /\ r[i] = Event("gone", u)
  <2>1. j # Len(q) + 1
    BY <1>2, <1>3, <1>d
  <2>2. j \in 1..Len(q) /\ q[j] = Event("attached", u)
    BY <1>2, <1>3, <2>1
  <2>3. CASE u = t
    BY <1>2, <2>2, <2>3
  <2>4. CASE u # t
    <3>1. tb2[u] # "none"
      BY <2>2, <2>4 DEF TabsInOrder
    <3>2. ASSUME tb2[u] = "gone"
          PROVE  \E i \in 1..Len(r) : i > j /\ r[i] = Event("gone", u)
      <4>1. PICK i \in 1..Len(q) : i > j /\ q[i] = Event("gone", u)
        BY <2>2, <2>4, <3>2 DEF TabsInOrder
      <4>2. i \in 1..Len(r) /\ r[i] = Event("gone", u)
        BY <1>2, <4>1
      <4>3. QED
        BY <4>1, <4>2
    <3>3. QED
      BY <3>1, <3>2
  <2>5. QED
    BY <2>3, <2>4
<1>4. \A i \in 1..Len(q) : q[i] # Event("gone", t)
  BY DEF TabsInOrder
<1>5. ASSUME NEW u \in Targets, NEW i \in 1..Len(r), NEW j \in 1..Len(r),
             r[i] = Event("gone", u)
      PROVE  tb2[u] = "gone" /\ (r[j] = r[i] => i = j)
  <2>1. CASE u = t
    <3>1. \A k \in 1..Len(r) : r[k] = Event("gone", t) => k = Len(q) + 1
      BY <1>2, <1>4
    <3>2. QED
      BY <1>5, <2>1, <3>1
  <2>2. CASE u # t
    <3>1. \A k \in 1..Len(r) : r[k] = Event("gone", u) => k \in 1..Len(q) /\ q[k] = Event("gone", u)
      BY <1>2, <1>d, <2>2
    <3>2. QED
      BY <1>5, <2>2, <3>1 DEF TabsInOrder
  <2>3. QED
    BY <2>1, <2>2
<1>6. ASSUME NEW u \in Targets PROVE In(r, Event("gone", u)) <=> In(q, Event("gone", u)) \/ u = t
  <2>1. ASSUME In(r, Event("gone", u)) PROVE In(q, Event("gone", u)) \/ u = t
    BY <1>2, <1>d, <2>1 DEF In
  <2>2. ASSUME In(q, Event("gone", u)) PROVE In(r, Event("gone", u))
    BY <1>2, <2>2 DEF In
  <2>3. Len(q) + 1 \in 1..Len(r)
    BY <1>2
  <2>4. In(r, Event("gone", t))
    BY <1>2, <2>3 DEF In
  <2>5. QED
    BY <2>1, <2>2, <2>4
<1>7. QED
  BY <1>1, <1>3, <1>5, <1>6 DEF TabsInOrder

\* Tabs that come, or that are told to close.
LEMMA TabsMoveInOrder ==
  ASSUME NEW q, NEW tb, NEW tb2, TabsInOrder(q, tb),
         \A t \in Targets :
           tb2[t] = tb[t] \/ (tb2[t] \in {"open", "closing"} /\ tb[t] # "gone")
  PROVE  TabsInOrder(q, tb2)
  BY DEF TabsInOrder

\* A reply to createTarget, at the head of the queue, is the only one to its
\* call, which is no longer asked then.
LEMMA ReplyInOrder ==
  ASSUME NEW q \in Seq(Events), q # << >>, NEW cl, NEW cl2, NEW ct, NEW c \in Calls,
         CallsInOrder(q, cl, ct), cl2[c] # "asked",
         \A d \in Calls : d # c => cl2[d] = cl[d],
         \A d \in Calls : ct[d] \in Targets \cup {NoTarget},
         Head(q) = RefusedEvent(c) \/ \E t \in Targets : Head(q) = CreatedEvent(c, t)
  PROVE  CallsInOrder(Tail(q), cl2, ct)
<1>1. PICK r : r = Tail(q)
  OBVIOUS
<1>2. /\ r \in Seq(Events) /\ Head(q) = q[1] /\ Len(q) \in Nat \ {0}
      /\ Len(r) = Len(q) - 1 /\ \A i \in 1..Len(r) : r[i] = q[i + 1] /\ i + 1 \in 1..Len(q)
      /\ 1 \in 1..Len(q)
      /\ \A e : In(q, e) => In(r, e) \/ e = Head(q)
  BY <1>1, TailFacts
<1>3. ASSUME NEW t \in Targets, NEW i \in 1..Len(r), r[i] = CreatedEvent(c, t) PROVE FALSE
  <2>1. i + 1 \in 1..Len(q) /\ q[i + 1] = CreatedEvent(c, t)
    BY <1>2, <1>3
  <2>2. ct[c] = t
    BY <2>1 DEF CallsInOrder
  <2>3. ASSUME Head(q) = RefusedEvent(c) PROVE FALSE
    <3>1. ct[c] = NoTarget
      BY <1>2, <2>3 DEF CallsInOrder
    <3>2. QED
      BY <2>2, <3>1, TargetsAssumption
  <2>4. ASSUME NEW u \in Targets, Head(q) = CreatedEvent(c, u) PROVE FALSE
    <3>1. ct[c] = u
      BY <1>2, <2>4 DEF CallsInOrder
    <3>2. q[1] = q[i + 1]
      BY <1>2, <2>1, <2>2, <2>4, <3>1
    <3>3. 1 = i + 1
      BY <1>2, <2>1, <3>2 DEF CallsInOrder
    <3>4. QED
      BY <3>3
  <2>5. QED
    BY <2>3, <2>4
<1>4. ASSUME NEW i \in 1..Len(r), r[i] = RefusedEvent(c) PROVE FALSE
  <2>1. i + 1 \in 1..Len(q) /\ q[i + 1] = RefusedEvent(c)
    BY <1>2, <1>4
  <2>2. ct[c] = NoTarget
    BY <2>1 DEF CallsInOrder
  <2>3. ASSUME NEW u \in Targets, Head(q) = CreatedEvent(c, u) PROVE FALSE
    <3>1. ct[c] = u
      BY <1>2, <2>3 DEF CallsInOrder
    <3>2. QED
      BY <2>2, <3>1, TargetsAssumption
  <2>4. ASSUME Head(q) = RefusedEvent(c) PROVE FALSE
    <3>1. q[1] = q[i + 1]
      BY <1>2, <2>1, <2>4
    <3>2. 1 = i + 1
      BY <1>2, <2>1, <3>1 DEF CallsInOrder
    <3>3. QED
      BY <3>2
  <2>5. QED
    BY <2>3, <2>4
<1>5. ASSUME NEW d \in Calls, NEW t \in Targets, NEW i \in 1..Len(r), NEW j \in 1..Len(r),
             r[i] = CreatedEvent(d, t)
      PROVE  ct[d] = t /\ cl2[d] = "asked" /\ (r[j] = r[i] => i = j)
  <2>1. d # c
    BY <1>3, <1>5
  <2>2. /\ i + 1 \in 1..Len(q) /\ q[i + 1] = CreatedEvent(d, t)
        /\ j + 1 \in 1..Len(q) /\ q[j + 1] = r[j]
    BY <1>2, <1>5
  <2>3. ct[d] = t /\ cl[d] = "asked" /\ (q[j + 1] = q[i + 1] => i + 1 = j + 1)
    BY <2>2 DEF CallsInOrder
  <2>4. QED
    BY <1>5, <2>1, <2>2, <2>3
<1>6. ASSUME NEW d \in Calls, NEW i \in 1..Len(r), NEW j \in 1..Len(r), r[i] = RefusedEvent(d)
      PROVE  ct[d] = NoTarget /\ cl2[d] = "asked" /\ (r[j] = r[i] => i = j)
  <2>1. d # c
    BY <1>4, <1>6
  <2>2. /\ i + 1 \in 1..Len(q) /\ q[i + 1] = RefusedEvent(d)
        /\ j + 1 \in 1..Len(q) /\ q[j + 1] = r[j]
    BY <1>2, <1>6
  <2>3. ct[d] = NoTarget /\ cl[d] = "asked" /\ (q[j + 1] = q[i + 1] => i + 1 = j + 1)
    BY <2>2 DEF CallsInOrder
  <2>4. QED
    BY <1>6, <2>1, <2>2, <2>3
<1>7. ASSUME NEW d \in Calls, cl2[d] = "asked", ct[d] # NoTarget
      PROVE  In(r, CreatedEvent(d, ct[d]))
  <2>1. d # c /\ cl[d] = "asked"
    BY <1>7
  <2>2. In(q, CreatedEvent(d, ct[d]))
    BY <1>7, <2>1 DEF CallsInOrder
  <2>3. /\ CreatedEvent(d, ct[d]).call = d /\ CreatedEvent(d, ct[d]).kind = "created"
        /\ RefusedEvent(c).kind = "refused" /\ \A t \in Targets : CreatedEvent(c, t).call = c
    BY DEF CreatedEvent, RefusedEvent
  <2>4. CreatedEvent(d, ct[d]) # Head(q)
    BY <2>1, <2>3
  <2>5. QED
    BY <1>2, <2>2, <2>4
<1>8. QED
  BY <1>1, <1>5, <1>6, <1>7 DEF CallsInOrder

LEMMA OtherInOrder ==
  ASSUME NEW q \in Seq(Events), q # << >>, NEW cl, NEW ct,
         CallsInOrder(q, cl, ct), Head(q).kind \notin {"created", "refused"}
  PROVE  CallsInOrder(Tail(q), cl, ct)
<1>1. PICK r : r = Tail(q)
  OBVIOUS
<1>2. /\ r \in Seq(Events) /\ Head(q) = q[1] /\ Len(q) \in Nat \ {0}
      /\ Len(r) = Len(q) - 1 /\ \A i \in 1..Len(r) : r[i] = q[i + 1] /\ i + 1 \in 1..Len(q)
      /\ \A e : In(q, e) => In(r, e) \/ e = Head(q)
  BY <1>1, TailFacts
<1>3. ASSUME NEW d \in Calls, NEW t \in Targets, NEW i \in 1..Len(r), NEW j \in 1..Len(r),
             r[i] = CreatedEvent(d, t)
      PROVE  ct[d] = t /\ cl[d] = "asked" /\ (r[j] = r[i] => i = j)
  <2>1. /\ i + 1 \in 1..Len(q) /\ q[i + 1] = CreatedEvent(d, t)
        /\ j + 1 \in 1..Len(q) /\ q[j + 1] = r[j]
    BY <1>2, <1>3
  <2>2. ct[d] = t /\ cl[d] = "asked" /\ (q[j + 1] = q[i + 1] => i + 1 = j + 1)
    BY <2>1 DEF CallsInOrder
  <2>3. QED
    BY <1>3, <2>1, <2>2
<1>4. ASSUME NEW d \in Calls, NEW i \in 1..Len(r), NEW j \in 1..Len(r), r[i] = RefusedEvent(d)
      PROVE  ct[d] = NoTarget /\ cl[d] = "asked" /\ (r[j] = r[i] => i = j)
  <2>1. /\ i + 1 \in 1..Len(q) /\ q[i + 1] = RefusedEvent(d)
        /\ j + 1 \in 1..Len(q) /\ q[j + 1] = r[j]
    BY <1>2, <1>4
  <2>2. ct[d] = NoTarget /\ cl[d] = "asked" /\ (q[j + 1] = q[i + 1] => i + 1 = j + 1)
    BY <2>1 DEF CallsInOrder
  <2>3. QED
    BY <1>4, <2>1, <2>2
<1>5. ASSUME NEW d \in Calls, cl[d] = "asked", ct[d] # NoTarget
      PROVE  In(r, CreatedEvent(d, ct[d]))
  <2>1. In(q, CreatedEvent(d, ct[d]))
    BY <1>5 DEF CallsInOrder
  <2>2. CreatedEvent(d, ct[d]).kind = "created"
    BY DEF CreatedEvent
  <2>3. QED
    BY <1>2, <2>1, <2>2
<1>6. QED
  BY <1>1, <1>3, <1>4, <1>5 DEF CallsInOrder

\* Events that are no replies, and calls that are answered or fail otherwise.
LEMMA CallsMoreInOrder ==
  ASSUME NEW q \in Seq(Events), NEW s \in Seq(Events), NEW cl, NEW ct, CallsInOrder(q, cl, ct),
         \A i \in 1..Len(s) : s[i].kind \notin {"created", "refused"}
  PROVE  CallsInOrder(q \o s, cl, ct)
<1>1. PICK r : r = q \o s
  OBVIOUS
<1>2. /\ r \in Seq(Events) /\ Len(r) = Len(q) + Len(s)
      /\ Len(q) \in Nat /\ Len(s) \in Nat
      /\ \A i \in 1..Len(q) : r[i] = q[i]
      /\ \A i \in 1..Len(s) : r[Len(q) + i] = s[i]
      /\ \A i \in 1..Len(r) :
           i \in 1..Len(q) \/ (i - Len(q) \in 1..Len(s) /\ i = Len(q) + (i - Len(q)))
      /\ \A e : In(r, e) <=> In(q, e) \/ In(s, e)
  BY <1>1, MoreFacts
<1>3. \A i \in 1..Len(r) : r[i].kind \in {"created", "refused"} => i \in 1..Len(q) /\ r[i] = q[i]
  BY <1>2
<1>4. \A d \in Calls, t \in Targets :
        CreatedEvent(d, t).kind = "created" /\ RefusedEvent(d).kind = "refused"
  BY DEF CreatedEvent, RefusedEvent
<1>5. ASSUME NEW d \in Calls, NEW t \in Targets, NEW i \in 1..Len(r), NEW j \in 1..Len(r),
             r[i] = CreatedEvent(d, t)
      PROVE  ct[d] = t /\ cl[d] = "asked" /\ (r[j] = r[i] => i = j)
  <2>1. i \in 1..Len(q) /\ q[i] = CreatedEvent(d, t)
    BY <1>3, <1>4, <1>5
  <2>2. r[j] = r[i] => j \in 1..Len(q) /\ q[j] = q[i]
    BY <1>3, <1>4, <1>5, <2>1
  <2>3. QED
    BY <2>1, <2>2 DEF CallsInOrder
<1>6. ASSUME NEW d \in Calls, NEW i \in 1..Len(r), NEW j \in 1..Len(r), r[i] = RefusedEvent(d)
      PROVE  ct[d] = NoTarget /\ cl[d] = "asked" /\ (r[j] = r[i] => i = j)
  <2>0. RefusedEvent(d).kind = "refused"
    BY DEF RefusedEvent
  <2>1. i \in 1..Len(q) /\ q[i] = RefusedEvent(d)
    BY <1>3, <2>0, <1>6
  <2>2. r[j] = r[i] => j \in 1..Len(q) /\ q[j] = q[i]
    BY <1>3, <2>0, <1>6, <2>1
  <2>3. QED
    BY <2>1, <2>2 DEF CallsInOrder
<1>7. QED
  BY <1>1, <1>2, <1>5, <1>6 DEF CallsInOrder

LEMMA CallsMoveInOrder ==
  ASSUME NEW q, NEW cl, NEW cl2, NEW ct, CallsInOrder(q, cl, ct),
         \A c \in Calls : cl[c] = "asked" => cl2[c] = "asked",
         \A c \in Calls : cl2[c] = "asked" => cl[c] = "asked" \/ ct[c] = NoTarget
  PROVE  CallsInOrder(q, cl2, ct)
  BY DEF CallsInOrder

\* createTarget is answered.
LEMMA NewReplyInOrder ==
  ASSUME NEW q \in Seq(Events), NEW cl, NEW ct, NEW ct2, NEW c \in Calls, NEW e \in Events,
         CallsInOrder(q, cl, ct), cl[c] = "asked", ct[c] = NoTarget,
         ~In(q, RefusedEvent(c)),
         \A d \in Calls : d # c => ct2[d] = ct[d],
         \/ e = RefusedEvent(c) /\ ct2[c] = NoTarget
         \/ ct2[c] \in Targets /\ e = CreatedEvent(c, ct2[c])
  PROVE  CallsInOrder(Append(q, e), cl, ct2)
<1>1. PICK r : r = Append(q, e)
  OBVIOUS
<1>2. /\ Len(q) \in Nat /\ Len(r) = Len(q) + 1 /\ r[Len(q) + 1] = e
      /\ \A i \in 1..Len(q) : r[i] = q[i]
      /\ \A i \in 1..Len(r) : i \in 1..Len(q) \/ i = Len(q) + 1
  BY <1>1, AppendProperties
<1>3. /\ e.call = c /\ e.kind \in {"created", "refused"}
      /\ e.kind = "created" => ct2[c] \in Targets /\ e = CreatedEvent(c, ct2[c])
      /\ e.kind = "refused" => ct2[c] = NoTarget
  BY DEF CreatedEvent, RefusedEvent
<1>4. \A d \in Calls, t \in Targets :
        /\ CreatedEvent(d, t).kind = "created" /\ CreatedEvent(d, t).call = d
        /\ CreatedEvent(d, t).tab = t
  BY DEF CreatedEvent
<1>5. \A d \in Calls : RefusedEvent(d).kind = "refused" /\ RefusedEvent(d).call = d
  BY DEF RefusedEvent
<1>6. \A i \in 1..Len(q) : \A t \in Targets : q[i] # CreatedEvent(c, t) /\ q[i] # RefusedEvent(c)
  BY TargetsAssumption DEF CallsInOrder, In
<1>7. ASSUME NEW d \in Calls, NEW t \in Targets, NEW i \in 1..Len(r), NEW j \in 1..Len(r),
             r[i] = CreatedEvent(d, t)
      PROVE  ct2[d] = t /\ cl[d] = "asked" /\ (r[j] = r[i] => i = j)
  <2>1. CASE d = c
    <3>1. \A k \in 1..Len(r) : r[k] = CreatedEvent(c, t) => k = Len(q) + 1
      BY <1>2, <1>6
    <3>2. e = CreatedEvent(c, t)
      BY <1>2, <1>7, <2>1, <3>1
    <3>3. ct2[c] = t
      BY <1>3, <1>4, <3>2
    <3>4. QED
      BY <1>7, <2>1, <3>1, <3>3
  <2>2. CASE d # c
    <3>1. \A k \in 1..Len(r) : r[k] = CreatedEvent(d, t) => k \in 1..Len(q) /\ q[k] = CreatedEvent(d, t)
      BY <1>2, <1>3, <1>4, <2>2
    <3>2. QED
      BY <1>7, <2>2, <3>1 DEF CallsInOrder
  <2>3. QED
    BY <2>1, <2>2
<1>8. ASSUME NEW d \in Calls, NEW i \in 1..Len(r), NEW j \in 1..Len(r), r[i] = RefusedEvent(d)
      PROVE  ct2[d] = NoTarget /\ cl[d] = "asked" /\ (r[j] = r[i] => i = j)
  <2>1. CASE d = c
    <3>0. \A k \in 1..Len(q) : q[k] # RefusedEvent(c)
      BY DEF In
    <3>1. \A k \in 1..Len(r) : r[k] = RefusedEvent(c) => k = Len(q) + 1
      BY <1>2, <3>0
    <3>2. e = RefusedEvent(c)
      BY <1>2, <1>8, <2>1, <3>1
    <3>3. QED
      BY <1>3, <1>5, <1>8, <2>1, <3>1, <3>2
  <2>2. CASE d # c
    <3>1. \A k \in 1..Len(r) : r[k] = RefusedEvent(d) => k \in 1..Len(q) /\ q[k] = RefusedEvent(d)
      BY <1>2, <1>3, <1>5, <2>2
    <3>2. QED
      BY <1>8, <2>2, <3>1 DEF CallsInOrder
  <2>3. QED
    BY <2>1, <2>2
<1>9. ASSUME NEW d \in Calls, cl[d] = "asked", ct2[d] # NoTarget
      PROVE  In(r, CreatedEvent(d, ct2[d]))
  <2>1. CASE d = c
    <3>1. e = CreatedEvent(c, ct2[c]) /\ Len(q) + 1 \in 1..Len(r)
      BY <1>2, <1>3, <1>9, <2>1
    <3>2. QED
      BY <1>2, <2>1, <3>1 DEF In
  <2>2. CASE d # c
    <3>1. In(q, CreatedEvent(d, ct[d])) /\ ct2[d] = ct[d]
      BY <1>9, <2>2 DEF CallsInOrder
    <3>2. PICK i \in 1..Len(q) : q[i] = CreatedEvent(d, ct[d])
      BY <3>1 DEF In
    <3>3. i \in 1..Len(r) /\ r[i] = CreatedEvent(d, ct2[d])
      BY <1>2, <3>1, <3>2
    <3>4. QED
      BY <3>3 DEF In
  <2>3. QED
    BY <2>1, <2>2
<1>10. QED
  BY <1>1, <1>7, <1>8, <1>9 DEF CallsInOrder

-----------------------------------------------------------------------------
(* What the actions have in common.                                        *)

LEMMA AdapterTab == ASSUME NEW a \in Adapters PROVE a[1] \in Targets /\ a # NoAdapter
  BY TargetsAssumption

LEMMA MapTyped ==
  ASSUME ContextTypeOK, NEW t \in Targets
  PROVE  /\ pages[t] # NoAdapter => pages[t] \in Adapters
         /\ pending[t] # NoAdapter => pending[t] \in Adapters
         /\ initializing[t] # NoAdapter => initializing[t] \in Adapters
  BY DEF ContextTypeOK, TargetsTypeOK

LeftKept == \A t \in Targets : Left(t)' <=> Left(t)

\* Where the browser is left alone, but for tabs that are told to close.
LEMMA QueueKept ==
  ASSUME Queue, events' = events, callTab' = callTab,
         \A t \in Targets : tab'[t] = tab[t] \/ (tab[t] = "open" /\ tab'[t] = "closing"),
         \A c \in Calls : call[c] = "asked" => call'[c] = "asked",
         \A c \in Calls : call'[c] = "asked" => call[c] = "asked" \/ callTab[c] = NoTarget
  PROVE  Queue' /\ LeftKept
<1>1. TabsInOrder(events, tab')
  BY TabsMoveInOrder DEF Queue
<1>2. CallsInOrder(events, call', callTab)
  BY CallsMoveInOrder DEF Queue
<1>3. LeftKept
  BY DEF LeftKept, Left
<1>4. QED
  BY <1>1, <1>2, <1>3 DEF Queue

\* Where only the browser moves.
LEMMA AdaptersKept ==
  ASSUME IInv, LeftKept,
         \A t \in Targets : tab'[t] = "none" => tab[t] = "none",
         UNCHANGED <<pageVars, manualVars, closeVars, historyVars, pageSet, opener, announced>>
  PROVE  CallsPlaced' /\ AdaptersInv' /\ Waiting' = Waiting
<1>1. CallsPlaced'
  BY DEF IInv, CallsPlaced, manualVars, ContextTypeOK, TargetsTypeOK
<1>2. Maps'
  BY DEF IInv, AdaptersInv, Maps, pageVars, manualVars, historyVars
<1>3. Placed' /\ Gone'
  BY AdapterTab DEF IInv, AdaptersInv, LeftKept, Placed, Gone, Young, Grown, Shown, pageVars, closeVars, historyVars
<1>4. Alone' /\ Single'
  BY AdapterTab DEF IInv, AdaptersInv, LeftKept, Alone, Early, Single, Own, pageVars, manualVars, closeVars, historyVars
<1>5. Taken' /\ Counted'
  BY AdapterTab DEF IInv, AdaptersInv, LeftKept, Taken, Early, Counted, Own, Returned, pageVars, manualVars, closeVars, historyVars, ContextTypeOK, TargetsTypeOK
<1>6. Waiting' = Waiting
  BY DEF Waiting, manualVars
<1>7. QED
  BY <1>1, <1>2, <1>3, <1>4, <1>5, <1>6 DEF AdaptersInv

LEMMA WaitingFinite == IsFiniteSet(Waiting) /\ Cardinality(Waiting) \in Nat
<1>1. Waiting \subseteq Calls
  BY DEF Waiting
<1>2. QED
  BY <1>1, FS_Subset, FS_CardinalityType, TargetsAssumption

LEMMA WaitingFiniteNext == IsFiniteSet(Waiting') /\ Cardinality(Waiting') \in Nat
<1>1. Waiting' \subseteq Calls
  BY DEF Waiting
<1>2. QED
  BY <1>1, FS_Subset, FS_CardinalityType, TargetsAssumption

\* No more calls are counted than wait.
LEMMA StillWaiting ==
  ASSUME ContextTypeOK, manualPending <= Cardinality(Waiting), Waiting \subseteq Waiting',
         manualPending' = manualPending
  PROVE  manualPending' <= Cardinality(Waiting')
<1>1. Cardinality(Waiting) <= Cardinality(Waiting')
  BY WaitingFiniteNext, FS_Subset
<1>2. QED
  BY <1>1, WaitingFinite, WaitingFiniteNext DEF ContextTypeOK, TargetsTypeOK

LEMMA OneLessWaiting ==
  ASSUME ContextTypeOK, manualPending <= Cardinality(Waiting),
         NEW c, Waiting \ {c} \subseteq Waiting',
         \/ manualPending' = manualPending - 1 /\ manualPending > 0
         \/ manualPending' = 0
         \/ manualPending' = manualPending /\ c \notin Waiting
  PROVE  manualPending' <= Cardinality(Waiting')
<1>1. Cardinality(Waiting \ {c}) <= Cardinality(Waiting')
  BY WaitingFiniteNext, FS_Subset
<1>2. Cardinality(Waiting) <= Cardinality(Waiting \ {c}) + 1 /\ Cardinality(Waiting \ {c}) \in Nat
  BY WaitingFinite, FS_RemoveElement, FS_CardinalityType, FS_Subset
<1>3. c \notin Waiting => Cardinality(Waiting \ {c}) = Cardinality(Waiting)
  <2>1. c \notin Waiting => Waiting \ {c} = Waiting
    OBVIOUS
  <2>2. QED
    BY <2>1
<1>4. manualPending \in Nat
  BY FS_CardinalityType, TargetsAssumption DEF ContextTypeOK, TargetsTypeOK
<1>5. PICK n \in Nat, m \in Nat, k \in Nat :
        n = Cardinality(Waiting) /\ m = Cardinality(Waiting') /\ k = Cardinality(Waiting \ {c})
  BY <1>2, WaitingFinite, WaitingFiniteNext
<1>6. QED
  BY <1>1, <1>2, <1>3, <1>4, <1>5

\* As no call is counted that does not wait, all of them fit the type.
LEMMA CountTyped ==
  ASSUME manualPending' \in Nat, manualPending' <= Cardinality(Waiting')
  PROVE  manualPending' \in 0..Cardinality(Calls)
<1>1. Waiting' \subseteq Calls
  BY DEF Waiting
<1>2. Cardinality(Waiting') <= Cardinality(Calls) /\ Cardinality(Calls) \in Nat
  BY <1>1, FS_Subset, FS_CardinalityType, TargetsAssumption
<1>3. QED
  BY <1>2, WaitingFiniteNext

-----------------------------------------------------------------------------
(* The browser.                                                            *)

LEMMA InitIInv == Init => IInv
<1> SUFFICES ASSUME Init PROVE IInv
  OBVIOUS
<1>1. /\ events = << >> /\ Len(events) = 0
  BY DEF Init, TargetsInit
<1>2. Cardinality(Calls) \in Nat
  BY FS_CardinalityType, TargetsAssumption
<1>3. ContextTypeOK
  <2>1. events \in Seq(Events)
    BY DEF Init, TargetsInit
  <2>2. manualPending \in 0..Cardinality(Calls) /\ polls \in 0..MaxPolls
    BY <1>2, TargetsAssumption DEF Init, TargetsInit
  <2>3. tab \in [Targets -> {"none", "open", "closing", "gone"}]
    BY DEF Init, TargetsInit
  <2>4. /\ stage \in [Adapters -> Stages]
        /\ pages \in [Targets -> Adapters \cup {NoAdapter}]
        /\ pending \in [Targets -> Adapters \cup {NoAdapter}]
        /\ initializing \in [Targets -> Adapters \cup {NoAdapter}]
        /\ call \in [Calls -> {"idle", "asked", "looking", "awaiting", "registering",
                               "done", "failed"}]
        /\ callTab \in [Calls -> Targets \cup {NoTarget}]
        /\ callPage \in [Calls -> Adapters \cup {NoAdapter}]
        /\ opener \in [Adapters -> Adapters \cup {NoAdapter}]
        /\ announced \in [Adapters -> 0..2]
    BY DEF Init, TargetsInit, Stages
  <2>5. QED
    BY <2>1, <2>2, <2>3, <2>4 DEF Init, TargetsInit, ContextTypeOK, TargetsTypeOK
<1>4. Queue
  BY <1>1 DEF Queue, TabsInOrder, CallsInOrder, In, Init, TargetsInit
<1>5. CallsPlaced
  BY DEF CallsPlaced, Init, TargetsInit
<1>6. Maps
  BY DEF Maps, Init, TargetsInit
<1>7. \A t \in Targets : ~Left(t)
  BY DEF Left, Init, TargetsInit
<1>8. Placed /\ Gone
  BY <1>7, AdapterTab, TargetsAssumption DEF Placed, Gone, Young, Grown, Shown, Init, TargetsInit
<1>9. Alone /\ Taken /\ Single /\ Counted
  BY DEF Alone, Early, Taken, Single, Counted, Init, TargetsInit
<1>10. manualPending <= Cardinality(Waiting)
  BY WaitingFinite DEF Init, TargetsInit
<1>11. QED
  BY <1>3, <1>4, <1>5, <1>6, <1>8, <1>9, <1>10 DEF IInv, AdaptersInv

\* A step of the browser that is told, and of which no adapter or call hears
\* yet.
LEMMA BrowserMoves ==
  ASSUME IInv, ContextTypeOK', Queue', LeftKept,
         \A t \in Targets : tab'[t] = "none" => tab[t] = "none",
         UNCHANGED <<pageVars, manualVars, closeVars, historyVars, pageSet, opener, announced>>
  PROVE  IInv'
<1>1. CallsPlaced' /\ AdaptersInv' /\ Waiting' = Waiting
  BY AdaptersKept
<1>2. manualPending' <= Cardinality(Waiting')
  BY <1>1 DEF IInv, manualVars
<1>3. QED
  BY <1>1, <1>2 DEF IInv

LEMMA OpensMoves ==
  ASSUME ContextTypeOK, NEW t \in Targets, Opens(t)
  PROVE  /\ tab' \in [Targets -> {"none", "open", "closing", "gone"}]
         /\ tab[t] = "none" /\ tab'[t] = "open"
         /\ \A u \in Targets : u # t => tab'[u] = tab[u]
  BY DEF ContextTypeOK, TargetsTypeOK, Opens

LEMMA TabOpensIInv ==
  ASSUME IInv, NEW t \in Targets, TabOpens(t), UNCHANGED apiVars
  PROVE  IInv'
<1>1. ContextTypeOK /\ events \in Seq(Events)
  BY DEF IInv, ContextTypeOK, TargetsTypeOK
<1>2. /\ tab' \in [Targets -> {"none", "open", "closing", "gone"}]
      /\ tab[t] = "none" /\ tab'[t] = "open"
      /\ \A u \in Targets : u # t => tab'[u] = tab[u]
  BY <1>1, OpensMoves DEF TabOpens
<1>3. PICK s : s = <<Event("attached", t)>>
  OBVIOUS
<1>4. /\ s \in Seq(Events) /\ Len(s) = 1 /\ s[1].kind = "attached"
      /\ \A f : In(s, f) <=> f = Event("attached", t)
      /\ \A u \in Targets : Event("attached", u) # Event("gone", u)
      /\ \A u \in Targets : Event("attached", t) # Event("gone", u)
      /\ \A u \in Targets : Event("attached", u) = Event("attached", t) => u = t
  <2>1. Event("attached", t) \in Events
    BY DEF Event, Events
  <2>2. \A u, w \in Targets : /\ Event("attached", u).kind = "attached" /\ Event("gone", w).kind = "gone"
                              /\ Event("attached", u).tab = u
    BY DEF Event
  <2>3. QED
    BY <1>3, <2>1, <2>2, OneFacts
<1>5. events' = events \o s
  BY <1>1, <1>3, AppendIsConcat DEF TabOpens, Event, Events
<1>6. TabsInOrder(events, tab')
  BY <1>2, TabsMoveInOrder DEF IInv, Queue
<1>7. /\ TabsInOrder(events', tab')
      /\ \A u \in Targets : In(events', Event("gone", u)) <=> In(events, Event("gone", u))
  BY <1>1, <1>2, <1>4, <1>5, <1>6, MoreInOrder
<1>8. CallsInOrder(events', call', callTab')
  <2>1. \A i \in 1..Len(s) : s[i].kind \notin {"created", "refused"}
    BY <1>4
  <2>2. CallsInOrder(events, call, callTab) /\ call' = call /\ callTab' = callTab
    BY DEF IInv, Queue, TabOpens, manualVars
  <2>3. QED
    BY <1>1, <1>4, <1>5, <2>1, <2>2, CallsMoreInOrder
<1>9. ContextTypeOK'
  <2>1. events' \in Seq(Events)
    BY <1>1, <1>4, <1>5, MoreFacts
  <2>2. QED
    BY <1>1, <1>2, <2>1 DEF TabOpens, ContextTypeOK, TargetsTypeOK, pageVars, manualVars, closeVars,
                            historyVars, apiVars
<1>10. LeftKept
  BY <1>2, <1>7 DEF LeftKept, Left
<1>11. QED
  BY <1>2, <1>7, <1>8, <1>9, <1>10, BrowserMoves DEF Queue, TabOpens, apiVars

LEMMA TabGoesIInv ==
  ASSUME IInv, NEW t \in Targets, TabGoes(t), UNCHANGED apiVars
  PROVE  IInv'
<1>1. ContextTypeOK /\ events \in Seq(Events) /\ Event("gone", t) \in Events
  BY DEF IInv, ContextTypeOK, TargetsTypeOK, Event, Events
<1>2. /\ tab' \in [Targets -> {"none", "open", "closing", "gone"}]
      /\ tab[t] # "gone" /\ tab'[t] = "gone" /\ tab[t] # "none"
      /\ \A u \in Targets : u # t => tab'[u] = tab[u]
  BY <1>1 DEF TabGoes, ContextTypeOK, TargetsTypeOK
<1>3. events' = Append(events, Event("gone", t)) /\ events' \in Seq(Events)
  BY <1>1, AppendProperties DEF TabGoes
<1>4. /\ TabsInOrder(events', tab')
      /\ \A u \in Targets :
           In(events', Event("gone", u)) <=> In(events, Event("gone", u)) \/ u = t
  BY <1>1, <1>2, <1>3, GoneInOrder DEF IInv, Queue
<1>5. CallsInOrder(events', call', callTab')
  <2>1. PICK s : s = <<Event("gone", t)>>
    OBVIOUS
  <2>2. s \in Seq(Events) /\ Len(s) = 1 /\ s[1].kind = "gone" /\ events' = events \o s
    BY <1>1, <1>3, <2>1, OneFacts, AppendIsConcat DEF Event
  <2>3. \A i \in 1..Len(s) : s[i].kind \notin {"created", "refused"}
    BY <2>2
  <2>4. CallsInOrder(events, call, callTab) /\ call' = call /\ callTab' = callTab
    BY DEF IInv, Queue, TabGoes, manualVars
  <2>5. QED
    BY <1>1, <2>2, <2>3, <2>4, CallsMoreInOrder
<1>6. ContextTypeOK'
  BY <1>1, <1>2, <1>3 DEF TabGoes, ContextTypeOK, TargetsTypeOK, pageVars, manualVars, closeVars,
                          historyVars, apiVars
<1>7. LeftKept
  BY <1>2, <1>4 DEF LeftKept, Left
<1>8. QED
  BY <1>2, <1>4, <1>5, <1>6, <1>7, BrowserMoves DEF Queue, TabGoes, apiVars

LEMMA TabsListedIInv == ASSUME IInv, TabsListed, UNCHANGED apiVars PROVE IInv'
<1>1. ContextTypeOK /\ events \in Seq(Events)
  BY DEF IInv, ContextTypeOK, TargetsTypeOK
<1>2. PICK found \in SUBSET Targets :
        events' = Append(events, [kind |-> "targets", tabs |-> found])
  BY DEF TabsListed
<1>3. PICK e : e = [kind |-> "targets", tabs |-> found]
  OBVIOUS
<1>4. e \in Events /\ e.kind = "targets"
  BY <1>3 DEF Events
<1>5. PICK s : s = <<e>>
  OBVIOUS
<1>6. /\ s \in Seq(Events) /\ Len(s) = 1 /\ s[1] = e /\ \A f : In(s, f) <=> f = e
      /\ events' = events \o s /\ events' \in Seq(Events)
  BY <1>1, <1>2, <1>3, <1>4, <1>5, OneFacts, AppendIsConcat, AppendProperties
<1>7. \A u \in Targets : e # Event("gone", u) /\ e # Event("attached", u)
  <2>1. \A u \in Targets : Event("gone", u).kind = "gone" /\ Event("attached", u).kind = "attached"
    BY DEF Event
  <2>2. QED
    BY <1>4, <2>1
<1>8. /\ TabsInOrder(events', tab)
      /\ \A u \in Targets : In(events', Event("gone", u)) <=> In(events, Event("gone", u))
  BY <1>1, <1>6, <1>7, MoreInOrder DEF IInv, Queue
<1>9. CallsInOrder(events', call, callTab)
  <2>1. \A i \in 1..Len(s) : s[i].kind \notin {"created", "refused"}
    BY <1>4, <1>6
  <2>2. QED
    BY <1>1, <1>6, <2>1, CallsMoreInOrder DEF IInv, Queue
<1>10. tab' = tab /\ call' = call /\ callTab' = callTab /\ polls' = polls + 1 /\ polls < MaxPolls
  BY DEF TabsListed, manualVars
<1>11. ContextTypeOK'
  <2>1. polls' \in 0..MaxPolls
    BY <1>1, <1>10, TargetsAssumption DEF ContextTypeOK, TargetsTypeOK
  <2>2. QED
    BY <1>1, <1>6, <1>10, <2>1 DEF TabsListed, ContextTypeOK, TargetsTypeOK, pageVars, manualVars,
                                   closeVars, historyVars, apiVars
<1>12. LeftKept
  BY <1>8, <1>10 DEF LeftKept, Left
<1>13. QED
  BY <1>8, <1>9, <1>10, <1>11, <1>12, BrowserMoves DEF Queue, TabsListed, apiVars

\* The tab of a call is one that nobody has heard of.
LEMMA TabCreatedIInv ==
  ASSUME IInv, NEW c \in Calls, TabCreated(c), UNCHANGED apiVars
  PROVE  IInv'
<1>1. ContextTypeOK /\ events \in Seq(Events)
  BY DEF IInv, ContextTypeOK, TargetsTypeOK
<1>2. ~In(events, RefusedEvent(c)) /\ call[c] = "asked" /\ callTab[c] = NoTarget
  BY DEF TabCreated, InFlight, In, RefusedEvent
<1>3. UNCHANGED <<polls, pageVars, manualPending, creatingIds, manualIds, call, callPage,
                  closeVars, historyVars>>
  BY DEF TabCreated
<1>4. CASE /\ events' = Append(events, RefusedEvent(c))
           /\ UNCHANGED <<tab, callTab>>
  <2>1. RefusedEvent(c) \in Events /\ RefusedEvent(c).kind = "refused"
    BY DEF Events, RefusedEvent
  <2>2. PICK s : s = <<RefusedEvent(c)>>
    OBVIOUS
  <2>3. /\ s \in Seq(Events) /\ \A f : In(s, f) <=> f = RefusedEvent(c)
        /\ events' = events \o s /\ events' \in Seq(Events)
    BY <1>1, <1>4, <2>1, <2>2, OneFacts, AppendIsConcat, AppendProperties
  <2>4. \A u \in Targets : RefusedEvent(c) # Event("gone", u) /\ RefusedEvent(c) # Event("attached", u)
    <3>1. \A u \in Targets : Event("gone", u).kind = "gone" /\ Event("attached", u).kind = "attached"
      BY DEF Event
    <3>2. QED
      BY <2>1, <3>1
  <2>5. /\ TabsInOrder(events', tab)
        /\ \A u \in Targets : In(events', Event("gone", u)) <=> In(events, Event("gone", u))
    BY <1>1, <2>3, <2>4, MoreInOrder DEF IInv, Queue
  <2>6. CallsInOrder(events', call, callTab)
    BY <1>1, <1>2, <1>4, <2>1, NewReplyInOrder DEF IInv, Queue
  <2>7. ContextTypeOK'
    BY <1>1, <1>3, <1>4, <2>3 DEF ContextTypeOK, TargetsTypeOK, pageVars, manualVars, closeVars,
                                  historyVars, apiVars
  <2>8. LeftKept
    BY <1>4, <2>5 DEF LeftKept, Left
  <2>9. QED
    BY <1>3, <1>4, <2>5, <2>6, <2>7, <2>8, BrowserMoves DEF Queue, manualVars, apiVars
<1>5. ASSUME NEW t \in Targets, OpenerOf[t] = NoTarget, Opens(t),
             callTab' = [callTab EXCEPT ![c] = t],
             events' = events \o <<Event("attached", t), CreatedEvent(c, t)>>
      PROVE  IInv'
  <2>1. /\ tab' \in [Targets -> {"none", "open", "closing", "gone"}]
        /\ tab[t] = "none" /\ tab'[t] = "open"
        /\ \A u \in Targets : u # t => tab'[u] = tab[u]
    BY <1>1, <1>5, OpensMoves
  <2>2. /\ callTab' \in [Calls -> Targets \cup {NoTarget}]
        /\ callTab'[c] = t /\ \A d \in Calls : d # c => callTab'[d] = callTab[d]
    BY <1>1, <1>5 DEF ContextTypeOK, TargetsTypeOK
  <2>3. PICK e, f : e = Event("attached", t) /\ f = CreatedEvent(c, t)
    OBVIOUS
  <2>4. /\ e \in Events /\ f \in Events /\ e.kind = "attached" /\ f.kind = "created"
        /\ \A u \in Targets : Event("gone", u) # e /\ Event("gone", u) # f
        /\ \A u \in Targets : Event("attached", u) # f /\ (Event("attached", u) = e => u = t)
    <3>1. \A u, w \in Targets : /\ Event("attached", u).kind = "attached"
                                /\ Event("gone", w).kind = "gone" /\ Event("attached", u).tab = u
      BY DEF Event
    <3>2. e \in Events /\ f \in Events /\ e.kind = "attached" /\ f.kind = "created"
      BY <2>3 DEF Event, Events, CreatedEvent
    <3>3. QED
      BY <2>3, <3>1, <3>2
  <2>5. PICK s : s = <<e, f>>
    OBVIOUS
  <2>6. /\ s \in Seq(Events) /\ Len(s) = 2 /\ s[1] = e /\ s[2] = f
        /\ \A g : In(s, g) <=> g = e \/ g = f
        /\ events' = events \o s
    BY <1>5, <2>3, <2>4, <2>5, TwoFacts
  <2>7. TabsInOrder(events, tab')
    BY <2>1, TabsMoveInOrder DEF IInv, Queue
  <2>8. /\ TabsInOrder(events', tab')
        /\ \A u \in Targets : In(events', Event("gone", u)) <=> In(events, Event("gone", u))
    BY <1>1, <2>1, <2>4, <2>6, <2>7, MoreInOrder
  <2>9. events' \in Seq(Events) /\ events' = Append(Append(events, e), f)
        /\ Append(events, e) \in Seq(Events)
    <3>1. Append(events, e) \in Seq(Events) /\ Append(events, e) = events \o <<e>>
      BY <1>1, <2>4, AppendProperties, AppendIsConcat
    <3>2. Append(Append(events, e), f) = Append(events, e) \o <<f>>
      BY <2>4, <3>1, AppendIsConcat
    <3>3. (events \o <<e>>) \o <<f>> = events \o (<<e>> \o <<f>>)
      <4>1. <<e>> \in Seq(Events) /\ <<f>> \in Seq(Events)
        BY <2>4
      <4>2. QED
        BY <1>1, <4>1, ConcatAssociative
    <3>4. <<e>> \o <<f>> = <<e, f>>
      <4>1. PICK r : r = <<e>> \o <<f>>
        OBVIOUS
      <4>2. /\ <<e>> \in Seq(Events) /\ Len(<<e>>) = 1 /\ <<e>>[1] = e
            /\ <<f>> \in Seq(Events) /\ Len(<<f>>) = 1 /\ <<f>>[1] = f
        BY <2>4
      <4>3. r \in Seq(Events) /\ Len(r) = 2 /\ r[1] = e /\ r[2] = f
        BY <4>1, <4>2, ConcatProperties
      <4>4. \A i \in 1..Len(r) : r[i] = s[i]
        BY <2>6, <4>3
      <4>5. QED
        BY <2>5, <2>6, <4>1, <4>3, <4>4, SeqEqual
    <3>5. QED
      BY <1>1, <2>4, <2>5, <2>6, <3>1, <3>2, <3>3, <3>4, MoreFacts
  <2>10. CallsInOrder(Append(events, e), call, callTab)
    <3>1. PICK r : r = <<e>>
      OBVIOUS
    <3>2. /\ r \in Seq(Events) /\ Len(r) = 1 /\ r[1].kind = "attached"
          /\ Append(events, e) = events \o r
      BY <1>1, <2>4, <3>1, OneFacts, AppendIsConcat
    <3>3. \A i \in 1..Len(r) : r[i].kind \notin {"created", "refused"}
      BY <3>2
    <3>4. QED
      BY <1>1, <3>2, <3>3, CallsMoreInOrder DEF IInv, Queue
  <2>11. ~In(Append(events, e), RefusedEvent(c))
    <3>1. RefusedEvent(c).kind = "refused"
      BY DEF RefusedEvent
    <3>2. Append(events, e) = events \o <<e>> /\ <<e>> \in Seq(Events)
      BY <1>1, <2>4, AppendIsConcat
    <3>3. In(Append(events, e), RefusedEvent(c)) => In(events, RefusedEvent(c)) \/ In(<<e>>, RefusedEvent(c))
      BY <1>1, <3>2, MoreFacts
    <3>4. QED
      BY <1>2, <2>4, <3>1, <3>3, OneFacts
  <2>12. CallsInOrder(events', call, callTab')
    BY <1>2, <2>2, <2>3, <2>4, <2>9, <2>10, <2>11, NewReplyInOrder
  <2>13. ContextTypeOK'
    BY <1>1, <1>3, <2>1, <2>2, <2>9 DEF ContextTypeOK, TargetsTypeOK, pageVars, closeVars,
                                        historyVars, apiVars
  <2>14. LeftKept
    BY <2>1, <2>8 DEF LeftKept, Left
  <2>15. /\ t \notin creatingIds /\ \A a \in Adapters : a[1] = t => stage[a] = "unused"
         /\ \A d \in Calls : callTab[d] # t
    BY <2>1, TargetsAssumption DEF IInv, AdaptersInv, Maps, CallsPlaced
  <2>16. CallsPlaced'
    BY <1>2, <1>3, <1>5, <2>1, <2>2, <2>15 DEF IInv, CallsPlaced, ContextTypeOK, TargetsTypeOK
  <2>17. Maps' /\ Placed' /\ Gone'
    <3>1. Maps'
      BY <1>3, <2>1 DEF IInv, AdaptersInv, Maps, pageVars, historyVars
    <3>2. Placed' /\ Gone'
      BY <1>3, <2>14, AdapterTab
      DEF IInv, AdaptersInv, LeftKept, Placed, Gone, Young, Grown, Shown, pageVars, closeVars,
          historyVars, apiVars
    <3>3. QED
      BY <3>1, <3>2
  <2>18. Alone' /\ Single'
    <3>1. \A a \in Adapters : Early(a)' <=> Early(a)
      BY <1>3, <2>14, AdapterTab DEF LeftKept, Early, pageVars
    <3>2. Alone'
      BY <1>3, <3>1 DEF IInv, AdaptersInv, Alone, pageVars, closeVars, historyVars
    <3>3. \A a \in Adapters : a[1] # t => (Own(a[1]) => Own(a[1])')
      BY <1>2, <2>2, AdapterTab, TargetsAssumption DEF Own
    <3>4. \A a \in Adapters : a[1] = t => stage'[a] = "unused"
      BY <1>3, <2>15 DEF pageVars
    <3>5. Single'
      BY <1>3, <3>3, <3>4 DEF IInv, AdaptersInv, Single, pageVars, historyVars
    <3>6. QED
      BY <3>2, <3>5
  <2>19. Taken'
    <3>1. \A a \in Adapters : a[1] = t => ~Early(a)' /\ stage'[a] = "unused"
      BY <1>3, <2>15 DEF Early, pageVars
    <3>2. \A a \in Adapters : Early(a)' <=> Early(a)
      BY <1>3, <2>14, AdapterTab DEF LeftKept, Early, pageVars
    <3>3. SUFFICES ASSUME NEW d \in Calls, callTab'[d] # NoTarget, callTab'[d] \notin closedHere'
          PROVE  /\ call'[d] # "asked" => callTab'[d] \in manualIds' \/ Left(callTab[d])'
                 /\ \A a \in Adapters : a[1] = callTab'[d] =>
                      /\ Early(a)' /\ call'[d] # "asked" => a[1] \in creatingIds'
                      /\ stage'[a] = "installing" => call'[d] # "asked"
                      /\ stage'[a] \notin {"emitting", "announcing", "introducing"}
      BY DEF Taken
    <3>4. CASE d = c
      BY <1>2, <1>3, <2>2, <3>1, <3>4
    <3>5. CASE d # c
      <4>1. PICK u \in Targets : u = callTab[d] /\ u = callTab'[d]
        BY <1>1, <2>2, <3>3, <3>5 DEF ContextTypeOK, TargetsTypeOK
      <4>2. /\ call[d] # "asked" => u \in manualIds \/ Left(u)
            /\ \A a \in Adapters : a[1] = u =>
                 /\ Early(a) /\ call[d] # "asked" => a[1] \in creatingIds
                 /\ stage[a] = "installing" => call[d] # "asked"
                 /\ stage[a] \notin {"emitting", "announcing", "introducing"}
        BY <1>3, <3>3, <4>1, TargetsAssumption DEF IInv, AdaptersInv, Taken, historyVars
      <4>3. Left(u)' <=> Left(u)
        BY <2>14 DEF LeftKept
      <4>4. Left(u)' <=> Left(callTab[d])'
        BY <4>1 DEF Left
      <4>5. QED
        BY <1>3, <3>2, <4>1, <4>2, <4>3, <4>4 DEF pageVars
    <3>6. QED
      BY <3>4, <3>5
  <2>20. Counted'
    <3>1. \A a \in Adapters : Returned(a)' <=> Returned(a)
      BY <1>3 DEF Returned
    <3>2. \A a \in Adapters : a[1] = t => announced[a] = 0
      <4>1. TAKE a \in Adapters
      <4>2. HAVE a[1] = t
      <4>3. ~Returned(a)
        BY <2>1, <4>2 DEF Returned, IInv, CallsPlaced
      <4>4. QED
        BY <1>1, <2>15, <4>2, <4>3 DEF IInv, AdaptersInv, Counted, ContextTypeOK, TargetsTypeOK
    <3>3. \A a \in Adapters : a[1] # t => (Own(a[1])' => Own(a[1]))
      BY <2>2 DEF Own
    <3>4. QED
      BY <1>3, <3>1, <3>2, <3>3 DEF IInv, AdaptersInv, Counted, pageVars, historyVars, apiVars
  <2>21. manualPending' <= Cardinality(Waiting')
    <3>1. Waiting \subseteq Waiting'
      BY <1>3, <2>2, <2>15 DEF Waiting
    <3>2. QED
      BY <1>1, <1>3, <3>1, StillWaiting DEF IInv
  <2>22. QED
    BY <1>3, <2>8, <2>12, <2>13, <2>16, <2>17, <2>18, <2>19, <2>20, <2>21 DEF IInv, AdaptersInv, Queue
<1>6. QED
  BY <1>4, <1>5 DEF TabCreated, RefusedEvent, CreatedEvent

LEMMA DiscoveryEndsIInv == ASSUME IInv, DiscoveryEnds PROVE IInv'
<1>1. ContextTypeOK'
  BY DEF IInv, DiscoveryEnds, ContextTypeOK, TargetsTypeOK, targetVars, browserVars, pageVars,
         manualVars, closeVars, historyVars
<1>2. Queue' /\ LeftKept
  BY QueueKept DEF IInv, DiscoveryEnds, targetVars, browserVars, manualVars
<1>3. QED
  BY <1>1, <1>2, BrowserMoves DEF DiscoveryEnds, targetVars, browserVars

LEMMA SetUpEndsIInv == ASSUME IInv, NEW a \in Adapters, SetUpEnds(a) PROVE IInv'
<1>1. ContextTypeOK'
  BY DEF IInv, SetUpEnds, ContextTypeOK, TargetsTypeOK, targetVars, browserVars, pageVars,
         manualVars, closeVars, historyVars
<1>2. Queue' /\ LeftKept
  BY QueueKept DEF IInv, SetUpEnds, targetVars, browserVars, manualVars
<1>3. QED
  BY <1>1, <1>2, BrowserMoves DEF SetUpEnds, targetVars, browserVars

-----------------------------------------------------------------------------
(* What keeps the parts of the invariant.                                  *)

Over(s) == s \in {"unused", "failed"}
Announcing(s) == s \in {"emitting", "announcing", "introducing"}

LEMMA SingleKept ==
  ASSUME IInv, \A t \in Targets : Own(t) => Own(t)', closedHere \subseteq closedHere',
         \A a \in Adapters : Over(stage[a]) => Over(stage'[a])
  PROVE  Single'
  BY AdapterTab DEF IInv, AdaptersInv, Single, Over

LEMMA CountedKept ==
  ASSUME IInv, UNCHANGED <<announced, callTab>>, closedHere \subseteq closedHere',
         \A a \in Adapters : Returned(a) => Returned(a)',
         \A a \in Adapters : stage[a] = "settled" => stage'[a] = "settled"
  PROVE  Counted'
  BY DEF IInv, AdaptersInv, Counted, Own

LEMMA AloneKept ==
  ASSUME IInv, closedHere \subseteq closedHere', UNCHANGED <<closing, awaited>>,
         \A a \in Adapters : Over(stage[a]) => Over(stage'[a]),
         \A a \in Adapters :
           a[1] \notin closedHere' /\ OpenerOf[a[1]] = NoTarget /\ Early(a)' =>
             /\ Early(a) /\ pending'[a[1]] = pending[a[1]] /\ pages'[a[1]] = pages[a[1]]
             /\ stage'[a] = "installing" =>
                  stage[a] = "installing" /\ initializing'[a[1]] = initializing[a[1]]
  PROVE  Alone'
<1>1. SUFFICES ASSUME NEW a \in Adapters, a[1] \notin closedHere', OpenerOf[a[1]] = NoTarget, Early(a)'
      PROVE  /\ pending'[a[1]] = a /\ pages'[a[1]] = NoAdapter
             /\ closing # "no" => a \in awaited
             /\ closing # "done"
             /\ stage'[a] = "installing" => initializing'[a[1]] = NoAdapter
             /\ \A b \in Adapters : b[1] = a[1] /\ b # a => Over(stage'[b])
  BY DEF Alone, Over
<1>2. /\ pending[a[1]] = a /\ pages[a[1]] = NoAdapter
      /\ closing # "no" => a \in awaited
      /\ closing # "done"
      /\ stage[a] = "installing" => initializing[a[1]] = NoAdapter
      /\ \A b \in Adapters : b[1] = a[1] /\ b # a => Over(stage[b])
  BY <1>1 DEF IInv, AdaptersInv, Alone, Over
<1>3. QED
  BY <1>1, <1>2

LEMMA TakenKept ==
  ASSUME IInv, LeftKept, UNCHANGED callTab, closedHere \subseteq closedHere',
         \A c \in Calls : callTab[c] # NoTarget => (call'[c] = "asked" <=> call[c] = "asked"),
         \A t \in manualIds : t \in manualIds' \/ t \in closedHere',
         \A a \in Adapters : Own(a[1]) /\ a[1] \notin closedHere' =>
           /\ Early(a)' => Early(a) /\ (a[1] \in creatingIds => a[1] \in creatingIds')
           /\ stage'[a] = "installing" => stage[a] = "installing"
           /\ Announcing(stage'[a]) => Announcing(stage[a])
  PROVE  Taken'
<1>1. SUFFICES ASSUME NEW c \in Calls, callTab[c] # NoTarget, callTab[c] \notin closedHere'
      PROVE  /\ call'[c] # "asked" => callTab[c] \in manualIds' \/ Left(callTab[c])'
             /\ \A a \in Adapters : a[1] = callTab[c] =>
                  /\ Early(a)' /\ call'[c] # "asked" => a[1] \in creatingIds'
                  /\ stage'[a] = "installing" => call'[c] # "asked"
                  /\ ~Announcing(stage'[a])
  BY DEF Taken, Announcing
<1>2. /\ call[c] # "asked" => callTab[c] \in manualIds \/ Left(callTab[c])
      /\ \A a \in Adapters : a[1] = callTab[c] =>
           /\ Early(a) /\ call[c] # "asked" => a[1] \in creatingIds
           /\ stage[a] = "installing" => call[c] # "asked"
           /\ ~Announcing(stage[a])
  BY <1>1 DEF IInv, AdaptersInv, Taken, Announcing
<1>3. PICK t \in Targets : t = callTab[c]
  BY <1>1 DEF IInv, ContextTypeOK, TargetsTypeOK
<1>4. Left(callTab[c])' <=> Left(callTab[c])
  <2>1. callTab'[c] = t
    BY <1>3
  <2>2. Left(t)' <=> Left(t)
    BY DEF LeftKept
  <2>3. QED
    BY <1>3, <2>1, <2>2 DEF Left
<1>5. \A a \in Adapters : a[1] = callTab[c] => Own(a[1])
  BY DEF Own
<1>6. QED
  BY <1>1, <1>2, <1>4, <1>5

-----------------------------------------------------------------------------
(* The promise of an adapter.                                              *)

\* An adapter goes from one stage to the next.
LEMMA GotoMoves ==
  ASSUME ContextTypeOK, NEW a \in Adapters, NEW s \in Stages, Goto(a, s)
  PROVE  /\ stage' \in [Adapters -> Stages] /\ stage'[a] = s
         /\ \A b \in Adapters : b # a => stage'[b] = stage[b]
  BY DEF Goto, ContextTypeOK, TargetsTypeOK

LEMMA ClearMoves ==
  ASSUME NEW map \in [Targets -> Adapters \cup {NoAdapter}], NEW t \in Targets
  PROVE  /\ Clear(map, t) \in [Targets -> Adapters \cup {NoAdapter}]
         /\ Clear(map, t)[t] = NoAdapter
         /\ \A u \in Targets : u # t => Clear(map, t)[u] = map[u]
  BY DEF Clear

LEMMA DropMoves ==
  ASSUME NEW map \in [Targets -> Adapters \cup {NoAdapter}], NEW a \in Adapters
  PROVE  /\ Drop(map, a) \in [Targets -> Adapters \cup {NoAdapter}]
         /\ Drop(map, a)[a[1]] = (IF map[a[1]] = a THEN NoAdapter ELSE map[a[1]])
         /\ \A u \in Targets : u # a[1] => Drop(map, a)[u] = map[u]
  BY AdapterTab DEF Drop

LEMMA CreatedIInv ==
  ASSUME IInv, NEW a \in Adapters, Created(a), UNCHANGED apiVars
  PROVE  IInv'
<1>1. ContextTypeOK /\ a[1] \in Targets
  BY AdapterTab DEF IInv
<1>2. UNCHANGED <<browserVars, emits, closed, closingPages, pages, pending, manualVars,
                  closeVars, historyVars, apiVars>>
  BY DEF Created
<1>3. /\ stage[a] = "creating" /\ stage' \in [Adapters -> Stages] /\ stage'[a] = "installing"
      /\ \A b \in Adapters : b # a => stage'[b] = stage[b]
  BY <1>1, GotoMoves DEF Created, Stages
<1>4. /\ initializing' \in [Targets -> Adapters \cup {NoAdapter}]
      /\ initializing'[a[1]] = NoAdapter
      /\ \A u \in Targets : u # a[1] => initializing'[u] = initializing[u]
  BY <1>1, ClearMoves DEF Created, ContextTypeOK, TargetsTypeOK
<1>5. ContextTypeOK'
  BY <1>1, <1>2, <1>3, <1>4 DEF ContextTypeOK, TargetsTypeOK, browserVars, manualVars, closeVars,
                                historyVars, apiVars
<1>6. Queue' /\ LeftKept
  BY <1>2, QueueKept DEF IInv, browserVars, manualVars
<1>7. ~Left(a[1]) /\ \A c \in Calls : callTab[c] = a[1] => call[c] # "asked"
  <2>1. tab[a[1]] = "gone" => In(events, Event("gone", a[1]))
    BY DEF Created, Answers, InFlight, In
  <2>2. ASSUME NEW c \in Calls, callTab[c] = a[1], call[c] = "asked" PROVE FALSE
    <3>1. In(events, CreatedEvent(c, a[1]))
      BY <1>1, <2>2, TargetsAssumption DEF IInv, Queue, CallsInOrder
    <3>2. ~In(events, CreatedEvent(c, a[1]))
      BY DEF Created, Answers, InFlight, In, CreatedEvent
    <3>3. QED
      BY <3>1, <3>2
  <2>3. QED
    BY <2>1, <2>2 DEF Left
<1>8. CallsPlaced' /\ Waiting' = Waiting
  BY <1>2 DEF IInv, CallsPlaced, Waiting, browserVars, manualVars
<1>9. Maps'
  <2>1. \A t \in Targets : initializing'[t] # NoAdapter =>
          initializing'[t][1] = t /\ stage'[initializing'[t]] \in {"creating", "failed"}
    <3>1. TAKE t \in Targets
    <3>2. HAVE initializing'[t] # NoAdapter
    <3>3. t # a[1] /\ initializing'[t] = initializing[t] /\ initializing[t] \in Adapters
      BY <1>1, <1>4, <3>2, MapTyped
    <3>4. initializing[t][1] = t /\ stage[initializing[t]] \in {"creating", "failed"}
      BY <3>2, <3>3 DEF IInv, AdaptersInv, Maps
    <3>5. QED
      BY <1>3, <3>3, <3>4
  <2>2. QED
    BY <1>1, <1>2, <1>3, <2>1
    DEF IInv, AdaptersInv, Maps, browserVars, manualVars, historyVars, ContextTypeOK, TargetsTypeOK
<1>10. Placed' /\ Gone'
  <2>1. \A b \in Adapters : (Left(b[1])' <=> Left(b[1])) /\ (Shown(b)' <=> Shown(b))
    BY <1>2, <1>6, AdapterTab DEF LeftKept, Shown, apiVars
  <2>2. \A b \in Adapters : (Young(b)' <=> Young(b)) /\ (Grown(b)' <=> Grown(b))
    BY <1>3 DEF Young, Grown
  <2>3. Placed'
    BY <1>2, <2>1, <2>2 DEF IInv, AdaptersInv, Placed, closeVars, historyVars
  <2>4. Gone'
    BY <1>2, <1>3, <1>7, <2>1 DEF IInv, AdaptersInv, Gone, closeVars, historyVars
  <2>5. QED
    BY <2>3, <2>4
<1>11. \A b \in Adapters : Early(b)' <=> Early(b)
  BY <1>2, <1>3, <1>6, <1>7, AdapterTab DEF LeftKept, Early
<1>12. Alone'
  BY <1>1, <1>2, <1>3, <1>4, <1>11, AdapterTab DEF IInv, AdaptersInv, Alone, closeVars, historyVars
<1>13. Taken'
  <2>1. SUFFICES ASSUME NEW c \in Calls, callTab[c] # NoTarget, callTab[c] \notin closedHere
        PROVE  /\ call[c] # "asked" => callTab[c] \in manualIds \/ Left(callTab[c])'
               /\ \A b \in Adapters : b[1] = callTab[c] =>
                    /\ Early(b)' /\ call[c] # "asked" => b[1] \in creatingIds
                    /\ stage'[b] = "installing" => call[c] # "asked"
                    /\ stage'[b] \notin {"emitting", "announcing", "introducing"}
    BY <1>2 DEF Taken, manualVars, historyVars
  <2>2. Left(callTab[c])' <=> Left(callTab[c])
    BY <1>2 DEF Left, browserVars, manualVars
  <2>3. QED
    BY <1>3, <1>7, <1>11, <2>1, <2>2 DEF IInv, AdaptersInv, Taken
<1>14. Single' /\ Counted'
  BY <1>2, <1>3 DEF IInv, AdaptersInv, Single, Counted, Own, Returned, manualVars, historyVars, apiVars
<1>15. QED
  BY <1>2, <1>5, <1>6, <1>8, <1>9, <1>10, <1>12, <1>13, <1>14 DEF IInv, AdaptersInv, manualVars

\* Its tab is gone.  A popup goes on, closed, to be announced.
LEMMA CreateFailsIInv ==
  ASSUME IInv, NEW a \in Adapters, CreateFails(a), UNCHANGED apiVars
  PROVE  IInv'
<1>1. ContextTypeOK /\ a[1] \in Targets /\ stage[a] = "creating"
  BY AdapterTab DEF IInv, CreateFails
<1>2. UNCHANGED <<browserVars, emits, closingPages, pages, manualVars, closeVars, historyVars,
                  apiVars>>
  BY DEF CreateFails
<1>3. /\ stage' \in [Adapters -> Stages] /\ stage'[a] \in {"installing", "failed"}
      /\ \A b \in Adapters : b # a => stage'[b] = stage[b]
  BY <1>1, GotoMoves DEF CreateFails, Fails, Stages
<1>4. /\ initializing' \in [Targets -> Adapters \cup {NoAdapter}]
      /\ initializing'[a[1]] = NoAdapter \/ (initializing' = initializing /\ stage'[a] = "failed")
      /\ \A u \in Targets : u # a[1] => initializing'[u] = initializing[u]
  <2>1. CASE initializing' = Clear(initializing, a[1])
    BY <1>1, <2>1, ClearMoves DEF ContextTypeOK, TargetsTypeOK
  <2>2. CASE initializing' = initializing /\ Fails(a)
    BY <1>1, <2>2, GotoMoves DEF ContextTypeOK, TargetsTypeOK, Fails, Stages
  <2>3. QED
    BY <2>1, <2>2 DEF CreateFails
<1>5. /\ pending' \in [Targets -> Adapters \cup {NoAdapter}]
      /\ pending'[a[1]] = pending[a[1]] \/ (stage'[a] = "failed" /\ pending[a[1]] = a /\ pending'[a[1]] = NoAdapter)
      /\ \A u \in Targets : u # a[1] => pending'[u] = pending[u]
  <2>1. CASE pending' = pending
    BY <1>1, <2>1 DEF ContextTypeOK, TargetsTypeOK
  <2>2. CASE Fails(a)
    BY <1>1, <2>2, GotoMoves, DropMoves DEF ContextTypeOK, TargetsTypeOK, Fails, Stages
  <2>3. QED
    BY <2>1, <2>2 DEF CreateFails
<1>6. /\ closed' \subseteq Adapters /\ closed \subseteq closed' /\ closed' \subseteq closed \cup {a}
      /\ stage'[a] = "installing" => a \in closed' /\ OpenerOf[a[1]] # NoTarget
  BY <1>1, <1>3, GotoMoves DEF CreateFails, Fails, Stages, ContextTypeOK, TargetsTypeOK
<1>7. ContextTypeOK'
  BY <1>1, <1>2, <1>3, <1>4, <1>5, <1>6
  DEF ContextTypeOK, TargetsTypeOK, browserVars, manualVars, closeVars, historyVars, apiVars
<1>8. Queue' /\ LeftKept
  BY <1>2, QueueKept DEF IInv, browserVars, manualVars
<1>9. CallsPlaced' /\ Waiting' = Waiting
  BY <1>2 DEF IInv, CallsPlaced, Waiting, browserVars, manualVars
<1>10. Maps'
  <2>1. \A t \in Targets : initializing'[t] # NoAdapter =>
          initializing'[t][1] = t /\ stage'[initializing'[t]] \in {"creating", "failed"}
    <3>1. TAKE t \in Targets
    <3>2. HAVE initializing'[t] # NoAdapter
    <3>3. /\ initializing'[t] = initializing[t] /\ initializing[t] \in Adapters
          /\ t = a[1] => stage'[a] = "failed"
      BY <1>1, <1>4, <3>2, MapTyped
    <3>4. initializing[t][1] = t /\ stage[initializing[t]] \in {"creating", "failed"}
      BY <3>2, <3>3 DEF IInv, AdaptersInv, Maps
    <3>5. QED
      BY <1>3, <3>3, <3>4
  <2>2. \A t \in Targets : pending'[t] # NoAdapter => pending'[t][1] = t
    BY <1>5 DEF IInv, AdaptersInv, Maps
  <2>3. QED
    BY <1>1, <1>2, <1>3, <2>1, <2>2
    DEF IInv, AdaptersInv, Maps, browserVars, manualVars, historyVars, ContextTypeOK, TargetsTypeOK
<1>11. Placed' /\ Gone'
  <2>1. \A b \in Adapters : (Left(b[1])' <=> Left(b[1])) /\ (Shown(b)' <=> Shown(b))
    BY <1>2, <1>8, AdapterTab DEF LeftKept, Shown, apiVars
  <2>2. \A b \in Adapters : (Young(b)' => Young(b)) /\ (Grown(b)' <=> Grown(b))
    BY <1>1, <1>3 DEF Young, Grown
  <2>3. ASSUME NEW b \in Adapters, Young(b)' PROVE pending'[b[1]] = pending[b[1]] \/ pending[b[1]] # b
    BY <1>3, <1>5, <2>3, AdapterTab DEF Young
  <2>4. Placed'
    <3>1. SUFFICES ASSUME closing = "no", NEW b \in Adapters, ~Left(b[1])
          PROVE  /\ Young(b)' => pending'[b[1]] = b /\ pages[b[1]] = NoAdapter
                 /\ Grown(b) /\ (b \notin closed' \/ b[1] \notin closedHere) => pages[b[1]] = b
                 /\ Shown(b) /\ b \notin closed' => pages[b[1]] = b
                 /\ b \in closingPages => pages[b[1]] = b
      BY <1>2, <2>1, <2>2 DEF Placed, closeVars, historyVars
    <3>2. /\ Young(b) => pending[b[1]] = b /\ pages[b[1]] = NoAdapter
          /\ Grown(b) /\ (b \notin closed \/ b[1] \notin closedHere) => pages[b[1]] = b
          /\ Shown(b) /\ b \notin closed => pages[b[1]] = b
          /\ b \in closingPages => pages[b[1]] = b
      BY <3>1 DEF IInv, AdaptersInv, Placed
    <3>3. QED
      BY <1>6, <2>2, <2>3, <3>2
  <2>5. Gone'
    BY <1>2, <1>3, <1>6, <2>1 DEF IInv, AdaptersInv, Gone, closeVars, historyVars
  <2>6. QED
    BY <2>4, <2>5
<1>12. \A b \in Adapters : OpenerOf[b[1]] = NoTarget /\ Early(b)' => Early(b) /\ b # a
  BY <1>2, <1>3, <1>6, <1>8, AdapterTab DEF LeftKept, Early
<1>13. \A b \in Adapters : Over(stage[b]) => Over(stage'[b])
  BY <1>1, <1>3 DEF Over
<1>14. Alone'
  <2>1. ASSUME NEW b \in Adapters, b[1] \notin closedHere', OpenerOf[b[1]] = NoTarget, Early(b)'
        PROVE  /\ Early(b) /\ pending'[b[1]] = pending[b[1]] /\ pages'[b[1]] = pages[b[1]]
               /\ stage'[b] = "installing" =>
                    stage[b] = "installing" /\ initializing'[b[1]] = initializing[b[1]]
    <3>1. Early(b) /\ b # a
      BY <1>12, <2>1
    <3>2. b[1] # a[1]
      BY <1>1, <1>2, <2>1, <3>1 DEF IInv, AdaptersInv, Alone, historyVars
    <3>3. QED
      BY <1>2, <1>3, <1>4, <1>5, <3>1, <3>2, AdapterTab
  <2>2. QED
    BY <1>2, <1>13, <2>1, AloneKept DEF historyVars, closeVars
<1>15. \A t \in Targets : (Own(t) <=> Own(t)') /\ (Own(t) => OpenerOf[t] = NoTarget)
  BY <1>2, TargetsAssumption DEF Own, manualVars, IInv, CallsPlaced
<1>16. Taken'
  <2>1. ASSUME NEW b \in Adapters, Own(b[1])
        PROVE  /\ Early(b)' => Early(b)
               /\ stage'[b] = "installing" => stage[b] = "installing"
               /\ Announcing(stage'[b]) => Announcing(stage[b])
    BY <1>3, <1>6, <1>12, <1>15, <2>1, AdapterTab DEF Announcing
  <2>2. QED
    BY <1>2, <1>8, <2>1, TakenKept DEF manualVars, historyVars
<1>17. Single' /\ Counted'
  <2>1. \A b \in Adapters : Returned(b) => Returned(b)'
    BY <1>2 DEF Returned, manualVars
  <2>2. \A b \in Adapters : stage[b] = "settled" => stage'[b] = "settled"
    BY <1>1, <1>3
  <2>3. QED
    BY <1>2, <1>13, <1>15, <2>1, <2>2, SingleKept, CountedKept DEF historyVars, manualVars, apiVars
<1>18. QED
  BY <1>2, <1>7, <1>8, <1>9, <1>10, <1>11, <1>14, <1>16, <1>17 DEF IInv, AdaptersInv, manualVars

\* Where no adapter is made, and what is shown or closed is a page.
LEMMA PlacedKept ==
  ASSUME IInv, LeftKept, UNCHANGED pages, closing' = "no" => closing = "no",
         closed \subseteq closed', missed \subseteq missed', closedHere \subseteq closedHere',
         \A b \in closingPages' : b \in closingPages \/ (b \in pageSet /\ b \notin closed),
         \A b \in Adapters : Young(b)' => Young(b) /\ (pending[b[1]] = b => pending'[b[1]] = b),
         \A b \in Adapters : Grown(b)' => Grown(b),
         \A b \in Adapters : stage[b] \in {"unused", "creating", "failed"} =>
                               stage'[b] \in {"unused", "creating", "failed"},
         \A b \in Adapters : Shown(b)' => Shown(b) \/ Grown(b) \/ pages[b[1]] = b
  PROVE  Placed' /\ Gone'
<1>1. \A b \in Adapters : Left(b[1])' <=> Left(b[1])
  BY AdapterTab DEF LeftKept
<1>2. ASSUME closing = "no", NEW b \in Adapters, ~Left(b[1])
      PROVE  /\ Young(b)' => pending'[b[1]] = b /\ pages[b[1]] = NoAdapter
             /\ Grown(b)' /\ (b \notin closed' \/ b[1] \notin closedHere') => pages[b[1]] = b
             /\ Shown(b)' /\ b \notin closed' => pages[b[1]] = b
             /\ b \in closingPages' => pages[b[1]] = b
  <2>1. /\ Young(b) => pending[b[1]] = b /\ pages[b[1]] = NoAdapter
        /\ Grown(b) /\ (b \notin closed \/ b[1] \notin closedHere) => pages[b[1]] = b
        /\ Shown(b) /\ b \notin closed => pages[b[1]] = b
        /\ b \in closingPages => pages[b[1]] = b
    BY <1>2 DEF IInv, AdaptersInv, Placed
  <2>2. b \in pageSet => Shown(b)
    BY DEF Shown
  <2>3. QED
    BY <2>1, <2>2
<1>3. ASSUME closing = "no", NEW b \in Adapters, Left(b[1])
      PROVE  \/ b \in closed' \cup missed'
             \/ stage'[b] \in {"unused", "creating", "failed"} /\ ~Shown(b)' /\ pages[b[1]] # b
  <2>1. \/ b \in closed \cup missed
        \/ stage[b] \in {"unused", "creating", "failed"} /\ ~Shown(b) /\ pages[b[1]] # b
    BY <1>3 DEF IInv, AdaptersInv, Gone
  <2>2. stage[b] \in {"unused", "creating", "failed"} => ~Grown(b)
    BY DEF Grown
  <2>3. QED
    BY <2>1, <2>2
<1>4. Placed'
  BY <1>1, <1>2 DEF Placed
<1>5. Gone'
  BY <1>1, <1>3 DEF Gone
<1>6. QED
  BY <1>4, <1>5

\* An adapter that was created goes on, settles or fails.
LEMMA PromiseMoves ==
  ASSUME IInv, NEW a \in Adapters,
         stage[a] \in {"installing", "emitting", "announcing", "introducing"},
         stage' \in [Adapters -> Stages], stage'[a] \notin {"unused", "creating", "installing"},
         \A b \in Adapters : b # a => stage'[b] = stage[b],
         Announcing(stage'[a]) => Announcing(stage[a]) \/ (a \in emits /\ a[1] \notin creatingIds),
         pages'[a[1]] \in {a, pages[a[1]]},
         \A u \in Targets : u # a[1] => pages'[u] = pages[u] /\ pending'[u] = pending[u],
         pending'[a[1]] = pending[a[1]] \/ (pending[a[1]] = a /\ pending'[a[1]] = NoAdapter),
         creatingIds' \in {creatingIds, creatingIds \ {a[1]}},
         UNCHANGED <<browserVars, emits, initializing, closingPages, manualPending, manualIds,
                     call, callTab, callPage, closeVars, historyVars>>
  PROVE  /\ Queue' /\ LeftKept /\ CallsPlaced' /\ Maps' /\ Alone' /\ Taken' /\ Single'
         /\ manualPending' <= Cardinality(Waiting')
<1>1. ContextTypeOK /\ a[1] \in Targets
  BY AdapterTab DEF IInv
<1>2. Queue' /\ LeftKept
  BY QueueKept DEF IInv, browserVars
<1>3. CallsPlaced'
  BY DEF IInv, CallsPlaced, browserVars
<1>4. manualPending' <= Cardinality(Waiting')
  <2>1. Waiting \subseteq Waiting'
    BY DEF Waiting
  <2>2. QED
    BY <1>1, <2>1, StillWaiting DEF IInv
<1>5. Maps'
  <2>1. \A t \in Targets : initializing[t] # NoAdapter =>
          initializing[t][1] = t /\ stage'[initializing[t]] \in {"creating", "failed"}
    <3>1. TAKE t \in Targets
    <3>2. HAVE initializing[t] # NoAdapter
    <3>3. /\ initializing[t] \in Adapters /\ initializing[t][1] = t
          /\ stage[initializing[t]] \in {"creating", "failed"}
      BY <1>1, <3>2, MapTyped DEF IInv, AdaptersInv, Maps
    <3>4. initializing[t] # a
      BY <3>3
    <3>5. QED
      BY <3>3, <3>4
  <2>2. \A t \in Targets : /\ pages'[t] # NoAdapter => pages'[t][1] = t
                           /\ pending'[t] # NoAdapter => pending'[t][1] = t
    BY <1>1 DEF IInv, AdaptersInv, Maps
  <2>3. \A t \in Targets : tab[t] = "none" =>
          t \notin creatingIds' /\ \A b \in Adapters : b[1] = t => stage'[b] = "unused"
    BY <1>1 DEF IInv, AdaptersInv, Maps
  <2>4. (\A b \in emits : stage'[b] # "unused") /\ \A b \in closingPages : b[1] \in closedHere
    BY <1>1 DEF IInv, AdaptersInv, Maps, ContextTypeOK, TargetsTypeOK
  <2>5. QED
    BY <2>1, <2>2, <2>3, <2>4 DEF Maps, browserVars, historyVars
<1>6. \A b \in Adapters : Over(stage[b]) => Over(stage'[b])
  BY DEF Over
<1>7. \A b \in Adapters : Early(b)' => Early(b) /\ b # a
  BY <1>2, AdapterTab DEF LeftKept, Early
<1>8. ASSUME NEW b \in Adapters, b[1] \notin closedHere, OpenerOf[b[1]] = NoTarget, Early(b)'
      PROVE  b[1] # a[1]
  BY <1>7, <1>8 DEF IInv, AdaptersInv, Alone
<1>9. Alone'
  <2>1. ASSUME NEW b \in Adapters, b[1] \notin closedHere, OpenerOf[b[1]] = NoTarget, Early(b)'
        PROVE  /\ Early(b) /\ pending'[b[1]] = pending[b[1]] /\ pages'[b[1]] = pages[b[1]]
               /\ stage'[b] = "installing" =>
                    stage[b] = "installing" /\ initializing'[b[1]] = initializing[b[1]]
    BY <1>7, <1>8, <2>1, AdapterTab
  <2>2. QED
    BY <1>6, <2>1, AloneKept DEF closeVars, historyVars
<1>10. \A t \in Targets : (Own(t) <=> Own(t)') /\ (Own(t) => OpenerOf[t] = NoTarget)
  BY TargetsAssumption DEF Own, IInv, CallsPlaced
<1>11. Taken'
  <2>1. ASSUME NEW b \in Adapters, Own(b[1]), b[1] \notin closedHere
        PROVE  /\ Early(b)' => Early(b) /\ (b[1] \in creatingIds => b[1] \in creatingIds')
               /\ stage'[b] = "installing" => stage[b] = "installing"
               /\ Announcing(stage'[b]) => Announcing(stage[b])
    <3>1. Early(b)' => Early(b) /\ (b[1] \in creatingIds => b[1] \in creatingIds')
      BY <1>7, <1>8, <1>10, <2>1, AdapterTab
    <3>2. stage'[b] = "installing" => stage[b] = "installing"
      OBVIOUS
    <3>3. ASSUME b = a, Announcing(stage'[a]), ~Announcing(stage[a]) PROVE FALSE
      <4>1. stage[a] = "installing" /\ a \in emits /\ a[1] \notin creatingIds
        BY <3>3 DEF Announcing
      <4>2. PICK c \in Calls : callTab[c] = a[1]
        BY <2>1, <3>3 DEF Own
      <4>3. Early(a) /\ callTab[c] # NoTarget
        BY <1>1, <4>1, <4>2, TargetsAssumption DEF Early
      <4>4. QED
        BY <2>1, <3>3, <4>1, <4>2, <4>3 DEF IInv, AdaptersInv, Taken
    <3>4. QED
      BY <3>1, <3>2, <3>3
  <2>2. QED
    BY <1>2, <2>1, TakenKept DEF historyVars
<1>12. Single'
  BY <1>6, <1>10, SingleKept DEF historyVars
<1>13. QED
  BY <1>2, <1>3, <1>4, <1>5, <1>9, <1>11, <1>12

LEMMA InstalledIInv ==
  ASSUME IInv, NEW a \in Adapters, Installed(a), UNCHANGED apiVars
  PROVE  IInv'
<1>1. ContextTypeOK /\ a[1] \in Targets /\ stage[a] = "installing"
  BY AdapterTab DEF IInv, Installed
<1>2. UNCHANGED <<browserVars, emits, closed, closingPages, initializing, manualPending,
                  manualIds, call, callTab, callPage, closeVars, historyVars, apiVars>>
  BY DEF Installed
<1>3. /\ stage' \in [Adapters -> Stages] /\ stage'[a] \in {"emitting", "settled"}
      /\ \A b \in Adapters : b # a => stage'[b] = stage[b]
  BY <1>1, GotoMoves DEF Installed, Stages
<1>4. /\ pages' \in [Targets -> Adapters \cup {NoAdapter}] /\ pages'[a[1]] = a
      /\ \A u \in Targets : u # a[1] => pages'[u] = pages[u]
  BY <1>1 DEF Installed, ContextTypeOK, TargetsTypeOK
<1>5. /\ pending' \in [Targets -> Adapters \cup {NoAdapter}]
      /\ pending'[a[1]] = pending[a[1]] \/ (pending[a[1]] = a /\ pending'[a[1]] = NoAdapter)
      /\ \A u \in Targets : u # a[1] => pending'[u] = pending[u]
  BY <1>1, DropMoves DEF Installed, ContextTypeOK, TargetsTypeOK
<1>6. creatingIds' \in {creatingIds, creatingIds \ {a[1]}}
  BY DEF Installed
<1>7. Announcing(stage'[a]) => a \in emits /\ a[1] \notin creatingIds
  BY <1>1, GotoMoves DEF Installed, Stages, Announcing
<1>8. ContextTypeOK'
  BY <1>1, <1>2, <1>3, <1>4, <1>5, <1>6
  DEF ContextTypeOK, TargetsTypeOK, browserVars, closeVars, historyVars, apiVars
<1>9. /\ Queue' /\ LeftKept /\ CallsPlaced' /\ Maps' /\ Alone' /\ Taken' /\ Single'
      /\ manualPending' <= Cardinality(Waiting')
  BY <1>1, <1>2, <1>3, <1>4, <1>5, <1>6, <1>7, PromiseMoves
<1>10. \A b \in Adapters : (Left(b[1])' <=> Left(b[1])) /\ (Shown(b)' <=> Shown(b))
  BY <1>2, <1>9, AdapterTab DEF LeftKept, Shown, apiVars
<1>11. Placed'
  <2>1. SUFFICES ASSUME closing = "no", NEW b \in Adapters, ~Left(b[1])
        PROVE  /\ Young(b)' => pending'[b[1]] = b /\ pages'[b[1]] = NoAdapter
               /\ Grown(b)' /\ (b \notin closed \/ b[1] \notin closedHere) => pages'[b[1]] = b
               /\ Shown(b) /\ b \notin closed => pages'[b[1]] = b
               /\ b \in closingPages => pages'[b[1]] = b
    BY <1>2, <1>10 DEF Placed, closeVars, historyVars
  <2>2. /\ Young(b) => pending[b[1]] = b /\ pages[b[1]] = NoAdapter
        /\ Grown(b) /\ (b \notin closed \/ b[1] \notin closedHere) => pages[b[1]] = b
        /\ Shown(b) /\ b \notin closed => pages[b[1]] = b
        /\ b \in closingPages => pages[b[1]] = b
    BY <2>1 DEF IInv, AdaptersInv, Placed
  <2>3. CASE b = a
    BY <1>3, <1>4, <2>3 DEF Young
  <2>4. CASE b # a /\ b[1] = a[1]
    <3>1. pending[a[1]] = a /\ pages[a[1]] = NoAdapter
      BY <1>1, <2>1, <2>4 DEF IInv, AdaptersInv, Placed, Young
    <3>2. (Young(b)' <=> Young(b)) /\ (Grown(b)' <=> Grown(b)) /\ b # NoAdapter
      BY <1>3, <2>4, AdapterTab DEF Young, Grown
    <3>3. QED
      BY <2>2, <2>4, <3>1, <3>2
  <2>5. CASE b[1] # a[1]
    <3>1. (Young(b)' <=> Young(b)) /\ (Grown(b)' <=> Grown(b)) /\ b[1] \in Targets
      BY <1>3, <2>5, AdapterTab DEF Young, Grown
    <3>2. QED
      BY <1>4, <1>5, <2>2, <2>5, <3>1
  <2>6. QED
    BY <2>3, <2>4, <2>5
<1>12. Gone'
  <2>1. SUFFICES ASSUME closing = "no", NEW b \in Adapters, Left(b[1])
        PROVE  \/ b \in closed \cup missed
               \/ stage'[b] \in {"unused", "creating", "failed"} /\ ~Shown(b) /\ pages'[b[1]] # b
    BY <1>2, <1>10 DEF Gone, closeVars, historyVars
  <2>2. \/ b \in closed \cup missed
        \/ stage[b] \in {"unused", "creating", "failed"} /\ ~Shown(b) /\ pages[b[1]] # b
    BY <2>1 DEF IInv, AdaptersInv, Gone
  <2>3. QED
    BY <1>1, <1>3, <1>4, <2>2, AdapterTab
<1>13. Counted'
  <2>1. \A b \in Adapters : Returned(b) => Returned(b)'
    BY <1>2 DEF Returned
  <2>2. \A b \in Adapters : stage[b] = "settled" => stage'[b] = "settled"
    BY <1>1, <1>3
  <2>3. QED
    BY <1>2, <2>1, <2>2, CountedKept DEF historyVars, apiVars
<1>14. QED
  BY <1>8, <1>9, <1>11, <1>12, <1>13 DEF IInv, AdaptersInv

LEMMA InstallFailsIInv ==
  ASSUME IInv, NEW a \in Adapters, InstallFails(a), UNCHANGED apiVars
  PROVE  IInv'
<1>1. ContextTypeOK /\ a[1] \in Targets /\ stage[a] = "installing"
  BY AdapterTab DEF IInv, InstallFails
<1>2. UNCHANGED <<browserVars, emits, closed, closingPages, pages, initializing, manualVars,
                  closeVars, historyVars, apiVars>>
  BY DEF InstallFails
<1>3. /\ stage' \in [Adapters -> Stages] /\ stage'[a] = "failed"
      /\ \A b \in Adapters : b # a => stage'[b] = stage[b]
  BY <1>1, GotoMoves DEF InstallFails, Fails, Stages
<1>4. /\ pending' \in [Targets -> Adapters \cup {NoAdapter}]
      /\ pending'[a[1]] = pending[a[1]] \/ (pending[a[1]] = a /\ pending'[a[1]] = NoAdapter)
      /\ \A u \in Targets : u # a[1] => pending'[u] = pending[u]
  BY <1>1, DropMoves DEF InstallFails, Fails, ContextTypeOK, TargetsTypeOK
<1>5. ContextTypeOK'
  BY <1>1, <1>2, <1>3, <1>4
  DEF ContextTypeOK, TargetsTypeOK, browserVars, manualVars, closeVars, historyVars, apiVars
<1>6. /\ Queue' /\ LeftKept /\ CallsPlaced' /\ Maps' /\ Alone' /\ Taken' /\ Single'
      /\ manualPending' <= Cardinality(Waiting')
  BY <1>1, <1>2, <1>3, <1>4, PromiseMoves DEF manualVars, Announcing
<1>7. Placed' /\ Gone'
  <2>1. \A b \in Adapters : Young(b)' => Young(b) /\ (pending[b[1]] = b => pending'[b[1]] = b)
    BY <1>3, <1>4, AdapterTab DEF Young
  <2>2. \A b \in Adapters : (Grown(b)' => Grown(b)) /\ (Shown(b)' => Shown(b))
    BY <1>2, <1>3 DEF Grown, Shown, apiVars
  <2>3. QED
    BY <1>1, <1>2, <1>3, <1>6, <2>1, <2>2, PlacedKept DEF closeVars, historyVars
<1>8. Counted'
  <2>1. \A b \in Adapters : Returned(b) => Returned(b)'
    BY <1>2 DEF Returned, manualVars
  <2>2. \A b \in Adapters : stage[b] = "settled" => stage'[b] = "settled"
    BY <1>1, <1>3
  <2>3. QED
    BY <1>2, <2>1, <2>2, CountedKept DEF historyVars, apiVars, manualVars
<1>9. QED
  BY <1>5, <1>6, <1>7, <1>8 DEF IInv, AdaptersInv

-----------------------------------------------------------------------------
(* The page of an adapter.                                                 *)

\* The adapter is announced when its promise settles.
LEMMA AnnounceCounts ==
  ASSUME IInv, NEW a \in Adapters, stage[a] \in {"announcing", "introducing"},
         Announce(a), stage'[a] = "settled", \A b \in Adapters : b # a => stage'[b] = stage[b],
         UNCHANGED <<call, callTab, callPage, closedHere>>
  PROVE  announced' \in [Adapters -> 0..2] /\ Counted'
<1>1. announced \in [Adapters -> 0..2]
  BY DEF IInv, ContextTypeOK
<1>2. announced[a] \in {0, 1} /\ (announced[a] = 1 => Returned(a))
  <2>1. /\ announced[a] > 0 => Returned(a)
        /\ ~(announced[a] > 1)
    BY DEF IInv, AdaptersInv, Counted
  <2>2. announced[a] \in 0..2
    BY <1>1
  <2>3. QED
    BY <2>1, <2>2
<1>3. /\ announced' \in [Adapters -> 0..2]
      /\ \A b \in Adapters : b # a => announced'[b] = announced[b]
      /\ announced'[a] \in {announced[a], announced[a] + 1}
  BY <1>1, <1>2 DEF Announce
<1>4. (\A b \in Adapters : Returned(b)' <=> Returned(b)) /\ \A t \in Targets : Own(t)' <=> Own(t)
  BY DEF Returned, Own
<1>5. ~(Own(a[1]) /\ a[1] \notin closedHere)
  BY AdapterTab, TargetsAssumption DEF IInv, AdaptersInv, Taken, Own
<1>6. SUFFICES ASSUME NEW b \in Adapters
      PROVE  /\ announced'[b] > 0 => stage'[b] = "settled" \/ Returned(b)
             /\ announced'[b] > 1 => stage'[b] = "settled" /\ Returned(b)
             /\ Own(b[1]) /\ b[1] \notin closedHere =>
                  announced'[b] <= 1 /\ (announced'[b] > 0 => Returned(b))
  BY <1>3, <1>4, AdapterTab DEF Counted
<1>7. CASE b = a
  <2>1. announced'[a] > 1 => announced[a] = 1
    BY <1>2, <1>3
  <2>2. QED
    BY <1>2, <1>5, <1>7, <2>1
<1>8. CASE b # a
  BY <1>3, <1>8 DEF IInv, AdaptersInv, Counted
<1>9. QED
  BY <1>7, <1>8

LEMMA SettleMoves ==
  ASSUME ContextTypeOK, NEW a \in Adapters, Settle(a)
  PROVE  /\ stage' \in [Adapters -> Stages] /\ stage'[a] = "settled"
         /\ \A b \in Adapters : b # a => stage'[b] = stage[b]
         /\ pending' \in [Targets -> Adapters \cup {NoAdapter}]
         /\ pending'[a[1]] = pending[a[1]] \/ (pending[a[1]] = a /\ pending'[a[1]] = NoAdapter)
         /\ \A u \in Targets : u # a[1] => pending'[u] = pending[u]
         /\ creatingIds' \subseteq Targets /\ creatingIds' \in {creatingIds, creatingIds \ {a[1]}}
<1>1. Goto(a, "settled") /\ "settled" \in Stages
  BY DEF Settle, Stages
<1>2. pending' = Drop(pending, a) /\ creatingIds' = creatingIds \ {a[1]}
  BY DEF Settle
<1>3. pending \in [Targets -> Adapters \cup {NoAdapter}] /\ creatingIds \subseteq Targets
  BY DEF ContextTypeOK, TargetsTypeOK
<1>4. QED
  BY <1>1, <1>2, <1>3, GotoMoves, DropMoves

LEMMA RegisterMoves ==
  ASSUME ContextTypeOK, NEW a \in Adapters, Register(a)
  PROVE  /\ pageSet' = pageSet \cup {a} /\ pageSet' \subseteq Adapters
         /\ settingUp' \subseteq Adapters /\ emitted' \subseteq Adapters
  BY DEF ContextTypeOK, Register

LEMMA EmitIInv == ASSUME IInv, NEW a \in Adapters, Emit(a) PROVE IInv'
<1>1. ContextTypeOK /\ a[1] \in Targets /\ stage[a] = "emitting"
  BY AdapterTab DEF IInv, Emit
<1>2. UNCHANGED <<browserVars, emits, closed, closingPages, pages, initializing, manualPending,
                  manualIds, call, callTab, callPage, closeVars, historyVars, ready, ctx, toClose,
                  announced>>
  BY DEF Emit
<1>3. /\ stage' \in [Adapters -> Stages] /\ stage'[a] \in {"announcing", "settled"}
      /\ \A b \in Adapters : b # a => stage'[b] = stage[b]
      /\ pending' \in [Targets -> Adapters \cup {NoAdapter}]
      /\ pending'[a[1]] = pending[a[1]] \/ (pending[a[1]] = a /\ pending'[a[1]] = NoAdapter)
      /\ \A u \in Targets : u # a[1] => pending'[u] = pending[u]
      /\ creatingIds' \subseteq Targets /\ creatingIds' \in {creatingIds, creatingIds \ {a[1]}}
  <2>1. CASE Settle(a)
    BY <1>1, <2>1, SettleMoves
  <2>2. CASE Goto(a, "announcing") /\ UNCHANGED <<pending, creatingIds>>
    BY <1>1, <2>2, GotoMoves DEF Stages, ContextTypeOK, TargetsTypeOK
  <2>3. QED
    BY <2>1, <2>2 DEF Emit
<1>4. /\ pageSet' \subseteq Adapters /\ settingUp' \subseteq Adapters /\ emitted' \subseteq Adapters
      /\ opener' \in [Adapters -> Adapters \cup {NoAdapter}]
      /\ pageSet' \subseteq pageSet \cup {a}
      /\ \A b \in Adapters : b # a => opener'[b] = opener[b]
      /\ opener'[a] \in {opener[a], NoAdapter} \/ \E t \in Targets : opener'[a] = pages[t]
  <2>1. CASE /\ ctx = "open" /\ Register(a)
             /\ opener' = [opener EXCEPT ![a] = IF OpenerOf[a[1]] = NoTarget THEN NoAdapter
                                                ELSE pages[OpenerOf[a[1]]]]
    <3>1. OpenerOf[a[1]] # NoTarget => OpenerOf[a[1]] \in Targets
      BY <1>1, TargetsAssumption
    <3>2. QED
      BY <1>1, <2>1, <3>1, RegisterMoves DEF ContextTypeOK, TargetsTypeOK
  <2>2. CASE UNCHANGED <<opener, pageSet, settingUp, emitted>>
    BY <1>1, <2>2 DEF ContextTypeOK
  <2>3. QED
    BY <2>1, <2>2 DEF Emit
<1>5. ContextTypeOK'
  BY <1>1, <1>2, <1>3, <1>4 DEF ContextTypeOK, TargetsTypeOK, browserVars, closeVars, historyVars
<1>6. /\ Queue' /\ LeftKept /\ CallsPlaced' /\ Maps' /\ Alone' /\ Taken' /\ Single'
      /\ manualPending' <= Cardinality(Waiting')
  BY <1>1, <1>2, <1>3, PromiseMoves DEF Announcing
<1>7. Placed' /\ Gone'
  <2>1. \A b \in Adapters : Young(b)' => Young(b) /\ (pending[b[1]] = b => pending'[b[1]] = b)
    BY <1>3, AdapterTab DEF Young
  <2>2. \A b \in Adapters : (Grown(b)' => Grown(b)) /\ Grown(a)
    BY <1>1, <1>3 DEF Grown
  <2>3. ASSUME NEW b \in Adapters, Shown(b)' PROVE Shown(b) \/ Grown(b) \/ pages[b[1]] = b
    <3>1. CASE b \in pageSet'
      BY <1>4, <2>2, <3>1 DEF Shown
    <3>2. CASE \E d \in Adapters : opener'[d] = b
      <4>1. PICK d \in Adapters : opener'[d] = b
        BY <3>2
      <4>2. opener[d] = b \/ \E t \in Targets : pages[t] = b
        BY <1>4, <4>1, AdapterTab
      <4>3. \A t \in Targets : pages[t] = b => b[1] = t
        BY AdapterTab DEF IInv, AdaptersInv, Maps
      <4>4. QED
        BY <4>2, <4>3 DEF Shown
    <3>3. QED
      BY <2>3, <3>1, <3>2 DEF Shown
  <2>4. QED
    BY <1>1, <1>2, <1>3, <1>6, <2>1, <2>2, <2>3, PlacedKept DEF closeVars, historyVars
<1>8. Counted'
  <2>1. \A b \in Adapters : Returned(b) => Returned(b)'
    BY <1>2 DEF Returned
  <2>2. \A b \in Adapters : stage[b] = "settled" => stage'[b] = "settled"
    BY <1>1, <1>3
  <2>3. QED
    BY <1>2, <2>1, <2>2, CountedKept DEF historyVars
<1>9. QED
  BY <1>5, <1>6, <1>7, <1>8 DEF IInv, AdaptersInv

\* What the opener of a popup may be is known to the context.
LEMMA AnnouncePageIInv == ASSUME IInv, NEW a \in Adapters, AnnouncePage(a) PROVE IInv'
<1>1. ContextTypeOK /\ a[1] \in Targets /\ stage[a] = "announcing"
  BY AdapterTab DEF IInv, AnnouncePage
<1>2. UNCHANGED <<browserVars, emits, closed, closingPages, pages, initializing, manualPending,
                  manualIds, call, callTab, callPage, closeVars, historyVars, ready, ctx, toClose>>
  BY DEF AnnouncePage
<1>3. /\ stage' \in [Adapters -> Stages] /\ stage'[a] \in {"introducing", "settled"}
      /\ \A b \in Adapters : b # a => stage'[b] = stage[b]
      /\ pending' \in [Targets -> Adapters \cup {NoAdapter}]
      /\ pending'[a[1]] = pending[a[1]] \/ (pending[a[1]] = a /\ pending'[a[1]] = NoAdapter)
      /\ \A u \in Targets : u # a[1] => pending'[u] = pending[u]
      /\ creatingIds' \subseteq Targets /\ creatingIds' \in {creatingIds, creatingIds \ {a[1]}}
  <2>1. CASE Settle(a)
    BY <1>1, <2>1, SettleMoves
  <2>2. CASE Goto(a, "introducing") /\ UNCHANGED <<pending, creatingIds>>
    BY <1>1, <2>2, GotoMoves DEF Stages, ContextTypeOK, TargetsTypeOK
  <2>3. QED
    BY <2>1, <2>2 DEF AnnouncePage
<1>4. \A b \in OpenerPages(a) : b # NoAdapter => b \in Adapters /\ Shown(b)
  <2>1. pageSet \subseteq Adapters /\ opener[a] \in Adapters \cup {NoAdapter}
    BY <1>1 DEF ContextTypeOK
  <2>2. OpenerPages(a) \subseteq pageSet \cup {opener[a]}
    BY DEF OpenerPages
  <2>3. QED
    BY <2>1, <2>2 DEF Shown
<1>5. NoAdapter \notin OpenerPages(a)
  BY <1>1, TargetsAssumption DEF OpenerPages, ContextTypeOK
<1>6. /\ pageSet' \subseteq Adapters /\ settingUp' \subseteq Adapters /\ emitted' \subseteq Adapters
      /\ opener' \in [Adapters -> Adapters \cup {NoAdapter}]
      /\ \A b \in Adapters : Shown(b)' => Shown(b)
      /\ announced' \in [Adapters -> 0..2] /\ Counted'
  <2>1. CASE Announce(a) /\ Settle(a) /\ UNCHANGED <<pageSet, settingUp, opener>>
    <3>1. stage'[a] = "settled"
      BY <1>1, <2>1, SettleMoves
    <3>2. announced' \in [Adapters -> 0..2] /\ Counted'
      BY <1>1, <1>2, <1>3, <2>1, <3>1, AnnounceCounts DEF historyVars
    <3>3. QED
      BY <1>1, <2>1, <3>2 DEF Announce, ContextTypeOK, Shown
  <2>2. ASSUME NEW b \in OpenerPages(a), Register(b), opener' = [opener EXCEPT ![a] = b],
               UNCHANGED announced
        PROVE  /\ pageSet' \subseteq Adapters /\ settingUp' \subseteq Adapters
               /\ emitted' \subseteq Adapters
               /\ opener' \in [Adapters -> Adapters \cup {NoAdapter}]
               /\ \A d \in Adapters : Shown(d)' => Shown(d)
               /\ announced' \in [Adapters -> 0..2] /\ Counted'
    <3>1. b \in Adapters /\ Shown(b)
      BY <1>4, <1>5
    <3>2. /\ pageSet' = pageSet \cup {b} /\ pageSet' \subseteq Adapters
          /\ settingUp' \subseteq Adapters /\ emitted' \subseteq Adapters
      BY <1>1, <2>2, <3>1, RegisterMoves
    <3>3. /\ opener' \in [Adapters -> Adapters \cup {NoAdapter}] /\ opener'[a] = b
          /\ \A d \in Adapters : d # a => opener'[d] = opener[d]
      BY <1>1, <2>2, <3>1 DEF ContextTypeOK
    <3>4. \A d \in Adapters : Shown(d)' => Shown(d)
      BY <3>1, <3>2, <3>3 DEF Shown
    <3>5. Counted'
      <4>1. \A d \in Adapters : Returned(d) => Returned(d)'
        BY <1>2 DEF Returned
      <4>2. \A d \in Adapters : stage[d] = "settled" => stage'[d] = "settled"
        BY <1>1, <1>3
      <4>3. QED
        BY <1>2, <2>2, <4>1, <4>2, CountedKept DEF historyVars
    <3>6. QED
      BY <1>1, <2>2, <3>2, <3>3, <3>4, <3>5 DEF ContextTypeOK
  <2>3. QED
    BY <2>1, <2>2 DEF AnnouncePage
<1>7. ContextTypeOK'
  BY <1>1, <1>2, <1>3, <1>6 DEF ContextTypeOK, TargetsTypeOK, browserVars, closeVars, historyVars
<1>8. /\ Queue' /\ LeftKept /\ CallsPlaced' /\ Maps' /\ Alone' /\ Taken' /\ Single'
      /\ manualPending' <= Cardinality(Waiting')
  BY <1>1, <1>2, <1>3, PromiseMoves DEF Announcing
<1>9. Placed' /\ Gone'
  <2>1. \A b \in Adapters : Young(b)' => Young(b) /\ (pending[b[1]] = b => pending'[b[1]] = b)
    BY <1>3, AdapterTab DEF Young
  <2>2. \A b \in Adapters : Grown(b)' => Grown(b)
    BY <1>1, <1>3 DEF Grown
  <2>3. QED
    BY <1>1, <1>2, <1>3, <1>6, <1>8, <2>1, <2>2, PlacedKept DEF closeVars, historyVars
<1>10. QED
  BY <1>6, <1>7, <1>8, <1>9 DEF IInv, AdaptersInv

LEMMA IntroducePopupIInv == ASSUME IInv, NEW a \in Adapters, IntroducePopup(a) PROVE IInv'
<1>1. ContextTypeOK /\ a[1] \in Targets /\ stage[a] = "introducing"
  BY AdapterTab DEF IInv, IntroducePopup
<1>2. UNCHANGED <<browserVars, emits, closed, closingPages, pages, initializing, manualPending,
                  manualIds, call, callTab, callPage, closeVars, historyVars, ready, ctx,
                  pageSet, settingUp, opener, toClose>>
  BY DEF IntroducePopup
<1>3. /\ stage' \in [Adapters -> Stages] /\ stage'[a] = "settled"
      /\ \A b \in Adapters : b # a => stage'[b] = stage[b]
      /\ pending' \in [Targets -> Adapters \cup {NoAdapter}]
      /\ pending'[a[1]] = pending[a[1]] \/ (pending[a[1]] = a /\ pending'[a[1]] = NoAdapter)
      /\ \A u \in Targets : u # a[1] => pending'[u] = pending[u]
      /\ creatingIds' \subseteq Targets /\ creatingIds' \in {creatingIds, creatingIds \ {a[1]}}
  BY <1>1, SettleMoves DEF IntroducePopup
<1>4. announced' \in [Adapters -> 0..2] /\ Counted'
  BY <1>1, <1>2, <1>3, AnnounceCounts DEF IntroducePopup, historyVars
<1>5. ContextTypeOK'
  BY <1>1, <1>2, <1>3, <1>4
  DEF ContextTypeOK, TargetsTypeOK, browserVars, closeVars, historyVars, IntroducePopup, Announce
<1>6. /\ Queue' /\ LeftKept /\ CallsPlaced' /\ Maps' /\ Alone' /\ Taken' /\ Single'
      /\ manualPending' <= Cardinality(Waiting')
  BY <1>1, <1>2, <1>3, PromiseMoves DEF Announcing
<1>7. Placed' /\ Gone'
  <2>1. \A b \in Adapters : Young(b)' => Young(b) /\ (pending[b[1]] = b => pending'[b[1]] = b)
    BY <1>3, AdapterTab DEF Young
  <2>2. \A b \in Adapters : (Grown(b)' => Grown(b)) /\ (Shown(b)' => Shown(b))
    BY <1>1, <1>2, <1>3 DEF Grown, Shown
  <2>3. QED
    BY <1>1, <1>2, <1>3, <1>6, <2>1, <2>2, PlacedKept DEF closeVars, historyVars
<1>8. QED
  BY <1>4, <1>5, <1>6, <1>7 DEF IInv, AdaptersInv

LEMMA SetUpFailsIInv == ASSUME IInv, NEW a \in Adapters, SetUpFails(a) PROVE IInv'
<1>1. ContextTypeOK
  BY DEF IInv
<1>2. UNCHANGED <<browserVars, emits, closed, closingPages, pages, initializing, manualPending,
                  creatingIds, manualIds, callTab, callPage, closeVars, historyVars, ready, ctx,
                  emitted, opener, toClose, announced>>
  BY DEF SetUpFails
<1>3. /\ stage' \in [Adapters -> Stages]
      /\ \A b \in Adapters : \/ stage'[b] = stage[b] /\ ~WaitsFor(b, a)
                             \/ stage'[b] = "failed" /\ stage[b] \in {"announcing", "introducing"}
  BY <1>1 DEF SetUpFails, WaitsFor, Stages, ContextTypeOK, TargetsTypeOK
<1>4. /\ pending' \in [Targets -> Adapters \cup {NoAdapter}]
      /\ \A t \in Targets : \/ pending'[t] = pending[t]
                            \/ /\ pending'[t] = NoAdapter
                               /\ stage[pending[t]] \in {"announcing", "introducing"}
  BY <1>1 DEF SetUpFails, WaitsFor, ContextTypeOK, TargetsTypeOK
<1>5. /\ call' \in [Calls -> {"idle", "asked", "looking", "awaiting", "registering", "done", "failed"}]
      /\ \A c \in Calls : call'[c] = call[c] \/ (call[c] = "registering" /\ call'[c] = "failed")
  BY <1>1 DEF SetUpFails, ContextTypeOK, TargetsTypeOK
<1>6. pageSet' \subseteq pageSet /\ settingUp' \subseteq settingUp
  BY DEF SetUpFails
<1>7. ContextTypeOK'
  BY <1>1, <1>2, <1>3, <1>4, <1>5, <1>6
  DEF ContextTypeOK, TargetsTypeOK, browserVars, closeVars, historyVars
<1>8. Queue' /\ LeftKept
  BY <1>2, <1>5, QueueKept DEF IInv, browserVars
<1>9. CallsPlaced' /\ Waiting' = Waiting
  <2>1. Waiting' = Waiting
    BY <1>2, <1>5 DEF Waiting
  <2>2. CallsPlaced'
    BY <1>2, <1>5 DEF IInv, CallsPlaced, browserVars
  <2>3. QED
    BY <2>1, <2>2
<1>10. Maps'
  <2>1. \A t \in Targets : initializing[t] # NoAdapter =>
          initializing[t][1] = t /\ stage'[initializing[t]] \in {"creating", "failed"}
    BY <1>1, <1>3, MapTyped DEF IInv, AdaptersInv, Maps
  <2>2. \A t \in Targets : pending'[t] # NoAdapter => pending'[t][1] = t
    BY <1>4 DEF IInv, AdaptersInv, Maps
  <2>3. \A t \in Targets : tab[t] = "none" =>
          t \notin creatingIds /\ \A b \in Adapters : b[1] = t => stage'[b] = "unused"
    BY <1>3 DEF IInv, AdaptersInv, Maps
  <2>4. \A b \in emits : stage'[b] # "unused"
    BY <1>1, <1>3 DEF IInv, AdaptersInv, Maps, ContextTypeOK, TargetsTypeOK
  <2>5. QED
    BY <1>2, <2>1, <2>2, <2>3, <2>4 DEF IInv, AdaptersInv, Maps, browserVars, historyVars
<1>11. Placed' /\ Gone'
  <2>1. \A b \in Adapters : Young(b)' => Young(b) /\ (pending[b[1]] = b => pending'[b[1]] = b)
    BY <1>3, <1>4, AdapterTab DEF Young
  <2>2. \A b \in Adapters : (Grown(b)' => Grown(b)) /\ (Shown(b)' => Shown(b))
    BY <1>2, <1>3, <1>6 DEF Grown, Shown
  <2>3. QED
    BY <1>2, <1>3, <1>8, <2>1, <2>2, PlacedKept DEF closeVars, historyVars
<1>12. \A b \in Adapters : Over(stage[b]) => Over(stage'[b])
  BY <1>3 DEF Over
<1>13. \A b \in Adapters : Early(b)' => Early(b) /\ stage'[b] = stage[b]
  BY <1>2, <1>3, <1>8, AdapterTab DEF LeftKept, Early
<1>14. Alone'
  <2>1. ASSUME NEW b \in Adapters, b[1] \notin closedHere, OpenerOf[b[1]] = NoTarget, Early(b)'
        PROVE  /\ Early(b) /\ pending'[b[1]] = pending[b[1]] /\ pages'[b[1]] = pages[b[1]]
               /\ stage'[b] = "installing" =>
                    stage[b] = "installing" /\ initializing'[b[1]] = initializing[b[1]]
    <3>1. Early(b) /\ stage'[b] = stage[b] /\ stage[b] \in {"creating", "installing"}
      BY <1>13, <2>1 DEF Early
    <3>2. pending[b[1]] = b
      BY <2>1, <3>1 DEF IInv, AdaptersInv, Alone
    <3>3. pending'[b[1]] = b
      BY <1>4, <3>1, <3>2, AdapterTab
    <3>4. QED
      BY <1>2, <3>1, <3>2, <3>3
  <2>2. QED
    BY <1>2, <1>12, <2>1, AloneKept DEF closeVars, historyVars
<1>15. Taken'
  <2>1. \A b \in Adapters :
          /\ stage'[b] = "installing" => stage[b] = "installing"
          /\ Announcing(stage'[b]) => Announcing(stage[b])
    BY <1>3 DEF Announcing
  <2>2. QED
    BY <1>2, <1>5, <1>8, <1>13, <2>1, TakenKept DEF historyVars
<1>16. Single' /\ Counted'
  <2>1. \A b \in Adapters : Returned(b) => Returned(b)'
    BY <1>2, <1>5 DEF Returned
  <2>2. \A b \in Adapters : stage[b] = "settled" => stage'[b] = "settled"
    BY <1>3
  <2>3. \A t \in Targets : Own(t) => Own(t)'
    BY <1>2 DEF Own
  <2>4. QED
    BY <1>2, <1>12, <2>1, <2>2, <2>3, SingleKept, CountedKept DEF historyVars
<1>17. QED
  BY <1>2, <1>7, <1>8, <1>9, <1>10, <1>11, <1>14, <1>15, <1>16 DEF IInv, AdaptersInv

-----------------------------------------------------------------------------
(* newPage().                                                              *)

\* Steps of a call that leave the adapters where they are.
LEMMA CallMoves ==
  ASSUME IInv, LeftKept,
         UNCHANGED <<tab, pageVars, creatingIds, manualIds, callTab, closeVars, historyVars>>,
         \A c \in Calls : callTab[c] # NoTarget => (call'[c] = "asked" <=> call[c] = "asked"),
         \A b \in Adapters : Shown(b)' => Shown(b) \/ Grown(b)
  PROVE  Maps' /\ Placed' /\ Gone' /\ Alone' /\ Taken' /\ Single'
<1>1. Maps'
  BY DEF IInv, AdaptersInv, Maps, pageVars, historyVars
<1>2. Placed' /\ Gone'
  <2>1. \A b \in Adapters : (Young(b)' <=> Young(b)) /\ (Grown(b)' <=> Grown(b))
    BY DEF Young, Grown, pageVars
  <2>2. QED
    BY <2>1, PlacedKept DEF pageVars, closeVars, historyVars
<1>3. \A b \in Adapters : Early(b)' <=> Early(b)
  BY AdapterTab DEF Early, LeftKept, pageVars
<1>4. Alone'
  BY <1>3, AloneKept DEF pageVars, closeVars, historyVars
<1>5. Taken'
  BY <1>3, TakenKept DEF pageVars, historyVars
<1>6. Single'
  BY SingleKept DEF Own, pageVars, historyVars
<1>7. QED
  BY <1>1, <1>2, <1>4, <1>5, <1>6

LEMMA NewPageIInv ==
  ASSUME IInv, NEW c \in Calls, NewPage(c), UNCHANGED apiVars
  PROVE  IInv'
<1>1. ContextTypeOK /\ call[c] = "idle" /\ manualPending \in Nat
  BY FS_CardinalityType, TargetsAssumption DEF IInv, NewPage, ContextTypeOK, TargetsTypeOK
<1>2. UNCHANGED <<browserVars, pageVars, creatingIds, manualIds, callTab, callPage, closeVars,
                  historyVars, apiVars>>
  BY DEF NewPage
<1>3. /\ call' \in [Calls -> {"idle", "asked", "looking", "awaiting", "registering", "done", "failed"}]
      /\ call'[c] = "asked" /\ \A d \in Calls : d # c => call'[d] = call[d]
  BY <1>1 DEF NewPage, ContextTypeOK, TargetsTypeOK
<1>4. callTab[c] = NoTarget
  BY <1>1 DEF IInv, CallsPlaced
<1>5. manualPending' <= Cardinality(Waiting') /\ manualPending' \in Nat
  <2>1. c \notin Waiting /\ Waiting' = Waiting \cup {c}
    BY <1>1, <1>2, <1>3, <1>4, TargetsAssumption DEF Waiting, ContextTypeOK, TargetsTypeOK
  <2>2. Cardinality(Waiting') = Cardinality(Waiting) + 1
    BY <2>1, WaitingFinite, FS_AddElement
  <2>3. manualPending <= Cardinality(Waiting) /\ manualPending' = manualPending + 1
    BY DEF IInv, NewPage
  <2>4. PICK n \in Nat : n = Cardinality(Waiting)
    BY WaitingFinite
  <2>5. QED
    BY <1>1, <2>2, <2>3, <2>4
<1>6. ContextTypeOK'
  BY <1>1, <1>2, <1>3, <1>5, CountTyped
  DEF ContextTypeOK, TargetsTypeOK, browserVars, pageVars, closeVars, historyVars, apiVars
<1>7. Queue' /\ LeftKept
  BY <1>2, <1>3, <1>4, QueueKept DEF IInv, browserVars
<1>8. CallsPlaced'
  BY <1>2, <1>3, <1>4 DEF IInv, CallsPlaced, browserVars
<1>9. Maps' /\ Placed' /\ Gone' /\ Alone' /\ Taken' /\ Single'
  BY <1>2, <1>3, <1>4, <1>7, CallMoves DEF Shown, browserVars, apiVars
<1>10. Counted'
  <2>1. \A b \in Adapters : Returned(b) => Returned(b)'
    BY <1>1, <1>2, <1>3 DEF Returned
  <2>2. QED
    BY <1>2, <2>1, CountedKept DEF pageVars, historyVars, apiVars
<1>11. QED
  BY <1>5, <1>6, <1>7, <1>8, <1>9, <1>10 DEF IInv, AdaptersInv

\* What a call changes when it goes on.
LEMMA CallMovesOn ==
  ASSUME ContextTypeOK, NEW c \in Calls, NEW s \in {"awaiting", "registering", "done", "failed"},
         call' = [call EXCEPT ![c] = s]
  PROVE  /\ call' \in [Calls -> {"idle", "asked", "looking", "awaiting", "registering", "done", "failed"}]
         /\ call'[c] = s /\ \A d \in Calls : d # c => call'[d] = call[d]
  BY DEF ContextTypeOK, TargetsTypeOK

LEMMA CallGoesOn ==
  ASSUME IInv, NEW c \in Calls, call[c] \in {"looking", "awaiting", "registering"},
         call'[c] \in {"awaiting", "registering", "done", "failed"},
         \A d \in Calls : d # c => call'[d] = call[d] /\ callPage'[d] = callPage[d],
         UNCHANGED <<browserVars, callTab, manualPending, creatingIds, manualIds>>,
         callPage'[c] # NoAdapter, callPage'[c][1] = callTab[c]
  PROVE  Queue' /\ LeftKept /\ CallsPlaced' /\ manualPending' <= Cardinality(Waiting')
<1>1. Queue' /\ LeftKept
  BY QueueKept DEF IInv, browserVars
<1>2. CallsPlaced'
  BY DEF IInv, CallsPlaced, browserVars
<1>3. Waiting' = Waiting
  BY DEF Waiting
<1>4. QED
  BY <1>1, <1>2, <1>3 DEF IInv

LEMMA NewPageRegistersIInv == ASSUME IInv, NEW c \in Calls, NewPageRegisters(c) PROVE IInv'
<1>1. /\ ContextTypeOK /\ call[c] = "awaiting"
      /\ callPage[c] \in Adapters /\ callPage[c] # NoAdapter /\ callPage[c][1] = callTab[c]
  BY DEF IInv, NewPageRegisters, ContextTypeOK, TargetsTypeOK, CallsPlaced
<1>2. UNCHANGED <<browserVars, pageVars, manualPending, creatingIds, manualIds, callTab, callPage,
                  closeVars, historyVars, ready, ctx, opener, toClose, announced>>
  BY DEF NewPageRegisters
<1>3. PICK s : s \in {"registering", "failed"} /\ call' = [call EXCEPT ![c] = s]
  BY DEF NewPageRegisters
<1>c. /\ call' \in [Calls -> {"idle", "asked", "looking", "awaiting", "registering", "done", "failed"}]
      /\ call'[c] = s /\ \A d \in Calls : d # c => call'[d] = call[d]
  BY <1>1, <1>3, CallMovesOn
<1>4. Queue' /\ LeftKept /\ CallsPlaced' /\ manualPending' <= Cardinality(Waiting')
  BY <1>1, <1>2, <1>3, <1>c, CallGoesOn
<1>5. /\ pageSet' \subseteq Adapters /\ settingUp' \subseteq Adapters /\ emitted' \subseteq Adapters
      /\ \A b \in pageSet' : b \in pageSet \/ (b = callPage[c] /\ stage[b] = "settled")
  <2>1. CASE stage[callPage[c]] = "settled" /\ Register(callPage[c])
    BY <1>1, <2>1, RegisterMoves
  <2>2. CASE UNCHANGED <<pageSet, settingUp, emitted>>
    BY <1>1, <2>2 DEF ContextTypeOK
  <2>3. QED
    BY <2>1, <2>2 DEF NewPageRegisters
<1>6. ContextTypeOK'
  BY <1>1, <1>2, <1>c, <1>4, <1>5
  DEF ContextTypeOK, TargetsTypeOK, browserVars, pageVars, closeVars, historyVars
<1>7. Maps' /\ Placed' /\ Gone' /\ Alone' /\ Taken' /\ Single'
  <2>1. \A b \in Adapters : Shown(b)' => Shown(b) \/ Grown(b)
    BY <1>2, <1>5 DEF Shown, Grown
  <2>2. QED
    BY <1>1, <1>2, <1>3, <1>c, <1>4, <2>1, CallMoves DEF browserVars
<1>8. Counted'
  <2>1. \A b \in Adapters : Returned(b) => Returned(b)'
    BY <1>1, <1>2, <1>c, <1>4 DEF Returned
  <2>2. QED
    BY <1>2, <2>1, CountedKept DEF pageVars, historyVars
<1>9. QED
  BY <1>c, <1>4, <1>6, <1>7, <1>8 DEF IInv, AdaptersInv

\* No other call has the tab, so that the adapter was not announced for one.
LEMMA NewPageReturnsIInv == ASSUME IInv, NEW c \in Calls, NewPageReturns(c) PROVE IInv'
<1>1. /\ ContextTypeOK /\ call[c] = "registering"
      /\ callPage[c] \in Adapters /\ callPage[c] # NoAdapter /\ callPage[c][1] = callTab[c]
      /\ callTab[c] # NoTarget
  BY DEF IInv, NewPageReturns, ContextTypeOK, TargetsTypeOK, CallsPlaced
<1>2. UNCHANGED <<browserVars, pageVars, manualPending, creatingIds, manualIds, callTab, callPage,
                  closeVars, historyVars, ready, ctx, pageSet, settingUp, opener, toClose>>
  BY DEF NewPageReturns
<1>3. call' = [call EXCEPT ![c] = "done"]
  BY DEF NewPageReturns
<1>c. /\ call' \in [Calls -> {"idle", "asked", "looking", "awaiting", "registering", "done", "failed"}]
      /\ call'[c] = "done" /\ \A d \in Calls : d # c => call'[d] = call[d]
  BY <1>1, <1>3, CallMovesOn
<1>4. Queue' /\ LeftKept /\ CallsPlaced' /\ manualPending' <= Cardinality(Waiting')
  BY <1>1, <1>2, <1>3, <1>c, CallGoesOn
<1>5. PICK a \in Adapters : a = callPage[c]
  BY <1>1
<1>6. ~Returned(a) /\ Returned(a)' /\ \A b \in Adapters : b # a => (Returned(b)' <=> Returned(b))
  <2>1. ASSUME NEW d \in Calls, call[d] = "done", callPage[d] = a PROVE FALSE
    <3>1. callTab[d] = a[1] /\ callTab[c] = a[1]
      BY <1>1, <1>5, <2>1 DEF IInv, CallsPlaced
    <3>2. d = c
      BY <1>1, <3>1 DEF IInv, CallsPlaced
    <3>3. QED
      BY <1>1, <2>1, <3>2
  <2>2. ~Returned(a)
    BY <2>1 DEF Returned
  <2>3. Returned(a)'
    BY <1>2, <1>c, <1>4, <1>5 DEF Returned
  <2>4. \A b \in Adapters : b # a => (Returned(b)' <=> Returned(b))
    BY <1>1, <1>2, <1>c, <1>4, <1>5 DEF Returned
  <2>5. QED
    BY <2>2, <2>3, <2>4
<1>7. /\ announced \in [Adapters -> 0..2] /\ announced[a] \in {0, 1}
      /\ announced[a] = 1 => stage[a] = "settled" /\ ~(Own(a[1]) /\ a[1] \notin closedHere)
  <2>1. announced[a] \in 0..2 /\ announced \in [Adapters -> 0..2]
    BY <1>1 DEF ContextTypeOK
  <2>2. /\ announced[a] > 0 => stage[a] = "settled" /\ ~(Own(a[1]) /\ a[1] \notin closedHere)
        /\ ~(announced[a] > 1)
    BY <1>6 DEF IInv, AdaptersInv, Counted
  <2>3. QED
    BY <2>1, <2>2
<1>8. /\ announced' \in [Adapters -> 0..2] /\ emitted' \subseteq Adapters
      /\ \A b \in Adapters : b # a => announced'[b] = announced[b]
      /\ announced'[a] \in {announced[a], announced[a] + 1}
  BY <1>1, <1>5, <1>7 DEF NewPageReturns, Announce, ContextTypeOK
<1>9. ContextTypeOK'
  BY <1>1, <1>2, <1>c, <1>4, <1>8
  DEF ContextTypeOK, TargetsTypeOK, browserVars, pageVars, closeVars, historyVars
<1>10. Maps' /\ Placed' /\ Gone' /\ Alone' /\ Taken' /\ Single'
  <2>1. \A b \in Adapters : Shown(b)' => Shown(b) \/ Grown(b)
    BY <1>2 DEF Shown
  <2>2. QED
    BY <1>1, <1>2, <1>3, <1>c, <1>4, <2>1, CallMoves DEF browserVars
<1>11. Counted'
  <2>1. \A t \in Targets : Own(t)' <=> Own(t)
    BY <1>2 DEF Own
  <2>2. SUFFICES ASSUME NEW b \in Adapters
        PROVE  /\ announced'[b] > 0 => stage'[b] = "settled" \/ Returned(b)'
               /\ announced'[b] > 1 => stage'[b] = "settled" /\ Returned(b)'
               /\ Own(b[1]) /\ b[1] \notin closedHere =>
                    announced'[b] <= 1 /\ (announced'[b] > 0 => Returned(b)')
    BY <1>2, <2>1, AdapterTab DEF Counted, historyVars
  <2>3. CASE b = a
    <3>1. announced'[a] \in {0, 1, 2} /\ (announced'[a] > 1 => announced[a] = 1)
      BY <1>7, <1>8
    <3>2. announced[a] # 1 => announced'[a] <= 1
      BY <3>1
    <3>3. QED
      BY <1>2, <1>6, <1>7, <2>3, <3>1, <3>2 DEF pageVars
  <2>4. CASE b # a
    BY <1>2, <1>6, <1>8, <2>4 DEF IInv, AdaptersInv, Counted, pageVars
  <2>5. QED
    BY <2>3, <2>4
<1>12. QED
  BY <1>c, <1>4, <1>9, <1>10, <1>11 DEF IInv, AdaptersInv

\* An adapter is made for a tab that has none in the maps.
Makes(a, t) ==
  /\ stage' = [stage EXCEPT ![a] = "creating"]
  /\ emits' \in {emits, emits \cup {a}}
  /\ pending' = [pending EXCEPT ![t] = a]
  /\ initializing' = [initializing EXCEPT ![t] = a]
  /\ UNCHANGED <<closed, closingPages, pages>>

LEMMA CreateMakes ==
  ASSUME NEW t, NEW emit, Create(t, emit)
  PROVE  \E a \in Unused(t) : Makes(a, t) /\ emits' = IF emit THEN emits \cup {a} ELSE emits
  BY DEF Create, Makes

LEMMA MakesMoves ==
  ASSUME ContextTypeOK, NEW t \in Targets, NEW a \in Unused(t), Makes(a, t)
  PROVE  /\ a \in Adapters /\ a[1] = t /\ stage[a] = "unused"
         /\ stage' \in [Adapters -> Stages] /\ stage'[a] = "creating"
         /\ \A b \in Adapters : b # a => stage'[b] = stage[b]
         /\ pending' \in [Targets -> Adapters \cup {NoAdapter}] /\ pending'[t] = a
         /\ \A u \in Targets : u # t => pending'[u] = pending[u]
         /\ initializing' \in [Targets -> Adapters \cup {NoAdapter}] /\ initializing'[t] = a
         /\ \A u \in Targets : u # t => initializing'[u] = initializing[u]
         /\ emits' \subseteq Adapters
  BY DEF Makes, Unused, Stages, ContextTypeOK, TargetsTypeOK

\* An adapter that may be emitted is made only for a tab that has no other.
LEMMA MakesKeeps ==
  ASSUME IInv, LeftKept, NEW t \in Targets, NEW a \in Unused(t), Makes(a, t), ~Known(t),
         tab[t] # "none",
         UNCHANGED <<tab, callTab, closeVars, closedHere, pageSet, opener, announced>>,
         missed \subseteq missed', manualIds \subseteq manualIds',
         creatingIds \subseteq creatingIds', creatingIds' \subseteq creatingIds \cup {t},
         \A c \in Calls : callTab[c] # NoTarget => (call'[c] = "asked" <=> call[c] = "asked"),
         \A b \in Adapters : Returned(b) => Returned(b)',
         Own(t) \/ (closing = "no" /\ ~Left(t)),
         a \in emits' => /\ closing = "no" /\ ~Left(t)
                         /\ t \notin closedHere =>
                              \A c \in Calls : callTab[c] = t => call[c] = "asked"
  PROVE  AdaptersInv'
<1>1. /\ ContextTypeOK /\ a \in Adapters /\ a[1] = t /\ stage[a] = "unused"
      /\ stage'[a] = "creating" /\ \A b \in Adapters : b # a => stage'[b] = stage[b]
      /\ pending'[t] = a /\ \A u \in Targets : u # t => pending'[u] = pending[u]
      /\ initializing'[t] = a /\ \A u \in Targets : u # t => initializing'[u] = initializing[u]
  BY MakesMoves DEF IInv
<1>2. UNCHANGED <<closed, closingPages, pages>> /\ emits' \in {emits, emits \cup {a}}
  BY DEF Makes
<1>3. pages[t] = NoAdapter /\ pending[t] = NoAdapter
  BY DEF Known
<1>4. \A b \in Adapters : (Left(b[1])' <=> Left(b[1])) /\ (Shown(b)' <=> Shown(b)) /\ b # NoAdapter
  BY AdapterTab DEF LeftKept, Shown
<1>5. \A u \in Targets : Own(u)' <=> Own(u)
  BY DEF Own
<1>6. Maps'
  <2>1. \A u \in Targets : initializing'[u] # NoAdapter =>
          initializing'[u][1] = u /\ stage'[initializing'[u]] \in {"creating", "failed"}
    <3>1. TAKE u \in Targets
    <3>2. HAVE initializing'[u] # NoAdapter
    <3>3. CASE u = t
      BY <1>1, <3>3
    <3>4. CASE u # t
      <4>1. /\ initializing'[u] = initializing[u] /\ initializing[u] \in Adapters
            /\ initializing[u][1] = u /\ stage[initializing[u]] \in {"creating", "failed"}
        BY <1>1, <3>2, <3>4, MapTyped DEF IInv, AdaptersInv, Maps
      <4>2. QED
        BY <1>1, <3>4, <4>1
    <3>5. QED
      BY <3>3, <3>4
  <2>2. \A u \in Targets : /\ pages[u] # NoAdapter => pages[u][1] = u
                           /\ pending'[u] # NoAdapter => pending'[u][1] = u
    BY <1>1 DEF IInv, AdaptersInv, Maps
  <2>3. \A u \in Targets : tab[u] = "none" =>
          u \notin creatingIds' /\ \A b \in Adapters : b[1] = u => stage'[b] = "unused"
    BY <1>1 DEF IInv, AdaptersInv, Maps
  <2>4. \A b \in emits' : stage'[b] # "unused"
    BY <1>1, <1>2 DEF IInv, AdaptersInv, Maps, ContextTypeOK, TargetsTypeOK
  <2>5. QED
    BY <1>2, <2>1, <2>2, <2>3, <2>4 DEF IInv, AdaptersInv, Maps
<1>7. Placed' /\ Gone'
  <2>1. ASSUME closing = "no", NEW b \in Adapters, ~Left(b[1])
        PROVE  /\ Young(b)' => pending'[b[1]] = b /\ pages[b[1]] = NoAdapter
               /\ Grown(b)' /\ (b \notin closed \/ b[1] \notin closedHere) => pages[b[1]] = b
               /\ Shown(b) /\ b \notin closed => pages[b[1]] = b
               /\ b \in closingPages => pages[b[1]] = b
    <3>1. /\ Young(b) => pending[b[1]] = b /\ pages[b[1]] = NoAdapter
          /\ Grown(b) /\ (b \notin closed \/ b[1] \notin closedHere) => pages[b[1]] = b
          /\ Shown(b) /\ b \notin closed => pages[b[1]] = b
          /\ b \in closingPages => pages[b[1]] = b
      BY <2>1 DEF IInv, AdaptersInv, Placed
    <3>2. CASE b = a
      BY <1>1, <1>3, <3>1, <3>2 DEF Grown
    <3>3. CASE b # a
      <4>1. (Young(b)' <=> Young(b)) /\ (Grown(b)' <=> Grown(b))
        BY <1>1, <3>3 DEF Young, Grown
      <4>2. Young(b) => b[1] # t
        BY <1>3, <1>4, <3>1
      <4>3. QED
        BY <1>1, <3>1, <4>1, <4>2, AdapterTab
    <3>4. QED
      BY <3>2, <3>3
  <2>2. ASSUME closing = "no", NEW b \in Adapters, Left(b[1])
        PROVE  \/ b \in closed \cup missed'
               \/ stage'[b] \in {"unused", "creating", "failed"} /\ ~Shown(b) /\ pages[b[1]] # b
    BY <1>1, <2>2 DEF IInv, AdaptersInv, Gone
  <2>3. Placed'
    BY <1>2, <1>4, <2>1 DEF Placed, closeVars
  <2>4. Gone'
    BY <1>2, <1>4, <2>2 DEF Gone, closeVars
  <2>5. QED
    BY <2>3, <2>4
<1>8. ASSUME closing = "no", ~Left(t), t \notin closedHere
      PROVE  \A b \in Adapters : b[1] = t => Over(stage[b])
  <2>1. TAKE b \in Adapters
  <2>2. HAVE b[1] = t
  <2>3. ~Young(b) /\ ~Grown(b)
    BY <1>3, <1>4, <1>8, <2>2 DEF IInv, AdaptersInv, Placed
  <2>4. stage[b] \in Stages
    BY <1>1 DEF ContextTypeOK, TargetsTypeOK
  <2>5. QED
    BY <2>3, <2>4 DEF Young, Grown, Over, Stages
<1>9. a \notin emits
  BY <1>1 DEF IInv, AdaptersInv, Maps
<1>10. \A b \in Adapters : b # a => (Early(b)' <=> Early(b))
  BY <1>1, <1>2, <1>4 DEF Early
<1>11. Alone'
  <2>1. SUFFICES ASSUME NEW b \in Adapters, b[1] \notin closedHere, OpenerOf[b[1]] = NoTarget,
                        Early(b)'
        PROVE  /\ pending'[b[1]] = b /\ pages[b[1]] = NoAdapter
               /\ closing # "no" => b \in awaited
               /\ closing # "done"
               /\ stage'[b] = "installing" => initializing'[b[1]] = NoAdapter
               /\ \A d \in Adapters : d[1] = b[1] /\ d # b => Over(stage'[d])
    BY <1>2 DEF Alone, Over, closeVars
  <2>2. CASE b = a
    <3>1. closing = "no" /\ ~Left(t)
      BY <2>1, <2>2 DEF Early
    <3>2. QED
      BY <1>1, <1>3, <1>8, <2>1, <2>2, <3>1
  <2>3. CASE b # a
    <3>1. Early(b)
      BY <1>10, <2>1, <2>3
    <3>2. /\ pending[b[1]] = b /\ pages[b[1]] = NoAdapter
          /\ closing # "no" => b \in awaited
          /\ closing # "done"
          /\ stage[b] = "installing" => initializing[b[1]] = NoAdapter
          /\ \A d \in Adapters : d[1] = b[1] /\ d # b => Over(stage[d])
      BY <2>1, <3>1 DEF IInv, AdaptersInv, Alone, Over
    <3>3. b[1] # t
      BY <1>3, <1>4, <3>2
    <3>4. \A d \in Adapters : d[1] = b[1] => d # a
      BY <1>1, <3>3
    <3>5. QED
      BY <1>1, <2>3, <3>2, <3>3, <3>4, AdapterTab
  <2>4. QED
    BY <2>2, <2>3
<1>12. Taken'
  <2>1. ASSUME NEW c \in Calls, callTab[c] # NoTarget, callTab[c] \notin closedHere
        PROVE  /\ call'[c] # "asked" => callTab[c] \in manualIds' \/ Left(callTab[c])'
               /\ \A b \in Adapters : b[1] = callTab[c] =>
                    /\ Early(b)' /\ call'[c] # "asked" => b[1] \in creatingIds'
                    /\ stage'[b] = "installing" => call'[c] # "asked"
                    /\ ~Announcing(stage'[b])
    <3>1. /\ call[c] # "asked" => callTab[c] \in manualIds \/ Left(callTab[c])
          /\ \A b \in Adapters : b[1] = callTab[c] =>
               /\ Early(b) /\ call[c] # "asked" => b[1] \in creatingIds
               /\ stage[b] = "installing" => call[c] # "asked"
               /\ ~Announcing(stage[b])
      BY <2>1 DEF IInv, AdaptersInv, Taken, Announcing
    <3>2. Left(callTab[c])' <=> Left(callTab[c])
      <4>1. PICK u \in Targets : u = callTab[c] /\ u = callTab'[c]
        BY <1>1, <2>1 DEF ContextTypeOK, TargetsTypeOK
      <4>2. Left(u)' <=> Left(u)
        BY DEF LeftKept
      <4>3. QED
        BY <4>1, <4>2 DEF Left
    <3>3. Early(a)' /\ a[1] = callTab[c] => call[c] = "asked"
      BY <1>1, <2>1 DEF Early
    <3>4. QED
      BY <1>1, <1>10, <2>1, <3>1, <3>2, <3>3 DEF Announcing
  <2>2. QED
    BY <2>1 DEF Taken, Announcing
<1>13. Single'
  <2>1. SUFFICES ASSUME NEW b \in Adapters, NEW d \in Adapters,
                        b[1] = d[1], b # d, b[1] \notin closedHere, ~Own(b[1])
        PROVE  Over(stage'[b]) \/ Over(stage'[d])
    BY <1>5, AdapterTab DEF Single, Over
  <2>2. Over(stage[b]) \/ Over(stage[d])
    BY <2>1 DEF IInv, AdaptersInv, Single, Over
  <2>3. CASE b[1] = t
    <3>1. Over(stage[b]) /\ Over(stage[d])
      BY <1>8, <2>1, <2>3
    <3>2. QED
      BY <1>1, <2>1, <3>1
  <2>4. CASE b[1] # t
    BY <1>1, <2>1, <2>2, <2>4
  <2>5. QED
    BY <2>3, <2>4
<1>14. Counted'
  BY <1>1, CountedKept
<1>15. QED
  BY <1>6, <1>7, <1>11, <1>12, <1>13, <1>14 DEF AdaptersInv

\* The adapter a call makes itself is not emitted.
LEMMA NewPageLooksIInv ==
  ASSUME IInv, NEW c \in Calls, NewPageLooks(c), UNCHANGED apiVars
  PROVE  IInv'
<1>1. ContextTypeOK /\ call[c] = "looking"
  BY DEF IInv, NewPageLooks
<1>2. PICK t \in Targets : t = callTab[c] /\ tab[t] # "none"
  BY <1>1 DEF IInv, CallsPlaced, ContextTypeOK, TargetsTypeOK
<1>3. UNCHANGED <<browserVars, manualPending, creatingIds, manualIds, callTab, closeVars,
                  historyVars, apiVars>>
  BY DEF NewPageLooks
<1>4. /\ call' \in [Calls -> {"idle", "asked", "looking", "awaiting", "registering", "done", "failed"}]
      /\ call'[c] = "awaiting" /\ \A d \in Calls : d # c => call'[d] = call[d]
  BY <1>1, CallMovesOn DEF NewPageLooks
<1>5. \A b \in Adapters : (Shown(b)' <=> Shown(b))
  BY <1>3 DEF Shown, apiVars
<1>6. CASE Known(t) /\ UNCHANGED pageVars
           /\ callPage' = [callPage EXCEPT ![c] = IF pending[t] # NoAdapter THEN pending[t]
                                                  ELSE pages[t]]
  <2>1. /\ callPage' \in [Calls -> Adapters \cup {NoAdapter}]
        /\ \A d \in Calls : d # c => callPage'[d] = callPage[d]
        /\ callPage'[c] # NoAdapter /\ callPage'[c][1] = t
    <3>1. PICK x : x = IF pending[t] # NoAdapter THEN pending[t] ELSE pages[t]
      OBVIOUS
    <3>2. x # NoAdapter /\ x \in Adapters /\ x[1] = t
      BY <1>1, <1>6, <3>1, MapTyped DEF Known, IInv, AdaptersInv, Maps
    <3>3. QED
      BY <1>1, <1>6, <3>1, <3>2 DEF ContextTypeOK, TargetsTypeOK
  <2>2. Queue' /\ LeftKept /\ CallsPlaced' /\ manualPending' <= Cardinality(Waiting')
    BY <1>1, <1>2, <1>3, <1>4, <2>1, CallGoesOn
  <2>3. ContextTypeOK'
    BY <1>1, <1>3, <1>4, <1>6, <2>1
    DEF ContextTypeOK, TargetsTypeOK, browserVars, pageVars, closeVars, historyVars, apiVars
  <2>4. Maps' /\ Placed' /\ Gone' /\ Alone' /\ Taken' /\ Single'
    BY <1>1, <1>3, <1>4, <1>5, <1>6, <2>2, CallMoves DEF browserVars
  <2>5. Counted'
    <3>1. \A b \in Adapters : Returned(b) => Returned(b)'
      BY <1>1, <1>4, <2>1 DEF Returned
    <3>2. QED
      BY <1>3, <1>6, <3>1, CountedKept DEF pageVars, historyVars, apiVars
  <2>6. QED
    BY <2>2, <2>3, <2>4, <2>5 DEF IInv, AdaptersInv
<1>7. CASE ~Known(t) /\ Create(t, FALSE) /\ callPage' = [callPage EXCEPT ![c] = pending'[t]]
  <2>1. PICK a \in Unused(t) : Makes(a, t) /\ emits' = emits
    BY <1>7, CreateMakes
  <2>2. /\ a \in Adapters /\ a[1] = t /\ stage[a] = "unused"
        /\ stage' \in [Adapters -> Stages]
        /\ pending' \in [Targets -> Adapters \cup {NoAdapter}] /\ pending'[t] = a
        /\ initializing' \in [Targets -> Adapters \cup {NoAdapter}]
        /\ UNCHANGED <<closed, closingPages, pages>>
    BY <1>1, <2>1, MakesMoves DEF Makes
  <2>3. /\ callPage' \in [Calls -> Adapters \cup {NoAdapter}]
        /\ \A d \in Calls : d # c => callPage'[d] = callPage[d]
        /\ callPage'[c] # NoAdapter /\ callPage'[c][1] = t
    BY <1>1, <1>7, <2>2, AdapterTab DEF ContextTypeOK, TargetsTypeOK
  <2>4. Queue' /\ LeftKept /\ CallsPlaced' /\ manualPending' <= Cardinality(Waiting')
    BY <1>1, <1>2, <1>3, <1>4, <2>3, CallGoesOn
  <2>5. ContextTypeOK'
    BY <1>1, <1>3, <1>4, <2>1, <2>2, <2>3
    DEF ContextTypeOK, TargetsTypeOK, browserVars, closeVars, historyVars, apiVars
  <2>6. a \notin emits
    BY <2>2 DEF IInv, AdaptersInv, Maps
  <2>7. AdaptersInv'
    <3>1. \A b \in Adapters : Returned(b) => Returned(b)'
      BY <1>1, <1>4, <2>3 DEF Returned
    <3>2. Own(t)
      BY <1>2 DEF Own
    <3>3. \A d \in Calls : call'[d] = "asked" <=> call[d] = "asked"
      BY <1>1, <1>4
    <3>4. QED
      BY <1>2, <1>3, <1>7, <2>1, <2>4, <2>6, <3>1, <3>2, <3>3, MakesKeeps
      DEF browserVars, historyVars, apiVars
  <2>8. QED
    BY <2>4, <2>5, <2>7 DEF IInv
<1>8. QED
  BY <1>2, <1>6, <1>7 DEF NewPageLooks

-----------------------------------------------------------------------------
(* Closing.                                                                *)

\* Pages that are not closed get closed.
LEMMA ClosingMoves ==
  ASSUME IInv, NEW S \in SUBSET (Adapters \ closed), StartClosing(S), Detach,
         S \subseteq pageSet \/ closing' # "no",
         closing' = "no" => closing = "no",
         UNCHANGED <<browserVars, stage, emits, pages, pending, initializing, manualVars, missed,
                     settingUp, opener, announced>>
  PROVE  /\ Queue' /\ LeftKept /\ CallsPlaced' /\ Maps' /\ Placed' /\ Gone' /\ Taken'
         /\ Single' /\ Counted' /\ manualPending' <= Cardinality(Waiting')
         /\ closed' \subseteq Adapters /\ closingPages' \subseteq closed'
         /\ closedHere' \subseteq Targets /\ pageSet' \subseteq Adapters
         /\ closedHere \subseteq closedHere' /\ \A b \in Adapters : Early(b)' <=> Early(b)
<1>1. ContextTypeOK
  BY DEF IInv
<1>2. /\ closed' = closed \cup S /\ closingPages' = closingPages \cup S
      /\ closedHere' = closedHere \cup {a[1] : a \in S}
      /\ pageSet' \subseteq pageSet
  BY DEF StartClosing, Detach
<1>3. Queue' /\ LeftKept
  BY QueueKept DEF IInv, browserVars, manualVars
<1>4. CallsPlaced' /\ Waiting' = Waiting
  BY DEF IInv, CallsPlaced, Waiting, browserVars, manualVars
<1>5. Maps'
  <2>1. \A b \in closingPages' : b[1] \in closedHere'
    BY <1>2 DEF IInv, AdaptersInv, Maps
  <2>2. QED
    BY <2>1 DEF IInv, AdaptersInv, Maps, browserVars, manualVars
<1>6. Placed' /\ Gone'
  <2>1. CASE closing' # "no"
    BY <2>1 DEF Placed, Gone
  <2>2. CASE closing' = "no"
    <3>1. \A b \in Adapters : (Young(b)' <=> Young(b)) /\ (Grown(b)' <=> Grown(b))
      BY DEF Young, Grown
    <3>2. \A b \in Adapters : Shown(b)' => Shown(b)
      BY <1>2 DEF Shown
    <3>3. \A b \in closingPages' : b \in closingPages \/ (b \in pageSet /\ b \notin closed)
      BY <1>2, <2>2
    <3>4. QED
      BY <1>2, <1>3, <2>2, <3>1, <3>2, <3>3, PlacedKept
  <2>3. QED
    BY <2>1, <2>2
<1>7. \A b \in Adapters : Early(b)' <=> Early(b)
  BY <1>3, AdapterTab DEF Early, LeftKept
<1>8. Taken'
  BY <1>2, <1>3, <1>7, TakenKept DEF manualVars
<1>9. Single' /\ Counted'
  <2>1. (\A t \in Targets : Own(t) => Own(t)') /\ \A b \in Adapters : Returned(b) => Returned(b)'
    BY DEF Own, Returned, manualVars
  <2>2. QED
    BY <1>2, <2>1, SingleKept, CountedKept DEF manualVars
<1>10. /\ closed' \subseteq Adapters /\ closingPages' \subseteq closed'
       /\ closedHere' \subseteq Targets /\ pageSet' \subseteq Adapters
       /\ closedHere \subseteq closedHere'
  BY <1>1, <1>2, AdapterTab DEF ContextTypeOK, TargetsTypeOK
<1>11. manualPending' <= Cardinality(Waiting')
  BY <1>4 DEF IInv, manualVars
<1>12. QED
  BY <1>3, <1>4, <1>5, <1>6, <1>7, <1>8, <1>9, <1>10, <1>11

LEMMA PageCloseIInv == ASSUME IInv, NEW a \in Adapters, PageClose(a) PROVE IInv'
<1>1. ContextTypeOK
  BY DEF IInv
<1>2. UNCHANGED <<browserVars, stage, emits, pages, pending, initializing, manualVars, closeVars,
                  mistaken, missed, ready, ctx, settingUp, emitted, opener, toClose, announced>>
  BY DEF PageClose
<1>3. StartClosing({a}) /\ Detach /\ {a} \in SUBSET (Adapters \ closed) /\ {a} \subseteq pageSet
  BY DEF PageClose
<1>4. /\ Queue' /\ LeftKept /\ CallsPlaced' /\ Maps' /\ Placed' /\ Gone' /\ Taken'
      /\ Single' /\ Counted' /\ manualPending' <= Cardinality(Waiting')
      /\ closed' \subseteq Adapters /\ closingPages' \subseteq closed'
      /\ closedHere' \subseteq Targets /\ pageSet' \subseteq Adapters
      /\ closedHere \subseteq closedHere' /\ \A b \in Adapters : Early(b)' <=> Early(b)
  BY <1>2, <1>3, ClosingMoves DEF closeVars
<1>5. Alone'
  BY <1>2, <1>4, AloneKept DEF closeVars
<1>6. ContextTypeOK'
  BY <1>1, <1>2, <1>4 DEF ContextTypeOK, TargetsTypeOK, browserVars, manualVars, closeVars
<1>7. QED
  BY <1>4, <1>5, <1>6 DEF IInv, AdaptersInv

LEMMA ContextCloseIInv == ASSUME IInv, ContextClose PROVE IInv'
<1>1. ContextTypeOK
  BY DEF IInv
<1>2. UNCHANGED <<browserVars, stage, emits, pages, pending, initializing, manualVars, closeVars,
                  mistaken, missed, ready, settingUp, emitted, opener, announced>>
  BY DEF ContextClose
<1>3. PICK S : S = pageSet \ closed
  OBVIOUS
<1>4. /\ StartClosing(S) /\ Detach /\ S \in SUBSET (Adapters \ closed) /\ S \subseteq pageSet
      /\ ctx' = "pages" /\ toClose' = S
  BY <1>1, <1>3 DEF ContextClose, ContextTypeOK
<1>5. /\ Queue' /\ LeftKept /\ CallsPlaced' /\ Maps' /\ Placed' /\ Gone' /\ Taken'
      /\ Single' /\ Counted' /\ manualPending' <= Cardinality(Waiting')
      /\ closed' \subseteq Adapters /\ closingPages' \subseteq closed'
      /\ closedHere' \subseteq Targets /\ pageSet' \subseteq Adapters
      /\ closedHere \subseteq closedHere' /\ \A b \in Adapters : Early(b)' <=> Early(b)
  BY <1>2, <1>4, ClosingMoves DEF closeVars
<1>6. Alone'
  BY <1>2, <1>5, AloneKept DEF closeVars
<1>7. ContextTypeOK'
  BY <1>1, <1>2, <1>4, <1>5 DEF ContextTypeOK, TargetsTypeOK, browserVars, manualVars, closeVars
<1>8. QED
  BY <1>5, <1>6, <1>7 DEF IInv, AdaptersInv

\* All adapters that are being made are awaited.
LEMMA AdapterCloseIInv == ASSUME IInv, AdapterClose PROVE IInv'
<1>1. ContextTypeOK
  BY DEF IInv
<1>2. UNCHANGED <<browserVars, stage, emits, pages, pending, initializing, manualVars,
                  mistaken, missed, ready, settingUp, emitted, opener, announced>>
  BY DEF AdapterClose
<1>3. PICK S : S = ({pages[t] : t \in Targets} \ {NoAdapter}) \ closed
  OBVIOUS
<1>4. /\ StartClosing(S) /\ Detach /\ S \in SUBSET (Adapters \ closed)
      /\ ctx' = "adapter" /\ toClose' = S /\ closing' = "pages"
  BY <1>1, <1>3, MapTyped DEF AdapterClose
<1>5. /\ Queue' /\ LeftKept /\ CallsPlaced' /\ Maps' /\ Placed' /\ Gone' /\ Taken'
      /\ Single' /\ Counted' /\ manualPending' <= Cardinality(Waiting')
      /\ closed' \subseteq Adapters /\ closingPages' \subseteq closed'
      /\ closedHere' \subseteq Targets /\ pageSet' \subseteq Adapters
      /\ closedHere \subseteq closedHere' /\ \A b \in Adapters : Early(b)' <=> Early(b)
  BY <1>2, <1>4, ClosingMoves
<1>6. awaited' \subseteq Adapters /\ \A t \in Targets : pending[t] # NoAdapter => pending[t] \in awaited'
  BY <1>1, MapTyped DEF AdapterClose
<1>7. Alone'
  <2>1. SUFFICES ASSUME NEW b \in Adapters, b[1] \notin closedHere', OpenerOf[b[1]] = NoTarget,
                        Early(b)'
        PROVE  /\ pending'[b[1]] = b /\ pages'[b[1]] = NoAdapter
               /\ b \in awaited' /\ closing' # "done"
               /\ stage'[b] = "installing" => initializing'[b[1]] = NoAdapter
               /\ \A d \in Adapters : d[1] = b[1] /\ d # b => stage'[d] \in {"unused", "failed"}
    BY DEF Alone
  <2>2. /\ pending[b[1]] = b /\ pages[b[1]] = NoAdapter
        /\ stage[b] = "installing" => initializing[b[1]] = NoAdapter
        /\ \A d \in Adapters : d[1] = b[1] /\ d # b => stage[d] \in {"unused", "failed"}
    BY <1>5, <2>1 DEF IInv, AdaptersInv, Alone
  <2>3. b \in awaited'
    BY <1>6, <2>2, AdapterTab
  <2>4. QED
    BY <1>2, <1>4, <2>2, <2>3
<1>8. ContextTypeOK'
  BY <1>1, <1>2, <1>4, <1>5, <1>6 DEF ContextTypeOK, TargetsTypeOK, browserVars, manualVars
<1>9. QED
  BY <1>5, <1>7, <1>8 DEF IInv, AdaptersInv

\* What is known of the target goes, as onClosed is called for its page.
LEMMA PageCloseEndsIInv == ASSUME IInv, NEW a \in Adapters, PageCloseEnds(a) PROVE IInv'
<1>1. ContextTypeOK /\ a \in closingPages /\ a \in closed
  BY DEF IInv, PageCloseEnds, ContextTypeOK, TargetsTypeOK
<1>2. UNCHANGED <<events, polls, stage, emits, closed, manualPending, call, callTab, callPage,
                  closeVars, historyVars, apiVars>>
  BY DEF PageCloseEnds
<1>3. PICK t \in Targets : t = a[1] /\ t \in closedHere
  BY <1>1, AdapterTab DEF IInv, AdaptersInv, Maps
<1>4. /\ tab' \in [Targets -> {"none", "open", "closing", "gone"}]
      /\ \A u \in Targets : tab'[u] = tab[u] \/ (tab[u] = "open" /\ tab'[u] = "closing")
  BY <1>1, <1>3 DEF PageCloseEnds, ContextTypeOK, TargetsTypeOK
<1>5. /\ pages' \in [Targets -> Adapters \cup {NoAdapter}] /\ pages'[t] = NoAdapter
      /\ pending' \in [Targets -> Adapters \cup {NoAdapter}] /\ pending'[t] = NoAdapter
      /\ initializing' \in [Targets -> Adapters \cup {NoAdapter}] /\ initializing'[t] = NoAdapter
      /\ \A u \in Targets : u # t =>
           pages'[u] = pages[u] /\ pending'[u] = pending[u] /\ initializing'[u] = initializing[u]
  BY <1>1, <1>3, ClearMoves DEF PageCloseEnds, OnClosed, ContextTypeOK, TargetsTypeOK
<1>6. /\ manualIds' = manualIds \ {t} /\ creatingIds' = creatingIds \ {t}
      /\ closingPages' = closingPages \ {a}
  BY <1>3 DEF PageCloseEnds, OnClosed
<1>7. ContextTypeOK'
  BY <1>1, <1>2, <1>4, <1>5, <1>6 DEF ContextTypeOK, TargetsTypeOK, closeVars, historyVars, apiVars
<1>8. Queue' /\ LeftKept
  BY <1>2, <1>4, QueueKept DEF IInv
<1>9. CallsPlaced' /\ manualPending' <= Cardinality(Waiting')
  <2>1. Waiting \subseteq Waiting'
    BY <1>2, <1>6 DEF Waiting
  <2>2. CallsPlaced'
    BY <1>1, <1>2, <1>4 DEF IInv, CallsPlaced, ContextTypeOK, TargetsTypeOK
  <2>3. QED
    BY <1>1, <1>2, <2>1, <2>2, StillWaiting DEF IInv
<1>10. Maps'
  <2>1. \A u \in Targets :
          /\ pages'[u] # NoAdapter => pages'[u][1] = u
          /\ pending'[u] # NoAdapter => pending'[u][1] = u
          /\ initializing'[u] # NoAdapter =>
               initializing'[u][1] = u /\ stage[initializing'[u]] \in {"creating", "failed"}
    BY <1>5 DEF IInv, AdaptersInv, Maps
  <2>2. \A u \in Targets : tab'[u] = "none" =>
          u \notin creatingIds' /\ \A b \in Adapters : b[1] = u => stage[b] = "unused"
    BY <1>4, <1>6 DEF IInv, AdaptersInv, Maps
  <2>3. QED
    BY <1>2, <1>6, <2>1, <2>2 DEF IInv, AdaptersInv, Maps, historyVars
<1>11. Placed' /\ Gone'
  <2>1. \A b \in Adapters : (Left(b[1])' <=> Left(b[1])) /\ (Shown(b)' <=> Shown(b)) /\ b # NoAdapter
    BY <1>2, <1>8, AdapterTab DEF LeftKept, Shown, apiVars
  <2>2. \A b \in Adapters : (Young(b)' <=> Young(b)) /\ (Grown(b)' <=> Grown(b))
    BY <1>2 DEF Young, Grown
  <2>3. ASSUME closing = "no", NEW b \in Adapters, ~Left(b[1])
        PROVE  /\ Young(b) => pending'[b[1]] = b /\ pages'[b[1]] = NoAdapter
               /\ Grown(b) /\ (b \notin closed \/ b[1] \notin closedHere) => pages'[b[1]] = b
               /\ Shown(b) /\ b \notin closed => pages'[b[1]] = b
               /\ b \in closingPages' => pages'[b[1]] = b
    <3>1. /\ Young(b) => pending[b[1]] = b /\ pages[b[1]] = NoAdapter
          /\ Grown(b) /\ (b \notin closed \/ b[1] \notin closedHere) => pages[b[1]] = b
          /\ Shown(b) /\ b \notin closed => pages[b[1]] = b
          /\ b \in closingPages => pages[b[1]] = b
      BY <2>3 DEF IInv, AdaptersInv, Placed
    <3>2. CASE b[1] = t
      <4>1. pages[t] = a /\ a # NoAdapter
        BY <1>1, <1>3, <2>1, <2>3, <3>2 DEF IInv, AdaptersInv, Placed
      <4>2. QED
        BY <1>1, <1>3, <1>6, <3>1, <3>2, <4>1
    <3>3. CASE b[1] # t
      BY <1>5, <1>6, <3>1, <3>3, AdapterTab
    <3>4. QED
      BY <3>2, <3>3
  <2>4. ASSUME closing = "no", NEW b \in Adapters, Left(b[1])
        PROVE  \/ b \in closed \cup missed
               \/ stage[b] \in {"unused", "creating", "failed"} /\ ~Shown(b) /\ pages'[b[1]] # b
    <3>1. \/ b \in closed \cup missed
          \/ stage[b] \in {"unused", "creating", "failed"} /\ ~Shown(b) /\ pages[b[1]] # b
      BY <2>4 DEF IInv, AdaptersInv, Gone
    <3>2. pages'[b[1]] = b => pages[b[1]] = b
      BY <1>5, <2>1, AdapterTab
    <3>3. QED
      BY <3>1, <3>2
  <2>5. Placed'
    BY <1>2, <2>1, <2>2, <2>3 DEF Placed, closeVars, historyVars
  <2>6. Gone'
    BY <1>2, <2>1, <2>4 DEF Gone, closeVars, historyVars
  <2>7. QED
    BY <2>5, <2>6
<1>12. \A b \in Adapters : Early(b)' <=> Early(b)
  BY <1>2, <1>8, AdapterTab DEF Early, LeftKept
<1>13. Alone'
  <2>1. \A b \in Adapters : b[1] \notin closedHere => b[1] # t
    BY <1>3
  <2>2. QED
    BY <1>2, <1>5, <1>12, <2>1, AdapterTab, AloneKept DEF closeVars, historyVars
<1>14. Taken'
  BY <1>2, <1>3, <1>6, <1>8, <1>12, TakenKept DEF historyVars
<1>15. Single' /\ Counted'
  <2>1. (\A u \in Targets : Own(u) => Own(u)') /\ \A b \in Adapters : Returned(b) => Returned(b)'
    BY <1>2 DEF Own, Returned
  <2>2. QED
    BY <1>2, <2>1, SingleKept, CountedKept DEF historyVars, apiVars
<1>16. QED
  BY <1>7, <1>8, <1>9, <1>10, <1>11, <1>13, <1>14, <1>15 DEF IInv, AdaptersInv

LEMMA ContextDisposedIInv == ASSUME IInv, ContextDisposed PROVE IInv'
<1>1. ContextTypeOK /\ closing = "pages" /\ closing' = "pending"
  BY DEF IInv, ContextDisposed
<1>2. UNCHANGED <<events, polls, stage, emits, closed, closingPages, pending, initializing,
                  manualVars, awaited, historyVars, apiVars>>
  BY DEF ContextDisposed
<1>3. /\ tab' \in [Targets -> {"none", "open", "closing", "gone"}]
      /\ \A u \in Targets : tab'[u] = tab[u] \/ (tab[u] = "open" /\ tab'[u] = "closing")
  BY <1>1 DEF ContextDisposed, ContextTypeOK, TargetsTypeOK
<1>4. pages' \in [Targets -> Adapters \cup {NoAdapter}] /\ \A u \in Targets : pages'[u] = NoAdapter
  BY DEF ContextDisposed
<1>5. ContextTypeOK'
  BY <1>1, <1>2, <1>3, <1>4 DEF ContextTypeOK, TargetsTypeOK, manualVars, historyVars, apiVars
<1>6. Queue' /\ LeftKept
  BY <1>2, <1>3, QueueKept DEF IInv, manualVars
<1>7. CallsPlaced' /\ Waiting' = Waiting
  BY <1>1, <1>2, <1>3 DEF IInv, CallsPlaced, Waiting, manualVars, ContextTypeOK, TargetsTypeOK
<1>8. Maps'
  BY <1>2, <1>3, <1>4 DEF IInv, AdaptersInv, Maps, manualVars, historyVars
<1>9. Placed' /\ Gone'
  BY <1>1 DEF Placed, Gone
<1>10. \A b \in Adapters : Early(b)' <=> Early(b)
  BY <1>2, <1>6, AdapterTab DEF Early, LeftKept
<1>11. Alone'
  BY <1>1, <1>2, <1>4, <1>10, AdapterTab DEF IInv, AdaptersInv, Alone, historyVars
<1>12. Taken'
  BY <1>2, <1>6, <1>10, TakenKept DEF manualVars, historyVars
<1>13. Single' /\ Counted'
  <2>1. (\A u \in Targets : Own(u) => Own(u)') /\ \A b \in Adapters : Returned(b) => Returned(b)'
    BY <1>2 DEF Own, Returned, manualVars
  <2>2. QED
    BY <1>2, <2>1, SingleKept, CountedKept DEF manualVars, historyVars, apiVars
<1>14. QED
  BY <1>2, <1>5, <1>6, <1>7, <1>8, <1>9, <1>11, <1>12, <1>13 DEF IInv, AdaptersInv, manualVars

\* No adapter that was awaited is being made any more.
LEMMA CloseReturnsIInv == ASSUME IInv, CloseReturns PROVE IInv'
<1>1. ContextTypeOK /\ closing = "pending" /\ closing' = "done"
  BY DEF IInv, CloseReturns
<1>2. UNCHANGED <<browserVars, stage, emits, closed, closingPages, pages, manualVars, awaited,
                  historyVars, apiVars>>
  BY DEF CloseReturns
<1>3. /\ pending' \in [Targets -> Adapters \cup {NoAdapter}]
      /\ initializing' \in [Targets -> Adapters \cup {NoAdapter}]
      /\ \A u \in Targets : pending'[u] = NoAdapter /\ initializing'[u] = NoAdapter
  BY DEF CloseReturns
<1>4. ContextTypeOK'
  BY <1>1, <1>2, <1>3
  DEF ContextTypeOK, TargetsTypeOK, browserVars, manualVars, historyVars, apiVars
<1>5. Queue' /\ LeftKept
  BY <1>2, QueueKept DEF IInv, browserVars, manualVars
<1>6. CallsPlaced' /\ Waiting' = Waiting
  BY <1>2 DEF IInv, CallsPlaced, Waiting, browserVars, manualVars
<1>7. Maps'
  BY <1>2, <1>3 DEF IInv, AdaptersInv, Maps, browserVars, manualVars, historyVars
<1>8. Placed' /\ Gone'
  BY <1>1 DEF Placed, Gone
<1>9. \A b \in Adapters : Early(b)' <=> Early(b)
  BY <1>2, <1>5, AdapterTab DEF Early, LeftKept
<1>10. Alone'
  <2>1. ASSUME NEW b \in Adapters, b[1] \notin closedHere, OpenerOf[b[1]] = NoTarget, Early(b)
        PROVE  FALSE
    <3>1. b \in awaited
      BY <1>1, <2>1 DEF IInv, AdaptersInv, Alone
    <3>2. stage[b] \in {"settled", "failed"}
      BY <3>1 DEF CloseReturns, Finished
    <3>3. QED
      BY <2>1, <3>2 DEF Early
  <2>2. QED
    BY <1>2, <1>9, <2>1 DEF Alone, historyVars
<1>11. Taken'
  BY <1>2, <1>5, <1>9, TakenKept DEF manualVars, historyVars
<1>12. Single' /\ Counted'
  <2>1. (\A u \in Targets : Own(u) => Own(u)') /\ \A b \in Adapters : Returned(b) => Returned(b)'
    BY <1>2 DEF Own, Returned, manualVars
  <2>2. QED
    BY <1>2, <2>1, SingleKept, CountedKept DEF manualVars, historyVars, apiVars
<1>13. QED
  BY <1>2, <1>4, <1>5, <1>6, <1>7, <1>8, <1>10, <1>11, <1>12 DEF IInv, AdaptersInv, manualVars

-----------------------------------------------------------------------------
(* Events.                                                                 *)

\* The head of the queue, when it does not say that a tab is gone.
LEMMA HeadHandled ==
  ASSUME IInv, events # << >>, events' = Tail(events), UNCHANGED tab,
         Head(events).kind # "gone"
  PROVE  TabsInOrder(events', tab') /\ LeftKept /\ events' \in Seq(Events)
<1>1. events \in Seq(Events) /\ TabsInOrder(events, tab)
  BY DEF IInv, ContextTypeOK, TargetsTypeOK, Queue
<1>2. TabsInOrder(events', tab') /\ events' \in Seq(Events)
  BY <1>1, TailInOrder, TailFacts
<1>3. \A t \in Targets : In(events', Event("gone", t)) <=> In(events, Event("gone", t))
  <2>1. \A t \in Targets : Event("gone", t).kind = "gone"
    BY DEF Event
  <2>2. QED
    BY <1>1, <2>1, TailFacts
<1>4. LeftKept
  BY <1>3 DEF LeftKept, Left
<1>5. QED
  BY <1>2, <1>4

LEMMA NoneDetached ==
  ASSUME closed' = closed, Detach
  PROVE  pageSet' = pageSet
  BY DEF Detach

LEMMA TargetsHandledIInv ==
  ASSUME IInv, events # << >>, Head(events).kind = "targets", HandleTargets(Head(events).tabs),
         UNCHANGED <<tab, polls, pageVars, manualVars, closeVars, historyVars, apiVars>>
  PROVE  IInv'
<1>1. ContextTypeOK /\ events \in Seq(Events) /\ Head(events) \in Events
  BY TailFacts DEF IInv, ContextTypeOK, TargetsTypeOK
<1> DEFINE U == {t \in Head(events).tabs : ~Known(t) /\ tab[t] \in {"open", "closing"}}
           order == CHOOSE s \in [1..Cardinality(U) -> U] :
                      \A t \in U : \E i \in DOMAIN s : s[i] = t
<1>2. events' = Tail(events) \o [i \in DOMAIN order |-> Event("attached", order[i])]
  BY DEF HandleTargets
<1>3. U \subseteq Targets /\ \A t \in U : tab[t] \in {"open", "closing"}
  BY <1>1, EventForms
<1>4. Cardinality(U) \in Nat /\ ExistsBijection(1..Cardinality(U), U)
  <2> HIDE DEF U
  <2>1. IsFiniteSet(U)
    BY <1>3, TargetsAssumption, FS_Subset
  <2>2. QED
    BY <2>1, FS_CardinalityType
<1>5. order \in [1..Cardinality(U) -> U]
  <2> HIDE DEF U
  <2>1. \E s \in [1..Cardinality(U) -> U] : \A t \in U : \E i \in DOMAIN s : s[i] = t
    BY <1>4 DEF ExistsBijection, Bijection, Surjection, Injection
  <2>2. QED
    BY <2>1
<1> HIDE DEF U, order
<1>6. PICK n : n = Cardinality(U)
  OBVIOUS
<1>7. PICK s : s = [i \in 1..n |-> Event("attached", order[i])]
  OBVIOUS
<1>8. /\ events' = Tail(events) \o s /\ s \in Seq(Events) /\ Len(s) = n
      /\ \A i \in 1..Len(s) :
           \E t \in Targets : s[i] = Event("attached", t) /\ tab[t] \in {"open", "closing"}
  <2>1. DOMAIN order = 1..n
    BY <1>6, <1>5
  <2>2. \A i \in 1..n : order[i] \in Targets /\ tab[order[i]] \in {"open", "closing"}
    BY <1>6, <1>3, <1>5
  <2>3. \A i \in 1..n : s[i] = Event("attached", order[i]) /\ s[i] \in Events
    BY <1>7, <2>2 DEF Event, Events
  <2>4. s \in Seq(Events) /\ Len(s) = n
    BY <1>6, <1>4, <1>7, <2>3
  <2>5. QED
    BY <1>2, <1>7, <2>1, <2>2, <2>3, <2>4
<1>9. /\ TabsInOrder(Tail(events), tab) /\ CallsInOrder(Tail(events), call, callTab)
       /\ Tail(events) \in Seq(Events)
       /\ \A t \in Targets : In(Tail(events), Event("gone", t)) <=> In(events, Event("gone", t))
  <2>1. \A t \in Targets : Event("gone", t).kind = "gone"
    BY DEF Event
  <2>2. QED
    BY <1>1, <2>1, TailInOrder, OtherInOrder, TailFacts DEF IInv, Queue
<1>10. /\ TabsInOrder(events', tab)
       /\ \A t \in Targets : In(events', Event("gone", t)) <=> In(events, Event("gone", t))
  <2>1. \A t \in Targets, u \in Targets :
          /\ Event("gone", t) # Event("attached", u)
          /\ Event("attached", t) = Event("attached", u) => t = u
    <3>1. \A t \in Targets : /\ Event("gone", t).kind = "gone"
                             /\ Event("attached", t).kind = "attached" /\ Event("attached", t).tab = t
      BY DEF Event
    <3>2. QED
      BY <3>1
  <2>2. \A t \in Targets : /\ ~In(s, Event("gone", t))
                           /\ In(s, Event("attached", t)) => tab[t] \in {"open", "closing"}
    BY <1>8, <2>1 DEF In
  <2>3. QED
    BY <1>8, <1>9, <2>2, MoreInOrder
<1>11. CallsInOrder(events', call, callTab)
  <2>1. \A i \in 1..Len(s) : s[i].kind \notin {"created", "refused"}
    BY <1>8 DEF Event
  <2>2. QED
    BY <1>8, <1>9, <2>1, CallsMoreInOrder
<1>12. ContextTypeOK'
  <2>1. events' \in Seq(Events)
    BY <1>8, <1>9, MoreFacts
  <2>2. QED
    BY <1>1, <2>1 DEF ContextTypeOK, TargetsTypeOK, pageVars, manualVars, closeVars, historyVars,
                      apiVars
<1>13. LeftKept
  BY <1>10 DEF LeftKept, Left
<1>14. QED
  BY <1>10, <1>11, <1>12, <1>13, BrowserMoves DEF Queue, manualVars, apiVars

\* A tab that is told of has not left, so that it has no adapter if the maps
\* have none.
LEMMA AttachedHandledIInv ==
  ASSUME IInv, NEW t \in Targets, events # << >>, Head(events) = Event("attached", t),
         events' = Tail(events), HandleAttached(t), Detach,
         UNCHANGED <<tab, polls, closeVars, missed, closedHere, ready, ctx, settingUp, emitted,
                     opener, toClose, announced>>
  PROVE  IInv'
<1>1. /\ ContextTypeOK /\ events \in Seq(Events) /\ Head(events).kind = "attached"
      /\ manualPending \in Nat
  BY FS_CardinalityType, TargetsAssumption DEF IInv, ContextTypeOK, TargetsTypeOK, Event
<1>2. TabsInOrder(events', tab') /\ LeftKept /\ events' \in Seq(Events)
  BY <1>1, HeadHandled
<1>3. CallsInOrder(events', call, callTab)
  BY <1>1, OtherInOrder DEF IInv, Queue
<1>4. tab[t] # "none" /\ ~Left(t)
  BY <1>1, TailInOrder DEF IInv, Queue, Left
<1>5. UNCHANGED <<closed, closingPages, pages, call, callTab, callPage, pageSet>>
  <2>1. UNCHANGED <<closed, closingPages, pages, call, callTab, callPage>>
    BY DEF HandleAttached, Create, pageVars, manualVars
  <2>2. QED
    BY <2>1, NoneDetached
<1>6. Queue'
  BY <1>2, <1>3, <1>5 DEF Queue
<1>7. CASE UNCHANGED <<pageVars, manualVars, mistaken>>
  <2>1. ContextTypeOK'
    BY <1>1, <1>2, <1>5, <1>7
    DEF ContextTypeOK, TargetsTypeOK, pageVars, manualVars, closeVars
  <2>2. QED
    BY <1>2, <1>5, <1>6, <1>7, <2>1, BrowserMoves DEF historyVars
<1>8. CASE closing = "no" /\ ~Known(t) /\ mistaken' \subseteq mistaken \cup {t}
           /\ Create(t, t \notin manualIds')
           /\ \/ UNCHANGED <<manualPending, creatingIds, manualIds>>
              \/ /\ manualPending > 0 /\ manualPending' = manualPending - 1
                 /\ creatingIds' = creatingIds \cup {t} /\ manualIds' = manualIds \cup {t}
  <2>1. PICK a \in Unused(t) : /\ Makes(a, t)
                               /\ emits' = IF t \notin manualIds' THEN emits \cup {a} ELSE emits
    BY <1>8, CreateMakes
  <2>2. /\ a \in Adapters /\ a[1] = t /\ stage[a] = "unused"
        /\ stage' \in [Adapters -> Stages] /\ emits' \subseteq Adapters
        /\ pending' \in [Targets -> Adapters \cup {NoAdapter}]
        /\ initializing' \in [Targets -> Adapters \cup {NoAdapter}]
    BY <1>1, <2>1, MakesMoves
  <2>3. /\ manualIds \subseteq manualIds' /\ manualIds' \subseteq Targets
        /\ creatingIds \subseteq creatingIds' /\ creatingIds' \subseteq creatingIds \cup {t}
        /\ creatingIds' \subseteq Targets /\ manualPending' \in Nat
    BY <1>1, <1>8 DEF ContextTypeOK, TargetsTypeOK
  <2>4. manualPending' <= Cardinality(Waiting')
    <3>1. CASE UNCHANGED <<manualPending, creatingIds, manualIds>>
      <4>1. Waiting' = Waiting
        BY <1>5, <3>1 DEF Waiting
      <4>2. QED
        BY <3>1, <4>1 DEF IInv
    <3>2. CASE /\ manualPending > 0 /\ manualPending' = manualPending - 1
               /\ creatingIds' = creatingIds \cup {t}
      <4>1. PICK c : \A d \in Calls : callTab[d] = t => d = c
        <5>1. t # NoTarget
          BY TargetsAssumption
        <5>2. QED
          BY <5>1 DEF IInv, CallsPlaced
      <4>2. Waiting \ {c} \subseteq Waiting'
        BY <1>5, <3>2, <4>1 DEF Waiting
      <4>3. QED
        BY <1>1, <3>2, <4>2, OneLessWaiting DEF IInv
    <3>3. QED
      BY <1>8, <3>1, <3>2
  <2>5. ContextTypeOK'
    <3>1. mistaken' \subseteq Targets
      BY <1>1, <1>8 DEF ContextTypeOK, TargetsTypeOK
    <3>2. manualPending' \in 0..Cardinality(Calls)
      BY <2>3, <2>4, CountTyped
    <3>3. QED
      BY <1>1, <1>2, <1>5, <2>2, <2>3, <3>1, <3>2 DEF ContextTypeOK, TargetsTypeOK, closeVars
  <2>6. CallsPlaced'
    BY <1>5 DEF IInv, CallsPlaced
  <2>7. AdaptersInv'
    <3>1. a \notin emits
      BY <2>2 DEF IInv, AdaptersInv, Maps
    <3>2. ASSUME a \in emits', t \notin closedHere, NEW c \in Calls, callTab[c] = t
          PROVE  call[c] = "asked"
      <4>1. t \notin manualIds /\ callTab[c] # NoTarget
        BY <2>1, <2>3, <3>1, <3>2, TargetsAssumption
      <4>2. QED
        BY <1>4, <3>2, <4>1 DEF IInv, AdaptersInv, Taken
    <3>3. \A b \in Adapters : Returned(b) => Returned(b)'
      BY <1>5 DEF Returned
    <3>4. QED
      BY <1>2, <1>4, <1>5, <1>8, <2>1, <2>3, <3>2, <3>3, MakesKeeps DEF closeVars
  <2>8. QED
    BY <1>6, <2>4, <2>5, <2>6, <2>7 DEF IInv
<1>9. QED
  BY <1>1, <1>7, <1>8 DEF HandleAttached, TakenForManual

\* The adapters of a tab that is gone were known by the maps, or are missed.
LEMMA GoneHandledIInv ==
  ASSUME IInv, NEW t \in Targets, events # << >>, Head(events) = Event("gone", t),
         events' = Tail(events), HandleGone(t), Detach,
         UNCHANGED <<tab, polls, closeVars, mistaken, closedHere, ready, ctx, settingUp, emitted,
                     opener, toClose, announced>>
  PROVE  IInv'
<1>1. /\ ContextTypeOK /\ events \in Seq(Events) /\ Head(events).kind = "gone"
      /\ events' \in Seq(Events)
  BY TailFacts DEF IInv, ContextTypeOK, TargetsTypeOK, Event
<1>2. UNCHANGED <<stage, emits, closingPages, manualPending, call, callTab, callPage>>
  BY DEF HandleGone
<1>3. PICK a : a = PageOf(t)
  OBVIOUS
<1>4. a # NoAdapter => a \in Adapters /\ a[1] = t
  BY <1>1, <1>3, MapTyped DEF PageOf, IInv, AdaptersInv, Maps
<1>5. /\ missed' = missed \cup {b \in Adapters : b[1] = t /\ b # a /\ stage[b] = "installing"}
      /\ closed \subseteq closed' /\ closed' \subseteq Adapters /\ pageSet' \subseteq pageSet
      /\ a # NoAdapter => a \in closed'
      /\ closed' \subseteq closed \cup {a}
  BY <1>1, <1>3, <1>4 DEF HandleGone, Detach, ContextTypeOK, TargetsTypeOK
<1>6. /\ pages' \in [Targets -> Adapters \cup {NoAdapter}] /\ pages'[t] \in {pages[t], NoAdapter}
      /\ pending' \in [Targets -> Adapters \cup {NoAdapter}] /\ pending'[t] \in {pending[t], NoAdapter}
      /\ initializing' \in [Targets -> Adapters \cup {NoAdapter}]
      /\ initializing'[t] \in {initializing[t], NoAdapter}
      /\ \A u \in Targets : u # t =>
           pages'[u] = pages[u] /\ pending'[u] = pending[u] /\ initializing'[u] = initializing[u]
  <2>1. CASE UNCHANGED <<pages, pending, initializing>>
    BY <1>1, <2>1 DEF ContextTypeOK, TargetsTypeOK
  <2>2. CASE OnClosed(t)
    BY <1>1, <2>2, ClearMoves DEF OnClosed, ContextTypeOK, TargetsTypeOK
  <2>3. QED
    BY <2>1, <2>2 DEF HandleGone
<1>7. /\ manualIds' \subseteq manualIds /\ manualIds \subseteq manualIds' \cup {t}
      /\ creatingIds' \subseteq creatingIds /\ creatingIds \subseteq creatingIds' \cup {t}
  BY DEF HandleGone, OnClosed
<1>8. a = NoAdapter => UNCHANGED <<closed, pages, pending, initializing, manualIds, creatingIds>>
  BY <1>3 DEF HandleGone
<1>9. ContextTypeOK'
  BY <1>1, <1>2, <1>5, <1>6, <1>7 DEF ContextTypeOK, TargetsTypeOK, closeVars
<1>10. Queue'
  BY <1>1, <1>2, TailInOrder, OtherInOrder DEF IInv, Queue
<1>11. /\ ~Left(t) /\ Left(t)'
       /\ \A u \in Targets : u # t => (Left(u)' <=> Left(u))
  <2>1. tab[t] = "gone" /\ ~In(events', Event("gone", t)) /\ In(events, Event("gone", t))
    <3>1. 1 \in 1..Len(events) /\ events[1] = Head(events)
      BY <1>1, TailFacts
    <3>2. In(events, Event("gone", t))
      BY <3>1 DEF In
    <3>3. QED
      BY <1>1, <3>2, TailInOrder DEF IInv, Queue
  <2>2. \A u \in Targets : u # t => (In(events', Event("gone", u)) <=> In(events, Event("gone", u)))
    <3>1. \A u \in Targets : u # t => Event("gone", u) # Head(events)
      BY DEF Event
    <3>2. QED
      BY <1>1, <3>1, TailFacts
  <2>3. QED
    BY <2>1, <2>2 DEF Left
<1>12. CallsPlaced'
  BY <1>2 DEF IInv, CallsPlaced
<1>13. manualPending' <= Cardinality(Waiting')
  <2>1. Waiting \subseteq Waiting'
    BY <1>2, <1>7 DEF Waiting
  <2>2. QED
    BY <1>1, <1>2, <2>1, StillWaiting DEF IInv
<1>14. Maps'
  <2>1. \A u \in Targets :
          /\ pages'[u] # NoAdapter => pages'[u][1] = u
          /\ pending'[u] # NoAdapter => pending'[u][1] = u
          /\ initializing'[u] # NoAdapter =>
               initializing'[u][1] = u /\ stage[initializing'[u]] \in {"creating", "failed"}
    BY <1>6 DEF IInv, AdaptersInv, Maps
  <2>2. QED
    BY <1>2, <1>7, <2>1 DEF IInv, AdaptersInv, Maps
<1>15. \A b \in Adapters : Shown(b)' => Shown(b)
  BY <1>5 DEF Shown
<1>16. Placed'
  <2>1. SUFFICES ASSUME closing = "no", NEW b \in Adapters, ~Left(b[1])'
        PROVE  /\ Young(b)' => pending'[b[1]] = b /\ pages'[b[1]] = NoAdapter
               /\ Grown(b)' /\ (b \notin closed' \/ b[1] \notin closedHere) => pages'[b[1]] = b
               /\ Shown(b)' /\ b \notin closed' => pages'[b[1]] = b
               /\ b \in closingPages => pages'[b[1]] = b
    BY <1>2 DEF Placed, closeVars
  <2>2. b[1] # t /\ ~Left(b[1])
    <3>1. PICK u \in Targets : u = b[1]
      BY AdapterTab
    <3>2. Left(u)' <=> Left(b[1])'
      BY <3>1 DEF Left
    <3>3. QED
      BY <1>11, <2>1, <3>1, <3>2
  <2>3. (Young(b)' <=> Young(b)) /\ (Grown(b)' <=> Grown(b))
    BY <1>2 DEF Young, Grown
  <2>4. /\ Young(b) => pending[b[1]] = b /\ pages[b[1]] = NoAdapter
        /\ Grown(b) /\ (b \notin closed \/ b[1] \notin closedHere) => pages[b[1]] = b
        /\ Shown(b) /\ b \notin closed => pages[b[1]] = b
        /\ b \in closingPages => pages[b[1]] = b
    BY <2>1, <2>2 DEF IInv, AdaptersInv, Placed
  <2>5. QED
    BY <1>5, <1>6, <1>15, <2>2, <2>3, <2>4, AdapterTab
<1>17. Gone'
  <2>1. SUFFICES ASSUME closing = "no", NEW b \in Adapters, Left(b[1])'
        PROVE  \/ b \in closed' \cup missed'
               \/ stage[b] \in {"unused", "creating", "failed"} /\ ~Shown(b)' /\ pages'[b[1]] # b
    BY <1>2 DEF Gone, closeVars
  <2>2. b # NoAdapter /\ b[1] \in Targets
    BY AdapterTab
  <2>3. CASE b[1] = t
    <3>1. /\ Young(b) => pending[t] = b /\ pages[t] = NoAdapter
          /\ Grown(b) /\ b \notin closed => pages[t] = b
          /\ Shown(b) /\ b \notin closed => pages[t] = b
      BY <1>11, <2>1, <2>3 DEF IInv, AdaptersInv, Placed
    <3>2. pages[t] = b => b \in closed'
      BY <1>3, <1>5, <2>2 DEF PageOf
    <3>3. stage[b] = "installing" => b \in closed' \cup missed'
      BY <1>5, <2>2, <2>3
    <3>4. Grown(b) => b \in closed'
      BY <1>5, <3>1, <3>2
    <3>5. Grown(b) \/ stage[b] \in {"unused", "creating", "failed", "installing"}
      BY <1>1 DEF Grown, Stages, ContextTypeOK, TargetsTypeOK
    <3>6. Shown(b)' \/ pages'[t] = b => b \in closed'
      BY <1>5, <1>6, <1>15, <2>2, <3>1, <3>2
    <3>7. QED
      BY <2>3, <3>3, <3>4, <3>5, <3>6
  <2>4. CASE b[1] # t
    <3>1. Left(b[1])
      <4>1. PICK u \in Targets : u = b[1]
        BY <2>2
      <4>2. Left(u)' <=> Left(b[1])'
        BY <4>1 DEF Left
      <4>3. QED
        BY <1>11, <2>1, <2>4, <4>1, <4>2
    <3>2. \/ b \in closed \cup missed
          \/ stage[b] \in {"unused", "creating", "failed"} /\ ~Shown(b) /\ pages[b[1]] # b
      BY <2>1, <3>1 DEF IInv, AdaptersInv, Gone
    <3>3. QED
      BY <1>5, <1>6, <1>15, <2>2, <2>4, <3>2
  <2>5. QED
    BY <2>3, <2>4
<1>18. \A b \in Adapters : /\ Early(b)' => Early(b)
                           /\ Early(b)' /\ b[1] = t => stage[b] = "installing"
  <2>1. SUFFICES ASSUME NEW b \in Adapters, Early(b)'
        PROVE  Early(b) /\ (b[1] = t => stage[b] = "installing")
    OBVIOUS
  <2>2. PICK u \in Targets : u = b[1]
    BY AdapterTab
  <2>3. (Left(u)' <=> Left(b[1])') /\ (Left(u) => Left(u)')
    BY <1>11, <2>2 DEF Left
  <2>4. QED
    BY <1>2, <1>11, <2>1, <2>2, <2>3 DEF Early
<1>19. \A b \in Adapters :
         b[1] = t /\ t \notin closedHere /\ OpenerOf[t] = NoTarget /\ Early(b)' => a = NoAdapter
  BY <1>3, <1>18 DEF PageOf, IInv, AdaptersInv, Alone
<1>20. \A b \in Adapters : Over(stage[b]) => Over(stage'[b])
  BY <1>2
<1>21. Alone'
  <2>1. ASSUME NEW b \in Adapters, b[1] \notin closedHere, OpenerOf[b[1]] = NoTarget, Early(b)'
        PROVE  /\ Early(b) /\ pending'[b[1]] = pending[b[1]] /\ pages'[b[1]] = pages[b[1]]
               /\ stage'[b] = "installing" =>
                    stage[b] = "installing" /\ initializing'[b[1]] = initializing[b[1]]
    BY <1>2, <1>6, <1>8, <1>18, <1>19, <2>1, AdapterTab
  <2>2. QED
    BY <1>20, <2>1, AloneKept DEF closeVars
<1>22. Taken'
  <2>1. ASSUME NEW c \in Calls, callTab[c] # NoTarget, callTab[c] \notin closedHere
        PROVE  /\ call[c] # "asked" => callTab[c] \in manualIds' \/ Left(callTab[c])'
               /\ \A b \in Adapters : b[1] = callTab[c] =>
                    /\ Early(b)' /\ call[c] # "asked" => b[1] \in creatingIds'
                    /\ stage[b] = "installing" => call[c] # "asked"
                    /\ ~Announcing(stage[b])
    <3>1. PICK u \in Targets : u = callTab[c] /\ OpenerOf[u] = NoTarget
      BY <1>1, <2>1 DEF ContextTypeOK, TargetsTypeOK, IInv, CallsPlaced
    <3>2. /\ call[c] # "asked" => u \in manualIds \/ Left(u)
          /\ \A b \in Adapters : b[1] = u =>
               /\ Early(b) /\ call[c] # "asked" => b[1] \in creatingIds
               /\ stage[b] = "installing" => call[c] # "asked"
               /\ ~Announcing(stage[b])
      BY <2>1, <3>1 DEF IInv, AdaptersInv, Taken, Announcing
    <3>3. Left(callTab[c])' <=> Left(u)'
      BY <1>2, <3>1 DEF Left
    <3>4. call[c] # "asked" => u \in manualIds' \/ Left(u)'
      BY <1>7, <1>11, <3>2
    <3>5. ASSUME NEW b \in Adapters, b[1] = u, Early(b)', call[c] # "asked"
          PROVE  b[1] \in creatingIds'
      <4>1. b[1] \in creatingIds
        BY <1>18, <3>2, <3>5
      <4>2. QED
        BY <1>7, <1>8, <1>19, <2>1, <3>1, <3>5, <4>1
    <3>6. QED
      BY <3>1, <3>2, <3>3, <3>4, <3>5
  <2>2. QED
    BY <1>2, <2>1 DEF Taken, Announcing
<1>23. Single' /\ Counted'
  <2>1. (\A u \in Targets : Own(u) => Own(u)') /\ \A b \in Adapters : Returned(b) => Returned(b)'
    BY <1>2 DEF Own, Returned
  <2>2. QED
    BY <1>2, <1>20, <2>1, SingleKept, CountedKept
<1>24. QED
  BY <1>9, <1>10, <1>12, <1>13, <1>14, <1>16, <1>17, <1>21, <1>22, <1>23 DEF IInv, AdaptersInv

\* From now on newPage's tab is known as such.
LEMMA CreatedHandledIInv ==
  ASSUME IInv, NEW c \in Calls, NEW t \in Targets, events # << >>,
         Head(events) = CreatedEvent(c, t), events' = Tail(events), HandleCreated(c, t),
         UNCHANGED <<tab, polls, pageVars, closeVars, historyVars, apiVars>>
  PROVE  IInv'
<1>1. /\ ContextTypeOK /\ events \in Seq(Events) /\ Head(events).kind = "created"
      /\ manualPending \in Nat
  BY FS_CardinalityType, TargetsAssumption DEF IInv, ContextTypeOK, TargetsTypeOK, CreatedEvent
<1>2. callTab[c] = t /\ call[c] = "asked" /\ t # NoTarget
  <2>1. 1 \in 1..Len(events) /\ events[1] = CreatedEvent(c, t)
    BY <1>1, TailFacts
  <2>2. QED
    BY <2>1, TargetsAssumption DEF IInv, Queue, CallsInOrder
<1>3. /\ call' \in [Calls -> {"idle", "asked", "looking", "awaiting", "registering", "done", "failed"}]
      /\ call'[c] = "looking" /\ \A d \in Calls : d # c => call'[d] = call[d]
      /\ UNCHANGED <<callTab, callPage>>
      /\ creatingIds' = creatingIds \cup {t} /\ manualIds' = manualIds \cup {t}
  BY <1>1 DEF HandleCreated, ContextTypeOK, TargetsTypeOK
<1>4. TabsInOrder(events', tab') /\ LeftKept /\ events' \in Seq(Events)
  BY <1>1, HeadHandled
<1>5. CallsInOrder(events', call', callTab')
  BY <1>1, <1>3, ReplyInOrder DEF IInv, Queue, ContextTypeOK, TargetsTypeOK
<1>6. \A d \in Calls : d # c => callTab[d] # t
  BY <1>2 DEF IInv, CallsPlaced
<1>7. manualPending' <= Cardinality(Waiting') /\ manualPending' \in Nat
  <2>1. Waiting \ {c} \subseteq Waiting'
    BY <1>3, <1>6 DEF Waiting
  <2>2. t \in creatingIds => c \notin Waiting
    BY <1>2 DEF Waiting
  <2>3. \/ manualPending' = manualPending - 1 /\ manualPending > 0
        \/ manualPending' = 0
        \/ manualPending' = manualPending /\ c \notin Waiting
    BY <1>1, <2>2 DEF HandleCreated
  <2>4. manualPending' \in Nat
    BY <1>1, <2>3
  <2>5. QED
    BY <1>1, <2>1, <2>3, <2>4, OneLessWaiting DEF IInv
<1>8. ContextTypeOK'
  <2>1. manualPending' \in 0..Cardinality(Calls)
    BY <1>7, CountTyped
  <2>2. QED
    BY <1>1, <1>3, <1>4, <2>1
    DEF ContextTypeOK, TargetsTypeOK, pageVars, closeVars, historyVars, apiVars
<1>9. CallsPlaced'
  BY <1>2, <1>3 DEF IInv, CallsPlaced
<1>10. tab[t] # "none"
  BY <1>2 DEF IInv, CallsPlaced
<1>11. Maps'
  BY <1>3, <1>10 DEF IInv, AdaptersInv, Maps, pageVars, historyVars
<1>12. \A b \in Adapters : (Early(b)' <=> Early(b)) /\ (Shown(b)' <=> Shown(b))
                           /\ (Young(b)' <=> Young(b)) /\ (Grown(b)' <=> Grown(b))
  BY <1>4, AdapterTab DEF LeftKept, Early, Shown, Young, Grown, pageVars, apiVars
<1>13. Placed' /\ Gone'
  BY <1>4, <1>12, PlacedKept DEF pageVars, closeVars, historyVars
<1>14. Alone'
  BY <1>12, AloneKept DEF pageVars, closeVars, historyVars
<1>15. Taken'
  <2>1. ASSUME NEW d \in Calls, callTab[d] # NoTarget, callTab[d] \notin closedHere
        PROVE  /\ call'[d] # "asked" => callTab[d] \in manualIds' \/ Left(callTab[d])'
               /\ \A b \in Adapters : b[1] = callTab[d] =>
                    /\ Early(b)' /\ call'[d] # "asked" => b[1] \in creatingIds'
                    /\ stage[b] = "installing" => call'[d] # "asked"
                    /\ ~Announcing(stage[b])
    <3>1. /\ call[d] # "asked" => callTab[d] \in manualIds \/ Left(callTab[d])
          /\ \A b \in Adapters : b[1] = callTab[d] =>
               /\ Early(b) /\ call[d] # "asked" => b[1] \in creatingIds
               /\ stage[b] = "installing" => call[d] # "asked"
               /\ ~Announcing(stage[b])
      BY <2>1 DEF IInv, AdaptersInv, Taken, Announcing
    <3>2. CASE d = c
      BY <1>2, <1>3, <3>1, <3>2
    <3>3. CASE d # c
      <4>1. PICK u \in Targets : u = callTab[d]
        BY <1>1, <2>1 DEF ContextTypeOK, TargetsTypeOK
      <4>2. (Left(u)' <=> Left(u)) /\ (Left(u)' <=> Left(callTab[d])')
        BY <1>3, <1>4, <4>1 DEF LeftKept, Left
      <4>3. QED
        BY <1>3, <1>12, <3>1, <3>3, <4>1, <4>2
    <3>4. QED
      BY <3>2, <3>3
  <2>2. QED
    BY <1>3, <2>1 DEF Taken, Announcing, pageVars, historyVars
<1>16. Single' /\ Counted'
  <2>1. (\A u \in Targets : Own(u) => Own(u)') /\ \A b \in Adapters : Returned(b) => Returned(b)'
    BY <1>2, <1>3 DEF Own, Returned
  <2>2. QED
    BY <1>3, <2>1, SingleKept, CountedKept DEF pageVars, historyVars, apiVars
<1>17. QED
  BY <1>4, <1>5, <1>7, <1>8, <1>9, <1>11, <1>13, <1>14, <1>15, <1>16 DEF IInv, AdaptersInv, Queue

LEMMA RefusedHandledIInv ==
  ASSUME IInv, NEW c \in Calls, events # << >>, Head(events) = RefusedEvent(c),
         events' = Tail(events), HandleRefused(c),
         UNCHANGED <<tab, polls, pageVars, closeVars, historyVars, apiVars>>
  PROVE  IInv'
<1>1. /\ ContextTypeOK /\ events \in Seq(Events) /\ Head(events).kind = "refused"
      /\ manualPending \in Nat
  BY FS_CardinalityType, TargetsAssumption DEF IInv, ContextTypeOK, TargetsTypeOK, RefusedEvent
<1>2. callTab[c] = NoTarget /\ call[c] = "asked"
  <2>1. 1 \in 1..Len(events) /\ events[1] = RefusedEvent(c)
    BY <1>1, TailFacts
  <2>2. QED
    BY <2>1 DEF IInv, Queue, CallsInOrder
<1>3. /\ call' \in [Calls -> {"idle", "asked", "looking", "awaiting", "registering", "done", "failed"}]
      /\ call'[c] = "failed" /\ \A d \in Calls : d # c => call'[d] = call[d]
      /\ UNCHANGED <<creatingIds, manualIds, callTab, callPage>>
  BY <1>1 DEF HandleRefused, ContextTypeOK, TargetsTypeOK
<1>4. TabsInOrder(events', tab') /\ LeftKept /\ events' \in Seq(Events)
  BY <1>1, HeadHandled
<1>5. CallsInOrder(events', call', callTab')
  BY <1>1, <1>3, ReplyInOrder DEF IInv, Queue, ContextTypeOK, TargetsTypeOK
<1>6. manualPending' <= Cardinality(Waiting') /\ manualPending' \in Nat
  <2>1. Waiting \ {c} \subseteq Waiting'
    BY <1>3 DEF Waiting
  <2>2. \/ manualPending' = manualPending - 1 /\ manualPending > 0
        \/ manualPending' = 0
    BY DEF HandleRefused
  <2>3. manualPending' \in Nat
    BY <1>1, <2>2
  <2>4. QED
    BY <1>1, <2>1, <2>2, <2>3, OneLessWaiting DEF IInv
<1>7. ContextTypeOK'
  <2>1. manualPending' \in 0..Cardinality(Calls)
    BY <1>6, CountTyped
  <2>2. QED
    BY <1>1, <1>3, <1>4, <2>1
    DEF ContextTypeOK, TargetsTypeOK, pageVars, closeVars, historyVars, apiVars
<1>8. CallsPlaced'
  BY <1>2, <1>3 DEF IInv, CallsPlaced
<1>9. Maps' /\ Placed' /\ Gone' /\ Alone' /\ Taken' /\ Single'
  <2>1. \A b \in Adapters : Shown(b)' => Shown(b)
    BY DEF Shown, apiVars
  <2>2. QED
    BY <1>2, <1>3, <1>4, <2>1, CallMoves
<1>10. Counted'
  <2>1. \A b \in Adapters : Returned(b) => Returned(b)'
    BY <1>2, <1>3 DEF Returned
  <2>2. QED
    BY <1>3, <2>1, CountedKept DEF pageVars, historyVars, apiVars
<1>11. QED
  BY <1>4, <1>5, <1>6, <1>7, <1>8, <1>9, <1>10 DEF IInv, AdaptersInv, Queue

LEMMA EventHandledIInv == ASSUME IInv, EventHandled PROVE IInv'
<1>1. /\ events # << >> /\ Detach
      /\ UNCHANGED <<tab, polls, closeVars, closedHere, ready, ctx, settingUp, emitted, opener,
                     toClose, announced>>
  BY DEF EventHandled, HandleEvent
<1>2. Head(events) \in Events
  BY <1>1, TailFacts DEF IInv, ContextTypeOK, TargetsTypeOK
<1>3. CASE /\ Head(events).kind = "targets" /\ HandleTargets(Head(events).tabs)
           /\ UNCHANGED <<pageVars, manualVars, mistaken, missed>>
  <2>1. UNCHANGED pageSet
    BY <1>1, <1>3, NoneDetached DEF pageVars
  <2>2. UNCHANGED <<historyVars, apiVars>>
    BY <1>1, <1>3, <2>1 DEF historyVars, apiVars
  <2>3. QED
    BY <1>1, <1>3, <2>2, TargetsHandledIInv
<1>4. CASE /\ Head(events).kind = "attached" /\ HandleAttached(Head(events).tab)
           /\ events' = Tail(events) /\ UNCHANGED missed
  <2>1. PICK t \in Targets : Head(events) = Event("attached", t) /\ t = Head(events).tab
    BY <1>2, <1>4, EventForms
  <2>2. QED
    BY <1>1, <1>4, <2>1, AttachedHandledIInv
<1>5. CASE /\ Head(events).kind = "gone" /\ HandleGone(Head(events).tab)
           /\ events' = Tail(events) /\ UNCHANGED mistaken
  <2>1. PICK t \in Targets : Head(events) = Event("gone", t) /\ t = Head(events).tab
    BY <1>2, <1>5, EventForms
  <2>2. QED
    BY <1>1, <1>5, <2>1, GoneHandledIInv
<1>6. CASE /\ Head(events).kind = "created"
           /\ HandleCreated(Head(events).call, Head(events).tab)
           /\ events' = Tail(events) /\ UNCHANGED <<pageVars, mistaken, missed>>
  <2>1. PICK c \in Calls, t \in Targets :
          Head(events) = CreatedEvent(c, t) /\ c = Head(events).call /\ t = Head(events).tab
    BY <1>2, <1>6, EventForms
  <2>2. UNCHANGED pageSet
    BY <1>1, <1>6, NoneDetached DEF pageVars
  <2>3. UNCHANGED <<historyVars, apiVars>>
    BY <1>1, <1>6, <2>2 DEF historyVars, apiVars
  <2>4. QED
    BY <1>1, <1>6, <2>1, <2>3, CreatedHandledIInv
<1>7. CASE /\ Head(events).kind = "refused" /\ HandleRefused(Head(events).call)
           /\ events' = Tail(events) /\ UNCHANGED <<pageVars, mistaken, missed>>
  <2>1. PICK c \in Calls : Head(events) = RefusedEvent(c) /\ c = Head(events).call
    BY <1>2, <1>7, EventForms
  <2>2. UNCHANGED pageSet
    BY <1>1, <1>7, NoneDetached DEF pageVars
  <2>3. UNCHANGED <<historyVars, apiVars>>
    BY <1>1, <1>7, <2>2 DEF historyVars, apiVars
  <2>4. QED
    BY <1>1, <1>7, <2>1, <2>3, RefusedHandledIInv
<1>8. QED
  BY <1>3, <1>4, <1>5, <1>6, <1>7 DEF EventHandled, HandleEvent

-----------------------------------------------------------------------------
(* The theorems.                                                           *)

LEMMA NextIInv == IInv /\ [Next]_vars => IInv'
<1> SUFFICES ASSUME IInv, [Next]_vars PROVE IInv'
  OBVIOUS
<1>1. CASE BrowserNext /\ UNCHANGED apiVars
  BY <1>1, TabOpensIInv, TabGoesIInv, TabCreatedIInv, TabsListedIInv DEF BrowserNext
<1>2. CASE EventHandled
  BY <1>2, EventHandledIInv
<1>3. CASE DiscoveryEnds
  BY <1>3, DiscoveryEndsIInv
<1>4. ASSUME NEW a \in Adapters, Promise(a) PROVE IInv'
  BY <1>4, CreatedIInv, CreateFailsIInv, InstalledIInv, InstallFailsIInv, EmitIInv,
     AnnouncePageIInv, IntroducePopupIInv DEF Promise
<1>5. ASSUME NEW a \in Adapters, SetUpEnds(a) \/ SetUpFails(a) \/ PageClose(a) PROVE IInv'
  BY <1>5, SetUpEndsIInv, SetUpFailsIInv, PageCloseIInv
<1>6. ASSUME NEW c \in Calls, CallStep(c) PROVE IInv'
  BY <1>6, NewPageLooksIInv, NewPageRegistersIInv, NewPageReturnsIInv DEF CallStep
<1>7. ASSUME NEW c \in Calls, NewPage(c), UNCHANGED apiVars PROVE IInv'
  BY <1>7, NewPageIInv
<1>8. CASE ContextClose
  BY <1>8, ContextCloseIInv
<1>9. CASE Closing
  BY <1>9, PageCloseEndsIInv, AdapterCloseIInv, ContextDisposedIInv, CloseReturnsIInv DEF Closing
<1>10. CASE UNCHANGED vars
  <2>1. UNCHANGED <<browserVars, pageVars, manualVars, closeVars, historyVars, apiVars>>
    BY <1>10 DEF vars, targetVars
  <2>2. ContextTypeOK'
    BY <2>1 DEF IInv, ContextTypeOK, TargetsTypeOK, browserVars, pageVars, manualVars, closeVars,
                historyVars, apiVars
  <2>3. Queue' /\ LeftKept
    BY <2>1, QueueKept DEF IInv, browserVars, manualVars
  <2>4. QED
    BY <2>1, <2>2, <2>3, BrowserMoves DEF browserVars, apiVars
<1>11. QED
  BY <1>1, <1>2, <1>3, <1>4, <1>5, <1>6, <1>7, <1>8, <1>9, <1>10 DEF Next

\* What is known of a tab, by the browser, the context and the calls of
\* newPage, stays in step with the adapters that were made for it.
THEOREM Inductive == Spec => []IInv
<1>1. QED
  BY InitIInv, NextIInv, PTL DEF Spec

\* Every variable keeps its type: no adapter is announced three times, and no
\* more calls of newPage are counted as waiting than there are.
THEOREM TypeCorrect == Spec => []ContextTypeOK
<1>1. IInv => ContextTypeOK
  BY DEF IInv
<1>2. QED
  BY <1>1, Inductive, PTL

\* The context sends one page event for each tab that page.close() was not
\* asked to close, however its discovery, newPage() and popups overlap.
THEOREM AnnouncedOnlyOnce == Spec => []AnnouncedOnce
<1>1. ASSUME IInv PROVE AnnouncedOnce
  <2>1. SUFFICES ASSUME NEW t \in Targets, t \notin closedHere, NEW a \in Adapters,
                        NEW b \in Adapters, a[1] = t, b[1] = t, announced[a] > 0, announced[b] > 0
        PROVE  a = b /\ announced[a] = 1
    BY DEF AnnouncedOnce
  <2>2. announced[a] \in 0..2
    BY <1>1 DEF IInv, ContextTypeOK
  <2>3. \A d \in Adapters :
          /\ announced[d] > 0 => stage[d] = "settled" \/ Returned(d)
          /\ announced[d] > 1 => Returned(d)
          /\ Own(d[1]) /\ d[1] \notin closedHere =>
               announced[d] <= 1 /\ (announced[d] > 0 => Returned(d))
    BY <1>1 DEF IInv, AdaptersInv, Counted
  <2>4. ASSUME NEW d \in Adapters, Returned(d), d[1] = t
        PROVE  \E c \in Calls : callPage[c] = d /\ callTab[c] = t
    BY <1>1, <2>4 DEF Returned, IInv, CallsPlaced
  <2>5. CASE Own(t)
    <3>1. Returned(a) /\ Returned(b) /\ announced[a] <= 1
      BY <2>1, <2>3, <2>5
    <3>2. PICK c \in Calls, d \in Calls :
            callPage[c] = a /\ callTab[c] = t /\ callPage[d] = b /\ callTab[d] = t
      BY <2>1, <2>4, <3>1
    <3>3. c = d
      BY <1>1, <3>2, TargetsAssumption DEF IInv, CallsPlaced
    <3>4. QED
      BY <2>1, <2>2, <3>1, <3>2, <3>3
  <2>6. CASE ~Own(t)
    <3>1. ~Returned(a) /\ ~Returned(b)
      BY <2>1, <2>4, <2>6 DEF Own
    <3>2. stage[a] = "settled" /\ stage[b] = "settled" /\ ~(announced[a] > 1)
      BY <2>1, <2>3, <3>1
    <3>3. a = b
      BY <1>1, <2>1, <2>6, <3>2 DEF IInv, AdaptersInv, Single
    <3>4. QED
      BY <2>1, <2>2, <3>2, <3>3
  <2>7. QED
    BY <2>5, <2>6
<1>2. QED
  BY <1>1, Inductive, PTL

\* Once the browser has told that a tab is gone, its pages know, but for those
\* whose adapter was in neither map.
THEOREM DeadPagesKnown == Spec => []NoDeadPages
<1>1. ASSUME IInv PROVE NoDeadPages
  <2>1. SUFFICES ASSUME NEW a \in Adapters, closing = "no", tab[a[1]] = "gone",
                        ~InFlight(Event("gone", a[1])), stage[a] = "settled" \/ a \in pageSet
        PROVE  a \in closed \cup missed
    BY DEF NoDeadPages
  <2>2. Left(a[1])
    BY <2>1 DEF Left, InFlight, In
  <2>3. QED
    BY <1>1, <2>1, <2>2 DEF IInv, AdaptersInv, Gone, Shown
<1>2. QED
  BY <1>1, Inductive, PTL
=============================================================================
