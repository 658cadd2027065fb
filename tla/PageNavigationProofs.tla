------------------------ MODULE PageNavigationProofs ------------------------
(***************************************************************************)
(* Proofs about PageLoading and PageNavigation, for any number of child    *)
(* frames, requests, loads, calls and urls.                                *)
(***************************************************************************)
EXTENDS PageNavigation, FiniteSetTheorems, TLAPS

-----------------------------------------------------------------------------
(* The adapter: what each of its operations leaves alone.                  *)

IsPage(p) == p = [x \in PageFields |-> p[x]]

SameFlags(p, q) ==
  q.load = p.load /\ q.domcontentloaded = p.domcontentloaded /\ q.same = p.same /\ q.allow = p.allow
SameLoading(p, q) == SameFlags(p, q) /\ q.loading = p.loading
SameCounts(p, q) == q.active = p.active /\ q.quiet = p.quiet /\ q.sent = p.sent
SameFrames(p, q) == q.frames = p.frames /\ q.closed = p.closed

\* The waiters that are gone are let go with reason, or wait for network idle.
LetsGo(p, q) ==
  /\ q.waiters \subseteq p.waiters
  /\ \A w \in p.waiters \ q.waiters :
       w.state \in {"domcontentloaded", "load"} => Satisfied(q, w.state)

QuietStates == [active : Nat, reached : BOOLEAN]
IsQuiet(m) == m \in [DOMAIN m -> QuietStates]

\* The timers that run are of the page, or a frame, of which nothing is under way.
Running(p) ==
  /\ p.active \in Nat
  /\ IsQuiet(p.quiet)
  /\ p.timers \in [DOMAIN p.timers -> SUBSET DOMAIN p.timers]
  /\ \A t \in DOMAIN p.timers :
       IF t = "page" THEN p.active = 0 /\ ~p.closed
       ELSE t \in DOMAIN p.quiet /\ p.quiet[t].active = 0

\* A request has ended, and is counted no more.
EndsOne(p, q, r) ==
  LET f == p.sent[r] IN
  /\ SameFrames(p, q)
  /\ q.active = Less(p.active, 1)
  /\ q.sent = Without(p.sent, {r})
  /\ q.quiet = With(p.quiet, f, [Quiet(p, f) EXCEPT !.active = Less(@, 1)])
  /\ q.networkidle = p.networkidle /\ LetsGo(p, q)

LEMMA LessFacts ==
  ASSUME NEW n \in Nat, NEW m \in Nat
  PROVE  Less(n, m) \in Nat /\ (n = 0 => Less(n, m) = 0) /\ (m <= n => Less(n, m) = n - m)
  BY DEF Less

LEMMA QuietType ==
  ASSUME NEW p, IsQuiet(p.quiet), NEW f
  PROVE  Quiet(p, f) \in QuietStates
  BY DEF Quiet, NoQuiet, QuietStates, IsQuiet

LEMMA RunningStill ==
  ASSUME NEW p, NEW q, NEW T, Running(p),
         q.active \in Nat,
         IsQuiet(q.quiet),
         q.timers = [t \in DOMAIN p.timers \ T |-> p.timers[t] \ T],
         "page" \notin T => (p.active = 0 => q.active = 0) /\ q.closed = p.closed,
         \A t \in DOMAIN p.timers \ (T \cup {"page"}) : t \in DOMAIN q.quiet /\ q.quiet[t].active = 0
  PROVE  Running(q)
<1>1. DOMAIN q.timers = DOMAIN p.timers \ T
  OBVIOUS
<1>2. q.timers \in [DOMAIN q.timers -> SUBSET DOMAIN q.timers]
  BY <1>1 DEF Running
<1>3. ASSUME NEW t \in DOMAIN q.timers
      PROVE  IF t = "page" THEN q.active = 0 /\ ~q.closed
             ELSE t \in DOMAIN q.quiet /\ q.quiet[t].active = 0
  BY <1>1, <1>3 DEF Running
<1>4. QED
  BY <1>2, <1>3 DEF Running

LEMMA RunningSame ==
  ASSUME NEW p, NEW q, Running(p),
         q.active \in Nat,
         IsQuiet(q.quiet),
         q.timers = p.timers,
         (p.active = 0 => q.active = 0) /\ q.closed = p.closed,
         \A t \in DOMAIN p.timers \ {"page"} : t \in DOMAIN q.quiet /\ q.quiet[t].active = 0
  PROVE  Running(q)
  BY DEF Running

LEMMA RunningWith ==
  ASSUME NEW p, NEW q, NEW u, Running(p),
         q.active = p.active, q.quiet = p.quiet, q.closed = p.closed,
         q.timers = IF u \in DOMAIN p.timers THEN p.timers ELSE With(p.timers, u, DOMAIN p.timers),
         IF u = "page" THEN p.active = 0 /\ ~p.closed
         ELSE u \in DOMAIN p.quiet /\ p.quiet[u].active = 0
  PROVE  Running(q)
<1>1. CASE u \in DOMAIN p.timers
  BY <1>1 DEF Running
<1>2. CASE u \notin DOMAIN p.timers
  <2>1. DOMAIN q.timers = DOMAIN p.timers \cup {u}
    BY <1>2 DEF With
  <2>2. q.timers = [t \in DOMAIN p.timers \cup {u} |-> IF t = u THEN DOMAIN p.timers ELSE p.timers[t]]
    BY <1>2 DEF With
  <2>3. q.timers \in [DOMAIN q.timers -> SUBSET DOMAIN q.timers]
    BY <2>1, <2>2 DEF Running
  <2>4. QED
    BY <2>1, <2>3 DEF Running
<1>3. QED
  BY <1>1, <1>2

LEMMA FlushFields ==
  ASSUME NEW p, IsPage(p)
  PROVE  LET q == Flush(p) IN
         /\ IsPage(q) /\ SameLoading(p, q) /\ SameCounts(p, q) /\ SameFrames(p, q)
         /\ q.networkidle = p.networkidle /\ q.timers = p.timers
         /\ q.waiters = {w \in p.waiters : ~Satisfied(p, w.state)}
         /\ LetsGo(p, q)
<1> DEFINE q == Flush(p)
<1>1. /\ IsPage(q) /\ SameLoading(p, q) /\ SameCounts(p, q) /\ SameFrames(p, q)
      /\ q.networkidle = p.networkidle /\ q.timers = p.timers
      /\ q.waiters = {w \in p.waiters : ~Satisfied(p, w.state)}
  BY DEF IsPage, PageFields, SameFlags, SameLoading, SameCounts, SameFrames, Flush
<1> HIDE DEF q
<1>2. LetsGo(p, q)
  BY <1>1 DEF LetsGo, Satisfied, SameLoading, SameFlags
<1>3. QED
  BY <1>1, <1>2 DEF q

LEMMA LetsGoOn ==
  ASSUME NEW p, NEW u, NEW q, LetsGo(p, u), LetsGo(u, q), SameFlags(u, q)
  PROVE  LetsGo(p, q)
  BY DEF LetsGo, Satisfied, SameFlags

LEMMA UntimedFields ==
  ASSUME NEW p, IsPage(p), NEW T
  PROVE  LET q == Untimed(p, T) IN
         /\ IsPage(q) /\ SameLoading(p, q) /\ SameCounts(p, q) /\ SameFrames(p, q)
         /\ q.networkidle = p.networkidle /\ q.waiters = p.waiters
         /\ q.timers = [t \in DOMAIN p.timers \ T |-> p.timers[t] \ T]
  BY DEF IsPage, PageFields, SameFlags, SameLoading, SameCounts, SameFrames, Untimed

LEMMA TimedFields ==
  ASSUME NEW p, IsPage(p), NEW t
  PROVE  LET q == Timed(p, t) IN
         /\ IsPage(q) /\ SameLoading(p, q) /\ SameCounts(p, q) /\ SameFrames(p, q)
         /\ q.networkidle = p.networkidle /\ q.waiters = p.waiters
         /\ q.timers = IF t \in DOMAIN p.timers THEN p.timers
                       ELSE With(p.timers, t, DOMAIN p.timers)
  BY DEF IsPage, PageFields, SameFlags, SameLoading, SameCounts, SameFrames, Timed

LEMMA ArmTimerFields ==
  ASSUME NEW p, IsPage(p)
  PROVE  LET q == ArmTimer(p) IN
         /\ IsPage(q) /\ SameLoading(p, q) /\ SameCounts(p, q) /\ SameFrames(p, q)
         /\ q.networkidle = p.networkidle /\ q.waiters = p.waiters
         /\ Running(p) /\ ~p.closed => Running(q)
<1>1. /\ IsPage(ArmTimer(p)) /\ SameLoading(p, ArmTimer(p)) /\ SameCounts(p, ArmTimer(p))
      /\ SameFrames(p, ArmTimer(p))
      /\ ArmTimer(p).networkidle = p.networkidle /\ ArmTimer(p).waiters = p.waiters
  BY TimedFields DEF ArmTimer, SameFlags, SameLoading, SameCounts, SameFrames
<1>2. ASSUME Running(p), ~p.closed PROVE Running(ArmTimer(p))
  <2>1. CASE p.active = 0
    <3>1. /\ SameCounts(p, Timed(p, "page")) /\ SameFrames(p, Timed(p, "page"))
          /\ Timed(p, "page").timers = IF "page" \in DOMAIN p.timers THEN p.timers
                                       ELSE With(p.timers, "page", DOMAIN p.timers)
      BY TimedFields
    <3>2. Running(Timed(p, "page"))
      BY <1>2, <2>1, <3>1, RunningWith DEF SameCounts, SameFrames
    <3>3. QED
      BY <2>1, <3>2 DEF ArmTimer
  <2>2. CASE p.active # 0
    BY <1>2, <2>2 DEF ArmTimer
  <2>3. QED
    BY <2>1, <2>2
<1>3. QED
  BY <1>1, <1>2

LEMMA SetQuietFields ==
  ASSUME NEW p, IsPage(p), NEW f, NEW v
  PROVE  LET q == SetQuiet(p, f, v) IN
         /\ IsPage(q) /\ SameLoading(p, q) /\ SameFrames(p, q)
         /\ q.active = p.active /\ q.sent = p.sent /\ q.timers = p.timers
         /\ q.networkidle = p.networkidle /\ q.waiters = p.waiters
         /\ q.quiet = With(p.quiet, f, v)
  BY DEF IsPage, PageFields, SameFlags, SameLoading, SameFrames, SetQuiet

LEMMA ArmFrameFields ==
  ASSUME NEW p, IsPage(p), NEW f
  PROVE  LET q == ArmFrame(p, f) IN
         /\ IsPage(q) /\ SameLoading(p, q) /\ SameFrames(p, q)
         /\ q.active = p.active /\ q.sent = p.sent
         /\ q.networkidle = p.networkidle /\ q.waiters = p.waiters
         /\ q.quiet = With(p.quiet, f, Quiet(p, f))
         /\ Running(p) /\ f # "page" => Running(q)
<1> DEFINE s == SetQuiet(p, f, Quiet(p, f))
<1>1. /\ IsPage(s) /\ SameLoading(p, s) /\ SameFrames(p, s)
      /\ s.active = p.active /\ s.sent = p.sent /\ s.timers = p.timers
      /\ s.networkidle = p.networkidle /\ s.waiters = p.waiters
      /\ s.quiet = With(p.quiet, f, Quiet(p, f))
  BY SetQuietFields
<1>2. /\ IsPage(Timed(s, f)) /\ SameLoading(s, Timed(s, f)) /\ SameCounts(s, Timed(s, f))
      /\ SameFrames(s, Timed(s, f))
      /\ Timed(s, f).networkidle = s.networkidle /\ Timed(s, f).waiters = s.waiters
  BY <1>1, TimedFields
<1>3. ArmFrame(p, f) = IF s.quiet[f].active = 0 THEN Timed(s, f) ELSE s
  BY DEF ArmFrame
<1> HIDE DEF s
<1>4. ASSUME Running(p), f # "page" PROVE Running(ArmFrame(p, f))
  <2>1. Quiet(p, f) \in QuietStates
    BY <1>4, QuietType DEF Running
  <2>2. /\ DOMAIN s.quiet = DOMAIN p.quiet \cup {f}
        /\ IsQuiet(s.quiet)
        /\ s.quiet[f] = Quiet(p, f)
        /\ \A x \in DOMAIN p.quiet \ {f} : s.quiet[x] = p.quiet[x]
    <3>1. IsQuiet(p.quiet)
      BY <1>4 DEF Running
    <3>2. QED
      BY <1>1, <2>1, <3>1 DEF With, IsQuiet
  <2>3. \A x \in DOMAIN p.quiet : s.quiet[x] = p.quiet[x]
    BY <2>2 DEF Quiet
  <2>4. Running(s)
    <3>1. \A t \in DOMAIN p.timers \ {"page"} : t \in DOMAIN s.quiet /\ s.quiet[t].active = 0
      BY <1>4, <2>2, <2>3 DEF Running
    <3>2. p.active \in Nat /\ s.closed = p.closed
      BY <1>1, <1>4 DEF Running, SameFrames
    <3>3. QED
      BY <1>1, <1>4, <2>2, <3>1, <3>2, RunningSame
  <2>5. CASE s.quiet[f].active = 0
    <3>1. /\ SameCounts(s, Timed(s, f)) /\ SameFrames(s, Timed(s, f))
          /\ Timed(s, f).timers = IF f \in DOMAIN s.timers THEN s.timers
                                  ELSE With(s.timers, f, DOMAIN s.timers)
      BY <1>1, TimedFields
    <3>2. Running(Timed(s, f))
      BY <1>4, <2>2, <2>4, <2>5, <3>1, RunningWith DEF SameCounts, SameFrames
    <3>3. QED
      BY <1>3, <2>5, <3>2
  <2>6. CASE s.quiet[f].active # 0
    BY <1>3, <2>4, <2>6
  <2>7. QED
    BY <2>5, <2>6
<1>5. QED
  BY <1>1, <1>2, <1>3, <1>4 DEF SameFlags, SameLoading, SameCounts, SameFrames

LEMMA RecalculateFields ==
  ASSUME NEW p, IsPage(p)
  PROVE  LET q == Recalculate(p) IN
         /\ IsPage(q) /\ SameLoading(p, q) /\ SameCounts(p, q) /\ SameFrames(p, q)
         /\ q.timers = p.timers
         /\ q.networkidle \in BOOLEAN /\ (q.networkidle <=> SubtreeIdle(q))
         /\ LetsGo(p, q)
<1> DEFINE s == [p EXCEPT !.networkidle = SubtreeIdle(p)]
<1>1. /\ IsPage(s) /\ SameLoading(p, s) /\ SameCounts(p, s) /\ SameFrames(p, s)
      /\ s.timers = p.timers /\ s.waiters = p.waiters
  BY DEF IsPage, PageFields, SameFlags, SameLoading, SameCounts, SameFrames
<1>2. s.networkidle = SubtreeIdle(p)
  BY DEF IsPage, PageFields
<1>3. SubtreeIdle(p) \in BOOLEAN
  BY DEF SubtreeIdle
<1>4. Recalculate(p) = Flush(s)
  BY DEF Recalculate
<1> DEFINE q == Flush(s)
<1>5. /\ IsPage(q) /\ SameLoading(s, q) /\ SameCounts(s, q) /\ SameFrames(s, q)
      /\ q.networkidle = s.networkidle /\ q.timers = s.timers
      /\ q.waiters = {w \in s.waiters : ~Satisfied(s, w.state)}
  BY <1>1, FlushFields
<1> HIDE DEF s, q
<1>6. LetsGo(p, q)
  BY <1>1, <1>5 DEF LetsGo, Satisfied, SameFlags, SameLoading
<1>7. SameLoading(p, q) /\ SameCounts(p, q) /\ SameFrames(p, q)
  BY <1>1, <1>5 DEF SameFlags, SameLoading, SameCounts, SameFrames
<1>8. q.networkidle \in BOOLEAN /\ (q.networkidle <=> SubtreeIdle(q))
  <2>1. SubtreeIdle(q) <=> SubtreeIdle(p)
    BY <1>7 DEF SubtreeIdle, SameCounts, SameFrames
  <2>2. QED
    BY <1>2, <1>3, <1>5, <2>1
<1>9. Recalculate(p) = q
  BY <1>4 DEF q
<1>10. QED
  BY <1>1, <1>5, <1>6, <1>7, <1>8, <1>9

LEMMA AwaitsFields ==
  ASSUME NEW p, IsPage(p), NEW c, NEW u
  PROVE  LET q == Awaits(p, c, u)
             W == p.waiters \cup {[call |-> c, state |-> u]}
         IN /\ IsPage(q) /\ SameLoading(p, q) /\ SameCounts(p, q) /\ SameFrames(p, q)
            /\ q.networkidle = p.networkidle /\ q.timers = p.timers
            /\ q.waiters \subseteq W
            /\ \A w \in W \ q.waiters :
                 w.state \in {"domcontentloaded", "load"} => Satisfied(q, w.state)
<1> DEFINE s == [p EXCEPT !.waiters = @ \cup {[call |-> c, state |-> u]}]
           q == Flush(s)
<1>1. /\ IsPage(s) /\ SameLoading(p, s) /\ SameCounts(p, s) /\ SameFrames(p, s)
      /\ s.networkidle = p.networkidle /\ s.timers = p.timers
      /\ s.waiters = p.waiters \cup {[call |-> c, state |-> u]}
  BY DEF IsPage, PageFields, SameFlags, SameLoading, SameCounts, SameFrames
<1>2. Awaits(p, c, u) = q
  BY DEF Awaits
<1>3. /\ IsPage(q) /\ SameLoading(s, q) /\ SameCounts(s, q) /\ SameFrames(s, q)
      /\ q.networkidle = s.networkidle /\ q.timers = s.timers
      /\ q.waiters = {w \in s.waiters : ~Satisfied(s, w.state)}
  BY <1>1, FlushFields
<1> HIDE DEF s, q
<1>4. \A w \in s.waiters \ q.waiters :
        w.state \in {"domcontentloaded", "load"} => Satisfied(q, w.state)
  BY <1>3 DEF Satisfied, SameFlags, SameLoading
<1>5. QED
  BY <1>1, <1>2, <1>3, <1>4 DEF SameFlags, SameLoading, SameCounts, SameFrames

LEMMA WillBeSentFields ==
  ASSUME NEW p, IsPage(p), NEW r, NEW f
  PROVE  LET q == WillBeSent(p, r, f) IN
         /\ IsPage(q) /\ SameLoading(p, q) /\ SameFrames(p, q)
         /\ q.active = p.active + 1
         /\ q.sent = With(p.sent, r, f)
         /\ q.quiet = With(p.quiet, f, [NoQuiet EXCEPT !.active = Quiet(p, f).active + 1])
         /\ q.networkidle \in BOOLEAN /\ (q.networkidle <=> SubtreeIdle(q))
         /\ LetsGo(p, q)
         /\ Running(p) => Running(q)
<1> DEFINE s == [p EXCEPT !.active = @ + 1, !.networkidle = FALSE, !.sent = With(@, r, f)]
           gone == {"page", f}
           u == Untimed(s, gone)
           v == [NoQuiet EXCEPT !.active = Quiet(p, f).active + 1]
           w == SetQuiet(u, f, v)
           q == Recalculate(w)
<1>1. /\ IsPage(s) /\ SameLoading(p, s) /\ SameFrames(p, s)
      /\ s.active = p.active + 1 /\ s.sent = With(p.sent, r, f) /\ s.quiet = p.quiet
      /\ s.timers = p.timers /\ s.waiters = p.waiters
  BY DEF IsPage, PageFields, SameFlags, SameLoading, SameFrames
<1>2. WillBeSent(p, r, f) = q
  BY DEF WillBeSent
<1> HIDE DEF s, gone
<1>3. /\ IsPage(u) /\ SameLoading(s, u) /\ SameCounts(s, u) /\ SameFrames(s, u)
      /\ u.networkidle = s.networkidle /\ u.waiters = s.waiters
      /\ u.timers = [t \in DOMAIN s.timers \ gone |-> s.timers[t] \ gone]
  BY <1>1, UntimedFields
<1> HIDE DEF u, v
<1>4. /\ IsPage(w) /\ SameLoading(u, w) /\ SameFrames(u, w)
      /\ w.active = u.active /\ w.sent = u.sent /\ w.timers = u.timers
      /\ w.waiters = u.waiters /\ w.quiet = With(u.quiet, f, v)
  BY <1>3, SetQuietFields
<1> HIDE DEF w
<1>5. /\ IsPage(q) /\ SameLoading(w, q) /\ SameCounts(w, q) /\ SameFrames(w, q)
      /\ q.timers = w.timers
      /\ q.networkidle \in BOOLEAN /\ (q.networkidle <=> SubtreeIdle(q))
      /\ LetsGo(w, q)
  BY <1>4, RecalculateFields
<1> HIDE DEF q
<1>6. LetsGo(p, q)
  BY <1>1, <1>3, <1>4, <1>5 DEF LetsGo
<1>7. SameLoading(p, q) /\ SameFrames(p, q)
  BY <1>1, <1>3, <1>4, <1>5 DEF SameFlags, SameLoading, SameFrames
<1>8. q.quiet = With(p.quiet, f, v)
  BY <1>1, <1>3, <1>4, <1>5 DEF SameCounts
<1>9. ASSUME Running(p) PROVE Running(q)
  <2>1. /\ q.timers = [t \in DOMAIN p.timers \ gone |-> p.timers[t] \ gone]
        /\ q.active = p.active + 1
    BY <1>1, <1>3, <1>4, <1>5 DEF SameCounts
  <2>2. IsQuiet(p.quiet) /\ p.active \in Nat
    BY <1>9 DEF Running
  <2>3. Quiet(p, f) \in QuietStates
    BY <2>2, QuietType
  <2>4. Quiet(p, f).active + 1 \in Nat
    BY <2>3 DEF QuietStates
  <2>5. v \in QuietStates
    BY <2>4 DEF v, NoQuiet, QuietStates
  <2>6. /\ DOMAIN q.quiet = DOMAIN p.quiet \cup {f} /\ IsQuiet(q.quiet)
        /\ \A g \in DOMAIN p.quiet \ {f} : q.quiet[g] = p.quiet[g]
    BY <1>8, <2>2, <2>5 DEF With, IsQuiet
  <2>7. "page" \notin gone => (p.active = 0 => q.active = 0) /\ q.closed = p.closed
    BY DEF gone
  <2>8. \A t \in DOMAIN p.timers \ (gone \cup {"page"}) : t \in DOMAIN q.quiet /\ q.quiet[t].active = 0
    BY <1>9, <2>6 DEF Running, gone
  <2>9. q.active \in Nat
    BY <2>1, <2>2
  <2>10. QED
    BY <1>9, <2>1, <2>6, <2>7, <2>8, <2>9, RunningStill
<1>10. QED
  BY <1>1, <1>2, <1>3, <1>4, <1>5, <1>6, <1>7, <1>8, <1>9 DEF SameCounts, v

LEMMA SettledFields ==
  ASSUME NEW p, IsPage(p), NEW r
  PROVE  LET q == Settled(p, r)
             f == p.sent[r]
         IN /\ IsPage(q) /\ SameLoading(p, q) /\ SameFrames(p, q)
            /\ q.active = Less(p.active, 1)
            /\ q.sent = Without(p.sent, {r})
            /\ q.quiet = With(p.quiet, f, [Quiet(p, f) EXCEPT !.active = Less(@, 1)])
            /\ q.networkidle = p.networkidle /\ q.waiters = p.waiters
            /\ Running(p) /\ ~p.closed /\ f # "page" => Running(q)
<1> DEFINE f == p.sent[r]
           s == [p EXCEPT !.active = Less(@, 1), !.sent = Without(@, {r})]
           v == [Quiet(p, f) EXCEPT !.active = Less(@, 1)]
           u == SetQuiet(s, f, v)
           w == ArmFrame(u, f)
           q == ArmTimer(w)
<1>1. /\ IsPage(s) /\ SameLoading(p, s) /\ SameFrames(p, s)
      /\ s.active = Less(p.active, 1) /\ s.sent = Without(p.sent, {r}) /\ s.quiet = p.quiet
      /\ s.timers = p.timers /\ s.networkidle = p.networkidle /\ s.waiters = p.waiters
  BY DEF IsPage, PageFields, SameFlags, SameLoading, SameFrames
<1>2. Settled(p, r) = q
  BY DEF Settled
<1> HIDE DEF s, f, v
<1>3. /\ IsPage(u) /\ SameLoading(s, u) /\ SameFrames(s, u)
      /\ u.active = s.active /\ u.sent = s.sent /\ u.timers = s.timers /\ u.networkidle = s.networkidle
      /\ u.waiters = s.waiters /\ u.quiet = With(s.quiet, f, v)
  BY <1>1, SetQuietFields
<1> HIDE DEF u
<1>4. /\ IsPage(w) /\ SameLoading(u, w) /\ SameFrames(u, w)
      /\ w.active = u.active /\ w.sent = u.sent /\ w.networkidle = u.networkidle
      /\ w.waiters = u.waiters /\ w.quiet = With(u.quiet, f, Quiet(u, f))
      /\ Running(u) /\ f # "page" => Running(w)
  BY <1>3, ArmFrameFields
<1>5. w.quiet = With(p.quiet, f, v)
  BY <1>1, <1>3, <1>4 DEF Quiet, With
<1> HIDE DEF w
<1>6. /\ IsPage(q) /\ SameLoading(w, q) /\ SameCounts(w, q) /\ SameFrames(w, q)
      /\ q.networkidle = w.networkidle /\ q.waiters = w.waiters
      /\ Running(w) /\ ~w.closed => Running(q)
  BY <1>4, ArmTimerFields
<1> HIDE DEF q
<1>7. SameLoading(p, q) /\ SameFrames(p, q)
  BY <1>1, <1>3, <1>4, <1>6 DEF SameFlags, SameLoading, SameFrames
<1>8. ASSUME Running(p), ~p.closed, f # "page" PROVE Running(q)
  <2>1. Running(s)
    <3>1. s.active \in Nat /\ (p.active = 0 => s.active = 0)
      BY <1>1, <1>8, LessFacts DEF Running
    <3>2. \A t \in DOMAIN p.timers \ {"page"} : t \in DOMAIN s.quiet /\ s.quiet[t].active = 0
      BY <1>1, <1>8 DEF Running
    <3>3. IsQuiet(s.quiet) /\ s.closed = p.closed
      BY <1>1, <1>8 DEF Running, SameFrames
    <3>4. QED
      BY <1>1, <1>8, <3>1, <3>2, <3>3, RunningSame
  <2>2. v \in QuietStates /\ (f \in DOMAIN p.quiet /\ p.quiet[f].active = 0 => v.active = 0)
    <3>1. Quiet(p, f) \in QuietStates
      BY <1>8, QuietType DEF Running
    <3>2. Less(Quiet(p, f).active, 1) \in Nat /\ (Quiet(p, f).active = 0 => Less(Quiet(p, f).active, 1) = 0)
      BY <3>1, LessFacts DEF QuietStates
    <3>3. f \in DOMAIN p.quiet => Quiet(p, f) = p.quiet[f]
      BY DEF Quiet
    <3>4. QED
      BY <3>1, <3>2, <3>3 DEF v, QuietStates
  <2>3. Running(u)
    <3>1. /\ DOMAIN u.quiet = DOMAIN s.quiet \cup {f}
          /\ IsQuiet(u.quiet)
          /\ u.quiet[f] = v
          /\ \A g \in DOMAIN s.quiet \ {f} : u.quiet[g] = s.quiet[g]
      <4>1. IsQuiet(s.quiet)
        BY <2>1 DEF Running
      <4>2. QED
        BY <1>3, <2>2, <4>1 DEF With, IsQuiet
    <3>2. \A t \in DOMAIN s.timers \ {"page"} : t \in DOMAIN u.quiet /\ u.quiet[t].active = 0
      BY <1>1, <2>1, <2>2, <3>1 DEF Running
    <3>3. u.active \in Nat /\ u.active = s.active /\ u.closed = s.closed
      BY <1>3, <2>1 DEF Running, SameFrames
    <3>4. QED
      BY <1>3, <2>1, <3>1, <3>2, <3>3, RunningSame
  <2>4. Running(w) /\ ~w.closed
    BY <1>1, <1>3, <1>4, <1>8, <2>3 DEF SameFrames
  <2>5. QED
    BY <1>6, <2>4
<1>9. QED
  BY <1>1, <1>2, <1>3, <1>4, <1>5, <1>6, <1>7, <1>8 DEF SameCounts, v, f

LEMMA DetachedFields ==
  ASSUME NEW p, IsPage(p), NEW S, S # {}
  PROVE  LET q == Detached(p, S)
             theirs == {r \in DOMAIN p.sent : p.sent[r] \in S}
         IN /\ IsPage(q) /\ SameFlags(p, q)
            /\ q.loading = p.loading \ S
            /\ q.active = Less(p.active, Cardinality(theirs))
            /\ q.sent = Without(p.sent, theirs)
            /\ q.quiet = Without(p.quiet, S)
            /\ q.frames = p.frames \ S /\ q.closed = p.closed
            /\ q.networkidle \in BOOLEAN
            /\ q.networkidle => \A f \in {Main} \cup p.frames : f \in DOMAIN q.quiet /\ q.quiet[f].reached
            /\ LetsGo(p, q)
            /\ Running(p) /\ ~p.closed /\ "page" \notin S /\ Cardinality(theirs) \in Nat => Running(q)
<1> DEFINE theirs == {r \in DOMAIN p.sent : p.sent[r] \in S}
           s == [p EXCEPT !.loading = @ \ S, !.sent = Without(@, theirs),
                          !.quiet = Without(@, S), !.active = Less(@, Cardinality(theirs))]
           u == Untimed(s, S)
           v == Recalculate(u)
           w == ArmTimer(v)
           x == [w EXCEPT !.frames = @ \ S]
           q == Flush(x)
<1>1. /\ IsPage(s) /\ SameFlags(p, s) /\ SameFrames(p, s)
      /\ s.loading = p.loading \ S /\ s.sent = Without(p.sent, theirs)
      /\ s.quiet = Without(p.quiet, S) /\ s.active = Less(p.active, Cardinality(theirs))
      /\ s.timers = p.timers /\ s.waiters = p.waiters
  BY DEF IsPage, PageFields, SameFlags, SameFrames
<1>2. Detached(p, S) = q
  BY DEF Detached
<1> HIDE DEF s
<1>3. /\ IsPage(u) /\ SameLoading(s, u) /\ SameCounts(s, u) /\ SameFrames(s, u)
      /\ u.waiters = s.waiters
      /\ u.timers = [t \in DOMAIN s.timers \ S |-> s.timers[t] \ S]
  BY <1>1, UntimedFields
<1> HIDE DEF u
<1>4. /\ IsPage(v) /\ SameLoading(u, v) /\ SameCounts(u, v) /\ SameFrames(u, v)
      /\ v.networkidle \in BOOLEAN /\ (v.networkidle <=> SubtreeIdle(v))
      /\ v.timers = u.timers /\ LetsGo(u, v)
  BY <1>3, RecalculateFields
<1> HIDE DEF v
<1>5. /\ IsPage(w) /\ SameLoading(v, w) /\ SameCounts(v, w) /\ SameFrames(v, w)
      /\ w.networkidle = v.networkidle /\ w.waiters = v.waiters
      /\ Running(v) /\ ~v.closed => Running(w)
  BY <1>4, ArmTimerFields
<1> HIDE DEF w
<1>6. /\ IsPage(x) /\ SameLoading(w, x) /\ SameCounts(w, x)
      /\ x.timers = w.timers /\ x.networkidle = w.networkidle /\ x.waiters = w.waiters
      /\ x.frames = w.frames \ S /\ x.closed = w.closed
  BY <1>5 DEF IsPage, PageFields, SameFlags, SameLoading, SameCounts
<1> HIDE DEF x
<1>7. /\ IsPage(q) /\ SameLoading(x, q) /\ SameCounts(x, q) /\ SameFrames(x, q)
      /\ q.timers = x.timers /\ q.networkidle = x.networkidle /\ LetsGo(x, q)
  BY <1>6, FlushFields
<1> HIDE DEF q
<1>8. LetsGo(p, q)
  <2>1. LetsGo(p, v)
    BY <1>1, <1>3, <1>4 DEF LetsGo
  <2>2. LetsGo(v, q)
    BY <1>5, <1>6, <1>7 DEF LetsGo
  <2>3. SameFlags(v, q)
    BY <1>5, <1>6, <1>7 DEF SameFlags, SameLoading
  <2>4. QED
    BY <2>1, <2>2, <2>3, LetsGoOn
<1>9. SameFlags(p, q) /\ q.loading = p.loading \ S
  BY <1>1, <1>3, <1>4, <1>5, <1>6, <1>7 DEF SameFlags, SameLoading
<1>10. q.frames = p.frames \ S /\ q.closed = p.closed
  BY <1>1, <1>3, <1>4, <1>5, <1>6, <1>7 DEF SameFrames
<1>11. SameCounts(s, q) /\ SameCounts(v, q) /\ q.networkidle = v.networkidle /\ v.frames = p.frames
  BY <1>1, <1>3, <1>4, <1>5, <1>6, <1>7 DEF SameCounts, SameFrames
<1>12. q.networkidle => \A f \in {Main} \cup p.frames : f \in DOMAIN q.quiet /\ q.quiet[f].reached
  BY <1>4, <1>11 DEF SubtreeIdle, SameCounts
<1>13. ASSUME Running(p), ~p.closed, "page" \notin S, Cardinality(theirs) \in Nat PROVE Running(q)
  <2> HIDE DEF theirs
  <2>1. u.timers = [t \in DOMAIN p.timers \ S |-> p.timers[t] \ S]
    BY <1>1, <1>3
  <2>2. /\ u.quiet = Without(p.quiet, S) /\ u.active = Less(p.active, Cardinality(theirs))
        /\ u.closed = p.closed
    BY <1>1, <1>3 DEF SameCounts, SameFrames
  <2>3. /\ DOMAIN u.quiet = DOMAIN p.quiet \ S
        /\ \A g \in DOMAIN p.quiet \ S : u.quiet[g] = p.quiet[g]
        /\ u.quiet = [g \in DOMAIN p.quiet \ S |-> p.quiet[g]]
    BY <2>2 DEF Without
  <2>4. IsQuiet(u.quiet)
    BY <1>13, <2>3 DEF Running, IsQuiet
  <2>5. u.active \in Nat /\ (p.active = 0 => u.active = 0)
    BY <1>13, <2>2, LessFacts DEF Running
  <2>6. \A t \in DOMAIN p.timers \ (S \cup {"page"}) : t \in DOMAIN u.quiet /\ u.quiet[t].active = 0
    BY <1>13, <2>3 DEF Running
  <2>7. Running(u)
    BY <1>13, <2>1, <2>2, <2>4, <2>5, <2>6, RunningStill
  <2>8. Running(v) /\ ~v.closed
    BY <1>4, <1>13, <2>2, <2>7 DEF Running, SameCounts, SameFrames
  <2>9. Running(w)
    BY <1>5, <2>8
  <2>10. QED
    BY <1>6, <1>7, <2>9 DEF Running, SameCounts, SameFrames
<1>14. QED
  BY <1>1, <1>2, <1>4, <1>7, <1>8, <1>9, <1>10, <1>11, <1>12, <1>13 DEF SameCounts

LEMMA StartedLoadingFields ==
  ASSUME NEW p, IsPage(p), NEW f
  PROVE  LET q == StartedLoading(p, f) IN
         /\ IsPage(q) /\ SameFlags(p, q) /\ SameCounts(p, q) /\ SameFrames(p, q)
         /\ q.loading = p.loading \cup {f}
         /\ q.networkidle = FALSE /\ q.waiters = p.waiters
         /\ Running(p) => Running(q)
<1> DEFINE q == StartedLoading(p, f)
           gone == {"page"}
<1>1. /\ IsPage(q) /\ SameFlags(p, q) /\ SameCounts(p, q) /\ SameFrames(p, q)
      /\ q.loading = p.loading \cup {f}
      /\ q.networkidle = FALSE /\ q.waiters = p.waiters
      /\ q.timers = [t \in DOMAIN p.timers \ gone |-> p.timers[t] \ gone]
  BY DEF IsPage, PageFields, SameFlags, SameCounts, SameFrames, StartedLoading, Untimed
<1> HIDE DEF q
<1>2. ASSUME Running(p) PROVE Running(q)
  <2>1. \A t \in DOMAIN p.timers \ (gone \cup {"page"}) : t \in DOMAIN q.quiet /\ q.quiet[t].active = 0
    BY <1>1, <1>2 DEF Running, SameCounts
  <2>2. q.active \in Nat /\ IsQuiet(q.quiet) /\ q.active = p.active /\ q.closed = p.closed
    BY <1>1, <1>2 DEF Running, SameCounts, SameFrames
  <2> HIDE DEF gone
  <2>3. QED
    BY <1>1, <1>2, <2>1, <2>2, RunningStill
<1>3. QED
  BY <1>1, <1>2 DEF q

LEMMA NavigatedFields ==
  ASSUME NEW p, IsPage(p), NEW f
  PROVE  LET q == Navigated(p, f) IN
         /\ IsPage(q) /\ SameFrames(p, q)
         /\ q.load = FALSE /\ q.loading = p.loading \cup {f}
         /\ q.active = p.active /\ q.sent = p.sent
         /\ q.quiet = With(p.quiet, f, [NoQuiet EXCEPT !.active = Quiet(p, f).active])
         /\ q.waiters = p.waiters
         /\ Running(p) => Running(q)
         /\ q.domcontentloaded = IF f = Main THEN FALSE ELSE p.domcontentloaded
         /\ q.networkidle = IF f = Main THEN FALSE ELSE p.networkidle
         /\ q.same = IF f = Main THEN FALSE ELSE p.same
         /\ q.allow = IF f = Main THEN FALSE ELSE p.allow
<1> DEFINE s == [p EXCEPT !.loading = @ \cup {f}, !.load = FALSE]
           own == {f}
           u == Untimed(s, own)
           v == [NoQuiet EXCEPT !.active = Quiet(p, f).active]
           w == SetQuiet(u, f, v)
           x == [w EXCEPT !.domcontentloaded = FALSE, !.networkidle = FALSE,
                          !.same = FALSE, !.allow = FALSE]
           its == {"page"}
           y == Untimed(x, its)
<1>1. /\ IsPage(s) /\ SameCounts(p, s) /\ SameFrames(p, s)
      /\ s.loading = p.loading \cup {f} /\ s.load = FALSE /\ s.timers = p.timers /\ s.waiters = p.waiters
      /\ s.domcontentloaded = p.domcontentloaded
      /\ s.networkidle = p.networkidle /\ s.same = p.same /\ s.allow = p.allow
  BY DEF IsPage, PageFields, SameCounts, SameFrames
<1>2. Navigated(p, f) = IF f = Main THEN y ELSE w
  BY DEF Navigated
<1> HIDE DEF s, v, own
<1>3. /\ IsPage(u) /\ SameLoading(s, u) /\ SameCounts(s, u) /\ SameFrames(s, u)
      /\ u.networkidle = s.networkidle /\ u.waiters = s.waiters
      /\ u.timers = [t \in DOMAIN s.timers \ own |-> s.timers[t] \ own]
  BY <1>1, UntimedFields
<1> HIDE DEF u
<1>4. /\ IsPage(w) /\ SameLoading(u, w) /\ SameFrames(u, w)
      /\ w.active = u.active /\ w.sent = u.sent /\ w.timers = u.timers /\ w.networkidle = u.networkidle
      /\ w.waiters = u.waiters /\ w.quiet = With(u.quiet, f, v)
  BY <1>3, SetQuietFields
<1> HIDE DEF w
<1>5. /\ IsPage(x) /\ SameCounts(w, x) /\ SameFrames(w, x)
      /\ x.loading = w.loading /\ x.load = w.load /\ x.timers = w.timers /\ x.waiters = w.waiters
      /\ x.domcontentloaded = FALSE /\ x.networkidle = FALSE /\ x.same = FALSE /\ x.allow = FALSE
  BY <1>4 DEF IsPage, PageFields, SameCounts, SameFrames
<1> HIDE DEF x, its
<1>6. /\ IsPage(y) /\ SameLoading(x, y) /\ SameCounts(x, y) /\ SameFrames(x, y)
      /\ y.networkidle = x.networkidle /\ y.waiters = x.waiters
      /\ y.timers = [t \in DOMAIN x.timers \ its |-> x.timers[t] \ its]
  BY <1>5, UntimedFields
<1> HIDE DEF y
<1>7. /\ w.load = FALSE /\ w.loading = p.loading \cup {f}
      /\ w.active = p.active /\ w.sent = p.sent /\ w.quiet = With(p.quiet, f, v)
      /\ w.waiters = p.waiters /\ SameFrames(p, w)
      /\ w.domcontentloaded = p.domcontentloaded
      /\ w.networkidle = p.networkidle /\ w.same = p.same /\ w.allow = p.allow
  BY <1>1, <1>3, <1>4 DEF SameFlags, SameLoading, SameCounts, SameFrames
<1>8. /\ SameCounts(w, y) /\ SameFrames(w, y)
      /\ y.loading = w.loading /\ y.load = w.load /\ y.waiters = w.waiters
      /\ y.domcontentloaded = FALSE /\ y.networkidle = FALSE /\ y.same = FALSE /\ y.allow = FALSE
  BY <1>5, <1>6 DEF SameFlags, SameLoading, SameCounts, SameFrames
<1>9. ASSUME Running(p) PROVE Running(w) /\ Running(y)
  <2>1. w.timers = [t \in DOMAIN p.timers \ own |-> p.timers[t] \ own]
    BY <1>1, <1>3, <1>4
  <2>2. v \in QuietStates
    BY <1>9, QuietType DEF Running, v, NoQuiet, QuietStates
  <2>3. /\ DOMAIN w.quiet = DOMAIN p.quiet \cup {f}
        /\ IsQuiet(w.quiet)
        /\ \A g \in DOMAIN p.quiet \ {f} : w.quiet[g] = p.quiet[g]
    <3>1. IsQuiet(p.quiet)
      BY <1>9 DEF Running
    <3>2. QED
      BY <1>7, <2>2, <3>1 DEF With, IsQuiet
  <2>4. \A t \in DOMAIN p.timers \ (own \cup {"page"}) : t \in DOMAIN w.quiet /\ w.quiet[t].active = 0
    BY <1>9, <2>3 DEF Running, own
  <2>5. w.active \in Nat /\ w.active = p.active /\ w.closed = p.closed
    BY <1>7, <1>9 DEF Running, SameFrames
  <2>6. Running(w)
    BY <1>9, <2>1, <2>3, <2>4, <2>5, RunningStill
  <2>7. Running(x)
    BY <1>5, <2>6 DEF Running, SameCounts, SameFrames
  <2>8. \A t \in DOMAIN x.timers \ (its \cup {"page"}) : t \in DOMAIN y.quiet /\ y.quiet[t].active = 0
    BY <1>6, <2>7 DEF Running, SameCounts
  <2>9. /\ y.active \in Nat /\ IsQuiet(y.quiet)
        /\ y.active = x.active /\ y.closed = x.closed
        /\ y.timers = [t \in DOMAIN x.timers \ its |-> x.timers[t] \ its]
    BY <1>6, <2>7 DEF Running, SameCounts, SameFrames
  <2>10. Running(y)
    BY <2>7, <2>8, <2>9, RunningStill
  <2>11. QED
    BY <2>6, <2>10
<1>10. QED
  BY <1>2, <1>4, <1>6, <1>7, <1>8, <1>9 DEF SameCounts, SameFrames, v

LEMMA WithinDocumentFields ==
  ASSUME NEW p, IsPage(p), p.allow \in BOOLEAN
  PROVE  LET q == WithinDocument(p) IN
         /\ IsPage(q) /\ SameCounts(p, q) /\ SameFrames(p, q)
         /\ q.load = TRUE /\ q.domcontentloaded = TRUE /\ q.networkidle = TRUE
         /\ q.same = TRUE /\ q.allow = p.allow /\ q.loading = p.loading
         /\ q.timers = p.timers /\ LetsGo(p, q)
<1> DEFINE s == [p EXCEPT !.same = TRUE,
                          !.domcontentloaded = TRUE, !.load = TRUE, !.networkidle = TRUE]
           q == Flush(s)
<1>1. /\ IsPage(s) /\ SameCounts(p, s) /\ SameFrames(p, s)
      /\ s.load = TRUE /\ s.domcontentloaded = TRUE /\ s.networkidle = TRUE
      /\ s.same = TRUE /\ s.allow = p.allow /\ s.loading = p.loading
      /\ s.timers = p.timers /\ s.waiters = p.waiters
  BY DEF IsPage, PageFields, SameCounts, SameFrames
<1>2. WithinDocument(p) = IF p.allow THEN q ELSE s
  BY DEF WithinDocument
<1> HIDE DEF s
<1>3. /\ IsPage(q) /\ SameLoading(s, q) /\ SameCounts(s, q) /\ SameFrames(s, q)
      /\ q.networkidle = s.networkidle /\ q.timers = s.timers /\ LetsGo(s, q)
  BY <1>1, FlushFields
<1> HIDE DEF q
<1>4. LetsGo(p, q) /\ LetsGo(p, s)
  BY <1>1, <1>3 DEF LetsGo
<1>5. QED
  BY <1>1, <1>2, <1>3, <1>4 DEF SameFlags, SameLoading, SameCounts, SameFrames

LEMMA ContentFiredFields ==
  ASSUME NEW p, IsPage(p), NEW f
  PROVE  LET q == ContentFired(p, f) IN
         /\ IsPage(q) /\ SameCounts(p, q) /\ SameFrames(p, q)
         /\ q.domcontentloaded \in BOOLEAN
         /\ q.domcontentloaded <=> p.domcontentloaded \/ f = Main
         /\ q.load = p.load /\ q.same = p.same /\ q.allow = p.allow /\ q.loading = p.loading
         /\ q.networkidle = p.networkidle /\ q.timers = p.timers /\ LetsGo(p, q)
<1> DEFINE s == [p EXCEPT !.domcontentloaded = @ \/ f = Main]
           q == Flush(s)
<1>1. /\ IsPage(s) /\ SameCounts(p, s) /\ SameFrames(p, s)
      /\ s.domcontentloaded = (p.domcontentloaded \/ f = Main)
      /\ s.load = p.load /\ s.same = p.same /\ s.allow = p.allow /\ s.loading = p.loading
      /\ s.networkidle = p.networkidle /\ s.timers = p.timers /\ s.waiters = p.waiters
  BY DEF IsPage, PageFields, SameCounts, SameFrames
<1>2. ContentFired(p, f) = q
  BY DEF ContentFired
<1> HIDE DEF s
<1>3. /\ IsPage(q) /\ SameLoading(s, q) /\ SameCounts(s, q) /\ SameFrames(s, q)
      /\ q.networkidle = s.networkidle /\ q.timers = s.timers /\ LetsGo(s, q)
  BY <1>1, FlushFields
<1> HIDE DEF q
<1>4. LetsGo(p, q)
  BY <1>1, <1>3 DEF LetsGo
<1>5. QED
  BY <1>1, <1>2, <1>3, <1>4 DEF SameFlags, SameLoading, SameCounts, SameFrames

LEMMA DoneLoadingFields ==
  ASSUME NEW p, IsPage(p), NEW f
  PROVE  LET q == DoneLoading(p, f) IN
         /\ IsPage(q) /\ SameCounts(p, q) /\ SameFrames(p, q)
         /\ q.load \in BOOLEAN /\ (q.load <=> p.loading \subseteq {f})
         /\ q.loading = p.loading \ {f}
         /\ q.domcontentloaded = p.domcontentloaded /\ q.same = p.same /\ q.allow = p.allow
         /\ q.networkidle = p.networkidle /\ q.timers = p.timers /\ q.waiters = p.waiters
  BY DEF IsPage, PageFields, SameCounts, SameFrames, DoneLoading

LEMMA LoadFiredFields ==
  ASSUME NEW p, IsPage(p), NEW f
  PROVE  LET q == LoadFired(p, f) IN
         /\ IsPage(q) /\ SameFrames(p, q)
         /\ q.load \in BOOLEAN /\ (q.load <=> p.loading \subseteq {f})
         /\ q.domcontentloaded \in BOOLEAN
         /\ q.domcontentloaded <=> p.domcontentloaded \/ f = Main
         /\ q.same = p.same /\ q.allow = p.allow /\ q.loading = p.loading \ {f}
         /\ q.active = p.active /\ q.sent = p.sent
         /\ q.quiet = With(p.quiet, f, Quiet(p, f))
         /\ q.networkidle = p.networkidle /\ q.waiters \subseteq p.waiters
         /\ f # Main /\ p.domcontentloaded \in BOOLEAN => LetsGo(p, q)
         /\ Running(p) /\ ~p.closed /\ f # "page" => Running(q)
<1> DEFINE m == [p EXCEPT !.load = TRUE]
           s == IF f = Main THEN Flush(m) ELSE p
           t == DoneLoading(s, f)
           u == ArmFrame(t, f)
           v == ArmTimer(u)
           w == Flush(v)
           x == [w EXCEPT !.domcontentloaded = @ \/ f = Main]
           q == Flush(x)
<1>1. LoadFired(p, f) = q
  BY DEF LoadFired
<1>2. /\ IsPage(m) /\ SameCounts(p, m) /\ SameFrames(p, m)
      /\ m.loading = p.loading
      /\ m.domcontentloaded = p.domcontentloaded /\ m.same = p.same /\ m.allow = p.allow
      /\ m.timers = p.timers /\ m.networkidle = p.networkidle /\ m.waiters = p.waiters
  BY DEF IsPage, PageFields, SameCounts, SameFrames
<1>3. /\ IsPage(Flush(m)) /\ SameLoading(m, Flush(m)) /\ SameCounts(m, Flush(m))
      /\ SameFrames(m, Flush(m))
      /\ Flush(m).timers = m.timers /\ Flush(m).networkidle = m.networkidle /\ LetsGo(m, Flush(m))
  <2> HIDE DEF m
  <2>1. QED
    BY <1>2, FlushFields
<1>4. /\ IsPage(s) /\ SameCounts(p, s) /\ SameFrames(p, s)
      /\ s.loading = p.loading
      /\ s.domcontentloaded = p.domcontentloaded /\ s.same = p.same /\ s.allow = p.allow
      /\ s.timers = p.timers /\ s.networkidle = p.networkidle /\ s.waiters \subseteq p.waiters
      /\ f # Main => s = p
  <2> HIDE DEF m
  <2>1. QED
    BY <1>2, <1>3 DEF SameFlags, SameLoading, SameCounts, SameFrames, LetsGo
<1> HIDE DEF m, s
<1>5. /\ IsPage(t) /\ SameCounts(s, t) /\ SameFrames(s, t)
      /\ t.load \in BOOLEAN /\ (t.load <=> s.loading \subseteq {f})
      /\ t.loading = s.loading \ {f}
      /\ t.domcontentloaded = s.domcontentloaded /\ t.same = s.same /\ t.allow = s.allow
      /\ t.timers = s.timers /\ t.networkidle = s.networkidle /\ t.waiters = s.waiters
  BY <1>4, DoneLoadingFields
<1> HIDE DEF t
<1>6. /\ IsPage(u) /\ SameLoading(t, u) /\ SameFrames(t, u)
      /\ u.active = t.active /\ u.sent = t.sent
      /\ u.networkidle = t.networkidle /\ u.waiters = t.waiters
      /\ u.quiet = With(t.quiet, f, Quiet(t, f))
      /\ Running(t) /\ f # "page" => Running(u)
  BY <1>5, ArmFrameFields
<1> HIDE DEF u
<1>7. /\ IsPage(v) /\ SameLoading(u, v) /\ SameCounts(u, v) /\ SameFrames(u, v)
      /\ v.networkidle = u.networkidle /\ v.waiters = u.waiters
      /\ Running(u) /\ ~u.closed => Running(v)
  BY <1>6, ArmTimerFields
<1> HIDE DEF v
<1>8. /\ IsPage(w) /\ SameLoading(v, w) /\ SameCounts(v, w) /\ SameFrames(v, w)
      /\ w.timers = v.timers /\ w.networkidle = v.networkidle /\ LetsGo(v, w)
  BY <1>7, FlushFields
<1> HIDE DEF w
<1>9. /\ IsPage(x) /\ SameCounts(w, x) /\ SameFrames(w, x)
      /\ x.domcontentloaded = (w.domcontentloaded \/ f = Main)
      /\ x.load = w.load /\ x.same = w.same /\ x.allow = w.allow /\ x.loading = w.loading
      /\ x.timers = w.timers /\ x.networkidle = w.networkidle /\ x.waiters = w.waiters
  BY <1>8 DEF IsPage, PageFields, SameCounts, SameFrames
<1> HIDE DEF x
<1>10. /\ IsPage(q) /\ SameLoading(x, q) /\ SameCounts(x, q) /\ SameFrames(x, q)
       /\ q.timers = x.timers /\ q.networkidle = x.networkidle /\ LetsGo(x, q)
  BY <1>9, FlushFields
<1> HIDE DEF q
<1>11. /\ SameFrames(p, q)
       /\ q.same = p.same /\ q.allow = p.allow /\ q.loading = p.loading \ {f}
       /\ q.active = p.active /\ q.sent = p.sent /\ q.networkidle = p.networkidle
  BY <1>4, <1>5, <1>6, <1>7, <1>8, <1>9, <1>10 DEF SameFlags, SameLoading, SameCounts, SameFrames
<1>12. q.quiet = With(p.quiet, f, Quiet(p, f))
  BY <1>4, <1>5, <1>6, <1>7, <1>8, <1>9, <1>10 DEF SameCounts, Quiet
<1>13. /\ q.load \in BOOLEAN /\ (q.load <=> p.loading \subseteq {f})
       /\ q.domcontentloaded \in BOOLEAN
       /\ q.domcontentloaded <=> p.domcontentloaded \/ f = Main
  BY <1>4, <1>5, <1>6, <1>7, <1>8, <1>9, <1>10 DEF SameFlags, SameLoading
<1>14. q.waiters \subseteq p.waiters
  BY <1>4, <1>5, <1>6, <1>7, <1>8, <1>9, <1>10 DEF LetsGo
<1>15. ASSUME f # Main, p.domcontentloaded \in BOOLEAN PROVE LetsGo(p, q)
  <2>1. LetsGo(p, w)
    BY <1>4, <1>5, <1>6, <1>7, <1>8, <1>15 DEF LetsGo
  <2>2. LetsGo(w, q)
    BY <1>9, <1>10 DEF LetsGo
  <2>3. SameFlags(w, q)
    <3>1. w.domcontentloaded = p.domcontentloaded
      BY <1>4, <1>5, <1>6, <1>7, <1>8 DEF SameFlags, SameLoading
    <3>2. QED
      BY <1>9, <1>10, <1>15, <3>1 DEF SameFlags, SameLoading
  <2>4. QED
    BY <2>1, <2>2, <2>3, LetsGoOn
<1>16. ASSUME Running(p), ~p.closed, f # "page" PROVE Running(q)
  <2>1. Running(t) /\ ~t.closed
    BY <1>4, <1>5, <1>16 DEF Running, SameCounts, SameFrames
  <2>2. Running(v)
    BY <1>6, <1>7, <1>16, <2>1 DEF SameFrames
  <2>3. QED
    BY <1>8, <1>9, <1>10, <2>2 DEF Running, SameCounts, SameFrames
<1>17. QED
  BY <1>1, <1>10, <1>11, <1>12, <1>13, <1>14, <1>15, <1>16

LEMMA DocumentFailedFields ==
  ASSUME NEW p, IsPage(p), NEW r
  PROVE  LET q == DocumentFailed(p, r)
             f == p.sent[r]
         IN /\ IsPage(q) /\ SameFrames(p, q)
            /\ q.load \in BOOLEAN /\ (q.load <=> p.loading \subseteq {f})
            /\ q.domcontentloaded \in BOOLEAN
            /\ q.domcontentloaded <=> p.domcontentloaded \/ f = Main
            /\ q.same = p.same /\ q.allow = p.allow /\ q.loading = p.loading \ {f}
            /\ q.active = Less(p.active, 1)
            /\ q.sent = Without(p.sent, {r})
            /\ q.quiet = With(p.quiet, f, [Quiet(p, f) EXCEPT !.active = Less(@, 1)])
            /\ q.networkidle = p.networkidle /\ LetsGo(p, q)
            /\ EndsOne(p, q, r)
            /\ Running(p) /\ ~p.closed /\ f # "page" => Running(q)
<1> DEFINE f == p.sent[r]
           s == DoneLoading(p, f)
           t == [s EXCEPT !.domcontentloaded = @ \/ f = Main]
           u == Settled(t, r)
           q == Flush(u)
<1>1. DocumentFailed(p, r) = q
  BY DEF DocumentFailed
<1> HIDE DEF f
<1>2. /\ IsPage(s) /\ SameCounts(p, s) /\ SameFrames(p, s)
      /\ s.load \in BOOLEAN /\ (s.load <=> p.loading \subseteq {f})
      /\ s.loading = p.loading \ {f}
      /\ s.domcontentloaded = p.domcontentloaded /\ s.same = p.same /\ s.allow = p.allow
      /\ s.timers = p.timers /\ s.networkidle = p.networkidle /\ s.waiters = p.waiters
  BY DoneLoadingFields
<1> HIDE DEF s
<1>3. /\ IsPage(t) /\ SameCounts(s, t) /\ SameFrames(s, t)
      /\ t.domcontentloaded = (s.domcontentloaded \/ f = Main)
      /\ t.load = s.load /\ t.same = s.same /\ t.allow = s.allow /\ t.loading = s.loading
      /\ t.timers = s.timers /\ t.networkidle = s.networkidle /\ t.waiters = s.waiters
  BY <1>2 DEF IsPage, PageFields, SameCounts, SameFrames
<1>4. t.sent[r] = f /\ Quiet(t, f) = Quiet(p, f) /\ t.sent = p.sent /\ t.quiet = p.quiet
      /\ t.active = p.active
  BY <1>2, <1>3 DEF f, SameCounts, Quiet
<1> HIDE DEF t
<1>5. /\ IsPage(u) /\ SameLoading(t, u) /\ SameFrames(t, u)
      /\ u.active = Less(t.active, 1)
      /\ u.sent = Without(t.sent, {r})
      /\ u.quiet = With(t.quiet, t.sent[r], [Quiet(t, t.sent[r]) EXCEPT !.active = Less(@, 1)])
      /\ u.networkidle = t.networkidle /\ u.waiters = t.waiters
      /\ Running(t) /\ ~t.closed /\ t.sent[r] # "page" => Running(u)
  BY <1>3, SettledFields
<1> HIDE DEF u
<1>6. /\ IsPage(q) /\ SameLoading(u, q) /\ SameCounts(u, q) /\ SameFrames(u, q)
      /\ q.timers = u.timers /\ q.networkidle = u.networkidle /\ LetsGo(u, q)
  BY <1>5, FlushFields
<1> HIDE DEF q
<1>7. LetsGo(p, q)
  BY <1>2, <1>3, <1>5, <1>6 DEF LetsGo
<1>8. /\ SameFrames(p, q)
      /\ q.same = p.same /\ q.allow = p.allow /\ q.loading = p.loading \ {f}
      /\ q.networkidle = p.networkidle
  BY <1>2, <1>3, <1>5, <1>6 DEF SameFlags, SameLoading, SameFrames
<1>9. /\ q.load \in BOOLEAN /\ (q.load <=> p.loading \subseteq {f})
      /\ q.domcontentloaded \in BOOLEAN
      /\ q.domcontentloaded <=> p.domcontentloaded \/ f = Main
  BY <1>2, <1>3, <1>5, <1>6 DEF SameFlags, SameLoading
<1>10. /\ q.active = Less(p.active, 1)
       /\ q.sent = Without(p.sent, {r})
       /\ q.quiet = With(p.quiet, f, [Quiet(p, f) EXCEPT !.active = Less(@, 1)])
  BY <1>4, <1>5, <1>6 DEF SameCounts
<1>11. ASSUME Running(p), ~p.closed, f # "page" PROVE Running(q)
  <2>1. Running(t) /\ ~t.closed /\ t.sent[r] # "page"
    BY <1>2, <1>3, <1>4, <1>11 DEF Running, SameFrames
  <2>2. Running(u)
    BY <1>5, <2>1
  <2>3. QED
    BY <1>6, <2>2 DEF Running, SameCounts, SameFrames
<1>12. EndsOne(p, q, r)
  BY <1>7, <1>8, <1>10 DEF EndsOne, f
<1>13. /\ IsPage(q)
       /\ Running(p) /\ ~p.closed /\ f # "page" => Running(q)
  BY <1>6, <1>11
<1>14. QED
  BY <1>1, <1>7, <1>8, <1>9, <1>10, <1>12, <1>13 DEF f

LEMMA ResetFields ==
  ASSUME NEW p, IsPage(p)
  PROVE  LET q == Reset(p) IN
         /\ IsPage(q) /\ SameFrames(p, q)
         /\ q.load = FALSE /\ q.domcontentloaded = FALSE /\ q.networkidle = FALSE
         /\ q.same = FALSE /\ q.allow = FALSE /\ q.loading = {}
         /\ q.active = 0 /\ q.sent = p.sent /\ q.quiet = None /\ q.timers = None
         /\ q.waiters = p.waiters
  BY DEF IsPage, PageFields, SameFrames, Reset

LEMMA SyncedFields ==
  ASSUME NEW p, IsPage(p), NEW at
  PROVE  LET q == Synced(p, at) IN
         /\ IsPage(q) /\ SameCounts(p, q) /\ SameFrames(p, q)
         /\ q.load \in BOOLEAN /\ (q.load <=> at = "loaded")
         /\ q.domcontentloaded \in BOOLEAN /\ (q.domcontentloaded <=> at # "parsing")
         /\ q.same = p.same /\ q.allow = p.allow /\ q.loading = p.loading
         /\ q.networkidle = p.networkidle /\ q.timers = p.timers /\ LetsGo(p, q)
<1> DEFINE s == [p EXCEPT !.domcontentloaded = at # "parsing", !.load = at = "loaded"]
           q == Flush(s)
<1>1. /\ IsPage(s) /\ SameCounts(p, s) /\ SameFrames(p, s)
      /\ s.domcontentloaded = (at # "parsing") /\ s.load = (at = "loaded")
      /\ s.same = p.same /\ s.allow = p.allow /\ s.loading = p.loading
      /\ s.networkidle = p.networkidle /\ s.timers = p.timers /\ s.waiters = p.waiters
  BY DEF IsPage, PageFields, SameCounts, SameFrames
<1>2. Synced(p, at) = q
  BY DEF Synced
<1> HIDE DEF s
<1>3. /\ IsPage(q) /\ SameLoading(s, q) /\ SameCounts(s, q) /\ SameFrames(s, q)
      /\ q.networkidle = s.networkidle /\ q.timers = s.timers /\ LetsGo(s, q)
  BY <1>1, FlushFields
<1> HIDE DEF q
<1>4. LetsGo(p, q)
  BY <1>1, <1>3 DEF LetsGo
<1>5. QED
  BY <1>1, <1>2, <1>3, <1>4 DEF SameFlags, SameLoading, SameCounts, SameFrames

-----------------------------------------------------------------------------
(* The adapter: its type.                                                  *)

Flagged(p) ==
  /\ p.load \in BOOLEAN /\ p.domcontentloaded \in BOOLEAN /\ p.networkidle \in BOOLEAN
  /\ p.same \in BOOLEAN /\ p.allow \in BOOLEAN /\ p.closed \in BOOLEAN
Framed(p) ==
  /\ p.frames \subseteq Children /\ p.loading \subseteq Frames
  /\ DOMAIN p.quiet \subseteq p.frames \cup {Main}
  /\ p.sent \in [DOMAIN p.sent -> p.frames \cup {Main}]
  /\ IsFiniteSet(DOMAIN p.sent)
Waited(p) == p.waiters \subseteq [call : Calls, state : States]

PageOK(p) == IsPage(p) /\ Flagged(p) /\ Running(p) /\ Framed(p) /\ Waited(p)

LEMMA FrameIsNotPage == \A f \in Frames : f # "page"
  BY LoadingAssumption DEF Frames

LEMMA SentTo ==
  ASSUME NEW p, Framed(p), NEW r \in DOMAIN p.sent
  PROVE  p.sent[r] \in p.frames \cup {Main} /\ p.sent[r] \in Frames
  BY DEF Framed, Frames

LEMMA SendOK ==
  ASSUME NEW p, PageOK(p), NEW r, NEW f \in p.frames \cup {Main}
  PROVE  PageOK(WillBeSent(p, r, f))
<1> DEFINE v == [NoQuiet EXCEPT !.active = Quiet(p, f).active + 1]
           q == WillBeSent(p, r, f)
<1>1. /\ IsPage(q) /\ SameLoading(p, q) /\ SameFrames(p, q)
      /\ q.active = p.active + 1
      /\ q.sent = With(p.sent, r, f)
      /\ q.quiet = With(p.quiet, f, v)
      /\ q.networkidle \in BOOLEAN
      /\ LetsGo(p, q)
      /\ Running(q)
  BY WillBeSentFields DEF PageOK
<1> HIDE DEF q, v
<1>2. Flagged(q)
  BY <1>1 DEF PageOK, Flagged, SameLoading, SameFlags, SameFrames
<1>3. DOMAIN q.quiet = DOMAIN p.quiet \cup {f}
  BY <1>1 DEF With
<1>4. Framed(q)
  <2>1. DOMAIN q.sent = DOMAIN p.sent \cup {r}
    BY <1>1 DEF With
  <2>2. IsFiniteSet(DOMAIN q.sent)
    BY <2>1, FS_AddElement DEF PageOK, Framed
  <2>3. \A x \in DOMAIN q.sent : q.sent[x] \in p.frames \cup {Main}
    BY <1>1 DEF With, PageOK, Framed
  <2>4. q.sent = [x \in DOMAIN q.sent |-> q.sent[x]]
    BY <1>1 DEF With
  <2>5. q.frames = p.frames /\ q.loading = p.loading
    BY <1>1 DEF SameFrames, SameLoading
  <2>6. QED
    BY <1>3, <2>2, <2>3, <2>4, <2>5 DEF PageOK, Framed
<1>5. QED
  BY <1>1, <1>2, <1>4 DEF PageOK, Waited, LetsGo, q

\* Of a request that has ended, however it has, and of its frame.
LEMMA EndedFramed ==
  ASSUME NEW p, PageOK(p), NEW q, NEW r \in DOMAIN p.sent, Running(q), q.frames = p.frames,
         q.loading \subseteq p.loading,
         q.sent = Without(p.sent, {r}), DOMAIN q.quiet = DOMAIN p.quiet \cup {p.sent[r]}
  PROVE  Framed(q)
<1>1. DOMAIN q.sent \subseteq DOMAIN p.sent
  BY DEF Without
<1>2. IsFiniteSet(DOMAIN q.sent)
  BY <1>1, FS_Subset DEF PageOK, Framed
<1>3. q.sent = [x \in DOMAIN q.sent |-> q.sent[x]] /\ \A x \in DOMAIN q.sent : q.sent[x] \in p.frames \cup {Main}
  BY DEF Without, PageOK, Framed
<1>4. p.sent[r] \in p.frames \cup {Main}
  BY SentTo DEF PageOK
<1>5. QED
  BY <1>2, <1>3, <1>4 DEF PageOK, Framed

LEMMA SettleOK ==
  ASSUME NEW p, PageOK(p), ~p.closed, NEW r \in DOMAIN p.sent
  PROVE  PageOK(Settled(p, r))
<1> DEFINE q == Settled(p, r)
           f == p.sent[r]
           v == [Quiet(p, f) EXCEPT !.active = Less(@, 1)]
<1>1. f # "page"
  BY SentTo, FrameIsNotPage DEF PageOK
<1>2. /\ IsPage(q) /\ SameLoading(p, q) /\ SameFrames(p, q)
      /\ q.sent = Without(p.sent, {r})
      /\ q.quiet = With(p.quiet, f, v)
      /\ q.networkidle = p.networkidle /\ q.waiters = p.waiters
      /\ Running(q)
  BY <1>1, SettledFields DEF PageOK
<1> HIDE DEF q, v
<1>3. DOMAIN q.quiet = DOMAIN p.quiet \cup {f}
  BY <1>2 DEF With
<1>4. Framed(q)
  BY <1>2, <1>3, EndedFramed DEF SameFrames, SameLoading
<1>5. Flagged(q)
  BY <1>2 DEF PageOK, Flagged, SameLoading, SameFlags, SameFrames
<1>6. QED
  BY <1>2, <1>4, <1>5 DEF PageOK, Waited, q

LEMMA FlushOK ==
  ASSUME NEW p, PageOK(p)
  PROVE  PageOK(Flush(p))
<1> DEFINE q == Flush(p)
<1>1. /\ IsPage(q) /\ SameLoading(p, q) /\ SameCounts(p, q) /\ SameFrames(p, q)
      /\ q.networkidle = p.networkidle /\ q.timers = p.timers /\ LetsGo(p, q)
  BY FlushFields DEF PageOK
<1> HIDE DEF q
<1>2. Flagged(q) /\ Running(q) /\ Framed(q) /\ Waited(q)
  BY <1>1 DEF PageOK, Flagged, Running, Framed, Waited, LetsGo,
              SameLoading, SameFlags, SameCounts, SameFrames
<1>3. QED
  BY <1>1, <1>2 DEF PageOK, q

LEMMA FailOK ==
  ASSUME NEW p, PageOK(p), ~p.closed, NEW r \in DOMAIN p.sent
  PROVE  PageOK(DocumentFailed(p, r))
<1> DEFINE q == DocumentFailed(p, r)
           f == p.sent[r]
           v == [Quiet(p, f) EXCEPT !.active = Less(@, 1)]
<1>1. f # "page"
  BY SentTo, FrameIsNotPage DEF PageOK
<1>2. /\ IsPage(q) /\ SameFrames(p, q)
      /\ q.load \in BOOLEAN /\ q.domcontentloaded \in BOOLEAN
      /\ q.same = p.same /\ q.allow = p.allow /\ q.loading = p.loading \ {f}
      /\ q.sent = Without(p.sent, {r})
      /\ q.quiet = With(p.quiet, f, v)
      /\ q.networkidle = p.networkidle /\ LetsGo(p, q)
      /\ Running(q)
  <2>1. IsPage(p) /\ Running(p)
    BY DEF PageOK
  <2>2. EndsOne(p, q, r)
    BY <2>1, DocumentFailedFields
  <2>3. /\ IsPage(q) /\ q.load \in BOOLEAN /\ q.domcontentloaded \in BOOLEAN
        /\ q.same = p.same /\ q.allow = p.allow /\ q.loading = p.loading \ {f}
    BY <2>1, DocumentFailedFields
  <2>4. Running(q)
    BY <1>1, <2>1, DocumentFailedFields
  <2>5. QED
    BY <2>2, <2>3, <2>4 DEF EndsOne
<1> HIDE DEF q, v
<1>3. DOMAIN q.quiet = DOMAIN p.quiet \cup {f}
  BY <1>2 DEF With
<1>4. Framed(q)
  BY <1>2, <1>3, EndedFramed DEF SameFrames
<1>5. Flagged(q)
  BY <1>2 DEF PageOK, Flagged, SameFrames
<1>6. QED
  BY <1>2, <1>4, <1>5 DEF PageOK, Waited, LetsGo, q

LEMMA DetachOK ==
  ASSUME NEW p, PageOK(p), ~p.closed, NEW S \in SUBSET p.frames
  PROVE  PageOK(Detached(p, S))
<1>1. CASE S = {}
  BY <1>1 DEF Detached
<1>2. CASE S # {}
  <2> DEFINE q == Detached(p, S)
             theirs == {r \in DOMAIN p.sent : p.sent[r] \in S}
  <2>1. "page" \notin S
    BY LoadingAssumption DEF PageOK, Framed
  <2>2. Cardinality(theirs) \in Nat
    BY FS_Subset, FS_CardinalityType DEF PageOK, Framed
  <2>3. /\ IsPage(q) /\ SameFlags(p, q)
        /\ q.loading = p.loading \ S
        /\ q.sent = Without(p.sent, theirs)
        /\ q.quiet = Without(p.quiet, S)
        /\ q.frames = p.frames \ S /\ q.closed = p.closed
        /\ q.networkidle \in BOOLEAN
        /\ LetsGo(p, q)
        /\ Running(q)
    BY <1>2, <2>1, <2>2, DetachedFields DEF PageOK
  <2> HIDE DEF q
  <2>4. DOMAIN q.sent = DOMAIN p.sent \ theirs /\ DOMAIN q.quiet = DOMAIN p.quiet \ S
    BY <2>3 DEF Without
  <2>5. IsFiniteSet(DOMAIN q.sent)
    BY <2>4, FS_Subset DEF PageOK, Framed
  <2>6. q.sent = [x \in DOMAIN q.sent |-> q.sent[x]]
    BY <2>3 DEF Without
  <2>7. \A x \in DOMAIN q.sent : q.sent[x] \in (p.frames \ S) \cup {Main}
    <3>1. ASSUME NEW x \in DOMAIN q.sent PROVE q.sent[x] = p.sent[x] /\ p.sent[x] \notin S
      BY <2>3, <2>4, <3>1 DEF Without
    <3>2. QED
      BY <2>4, <3>1 DEF PageOK, Framed
  <2>8. Framed(q)
    BY <2>3, <2>4, <2>5, <2>6, <2>7 DEF PageOK, Framed
  <2>9. Flagged(q)
    BY <2>3 DEF PageOK, Flagged, SameFlags
  <2>10. QED
    BY <2>3, <2>8, <2>9 DEF PageOK, Waited, LetsGo, q
<1>3. QED
  BY <1>1, <1>2

LEMMA SameFrame ==
  ASSUME NEW p, PageOK(p), NEW q, IsPage(q), Flagged(q), Running(q),
         q.frames = p.frames, q.loading \subseteq Frames, q.sent = p.sent,
         DOMAIN q.quiet \subseteq p.frames \cup {Main}, q.waiters \subseteq p.waiters
  PROVE  PageOK(q)
  BY DEF PageOK, Framed, Waited

LEMMA StartOK ==
  ASSUME NEW p, PageOK(p), NEW f \in Frames
  PROVE  PageOK(StartedLoading(p, f))
<1> DEFINE q == StartedLoading(p, f)
<1>1. /\ IsPage(q) /\ SameFlags(p, q) /\ SameCounts(p, q) /\ SameFrames(p, q)
      /\ q.loading = p.loading \cup {f}
      /\ q.networkidle = FALSE /\ q.waiters = p.waiters
      /\ Running(q)
  BY StartedLoadingFields DEF PageOK
<1> HIDE DEF q
<1>2. Flagged(q)
  BY <1>1 DEF PageOK, Flagged, SameFlags, SameFrames
<1>3. QED
  BY <1>1, <1>2, SameFrame DEF PageOK, Framed, SameCounts, SameFrames, q

LEMMA NavigateOK ==
  ASSUME NEW p, PageOK(p), NEW f \in p.frames \cup {Main}
  PROVE  PageOK(Navigated(p, f))
<1> DEFINE q == Navigated(p, f)
           v == [NoQuiet EXCEPT !.active = Quiet(p, f).active]
<1>1. /\ IsPage(q) /\ SameFrames(p, q)
      /\ q.load = FALSE /\ q.loading = p.loading \cup {f}
      /\ q.sent = p.sent /\ q.quiet = With(p.quiet, f, v)
      /\ q.waiters = p.waiters /\ Running(q)
      /\ q.domcontentloaded = IF f = Main THEN FALSE ELSE p.domcontentloaded
      /\ q.networkidle = IF f = Main THEN FALSE ELSE p.networkidle
      /\ q.same = IF f = Main THEN FALSE ELSE p.same
      /\ q.allow = IF f = Main THEN FALSE ELSE p.allow
  <2>1. IsPage(p) /\ Running(p)
    BY DEF PageOK
  <2>2. Running(q)
    BY <2>1, NavigatedFields
  <2>3. q.quiet = With(p.quiet, f, v)
    BY <2>1, NavigatedFields
  <2>4. /\ IsPage(q) /\ SameFrames(p, q) /\ q.load = FALSE /\ q.loading = p.loading \cup {f}
        /\ q.sent = p.sent /\ q.waiters = p.waiters
    BY <2>1, NavigatedFields
  <2>5. /\ q.domcontentloaded = IF f = Main THEN FALSE ELSE p.domcontentloaded
        /\ q.networkidle = IF f = Main THEN FALSE ELSE p.networkidle
    BY <2>1, NavigatedFields
  <2>6. /\ q.same = IF f = Main THEN FALSE ELSE p.same
        /\ q.allow = IF f = Main THEN FALSE ELSE p.allow
    BY <2>1, NavigatedFields
  <2> HIDE DEF q, v
  <2>7. QED
    BY <2>2, <2>3, <2>4, <2>5, <2>6
<1> HIDE DEF q, v
<1>2. Flagged(q)
  BY <1>1 DEF PageOK, Flagged, SameFrames
<1>3. DOMAIN q.quiet = DOMAIN p.quiet \cup {f}
  BY <1>1 DEF With
<1>4. f \in Frames
  BY DEF PageOK, Framed, Frames
<1>5. QED
  BY <1>1, <1>2, <1>3, <1>4, SameFrame DEF PageOK, Framed, SameFrames, q

\* Nothing but flags changes.
LEMMA FlagsOK ==
  ASSUME NEW p, PageOK(p), NEW q, IsPage(q), Flagged(q), SameCounts(p, q), SameFrames(p, q),
         q.loading \subseteq p.loading, q.timers = p.timers, q.waiters \subseteq p.waiters
  PROVE  PageOK(q)
<1>1. Running(q)
  BY DEF PageOK, Running, SameCounts, SameFrames
<1>2. QED
  BY <1>1, SameFrame DEF PageOK, Framed, SameCounts, SameFrames

LEMMA WithinDocumentOK ==
  ASSUME NEW p, PageOK(p)
  PROVE  PageOK(WithinDocument(p))
<1> DEFINE q == WithinDocument(p)
<1>1. /\ IsPage(q) /\ SameCounts(p, q) /\ SameFrames(p, q)
      /\ q.load = TRUE /\ q.domcontentloaded = TRUE /\ q.networkidle = TRUE
      /\ q.same = TRUE /\ q.allow = p.allow /\ q.loading = p.loading
      /\ q.timers = p.timers /\ LetsGo(p, q)
  BY WithinDocumentFields DEF PageOK, Flagged
<1> HIDE DEF q
<1>2. Flagged(q)
  BY <1>1 DEF PageOK, Flagged, SameFrames
<1>3. QED
  BY <1>1, <1>2, FlagsOK DEF LetsGo, q

LEMMA ContentFiredOK ==
  ASSUME NEW p, PageOK(p), NEW f
  PROVE  PageOK(ContentFired(p, f))
<1> DEFINE q == ContentFired(p, f)
<1>1. /\ IsPage(q) /\ SameCounts(p, q) /\ SameFrames(p, q)
      /\ q.domcontentloaded \in BOOLEAN
      /\ q.load = p.load /\ q.same = p.same /\ q.allow = p.allow /\ q.loading = p.loading
      /\ q.networkidle = p.networkidle /\ q.timers = p.timers /\ LetsGo(p, q)
  BY ContentFiredFields DEF PageOK
<1> HIDE DEF q
<1>2. Flagged(q)
  BY <1>1 DEF PageOK, Flagged, SameFrames
<1>3. QED
  BY <1>1, <1>2, FlagsOK DEF LetsGo, q

LEMMA SyncedOK ==
  ASSUME NEW p, PageOK(p), NEW at
  PROVE  PageOK(Synced(p, at))
<1> DEFINE q == Synced(p, at)
<1>1. /\ IsPage(q) /\ SameCounts(p, q) /\ SameFrames(p, q)
      /\ q.load \in BOOLEAN /\ q.domcontentloaded \in BOOLEAN
      /\ q.same = p.same /\ q.allow = p.allow /\ q.loading = p.loading
      /\ q.networkidle = p.networkidle /\ q.timers = p.timers /\ LetsGo(p, q)
  BY SyncedFields DEF PageOK
<1> HIDE DEF q
<1>2. Flagged(q)
  BY <1>1 DEF PageOK, Flagged, SameFrames
<1>3. QED
  BY <1>1, <1>2, FlagsOK DEF LetsGo, q

LEMMA AwaitsOK ==
  ASSUME NEW p, PageOK(p), NEW c \in Calls, NEW u \in States
  PROVE  PageOK(Awaits(p, c, u))
<1> DEFINE q == Awaits(p, c, u)
<1>1. /\ IsPage(q) /\ SameLoading(p, q) /\ SameCounts(p, q) /\ SameFrames(p, q)
      /\ q.networkidle = p.networkidle /\ q.timers = p.timers
      /\ q.waiters \subseteq p.waiters \cup {[call |-> c, state |-> u]}
  BY AwaitsFields DEF PageOK
<1> HIDE DEF q
<1>2. Flagged(q)
  BY <1>1 DEF PageOK, Flagged, SameLoading, SameFlags, SameFrames
<1>3. Running(q) /\ Framed(q)
  BY <1>1 DEF PageOK, Running, Framed, SameLoading, SameCounts, SameFrames
<1>4. Waited(q)
  BY <1>1 DEF PageOK, Waited
<1>5. QED
  BY <1>1, <1>2, <1>3, <1>4 DEF PageOK, q

LEMMA LoadFiredOK ==
  ASSUME NEW p, PageOK(p), ~p.closed, NEW f \in p.frames \cup {Main}
  PROVE  PageOK(LoadFired(p, f))
<1> DEFINE q == LoadFired(p, f)
<1>1. f \in Frames /\ f # "page"
  BY FrameIsNotPage DEF PageOK, Framed, Frames
<1>2. /\ IsPage(q) /\ SameFrames(p, q)
      /\ q.load \in BOOLEAN /\ q.domcontentloaded \in BOOLEAN
      /\ q.same = p.same /\ q.allow = p.allow /\ q.loading = p.loading \ {f}
      /\ q.sent = p.sent /\ q.quiet = With(p.quiet, f, Quiet(p, f))
      /\ q.networkidle = p.networkidle /\ q.waiters \subseteq p.waiters
      /\ Running(q)
  <2>1. IsPage(p) /\ Running(p)
    BY DEF PageOK
  <2>2. QED
    BY <1>1, <2>1, LoadFiredFields
<1> HIDE DEF q
<1>3. Flagged(q)
  BY <1>2 DEF PageOK, Flagged, SameFrames
<1>4. DOMAIN q.quiet = DOMAIN p.quiet \cup {f}
  BY <1>2 DEF With
<1>5. QED
  BY <1>2, <1>3, <1>4, SameFrame DEF PageOK, Framed, SameFrames, q

LEMMA NothingRuns ==
  ASSUME NEW q, q.active = 0, q.quiet = None, q.timers = None
  PROVE  Running(q)
<1>1. DOMAIN None = {} /\ None \in [DOMAIN None -> QuietStates]
  BY DEF None
<1>2. None \in [DOMAIN None -> SUBSET DOMAIN None]
  BY DEF None
<1>3. QED
  BY <1>1, <1>2 DEF Running, IsQuiet

LEMMA ResetOK ==
  ASSUME NEW p, PageOK(p)
  PROVE  PageOK(Reset(p))
<1> DEFINE q == Reset(p)
<1>1. /\ IsPage(q) /\ SameFrames(p, q)
      /\ q.load = FALSE /\ q.domcontentloaded = FALSE /\ q.networkidle = FALSE
      /\ q.same = FALSE /\ q.allow = FALSE /\ q.loading = {}
      /\ q.active = 0 /\ q.sent = p.sent /\ q.quiet = None /\ q.timers = None
      /\ q.waiters = p.waiters
  BY ResetFields DEF PageOK
<1> HIDE DEF q
<1>2. Flagged(q)
  BY <1>1 DEF PageOK, Flagged, SameFrames
<1>3. Running(q)
  BY <1>1, NothingRuns
<1>4. DOMAIN q.quiet = {}
  BY <1>1 DEF None
<1>5. QED
  BY <1>1, <1>2, <1>3, <1>4, SameFrame DEF SameFrames, q

-----------------------------------------------------------------------------
(* Network idle.  The counters count the requests that were sent since they *)
(* were reset, each with a frame that has a counter of its own, and those    *)
(* that were redirected more than once; what rests has none.                *)

CountsRight(p, st) ==
  /\ p.active >= Cardinality(DOMAIN p.sent \ st)
  /\ \A f \in DOMAIN p.quiet : p.quiet[f].active >= Cardinality({r \in DOMAIN p.sent \ st : p.sent[r] = f})
  /\ \A r \in DOMAIN p.sent \ st : p.sent[r] \in DOMAIN p.quiet

IdleOK(p, st, mis, jmp) ==
  /\ \A f \in DOMAIN p.quiet : p.quiet[f].reached => p.quiet[f].active = 0
  /\ ~mis => CountsRight(p, st)
  /\ p.networkidle /\ ~mis /\ ~jmp => DOMAIN p.sent \subseteq st

\* If every frame rests then no request is under way.
LEMMA AllRest ==
  ASSUME NEW p, PageOK(p), NEW st, CountsRight(p, st), NEW S, DOMAIN p.quiet \subseteq S,
         \A f \in S : f \in DOMAIN p.quiet /\ p.quiet[f].active = 0
  PROVE  DOMAIN p.sent \subseteq st
<1> SUFFICES ASSUME NEW r \in DOMAIN p.sent, r \notin st PROVE FALSE
  OBVIOUS
<1> DEFINE f == p.sent[r]
           T == {x \in DOMAIN p.sent \ st : p.sent[x] = f}
<1>1. f \in DOMAIN p.quiet /\ p.quiet[f].active = 0
  BY DEF CountsRight
<1>2. 0 >= Cardinality(T)
  BY <1>1 DEF CountsRight
<1>3. IsFiniteSet(T)
  BY FS_Subset DEF PageOK, Framed
<1>4. r \in T
  OBVIOUS
<1> HIDE DEF T
<1>5. Cardinality(T) = 0
  BY <1>2, <1>3, FS_CardinalityType
<1>6. QED
  BY <1>3, <1>4, <1>5, FS_EmptySet

LEMMA NothingCounted ==
  ASSUME NEW p, PageOK(p), NEW st, CountsRight(p, st), p.active = 0
  PROVE  DOMAIN p.sent \subseteq st
<1>1. IsFiniteSet(DOMAIN p.sent \ st)
  BY FS_Subset DEF PageOK, Framed
<1>2. 0 >= Cardinality(DOMAIN p.sent \ st)
  BY DEF CountsRight
<1>3. Cardinality(DOMAIN p.sent \ st) = 0
  BY <1>1, <1>2, FS_CardinalityType
<1>4. DOMAIN p.sent \ st = {}
  BY <1>1, <1>3, FS_EmptySet
<1>5. QED
  BY <1>4

\* A count of n, and one more or less, is still enough.
LEMMA OneMore ==
  ASSUME NEW S, IsFiniteSet(S), NEW r, NEW n \in Nat, n >= Cardinality(S)
  PROVE  n + 1 >= Cardinality(S \cup {r})
<1>1. Cardinality(S) \in Nat
  BY FS_CardinalityType
<1>2. Cardinality(S \cup {r}) = IF r \in S THEN Cardinality(S) ELSE Cardinality(S) + 1
  BY FS_AddElement
<1>3. QED
  BY <1>1, <1>2

LEMMA OneLess ==
  ASSUME NEW S, IsFiniteSet(S), NEW r \in S, NEW n \in Nat, n >= Cardinality(S)
  PROVE  Less(n, 1) >= Cardinality(S \ {r})
<1>1. Cardinality(S \ {r}) = Cardinality(S) - 1 /\ Cardinality(S) \in Nat
  BY FS_RemoveElement, FS_CardinalityType
<1>2. Cardinality(S) # 0
  BY FS_EmptySet
<1>3. QED
  BY <1>1, <1>2 DEF Less

\* A request is sent, or sent on: it is one of those counted since.
LEMMA SendIdle ==
  ASSUME NEW p, PageOK(p), NEW st, NEW mis, NEW jmp, IdleOK(p, st, mis, jmp),
         NEW f \in p.frames \cup {Main}, NEW r, r \in DOMAIN p.sent => p.sent[r] = f
  PROVE  IdleOK(WillBeSent(p, r, f), st \ {r}, mis, FALSE)
<1> DEFINE q == WillBeSent(p, r, f)
           n == Quiet(p, f).active
           v == [NoQuiet EXCEPT !.active = n + 1]
           mine == DOMAIN p.sent \ st
           now == DOMAIN q.sent \ (st \ {r})
<1>1. /\ SameFrames(p, q)
      /\ q.active = p.active + 1
      /\ q.sent = With(p.sent, r, f)
      /\ q.quiet = With(p.quiet, f, v)
      /\ q.networkidle <=> SubtreeIdle(q)
  BY WillBeSentFields DEF PageOK
<1> HIDE DEF q
<1>2. /\ DOMAIN q.sent = DOMAIN p.sent \cup {r} /\ q.sent[r] = f
      /\ \A x \in DOMAIN p.sent : q.sent[x] = p.sent[x]
  BY <1>1 DEF With
<1>3. v.active = n + 1 /\ v.reached = FALSE
  BY DEF NoQuiet
<1>4. /\ DOMAIN q.quiet = DOMAIN p.quiet \cup {f} /\ q.quiet[f] = v
      /\ \A g \in DOMAIN p.quiet \ {f} : q.quiet[g] = p.quiet[g]
  <2> HIDE DEF v
  <2>1. QED
    BY <1>1 DEF With
<1>5. \A g \in DOMAIN q.quiet : q.quiet[g].reached => q.quiet[g].active = 0
  BY <1>3, <1>4 DEF IdleOK
<1>6. ~q.networkidle
  BY <1>1, <1>3, <1>4 DEF SubtreeIdle, SameFrames
<1>7. now = mine \cup {r}
  BY <1>2
<1>8. IsFiniteSet(mine)
  BY FS_Subset DEF PageOK, Framed
<1>9. p.active \in Nat /\ n \in Nat
  BY QuietType DEF PageOK, Running, QuietStates
<1>10. ASSUME CountsRight(p, st) PROVE CountsRight(q, st \ {r})
  <2>1. q.active >= Cardinality(now)
    <3>1. p.active >= Cardinality(mine)
      BY <1>10 DEF CountsRight
    <3> HIDE DEF mine
    <3>2. p.active + 1 >= Cardinality(mine \cup {r})
      BY <1>8, <1>9, <3>1, OneMore
    <3>3. QED
      BY <1>1, <1>7, <3>2
  <2>2. ASSUME NEW g \in DOMAIN q.quiet
        PROVE  q.quiet[g].active >= Cardinality({x \in now : q.sent[x] = g})
    <3> DEFINE T == {x \in mine : p.sent[x] = g}
    <3>1. CASE g = f
      <4>1. {x \in now : q.sent[x] = g} = T \cup {r}
        BY <1>2, <1>7, <3>1
      <4>2. IsFiniteSet(T)
        BY <1>8, FS_Subset
      <4>3. n >= Cardinality(T)
        <5>1. CASE f \in DOMAIN p.quiet
          BY <1>10, <3>1, <5>1 DEF CountsRight, Quiet
        <5>2. CASE f \notin DOMAIN p.quiet
          <6>1. T = {}
            BY <1>10, <3>1, <5>2 DEF CountsRight
          <6>2. QED
            BY <1>9, <6>1, FS_EmptySet
        <5>3. QED
          BY <5>1, <5>2
      <4> HIDE DEF T, n
      <4>4. n + 1 >= Cardinality(T \cup {r})
        BY <1>9, <4>2, <4>3, OneMore
      <4>5. QED
        BY <1>3, <1>4, <3>1, <4>1, <4>4
    <3>2. CASE g # f
      <4>1. {x \in now : q.sent[x] = g} = T
        BY <1>2, <1>7, <3>2
      <4>2. QED
        BY <1>4, <1>10, <3>2, <4>1 DEF CountsRight
    <3>3. QED
      BY <3>1, <3>2
  <2>3. \A x \in now : q.sent[x] \in DOMAIN q.quiet
    BY <1>2, <1>4, <1>7, <1>10 DEF CountsRight
  <2>4. QED
    BY <2>1, <2>2, <2>3 DEF CountsRight
<1>11. QED
  BY <1>5, <1>6, <1>10 DEF IdleOK, q

\* A request ends: if it was sent before the counters were reset, they are no
\* longer right.
LEMMA EndIdle ==
  ASSUME NEW p, PageOK(p), NEW st, NEW mis, NEW jmp, IdleOK(p, st, mis, jmp),
         NEW r \in DOMAIN p.sent, NEW q,
         q.active = Less(p.active, 1), q.sent = Without(p.sent, {r}),
         q.quiet = With(p.quiet, p.sent[r], [Quiet(p, p.sent[r]) EXCEPT !.active = Less(@, 1)]),
         q.networkidle = p.networkidle
  PROVE  IdleOK(q, st \ {r}, mis \/ st \cap {r} # {}, jmp)
<1> DEFINE f == p.sent[r]
           n == Quiet(p, f).active
           v == [Quiet(p, f) EXCEPT !.active = Less(@, 1)]
           mine == DOMAIN p.sent \ st
           now == DOMAIN q.sent \ (st \ {r})
<1>1. Quiet(p, f) \in QuietStates
  BY QuietType DEF PageOK, Running
<1>2. v.active = Less(n, 1) /\ v.reached = Quiet(p, f).reached /\ n \in Nat
  BY <1>1 DEF QuietStates
<1>3. /\ DOMAIN q.quiet = DOMAIN p.quiet \cup {f} /\ q.quiet[f] = v
      /\ \A g \in DOMAIN p.quiet \ {f} : q.quiet[g] = p.quiet[g]
  <2> HIDE DEF v
  <2>1. q.quiet = With(p.quiet, f, v)
    BY DEF v
  <2>2. QED
    BY <2>1 DEF With
<1>4. /\ DOMAIN q.sent = DOMAIN p.sent \ {r}
      /\ \A x \in DOMAIN q.sent : q.sent[x] = p.sent[x]
  BY DEF Without
<1> HIDE DEF v
<1>5. \A g \in DOMAIN q.quiet : q.quiet[g].reached => q.quiet[g].active = 0
  <2>1. Quiet(p, f).reached => n = 0
    BY DEF IdleOK, Quiet, NoQuiet
  <2>2. n = 0 => Less(n, 1) = 0
    BY DEF Less
  <2>3. QED
    BY <1>2, <1>3, <2>1, <2>2 DEF IdleOK
<1>6. now = mine \ {r}
  BY <1>4
<1>7. IsFiniteSet(mine)
  BY FS_Subset DEF PageOK, Framed
<1>8. ASSUME CountsRight(p, st), r \notin st PROVE CountsRight(q, st \ {r})
  <2>1. r \in mine
    BY <1>8
  <2>2. q.active >= Cardinality(now)
    <3>1. p.active \in Nat /\ p.active >= Cardinality(mine)
      BY <1>8 DEF PageOK, Running, CountsRight
    <3> HIDE DEF mine
    <3>2. Less(p.active, 1) >= Cardinality(mine \ {r})
      BY <1>7, <2>1, <3>1, OneLess
    <3>3. QED
      BY <1>6, <3>2
  <2>3. f \in DOMAIN p.quiet
    BY <1>8, <2>1 DEF CountsRight
  <2>4. ASSUME NEW g \in DOMAIN q.quiet
        PROVE  q.quiet[g].active >= Cardinality({x \in now : q.sent[x] = g})
    <3> DEFINE T == {x \in mine : p.sent[x] = g}
    <3>1. CASE g = f
      <4>1. {x \in now : q.sent[x] = g} = T \ {r}
        BY <1>4, <1>6
      <4>2. IsFiniteSet(T) /\ r \in T
        BY <1>7, <2>1, <3>1, FS_Subset
      <4>3. n >= Cardinality(T)
        BY <1>8, <2>3, <3>1 DEF CountsRight, Quiet
      <4> HIDE DEF T, n
      <4>4. Less(n, 1) >= Cardinality(T \ {r})
        BY <1>2, <4>2, <4>3, OneLess
      <4>5. QED
        BY <1>2, <1>3, <3>1, <4>1, <4>4
    <3>2. CASE g # f
      <4>1. {x \in now : q.sent[x] = g} = T
        BY <1>4, <1>6, <3>2
      <4>2. QED
        BY <1>3, <1>8, <3>2, <4>1 DEF CountsRight
    <3>3. QED
      BY <3>1, <3>2
  <2>5. \A x \in now : q.sent[x] \in DOMAIN q.quiet
    BY <1>3, <1>4, <1>6, <1>8 DEF CountsRight
  <2>6. QED
    BY <2>2, <2>4, <2>5 DEF CountsRight
<1>9. ASSUME r \notin st, DOMAIN p.sent \subseteq st PROVE FALSE
  BY <1>9
<1>10. ASSUME q.networkidle, ~mis, st \cap {r} = {}, ~jmp PROVE DOMAIN q.sent \subseteq st \ {r}
  BY <1>9, <1>10 DEF IdleOK
<1>11. ASSUME ~mis, st \cap {r} = {} PROVE CountsRight(q, st \ {r})
  BY <1>8, <1>11 DEF IdleOK
<1>12. QED
  BY <1>5, <1>10, <1>11 DEF IdleOK

\* Frames go, and their requests with them.
LEMMA DetachIdle ==
  ASSUME NEW p, PageOK(p), NEW st, NEW mis, NEW jmp, IdleOK(p, st, mis, jmp),
         NEW S \in SUBSET p.frames, NEW theirs, theirs = {r \in DOMAIN p.sent : p.sent[r] \in S}
  PROVE  IdleOK(Detached(p, S), st \ theirs, mis \/ st \cap theirs # {}, jmp)
<1>1. CASE S = {}
  <2>1. theirs = {} /\ Detached(p, S) = p
    BY <1>1 DEF Detached
  <2>2. st \ theirs = st /\ ((mis \/ st \cap theirs # {}) <=> mis)
    BY <2>1
  <2>3. QED
    BY <2>1, <2>2 DEF IdleOK
<1>2. CASE S # {}
  <2> DEFINE q == Detached(p, S)
             mine == DOMAIN p.sent \ st
             now == DOMAIN q.sent \ (st \ theirs)
  <2>1. /\ q.active = Less(p.active, Cardinality(theirs))
        /\ q.sent = Without(p.sent, theirs)
        /\ q.quiet = Without(p.quiet, S)
        /\ q.networkidle => \A f \in {Main} \cup p.frames : f \in DOMAIN q.quiet /\ q.quiet[f].reached
    BY <1>2, DetachedFields DEF PageOK
  <2> HIDE DEF q
  <2>2. /\ DOMAIN q.quiet = DOMAIN p.quiet \ S
        /\ \A g \in DOMAIN q.quiet : q.quiet[g] = p.quiet[g]
    BY <2>1 DEF Without
  <2>3. /\ DOMAIN q.sent = DOMAIN p.sent \ theirs
        /\ \A x \in DOMAIN q.sent : q.sent[x] = p.sent[x]
    BY <2>1 DEF Without
  <2>4. \A g \in DOMAIN q.quiet : q.quiet[g].reached => q.quiet[g].active = 0
    BY <2>2 DEF IdleOK
  <2>5. ~q.networkidle
    BY <1>2, <2>1, <2>2
  <2>6. now = mine \ theirs
    BY <2>3
  <2>7. IsFiniteSet(mine)
    BY FS_Subset DEF PageOK, Framed
  <2>8. ASSUME CountsRight(p, st), st \cap theirs = {} PROVE CountsRight(q, st \ theirs)
    <3>1. theirs \subseteq mine
      BY <2>8
    <3>2. /\ Cardinality(mine \ theirs) = Cardinality(mine) - Cardinality(theirs)
          /\ Cardinality(theirs) <= Cardinality(mine)
          /\ Cardinality(mine) \in Nat /\ Cardinality(theirs) \in Nat
      <4>1. mine \cap theirs = theirs
        BY <3>1
      <4>2. Cardinality(mine \ theirs) = Cardinality(mine) - Cardinality(mine \cap theirs)
        BY <2>7, FS_Difference
      <4>3. /\ Cardinality(theirs) <= Cardinality(mine) /\ IsFiniteSet(theirs)
        BY <2>7, <3>1, FS_Subset
      <4>4. QED
        BY <2>7, <4>1, <4>2, <4>3, FS_CardinalityType
    <3>3. q.active >= Cardinality(now)
      <4>1. p.active \in Nat /\ p.active >= Cardinality(mine)
        BY <2>8 DEF PageOK, Running, CountsRight
      <4>2. QED
        BY <2>1, <2>6, <3>2, <4>1 DEF Less
    <3>4. ASSUME NEW g \in DOMAIN q.quiet
          PROVE  q.quiet[g].active >= Cardinality({x \in now : q.sent[x] = g})
      <4>1. g \notin S /\ g \in DOMAIN p.quiet
        BY <2>2
      <4>2. {x \in now : q.sent[x] = g} = {x \in mine : p.sent[x] = g}
        BY <2>3, <2>6, <4>1
      <4>3. QED
        BY <2>2, <2>8, <4>1, <4>2 DEF CountsRight
    <3>5. \A x \in now : q.sent[x] \in DOMAIN q.quiet
      BY <2>2, <2>3, <2>6, <2>8 DEF CountsRight
    <3>6. QED
      BY <3>3, <3>4, <3>5 DEF CountsRight
  <2>9. ASSUME ~(mis \/ st \cap theirs # {}) PROVE CountsRight(q, st \ theirs)
    BY <2>8, <2>9 DEF IdleOK
  <2>10. QED
    BY <2>4, <2>5, <2>9 DEF IdleOK, q
<1>3. QED
  BY <1>1, <1>2

\* Whatever leaves the requests alone, and takes no rest for granted.
LEMMA StillIdle ==
  ASSUME NEW p, PageOK(p), NEW st, NEW mis, NEW jmp, IdleOK(p, st, mis, jmp), NEW q,
         q.active = p.active, q.sent = p.sent,
         DOMAIN p.quiet \subseteq DOMAIN q.quiet,
         \A f \in DOMAIN q.quiet : q.quiet[f].active = Quiet(p, f).active,
         \A f \in DOMAIN q.quiet : q.quiet[f].reached => Quiet(p, f).active = 0,
         NEW jmp2, ~jmp2 => ~jmp,
         q.networkidle /\ ~mis /\ ~jmp2 => p.networkidle
  PROVE  IdleOK(q, st, mis, jmp2)
<1>1. ASSUME CountsRight(p, st) PROVE CountsRight(q, st)
  <2>1. ASSUME NEW f \in DOMAIN q.quiet
        PROVE  q.quiet[f].active >= Cardinality({r \in DOMAIN q.sent \ st : q.sent[r] = f})
    <3>1. CASE f \in DOMAIN p.quiet
      BY <1>1, <3>1 DEF CountsRight, Quiet
    <3>2. CASE f \notin DOMAIN p.quiet
      <4>1. {r \in DOMAIN q.sent \ st : q.sent[r] = f} = {}
        BY <1>1, <3>2 DEF CountsRight
      <4>2. q.quiet[f].active = 0
        BY <3>2 DEF Quiet, NoQuiet
      <4>3. Cardinality({r \in DOMAIN q.sent \ st : q.sent[r] = f}) = 0
        BY <4>1, FS_EmptySet
      <4>4. QED
        BY <4>2, <4>3
    <3>3. QED
      BY <3>1, <3>2
  <2>2. QED
    BY <1>1, <2>1 DEF CountsRight
<1>2. \A f \in DOMAIN q.quiet : q.quiet[f].reached => q.quiet[f].active = 0
  OBVIOUS
<1>3. QED
  BY <1>1, <1>2 DEF IdleOK

LEMMA SameIdle ==
  ASSUME NEW p, PageOK(p), NEW st, NEW mis, NEW jmp, IdleOK(p, st, mis, jmp), NEW q,
         SameCounts(p, q), q.networkidle => p.networkidle
  PROVE  IdleOK(q, st, mis, jmp)
  BY DEF IdleOK, CountsRight, SameCounts

LEMMA ArmedIdle ==
  ASSUME NEW p, PageOK(p), NEW st, NEW mis, NEW jmp, IdleOK(p, st, mis, jmp), NEW q, NEW f, NEW v,
         q.active = p.active, q.sent = p.sent, q.quiet = With(p.quiet, f, v),
         v.active = Quiet(p, f).active, v.reached => Quiet(p, f).active = 0,
         q.networkidle => p.networkidle
  PROVE  IdleOK(q, st, mis, jmp)
<1>1. /\ DOMAIN q.quiet = DOMAIN p.quiet \cup {f} /\ q.quiet[f] = v
      /\ \A g \in DOMAIN p.quiet \ {f} : q.quiet[g] = p.quiet[g]
  BY DEF With
<1>2. \A g \in DOMAIN q.quiet : q.quiet[g].active = Quiet(p, g).active
  BY <1>1 DEF Quiet
<1>3. \A g \in DOMAIN q.quiet : q.quiet[g].reached => Quiet(p, g).active = 0
  BY <1>1 DEF Quiet, IdleOK
<1>4. DOMAIN p.quiet \subseteq DOMAIN q.quiet
  BY <1>1
<1>5. QED
  BY <1>2, <1>3, <1>4, StillIdle

LEMMA NavigateIdle ==
  ASSUME NEW p, PageOK(p), NEW st, NEW mis, NEW jmp, IdleOK(p, st, mis, jmp), NEW f
  PROVE  IdleOK(Navigated(p, f), st, mis, jmp)
<1> DEFINE q == Navigated(p, f)
           v == [NoQuiet EXCEPT !.active = Quiet(p, f).active]
<1>1. IsPage(p)
  BY DEF PageOK
<1>2. /\ q.active = p.active /\ q.sent = p.sent
      /\ q.networkidle = IF f = Main THEN FALSE ELSE p.networkidle
  BY <1>1, NavigatedFields
<1>3. q.quiet = With(p.quiet, f, v)
  BY <1>1, NavigatedFields
<1>4. v.active = Quiet(p, f).active /\ ~v.reached
  BY DEF NoQuiet
<1> HIDE DEF q, v
<1>5. q.networkidle => p.networkidle
  BY <1>2
<1>6. IdleOK(q, st, mis, jmp)
  BY <1>2, <1>3, <1>4, <1>5, ArmedIdle
<1>7. QED
  BY <1>6 DEF q

LEMMA LoadFiredIdle ==
  ASSUME NEW p, PageOK(p), NEW st, NEW mis, NEW jmp, IdleOK(p, st, mis, jmp), NEW f
  PROVE  IdleOK(LoadFired(p, f), st, mis, jmp)
<1> DEFINE q == LoadFired(p, f)
           v == Quiet(p, f)
<1>1. IsPage(p)
  BY DEF PageOK
<1>2. /\ q.active = p.active /\ q.sent = p.sent /\ q.networkidle = p.networkidle
      /\ q.quiet = With(p.quiet, f, Quiet(p, f))
  BY <1>1, LoadFiredFields
<1>3. v.reached => v.active = 0
  BY DEF IdleOK, Quiet, NoQuiet
<1> HIDE DEF q
<1>4. IdleOK(q, st, mis, jmp)
  BY <1>2, <1>3, ArmedIdle
<1>5. QED
  BY <1>4 DEF q

\* The timer of a frame: the page is idle once all frames are.
LEMMA FrameTimerIdle ==
  ASSUME NEW p, PageOK(p), NEW st, NEW mis, NEW jmp, IdleOK(p, st, mis, jmp), NEW f \in DOMAIN p.quiet,
         p.quiet[f].active = 0, NEW q, PageOK(q), q.frames = p.frames,
         q.active = p.active, q.sent = p.sent, q.quiet = [p.quiet EXCEPT ![f].reached = TRUE],
         q.networkidle <=> SubtreeIdle(q)
  PROVE  IdleOK(q, st, mis, jmp)
<1>1. p.quiet[f] \in QuietStates
  BY DEF PageOK, Running, IsQuiet
<1>2. /\ DOMAIN q.quiet = DOMAIN p.quiet
      /\ \A g \in DOMAIN p.quiet \ {f} : q.quiet[g] = p.quiet[g]
      /\ q.quiet[f].active = 0
  BY <1>1 DEF QuietStates
<1>3. \A g \in DOMAIN q.quiet : q.quiet[g].active = p.quiet[g].active
  BY <1>2
<1>4. \A g \in DOMAIN q.quiet : q.quiet[g].reached => q.quiet[g].active = 0
  BY <1>2 DEF IdleOK
<1>5. ASSUME CountsRight(p, st) PROVE CountsRight(q, st)
  BY <1>2, <1>3, <1>5 DEF CountsRight
<1>6. ASSUME q.networkidle, CountsRight(q, st) PROVE DOMAIN q.sent \subseteq st
  <2>1. \A g \in {Main} \cup q.frames : g \in DOMAIN q.quiet /\ q.quiet[g].active = 0
    BY <1>4, <1>6 DEF SubtreeIdle
  <2>2. DOMAIN q.quiet \subseteq {Main} \cup q.frames
    BY DEF PageOK, Framed
  <2>3. QED
    BY <1>6, <2>1, <2>2, AllRest
<1>7. QED
  BY <1>4, <1>5, <1>6 DEF IdleOK

-----------------------------------------------------------------------------
(* The flags: while they are not astray, the document is as far as they say. *)

LoadOK(p, at, lost) ==
  ~lost => /\ p.load => at = "loaded"
           /\ p.domcontentloaded => at \in {"interactive", "ready", "loaded"}
           /\ p.same => at = "loaded" /\ p.domcontentloaded

-----------------------------------------------------------------------------
(* The adapter and the browser.                                            *)

DocsOK ==
  /\ page.frames = {f \in Children : phase[f] \notin {"none", "gone"}}
  /\ phase \in [Frames -> {"none", "gone", "blank", "starting", "parsing", "interactive", "ready", "loaded"}]
  /\ phase[Main] \in {"parsing", "interactive", "ready", "loaded"}
  /\ kid \in [Children -> Requests \cup {NoRequest}]
  /\ \A f \in Children : phase[f] = "starting" =>
       kid[f] \in spent /\ kid[f] \in DOMAIN page.sent /\ page.sent[kid[f]] = f
  /\ spent \subseteq Requests
  /\ loads \in 0 .. MaxLoads /\ doc \in 0 .. loads
  /\ DOMAIN page.sent \subseteq spent \cup (1 .. loads)
  /\ stale \subseteq spent \cup (1 .. loads)
  /\ miscounted \in BOOLEAN /\ jumped \in BOOLEAN /\ astray \in BOOLEAN

\* The document that is not there yet is still coming.
PendingOK ==
  /\ pending \in [load : 0 .. MaxLoads, url : Urls, by : Calls \cup {NoCall}]
  /\ pending.load # NoLoad =>
       /\ pending.load = loads /\ doc < loads
       /\ loads \in DOMAIN page.sent /\ page.sent[loads] = Main

LoadingInv ==
  /\ PageOK(page) /\ DocsOK /\ PendingOK
  /\ IdleOK(page, stale, miscounted, jumped)
  /\ LoadOK(page, phase[Main], astray)

\* Nothing is sent, no document comes or goes.
LEMMA DocsStay ==
  ASSUME LoadingInv, page'.frames = page.frames, UNCHANGED <<phase, doc, kid, spent, loads, pending>>,
         stale' \subseteq stale, DOMAIN page'.sent \subseteq DOMAIN page.sent,
         \A r \in DOMAIN page'.sent : page'.sent[r] = page.sent[r],
         \A f \in Children : phase[f] = "starting" => kid[f] \in DOMAIN page'.sent,
         pending.load # NoLoad => loads \in DOMAIN page'.sent,
         miscounted' \in BOOLEAN /\ jumped' \in BOOLEAN /\ astray' \in BOOLEAN
  PROVE  DocsOK' /\ PendingOK'
<1>1. DocsOK'
  BY DEF LoadingInv, DocsOK
<1>2. PendingOK'
  BY DEF LoadingInv, PendingOK
<1>3. QED
  BY <1>1, <1>2

LEMMA FramePlace ==
  ASSUME LoadingInv, NEW f \in Children
  PROVE  /\ f \in page.frames <=> phase[f] \notin {"none", "gone"}
         /\ f # Main /\ f \in Frames /\ Main \in Frames
  BY LoadingAssumption DEF LoadingInv, DocsOK, Frames

\* Who is let go, is with reason.
LeaveRightly ==
  \A w \in page.waiters \ page'.waiters :
    Reached(w.state) \/ Reached(w.state)' \/ astray \/ astray'
GoRightly == page'.waiters \subseteq page.waiters /\ LeaveRightly

LEMMA ReachedOf ==
  ASSUME NEW p, NEW u \in States, NEW lost, LoadOK(p, phase[Main], lost), ~lost, Satisfied(p, u)
  PROVE  Reached(u)
  BY DEF LoadOK, Satisfied, States, Reached

\* By what the flags are in the end,
LEMMA LetGoAfter ==
  ASSUME PageOK(page), LetsGo(page, page'), LoadOK(page, phase[Main], astray)'
  PROVE  GoRightly
<1> SUFFICES ASSUME NEW w \in page.waiters, w \notin page'.waiters, ~astray'
             PROVE  Reached(w.state) \/ Reached(w.state)'
  BY DEF GoRightly, LeaveRightly, LetsGo
<1>1. w.state \in States
  BY DEF PageOK, Waited
<1>2. CASE w.state = "networkidle"
  BY <1>2 DEF Reached
<1>3. CASE w.state # "networkidle"
  <2>1. w.state \in {"domcontentloaded", "load"}
    BY <1>1, <1>3 DEF States
  <2>2. Satisfied(page', w.state)
    BY <2>1 DEF LetsGo
  <2>3. LoadOK(page', phase'[Main], astray')
    OBVIOUS
  <2>4. Reached(w.state)'
    BY <2>1, <2>2, <2>3 DEF LoadOK, Satisfied, Reached
  <2>5. QED
    BY <2>4
<1>4. QED
  BY <1>2, <1>3

\* or were before.
LEMMA LetGoBefore ==
  ASSUME PageOK(page), LoadOK(page, phase[Main], astray), NEW q, LetsGo(page, q), SameFlags(page, q),
         q.waiters = page'.waiters
  PROVE  GoRightly
<1> SUFFICES ASSUME NEW w \in page.waiters, w \notin page'.waiters, ~astray
             PROVE  Reached(w.state)
  BY DEF GoRightly, LeaveRightly, LetsGo
<1>1. w.state \in States /\ w \notin q.waiters
  BY DEF PageOK, Waited
<1>2. CASE w.state = "networkidle"
  BY <1>2 DEF Reached
<1>3. CASE w.state # "networkidle"
  <2>1. w.state \in {"domcontentloaded", "load"}
    BY <1>1, <1>3 DEF States
  <2>2. Satisfied(q, w.state)
    BY <1>1, <2>1 DEF LetsGo
  <2>3. QED
    BY <2>1, <2>2 DEF LoadOK, Satisfied, Reached, SameFlags
<1>4. QED
  BY <1>2, <1>3

LEMMA NobodyGoes ==
  ASSUME page'.waiters = page.waiters
  PROVE  GoRightly
  BY DEF GoRightly, LeaveRightly

-----------------------------------------------------------------------------
(* The adapter and the browser: the steps.                                 *)

\* What is sent changes by a request, or without those that end.
SendsOne(p, q, r, f) ==
  /\ DOMAIN q.sent = DOMAIN p.sent \cup {r} /\ q.sent[r] = f
  /\ \A x \in DOMAIN p.sent : q.sent[x] = p.sent[x]
EndsThese(p, q, S) ==
  /\ DOMAIN q.sent = DOMAIN p.sent \ S
  /\ \A x \in DOMAIN q.sent : q.sent[x] = p.sent[x]

\* A request is sent, by whoever has a document, or sent on.
LEMMA SentDocs ==
  ASSUME NEW p, PageOK(p), NEW st, NEW mis, NEW jmp, IdleOK(p, st, mis, jmp),
         NEW f \in p.frames \cup {Main}, NEW r, r \in DOMAIN p.sent => p.sent[r] = f,
         NEW jmp2, jmp2 = FALSE
  PROVE  LET q == WillBeSent(p, r, f) IN
         /\ PageOK(q) /\ IdleOK(q, st \ {r}, mis, jmp2)
         /\ SameFrames(p, q) /\ SameLoading(p, q) /\ LetsGo(p, q)
         /\ SendsOne(p, q, r, f)
<1> DEFINE q == WillBeSent(p, r, f)
           v == [NoQuiet EXCEPT !.active = Quiet(p, f).active + 1]
<1>2. PageOK(q)
  BY SendOK
<1>3. IdleOK(q, st \ {r}, mis, jmp2)
  <2>1. IdleOK(q, st \ {r}, mis, FALSE)
    BY SendIdle
  <2>2. QED
    BY <2>1
<1>4. /\ SameLoading(p, q) /\ SameFrames(p, q)
      /\ q.sent = With(p.sent, r, f)
      /\ q.quiet = With(p.quiet, f, v)
      /\ LetsGo(p, q)
  BY WillBeSentFields DEF PageOK
<1> HIDE DEF q, v
<1>6. SendsOne(p, q, r, f)
  BY <1>4 DEF With, SendsOne
<1>7. QED
  BY <1>2, <1>3, <1>4, <1>6 DEF q

\* A request ends and is not counted any more.
LEMMA EndedPage ==
  ASSUME NEW p, PageOK(p), ~p.closed, NEW r \in DOMAIN p.sent,
         NEW q \in {Settled(p, r), Flush(Settled(p, r)), DocumentFailed(p, r)}
  PROVE  PageOK(q) /\ EndsOne(p, q, r) /\ EndsThese(p, q, {r})
<1> DEFINE f == p.sent[r]
           s == Settled(p, r)
           v == [Quiet(p, f) EXCEPT !.active = Less(@, 1)]
<1>1. IsPage(p)
  BY DEF PageOK
<1>2. /\ IsPage(s) /\ SameLoading(p, s) /\ SameFrames(p, s) /\ s.active = Less(p.active, 1)
      /\ s.sent = Without(p.sent, {r})
      /\ s.networkidle = p.networkidle /\ s.waiters = p.waiters
  BY <1>1, SettledFields
<1>3. s.quiet = With(p.quiet, f, v)
  BY <1>1, SettledFields
<1>4. PageOK(s)
  BY SettleOK
<1>5. /\ SameFrames(p, q) /\ q.active = Less(p.active, 1)
      /\ q.sent = Without(p.sent, {r})
      /\ q.quiet = With(p.quiet, f, v)
      /\ q.networkidle = p.networkidle /\ PageOK(q) /\ LetsGo(p, q)
  <2>1. CASE q = s
    BY <1>2, <1>3, <1>4, <2>1 DEF LetsGo
  <2>2. CASE q = Flush(s)
    <3> HIDE DEF s, v
    <3>1. /\ SameCounts(s, q) /\ SameFrames(s, q)
          /\ q.networkidle = s.networkidle /\ LetsGo(s, q)
      BY <1>2, <2>2, FlushFields
    <3>2. PageOK(q)
      BY <1>4, <2>2, FlushOK
    <3>3. LetsGo(p, q)
      BY <1>2, <3>1 DEF LetsGo
    <3>4. QED
      BY <1>2, <1>3, <3>1, <3>2, <3>3 DEF SameCounts, SameFrames
  <2>3. CASE q = DocumentFailed(p, r)
    <3> DEFINE d == DocumentFailed(p, r)
    <3>1. EndsOne(p, d, r)
      BY <1>1, DocumentFailedFields
    <3>2. PageOK(d)
      BY FailOK
    <3> HIDE DEF d
    <3>3. q = d
      BY <2>3 DEF d
    <3>4. QED
      BY <3>1, <3>2, <3>3 DEF EndsOne
  <2>4. QED
    BY <2>1, <2>2, <2>3
<1>6. EndsThese(p, q, {r})
  BY <1>5 DEF Without, EndsThese
<1>7. QED
  BY <1>5, <1>6 DEF EndsOne

LEMMA EndedIdle ==
  ASSUME NEW p, PageOK(p), NEW st, NEW mis, NEW jmp, IdleOK(p, st, mis, jmp),
         NEW r \in DOMAIN p.sent, NEW q, EndsOne(p, q, r)
  PROVE  IdleOK(q, st \ {r}, mis \/ st \cap {r} # {}, jmp)
  BY EndIdle DEF EndsOne

LEMMA SendStep ==
  ASSUME LoadingInv, NEW r \in Requests, NEW f \in Frames, Send(r, f), UNCHANGED navigationVars
  PROVE  LoadingInv' /\ GoRightly
<1>1. /\ page' = WillBeSent(page, r, f) /\ spent' = spent \cup {r} /\ r \notin spent /\ jumped' = FALSE
      /\ UNCHANGED <<phase, doc, kid, stale, miscounted, astray, loads, pending>>
  BY DEF Send, navigationVars
<1>2. f \in page.frames \cup {Main}
  BY FramePlace DEF Send, HasDocument, Frames
<1>3. r \notin spent \cup (1 .. loads)
  BY <1>1, LoadingAssumption DEF LoadingInv, DocsOK
<1>4. r \notin DOMAIN page.sent \cup stale
  BY <1>3 DEF LoadingInv, DocsOK
<1>5. PageOK(page) /\ IdleOK(page, stale, miscounted, jumped)
  BY DEF LoadingInv
<1>6. /\ PageOK(page') /\ IdleOK(page', stale \ {r}, miscounted, jumped')
      /\ SameFrames(page, page') /\ SameLoading(page, page') /\ LetsGo(page, page')
      /\ SendsOne(page, page', r, f)
  BY <1>1, <1>2, <1>4, <1>5, SentDocs
<1>7. DocsOK'
  BY <1>1, <1>4, <1>6 DEF LoadingInv, DocsOK, SameFrames, SendsOne
<1>8. PendingOK'
  BY <1>1, <1>6 DEF LoadingInv, PendingOK, SendsOne
<1>9. IdleOK(page, stale, miscounted, jumped)'
  <2>1. stale \ {r} = stale
    BY <1>4
  <2>2. QED
    BY <1>1, <1>6, <2>1
<1>10. LoadOK(page, phase[Main], astray)'
  BY <1>1, <1>6 DEF LoadingInv, LoadOK, SameLoading, SameFlags
<1>11. GoRightly
  BY <1>6, <1>10, LetGoAfter DEF LoadingInv
<1>12. QED
  BY <1>6, <1>7, <1>8, <1>9, <1>10, <1>11 DEF LoadingInv

LEMMA RedirectStep ==
  ASSUME LoadingInv, NEW r, NEW hop \in Requests, Redirect(r, hop), UNCHANGED navigationVars
  PROVE  LoadingInv' /\ GoRightly
<1> DEFINE f == page.sent[r]
<1>1. /\ page' = WillBeSent(page, r, f) /\ spent' = spent \cup {hop} /\ r \in DOMAIN page.sent
      /\ stale' = stale \ {r} /\ jumped' = FALSE
      /\ UNCHANGED <<phase, doc, kid, miscounted, astray, loads, pending>>
  BY DEF Redirect, navigationVars
<1>2. PageOK(page) /\ IdleOK(page, stale, miscounted, jumped)
  BY DEF LoadingInv
<1>3. f \in page.frames \cup {Main}
  BY <1>1, <1>2, SentTo DEF PageOK
<1>4. /\ PageOK(page') /\ IdleOK(page', stale \ {r}, miscounted, jumped')
      /\ SameFrames(page, page') /\ SameLoading(page, page') /\ LetsGo(page, page')
      /\ SendsOne(page, page', r, f)
  BY <1>1, <1>2, <1>3, SentDocs
<1>5. /\ DOMAIN page'.sent = DOMAIN page.sent
      /\ \A x \in DOMAIN page.sent : page'.sent[x] = page.sent[x]
  BY <1>1, <1>4 DEF SendsOne
<1>6. DocsOK'
  BY <1>1, <1>4, <1>5 DEF LoadingInv, DocsOK, SameFrames
<1>7. PendingOK'
  BY <1>1, <1>5 DEF LoadingInv, PendingOK
<1>8. IdleOK(page, stale, miscounted, jumped)'
  BY <1>1, <1>4
<1>9. LoadOK(page, phase[Main], astray)'
  BY <1>1, <1>4 DEF LoadingInv, LoadOK, SameLoading, SameFlags
<1>10. GoRightly
  BY <1>4, <1>9, LetGoAfter DEF LoadingInv
<1>11. QED
  BY <1>4, <1>6, <1>7, <1>8, <1>9, <1>10 DEF LoadingInv

LEMMA EndStep ==
  ASSUME LoadingInv, ~page.closed, NEW r \in DOMAIN page.sent, Ended({r}),
         page' \in {Settled(page, r), Flush(Settled(page, r)), DocumentFailed(page, r)}
  PROVE  /\ PageOK(page') /\ SameFrames(page, page')
         /\ IdleOK(page', stale', miscounted', jumped)
         /\ EndsThese(page, page', {r}) /\ LetsGo(page, page')
         /\ stale' \subseteq stale /\ miscounted' \in BOOLEAN
<1>1. PageOK(page) /\ IdleOK(page, stale, miscounted, jumped)
  BY DEF LoadingInv
<1>2. stale' = stale \ {r} /\ miscounted' = (miscounted \/ stale \cap {r} # {})
  BY DEF Ended
<1>3. /\ PageOK(page') /\ SameFrames(page, page')
      /\ IdleOK(page', stale', miscounted', jumped)
      /\ EndsThese(page, page', {r}) /\ LetsGo(page, page')
  <2>1. PageOK(page') /\ EndsOne(page, page', r) /\ EndsThese(page, page', {r})
    BY <1>1, EndedPage
  <2>2. IdleOK(page', stale \ {r}, miscounted \/ stale \cap {r} # {}, jumped)
    BY <1>1, <2>1, EndedIdle
  <2>3. IdleOK(page', stale', miscounted', jumped)
    BY <1>2, <2>2 DEF IdleOK
  <2>4. QED
    BY <2>1, <2>3 DEF EndsOne
<1>4. stale' \subseteq stale /\ miscounted' \in BOOLEAN
  BY <1>2 DEF LoadingInv, DocsOK
<1>5. QED
  BY <1>3, <1>4

\* What ends is not awaited.
LEMMA EndDocs ==
  ASSUME LoadingInv, NEW r, EndsThese(page, page', {r}), SameFrames(page, page'),
         stale' \subseteq stale, miscounted' \in BOOLEAN, jumped' \in BOOLEAN, astray' \in BOOLEAN,
         UNCHANGED <<phase, doc, kid, spent, loads, pending>>,
         \A f \in Children : phase[f] = "starting" => kid[f] # r,
         pending.load # NoLoad => loads # r
  PROVE  DocsOK' /\ PendingOK'
<1>1. /\ DOMAIN page'.sent \subseteq DOMAIN page.sent
      /\ \A x \in DOMAIN page'.sent : page'.sent[x] = page.sent[x]
      /\ page'.frames = page.frames
  BY DEF EndsThese, SameFrames
<1>2. \A f \in Children : phase[f] = "starting" => kid[f] \in DOMAIN page'.sent
  BY DEF EndsThese, LoadingInv, DocsOK
<1>3. pending.load # NoLoad => loads \in DOMAIN page'.sent
  BY DEF EndsThese, LoadingInv, PendingOK
<1>4. QED
  BY <1>1, <1>2, <1>3, DocsStay

LEMMA SettleStep ==
  ASSUME LoadingInv, NEW r \in Requests \cup Loads, Settle(r), UNCHANGED navigationVars
  PROVE  LoadingInv' /\ GoRightly
<1>1. /\ ~page.closed /\ r \in DOMAIN page.sent /\ r \in Requests \cup {doc}
      /\ page' \in {Settled(page, r), Flush(Settled(page, r))} /\ Ended({r})
      /\ \A f \in Children : phase[f] = "starting" => kid[f] # r
      /\ UNCHANGED <<phase, doc, kid, spent, jumped, astray, loads, pending>>
  BY DEF Settle, navigationVars
<1>2. /\ PageOK(page') /\ SameFrames(page, page')
      /\ IdleOK(page', stale', miscounted', jumped)
      /\ EndsThese(page, page', {r}) /\ LetsGo(page, page')
      /\ stale' \subseteq stale /\ miscounted' \in BOOLEAN
  BY <1>1, EndStep
<1>3. pending.load # NoLoad => loads # r
  BY <1>1, LoadingAssumption DEF LoadingInv, DocsOK, PendingOK, NoLoad
<1>4. DocsOK' /\ PendingOK'
  BY <1>1, <1>2, <1>3, EndDocs DEF LoadingInv, DocsOK
<1>5. SameLoading(page, page')
  <2>1. IsPage(page)
    BY DEF LoadingInv, PageOK
  <2>2. IsPage(Settled(page, r)) /\ SameLoading(page, Settled(page, r))
    BY <2>1, SettledFields
  <2>3. SameLoading(Settled(page, r), Flush(Settled(page, r)))
    BY <2>2, FlushFields
  <2>4. QED
    BY <1>1, <2>2, <2>3 DEF SameLoading, SameFlags
<1>6. LoadOK(page, phase[Main], astray)'
  BY <1>1, <1>5 DEF LoadingInv, LoadOK, SameLoading, SameFlags
<1>7. GoRightly
  BY <1>2, <1>6, LetGoAfter DEF LoadingInv
<1>8. IdleOK(page, stale, miscounted, jumped)'
  BY <1>1, <1>2
<1>9. QED
  BY <1>2, <1>4, <1>6, <1>7, <1>8 DEF LoadingInv

LEMMA DropBodyStep ==
  ASSUME LoadingInv, DropBody
  PROVE  LoadingInv' /\ GoRightly
<1>1. /\ ~page.closed /\ doc \in DOMAIN page.sent /\ pending.load # NoLoad
      /\ page' = DocumentFailed(page, doc) /\ Ended({doc}) /\ astray' = TRUE
      /\ UNCHANGED <<phase, doc, kid, spent, jumped, loads, pending>>
  BY DEF DropBody
<1>2. /\ PageOK(page') /\ SameFrames(page, page')
      /\ IdleOK(page', stale', miscounted', jumped)
      /\ EndsThese(page, page', {doc}) /\ LetsGo(page, page')
      /\ stale' \subseteq stale /\ miscounted' \in BOOLEAN
  BY <1>1, EndStep
<1>3. doc \notin Requests /\ (pending.load # NoLoad => loads # doc)
  BY <1>1, LoadingAssumption DEF LoadingInv, DocsOK, PendingOK
<1>4. \A f \in Children : phase[f] = "starting" => kid[f] # doc
  BY <1>3 DEF LoadingInv, DocsOK
<1>5. DocsOK' /\ PendingOK'
  BY <1>1, <1>2, <1>3, <1>4, EndDocs DEF LoadingInv, DocsOK
<1>6. LoadOK(page, phase[Main], astray)'
  BY <1>1 DEF LoadOK
<1>7. GoRightly
  BY <1>1, <1>2 DEF GoRightly, LeaveRightly, LetsGo
<1>8. IdleOK(page, stale, miscounted, jumped)'
  BY <1>1, <1>2
<1>9. QED
  BY <1>2, <1>5, <1>6, <1>7, <1>8 DEF LoadingInv

\* The main document goes on, and nothing else changes in the frames.
LEMMA MainDocs ==
  ASSUME LoadingInv, SameFrames(page, page'), page'.sent = page.sent,
         phase' = [phase EXCEPT ![Main] = phase'[Main]], phase'[Main] \in {"interactive", "ready", "loaded"},
         UNCHANGED <<doc, kid, spent, stale, miscounted, jumped, astray, loads, pending>>
  PROVE  DocsOK' /\ PendingOK'
<1>1. \A f \in Children : phase'[f] = phase[f]
  BY FramePlace DEF LoadingInv, DocsOK
<1>2. DocsOK'
  BY <1>1 DEF LoadingInv, DocsOK, SameFrames
<1>3. PendingOK'
  BY DEF LoadingInv, PendingOK
<1>4. QED
  BY <1>2, <1>3

LEMMA ParsedStep ==
  ASSUME LoadingInv, Parsed, UNCHANGED navigationVars
  PROVE  LoadingInv' /\ GoRightly
<1>1. /\ phase[Main] = "parsing" /\ phase' = [phase EXCEPT ![Main] = "interactive"]
      /\ UNCHANGED <<page, doc, kid, spent, stale, miscounted, jumped, astray, loads, pending>>
  BY DEF Parsed, navigationVars
<1>2. phase'[Main] = "interactive"
  BY <1>1 DEF LoadingInv, DocsOK, Frames
<1>3. DocsOK' /\ PendingOK'
  BY <1>1, <1>2, MainDocs DEF SameFrames
<1>4. LoadOK(page, phase[Main], astray)'
  BY <1>1, <1>2 DEF LoadingInv, LoadOK
<1>5. PageOK(page)' /\ IdleOK(page, stale, miscounted, jumped)'
  BY <1>1 DEF LoadingInv
<1>6. GoRightly
  BY <1>1, NobodyGoes
<1>7. QED
  BY <1>3, <1>4, <1>5, <1>6 DEF LoadingInv

LEMMA ContentLoadsStep ==
  ASSUME LoadingInv, ContentLoads, UNCHANGED navigationVars
  PROVE  LoadingInv' /\ GoRightly
<1>1. /\ phase[Main] = "interactive" /\ phase' = [phase EXCEPT ![Main] = "ready"]
      /\ page' = ContentFired(page, Main)
      /\ UNCHANGED <<doc, kid, spent, stale, miscounted, jumped, astray, loads, pending>>
  BY DEF ContentLoads, navigationVars
<1>2. phase'[Main] = "ready"
  BY <1>1 DEF LoadingInv, DocsOK, Frames
<1>3. PageOK(page) /\ IsPage(page) /\ IdleOK(page, stale, miscounted, jumped)
  BY DEF LoadingInv, PageOK
<1>4. /\ SameCounts(page, page') /\ SameFrames(page, page')
      /\ page'.load = page.load /\ page'.same = page.same
      /\ page'.networkidle = page.networkidle /\ LetsGo(page, page')
  BY <1>1, <1>3, ContentFiredFields
<1>5. DocsOK' /\ PendingOK'
  BY <1>1, <1>2, <1>4, MainDocs DEF SameCounts
<1>6. LoadOK(page, phase[Main], astray)'
  BY <1>1, <1>2, <1>4 DEF LoadingInv, LoadOK
<1>7. PageOK(page')
  BY <1>1, <1>3, ContentFiredOK
<1>8. IdleOK(page, stale, miscounted, jumped)'
  BY <1>1, <1>3, <1>4, SameIdle
<1>9. GoRightly
  BY <1>3, <1>4, <1>6, LetGoAfter
<1>10. QED
  BY <1>5, <1>6, <1>7, <1>8, <1>9 DEF LoadingInv

LEMMA PageLoadsStep ==
  ASSUME LoadingInv, PageLoads, UNCHANGED navigationVars
  PROVE  LoadingInv' /\ GoRightly
<1>1. /\ phase' = [phase EXCEPT ![Main] = "loaded"] /\ ~page.closed
      /\ page' = LoadFired(page, Main)
      /\ UNCHANGED <<doc, kid, spent, stale, miscounted, jumped, astray, loads, pending>>
  BY DEF PageLoads, navigationVars
<1>2. phase'[Main] = "loaded"
  BY <1>1 DEF LoadingInv, DocsOK, Frames
<1>3. PageOK(page) /\ IsPage(page) /\ IdleOK(page, stale, miscounted, jumped)
  BY DEF LoadingInv, PageOK
<1>4. /\ SameFrames(page, page') /\ page'.sent = page.sent
      /\ page'.domcontentloaded /\ page'.waiters \subseteq page.waiters
  BY <1>1, <1>3, LoadFiredFields
<1>5. DocsOK' /\ PendingOK'
  BY <1>1, <1>2, <1>4, MainDocs
<1>6. LoadOK(page, phase[Main], astray)'
  BY <1>2, <1>4 DEF LoadOK
<1>7. PageOK(page')
  BY <1>1, <1>3, LoadFiredOK
<1>8. IdleOK(page, stale, miscounted, jumped)'
  BY <1>1, <1>3, LoadFiredIdle
<1>9. GoRightly
  BY <1>2, <1>4 DEF GoRightly, LeaveRightly, Reached
<1>10. QED
  BY <1>5, <1>6, <1>7, <1>8, <1>9 DEF LoadingInv

\* A navigation within the document.
LEMMA WithinStep ==
  ASSUME LoadingInv, page' = WithinDocument(page), jumped' = TRUE, astray' = (astray \/ phase[Main] # "loaded"),
         UNCHANGED <<phase, doc, kid, spent, stale, miscounted, loads, pending>>
  PROVE  LoadingInv' /\ GoRightly
<1>1. PageOK(page) /\ IsPage(page) /\ IdleOK(page, stale, miscounted, jumped) /\ page.allow \in BOOLEAN
  BY DEF LoadingInv, PageOK, Flagged
<1>2. /\ SameCounts(page, page') /\ SameFrames(page, page')
      /\ page'.domcontentloaded = TRUE /\ LetsGo(page, page')
  BY <1>1, WithinDocumentFields
<1>3. astray' \in BOOLEAN /\ miscounted \in BOOLEAN
  BY DEF LoadingInv, DocsOK
<1>4. DocsOK' /\ PendingOK'
  <2>1. page'.frames = page.frames /\ page'.sent = page.sent
    BY <1>2 DEF SameCounts, SameFrames
  <2>2. \A f \in Children : phase[f] = "starting" => kid[f] \in DOMAIN page.sent
    BY DEF LoadingInv, DocsOK
  <2>3. pending.load # NoLoad => loads \in DOMAIN page.sent
    BY DEF LoadingInv, PendingOK
  <2>4. QED
    BY <1>3, <2>1, <2>2, <2>3, DocsStay
<1>5. LoadOK(page, phase[Main], astray)'
  BY <1>2 DEF LoadOK
<1>6. PageOK(page')
  BY <1>1, WithinDocumentOK
<1>7. IdleOK(page, stale, miscounted, jumped)'
  <2>1. IdleOK(page', stale, miscounted, TRUE)
    BY <1>1, <1>2 DEF IdleOK, CountsRight, SameCounts
  <2>2. QED
    BY <2>1
<1>8. GoRightly
  BY <1>1, <1>2, <1>5, LetGoAfter
<1>9. QED
  BY <1>4, <1>5, <1>6, <1>7, <1>8 DEF LoadingInv

LEMMA JumpStep ==
  ASSUME LoadingInv, Jump, UNCHANGED navigationVars
  PROVE  LoadingInv' /\ GoRightly
  BY WithinStep DEF Jump, navigationVars

\* The steps of a child frame.
LEMMA ChildPhase ==
  ASSUME LoadingInv, NEW f \in Children, NEW to, phase' = [phase EXCEPT ![f] = to]
  PROVE  /\ phase'[Main] = phase[Main] /\ phase'[f] = to
         /\ \A g \in Children \ {f} : phase'[g] = phase[g]
         /\ DOMAIN phase' = Frames
  BY FramePlace DEF LoadingInv, DocsOK, Frames

LEMMA AttachFrameStep ==
  ASSUME LoadingInv, NEW f \in Children, AttachFrame(f), UNCHANGED navigationVars
  PROVE  LoadingInv' /\ GoRightly
<1>1. /\ phase[f] = "none" /\ phase' = [phase EXCEPT ![f] = "blank"]
      /\ page' = [page EXCEPT !.frames = @ \cup {f}]
      /\ UNCHANGED <<doc, kid, spent, stale, miscounted, jumped, astray, loads, pending>>
  BY DEF AttachFrame, navigationVars
<1>2. PageOK(page) /\ IsPage(page) /\ IdleOK(page, stale, miscounted, jumped)
  BY DEF LoadingInv, PageOK
<1>3. /\ IsPage(page') /\ SameLoading(page, page') /\ SameCounts(page, page')
      /\ page'.timers = page.timers /\ page'.waiters = page.waiters
      /\ page'.networkidle = page.networkidle /\ page'.closed = page.closed
      /\ page'.frames = page.frames \cup {f}
  BY <1>1, <1>2 DEF IsPage, PageFields, SameLoading, SameFlags, SameCounts
<1>4. /\ phase'[Main] = phase[Main] /\ phase'[f] = "blank"
      /\ \A g \in Children \ {f} : phase'[g] = phase[g]
      /\ DOMAIN phase' = Frames
  BY <1>1, ChildPhase
<1>5. PageOK(page')
  <2>1. Flagged(page') /\ Running(page') /\ Waited(page')
    BY <1>2, <1>3 DEF PageOK, Flagged, Running, Waited, SameLoading, SameFlags, SameCounts
  <2>2. Framed(page')
    BY <1>2, <1>3 DEF PageOK, Framed, SameLoading, SameCounts
  <2>3. QED
    BY <1>3, <2>1, <2>2 DEF PageOK
<1>6. DocsOK'
  <2>1. \A g \in Children : phase'[g] = "starting" => g # f
    BY <1>4
  <2>2. phase' \in [Frames -> {"none", "gone", "blank", "starting", "parsing", "interactive", "ready", "loaded"}]
    BY <1>1 DEF LoadingInv, DocsOK
  <2>3. page'.frames = {g \in Children : phase'[g] \notin {"none", "gone"}}
    BY <1>3, <1>4 DEF LoadingInv, DocsOK
  <2>4. QED
    BY <1>1, <1>3, <1>4, <2>1, <2>2, <2>3 DEF LoadingInv, DocsOK, SameCounts
<1>7. PendingOK'
  BY <1>1, <1>3 DEF LoadingInv, PendingOK, SameCounts
<1>8. IdleOK(page, stale, miscounted, jumped)'
  BY <1>1, <1>2, <1>3, SameIdle
<1>9. LoadOK(page, phase[Main], astray)'
  BY <1>1, <1>3, <1>4 DEF LoadingInv, LoadOK, SameLoading, SameFlags
<1>10. GoRightly
  BY <1>3, NobodyGoes
<1>11. QED
  BY <1>5, <1>6, <1>7, <1>8, <1>9, <1>10 DEF LoadingInv

LEMMA CommitFrameStep ==
  ASSUME LoadingInv, NEW f \in Children, CommitFrame(f), UNCHANGED navigationVars
  PROVE  LoadingInv' /\ GoRightly
<1>1. /\ phase[f] = "starting" /\ phase' = [phase EXCEPT ![f] = "parsing"]
      /\ page' = Navigated(page, f)
      /\ UNCHANGED <<doc, kid, spent, stale, miscounted, jumped, astray, loads, pending>>
  BY DEF CommitFrame, navigationVars
<1>2. /\ PageOK(page) /\ IsPage(page) /\ IdleOK(page, stale, miscounted, jumped)
      /\ f # Main /\ f \in page.frames \cup {Main}
  BY <1>1, FramePlace DEF LoadingInv, PageOK
<1>3. /\ SameFrames(page, page') /\ page'.load = FALSE /\ page'.sent = page.sent
      /\ page'.waiters = page.waiters
      /\ page'.domcontentloaded = page.domcontentloaded /\ page'.same = page.same
  BY <1>1, <1>2, NavigatedFields
<1>4. /\ phase'[Main] = phase[Main] /\ phase'[f] = "parsing"
      /\ \A g \in Children \ {f} : phase'[g] = phase[g]
      /\ DOMAIN phase' = Frames
  BY <1>1, ChildPhase
<1>5. PageOK(page')
  BY <1>1, <1>2, NavigateOK
<1>6. DocsOK'
  <2>1. \A g \in Children : phase'[g] = "starting" => g # f
    BY <1>4
  <2>2. phase' \in [Frames -> {"none", "gone", "blank", "starting", "parsing", "interactive", "ready", "loaded"}]
    BY <1>1 DEF LoadingInv, DocsOK
  <2>3. page'.frames = {g \in Children : phase'[g] \notin {"none", "gone"}}
    BY <1>1, <1>3, <1>4 DEF LoadingInv, DocsOK, SameFrames
  <2>4. QED
    BY <1>1, <1>3, <1>4, <2>1, <2>2, <2>3 DEF LoadingInv, DocsOK
<1>7. PendingOK'
  BY <1>1, <1>3 DEF LoadingInv, PendingOK
<1>8. IdleOK(page, stale, miscounted, jumped)'
  BY <1>1, <1>2, NavigateIdle
<1>9. LoadOK(page, phase[Main], astray)'
  BY <1>1, <1>3, <1>4 DEF LoadingInv, LoadOK
<1>10. GoRightly
  BY <1>3, NobodyGoes
<1>11. QED
  BY <1>5, <1>6, <1>7, <1>8, <1>9, <1>10 DEF LoadingInv

LEMMA StartFrameStep ==
  ASSUME LoadingInv, NEW f \in Children, NEW r \in Requests, StartFrame(f, r), UNCHANGED navigationVars
  PROVE  LoadingInv' /\ GoRightly
<1> DEFINE q == WillBeSent(page, r, f)
<1>1. /\ phase[f] \in {"blank", "loaded"} /\ r \notin spent
      /\ phase' = [phase EXCEPT ![f] = "starting"]
      /\ page' = StartedLoading(q, f)
      /\ kid' = [kid EXCEPT ![f] = r] /\ spent' = spent \cup {r} /\ jumped' = FALSE
      /\ UNCHANGED <<doc, stale, miscounted, astray, loads, pending>>
  BY DEF StartFrame, navigationVars
<1>2. /\ PageOK(page) /\ IdleOK(page, stale, miscounted, jumped)
      /\ f # Main /\ f \in page.frames \cup {Main} /\ f \in Frames
  BY <1>1, FramePlace DEF LoadingInv
<1>3. r \notin DOMAIN page.sent \cup stale
  BY <1>1, LoadingAssumption DEF LoadingInv, DocsOK
<1>4. /\ PageOK(q) /\ IdleOK(q, stale, miscounted, jumped')
      /\ SameFrames(page, q) /\ SameLoading(page, q) /\ LetsGo(page, q)
      /\ SendsOne(page, q, r, f)
  <2>1. /\ PageOK(q) /\ IdleOK(q, stale \ {r}, miscounted, jumped')
        /\ SameFrames(page, q) /\ SameLoading(page, q) /\ LetsGo(page, q)
        /\ SendsOne(page, q, r, f)
    BY <1>1, <1>2, <1>3, SentDocs
  <2>2. stale \ {r} = stale
    BY <1>3
  <2> HIDE DEF q
  <2>3. QED
    BY <2>1, <2>2
<1> HIDE DEF q
<1>5. /\ SameFlags(q, page') /\ SameCounts(q, page') /\ SameFrames(q, page')
      /\ page'.networkidle = FALSE /\ page'.waiters = q.waiters
  BY <1>1, <1>4, StartedLoadingFields DEF PageOK
<1>6. PageOK(page')
  BY <1>1, <1>2, <1>4, StartOK
<1>7. IdleOK(page, stale, miscounted, jumped)'
  <2>1. IdleOK(page', stale, miscounted, jumped')
    BY <1>4, <1>5, SameIdle
  <2>2. QED
    BY <1>1, <2>1
<1>8. /\ phase'[Main] = phase[Main] /\ phase'[f] = "starting"
      /\ \A g \in Children \ {f} : phase'[g] = phase[g]
      /\ DOMAIN phase' = Frames
  BY <1>1, ChildPhase
<1>9. /\ DOMAIN page'.sent = DOMAIN page.sent \cup {r} /\ page'.sent[r] = f
      /\ \A x \in DOMAIN page.sent : page'.sent[x] = page.sent[x]
      /\ page'.frames = page.frames
  BY <1>4, <1>5 DEF SendsOne, SameCounts, SameFrames
<1>10. DocsOK'
  <2>1. phase' \in [Frames -> {"none", "gone", "blank", "starting", "parsing", "interactive", "ready", "loaded"}]
    BY <1>1 DEF LoadingInv, DocsOK
  <2>2. page'.frames = {g \in Children : phase'[g] \notin {"none", "gone"}}
    BY <1>1, <1>8, <1>9 DEF LoadingInv, DocsOK
  <2>3. kid' \in [Children -> Requests \cup {NoRequest}] /\ kid'[f] = r
        /\ \A g \in Children \ {f} : kid'[g] = kid[g]
    BY <1>1 DEF LoadingInv, DocsOK
  <2>4. \A g \in Children : phase'[g] = "starting" =>
          kid'[g] \in spent' /\ kid'[g] \in DOMAIN page'.sent /\ page'.sent[kid'[g]] = g
    BY <1>1, <1>8, <1>9, <2>3 DEF LoadingInv, DocsOK
  <2>5. QED
    BY <1>1, <1>8, <1>9, <2>1, <2>2, <2>3, <2>4 DEF LoadingInv, DocsOK
<1>11. PendingOK'
  BY <1>1, <1>9 DEF LoadingInv, PendingOK
<1>12. LoadOK(page, phase[Main], astray)'
  BY <1>1, <1>4, <1>5, <1>8 DEF LoadingInv, LoadOK, SameLoading, SameFlags
<1>13. GoRightly
  <2>1. LetsGo(page, page')
    BY <1>4, <1>5 DEF LetsGo, Satisfied, SameFlags
  <2>2. QED
    BY <1>2, <1>12, <2>1, LetGoAfter
<1>14. QED
  BY <1>6, <1>7, <1>10, <1>11, <1>12, <1>13 DEF LoadingInv

\* A frame that has loaded, or failed to, does not let the page have loaded too
\* early if the main frame is known to load.
LEMMA FrameDoneLoads ==
  ASSUME LoadOK(page, phase[Main], astray), NEW q, NEW f, f # Main,
         q.load => page.loading \subseteq {f},
         q.domcontentloaded => page.domcontentloaded \/ f = Main,
         page.domcontentloaded => q.domcontentloaded,
         q.same = page.same
  PROVE  LoadOK(q, phase[Main], astray \/ Unmarked)
  BY DEF LoadOK, Unmarked

LEMMA FailFrameStep ==
  ASSUME LoadingInv, NEW f \in Children, FailFrame(f), UNCHANGED navigationVars
  PROVE  LoadingInv' /\ GoRightly
<1> DEFINE r == kid[f]
<1>1. /\ ~page.closed /\ phase[f] = "starting" /\ phase' = [phase EXCEPT ![f] = "loaded"]
      /\ page' = DocumentFailed(page, r) /\ Ended({r})
      /\ kid' = [kid EXCEPT ![f] = NoRequest]
      /\ astray' = (astray \/ Unmarked)
      /\ UNCHANGED <<doc, spent, jumped, loads, pending>>
  BY DEF FailFrame, navigationVars
<1>2. /\ PageOK(page) /\ IsPage(page)
      /\ f # Main /\ f \in page.frames \cup {Main} /\ f \in Frames
  BY <1>1, FramePlace DEF LoadingInv, PageOK
<1>3. r \in DOMAIN page.sent /\ page.sent[r] = f /\ r \in spent /\ r \in Requests
  BY <1>1 DEF LoadingInv, DocsOK
<1> HIDE DEF r
<1>4. /\ PageOK(page') /\ SameFrames(page, page')
      /\ IdleOK(page', stale', miscounted', jumped)
      /\ EndsThese(page, page', {r}) /\ LetsGo(page, page')
      /\ stale' \subseteq stale /\ miscounted' \in BOOLEAN
  BY <1>1, <1>3, EndStep
<1>5. /\ phase'[Main] = phase[Main] /\ phase'[f] = "loaded"
      /\ \A g \in Children \ {f} : phase'[g] = phase[g]
      /\ DOMAIN phase' = Frames
  BY <1>1, ChildPhase
<1>6. /\ DOMAIN page'.sent = DOMAIN page.sent \ {r}
      /\ \A x \in DOMAIN page'.sent : page'.sent[x] = page.sent[x]
      /\ page'.frames = page.frames
  BY <1>4 DEF EndsThese, SameFrames
<1>7. DocsOK'
  <2>1. phase' \in [Frames -> {"none", "gone", "blank", "starting", "parsing", "interactive", "ready", "loaded"}]
    BY <1>1 DEF LoadingInv, DocsOK
  <2>2. page'.frames = {g \in Children : phase'[g] \notin {"none", "gone"}}
    BY <1>1, <1>5, <1>6 DEF LoadingInv, DocsOK
  <2>3. kid' \in [Children -> Requests \cup {NoRequest}]
        /\ \A g \in Children \ {f} : kid'[g] = kid[g]
    BY <1>1 DEF LoadingInv, DocsOK
  <2>4. ASSUME NEW g \in Children, phase'[g] = "starting"
        PROVE  kid'[g] \in spent' /\ kid'[g] \in DOMAIN page'.sent /\ page'.sent[kid'[g]] = g
    <3>1. g # f /\ phase[g] = "starting" /\ kid'[g] = kid[g]
      BY <1>5, <2>3, <2>4
    <3>2. kid[g] \in spent /\ kid[g] \in DOMAIN page.sent /\ page.sent[kid[g]] = g
      BY <3>1 DEF LoadingInv, DocsOK
    <3>3. kid[g] # r
      BY <1>3, <3>1, <3>2
    <3>4. QED
      BY <1>1, <1>6, <3>1, <3>2, <3>3
  <2>5. astray' \in BOOLEAN /\ jumped' \in BOOLEAN
    BY <1>1 DEF LoadingInv, DocsOK
  <2>6. DOMAIN page'.sent \subseteq spent' \cup (1 .. loads')
        /\ stale' \subseteq spent' \cup (1 .. loads')
    BY <1>1, <1>4, <1>6 DEF LoadingInv, DocsOK
  <2>7. phase'[Main] \in {"parsing", "interactive", "ready", "loaded"} /\ spent' \subseteq Requests
        /\ loads' \in 0 .. MaxLoads /\ doc' \in 0 .. loads'
    BY <1>1, <1>5 DEF LoadingInv, DocsOK
  <2>8. QED
    BY <1>4, <2>1, <2>2, <2>3, <2>4, <2>5, <2>6, <2>7 DEF DocsOK
<1>8. PendingOK'
  <2>1. pending.load # NoLoad => loads # r
    BY <1>3, LoadingAssumption DEF LoadingInv, DocsOK, PendingOK
  <2>2. QED
    BY <1>1, <1>6, <2>1 DEF LoadingInv, PendingOK
<1>9. IdleOK(page, stale, miscounted, jumped)'
  BY <1>1, <1>4
<1>10. LoadOK(page, phase[Main], astray)'
  <2>1. /\ page'.load => page.loading \subseteq {f}
        /\ page'.domcontentloaded <=> page.domcontentloaded \/ f = Main
        /\ page'.same = page.same
    BY <1>1, <1>2, <1>3, DocumentFailedFields
  <2>2. LoadOK(page', phase[Main], astray \/ Unmarked)
    BY <1>2, <2>1, FrameDoneLoads DEF LoadingInv
  <2>3. QED
    BY <1>1, <1>5, <2>2 DEF LoadOK
<1>11. GoRightly
  BY <1>2, <1>4, <1>10, LetGoAfter
<1>12. QED
  BY <1>4, <1>7, <1>8, <1>9, <1>10, <1>11 DEF LoadingInv

\* Who is let go in two steps.
LEMMA LetGoTwice ==
  ASSUME PageOK(page), LoadOK(page, phase[Main], astray), NEW q, LetsGo(page, q), SameFlags(page, q),
         LetsGo(q, page'), LoadOK(page, phase[Main], astray)'
  PROVE  GoRightly
<1> SUFFICES ASSUME NEW w \in page.waiters, w \notin page'.waiters, ~astray, ~astray',
                    w.state # "networkidle"
             PROVE  Reached(w.state) \/ Reached(w.state)'
  BY DEF GoRightly, LeaveRightly, LetsGo, Reached
<1>1. w.state \in {"domcontentloaded", "load"}
  BY DEF PageOK, Waited, States
<1>2. CASE w \notin q.waiters
  <2>1. Satisfied(q, w.state)
    BY <1>1, <1>2 DEF LetsGo
  <2>2. QED
    BY <1>1, <2>1 DEF LoadOK, Satisfied, Reached, SameFlags
<1>3. CASE w \in q.waiters
  <2>1. Satisfied(page', w.state)
    BY <1>1, <1>3 DEF LetsGo
  <2>2. LoadOK(page', phase'[Main], astray')
    OBVIOUS
  <2>3. Reached(w.state)'
    BY <1>1, <2>1, <2>2 DEF LoadOK, Satisfied, Reached
  <2>4. QED
    BY <2>3
<1>4. QED
  BY <1>2, <1>3

LEMMA FrameLoadsStep ==
  ASSUME LoadingInv, NEW f \in Children, FrameLoads(f), UNCHANGED navigationVars
  PROVE  LoadingInv' /\ GoRightly
<1> DEFINE q == ContentFired(page, f)
<1>1. /\ ~page.closed /\ phase[f] = "parsing" /\ phase' = [phase EXCEPT ![f] = "loaded"]
      /\ page' = LoadFired(q, f)
      /\ kid' = [kid EXCEPT ![f] = NoRequest]
      /\ astray' = (astray \/ Unmarked)
      /\ UNCHANGED <<doc, spent, stale, miscounted, jumped, loads, pending>>
  BY DEF FrameLoads, navigationVars
<1>2. /\ PageOK(page) /\ IsPage(page) /\ IdleOK(page, stale, miscounted, jumped)
      /\ f # Main /\ f \in page.frames \cup {Main} /\ f \in Frames
      /\ page.domcontentloaded \in BOOLEAN
  BY <1>1, FramePlace DEF LoadingInv, PageOK, Flagged
<1>3. /\ IsPage(q) /\ SameCounts(page, q) /\ SameFrames(page, q)
      /\ q.domcontentloaded \in BOOLEAN
      /\ q.domcontentloaded <=> page.domcontentloaded \/ f = Main
      /\ q.load = page.load /\ q.same = page.same /\ q.allow = page.allow /\ q.loading = page.loading
      /\ q.networkidle = page.networkidle /\ LetsGo(page, q)
  BY <1>2, ContentFiredFields
<1>4. PageOK(q)
  BY <1>2, ContentFiredOK
<1> HIDE DEF q
<1>5. SameFlags(page, q)
  BY <1>2, <1>3 DEF SameFlags
<1>6. IdleOK(q, stale, miscounted, jumped)
  BY <1>2, <1>3, SameIdle
<1>7. PageOK(page')
  BY <1>1, <1>2, <1>3, <1>4, LoadFiredOK DEF SameFrames
<1>8. IdleOK(page', stale, miscounted, jumped)
  BY <1>1, <1>4, <1>6, LoadFiredIdle
<1>9. SameFrames(q, page') /\ page'.sent = q.sent /\ page'.same = q.same
  BY <1>1, <1>3, LoadFiredFields
<1>10. /\ page'.load <=> q.loading \subseteq {f}
       /\ page'.domcontentloaded <=> q.domcontentloaded \/ f = Main
  BY <1>1, <1>3, LoadFiredFields
<1>11. LetsGo(q, page')
  BY <1>1, <1>2, <1>3, LoadFiredFields
<1>12. /\ phase'[Main] = phase[Main] /\ phase'[f] = "loaded"
       /\ \A g \in Children \ {f} : phase'[g] = phase[g]
       /\ DOMAIN phase' = Frames
  BY <1>1, ChildPhase
<1>13. page'.frames = page.frames /\ page'.sent = page.sent
  BY <1>3, <1>9 DEF SameFrames, SameCounts
<1>14. DocsOK'
  <2>1. phase' \in [Frames -> {"none", "gone", "blank", "starting", "parsing", "interactive", "ready", "loaded"}]
    BY <1>1 DEF LoadingInv, DocsOK
  <2>2. page'.frames = {g \in Children : phase'[g] \notin {"none", "gone"}}
    BY <1>1, <1>12, <1>13 DEF LoadingInv, DocsOK
  <2>3. kid' \in [Children -> Requests \cup {NoRequest}]
        /\ \A g \in Children \ {f} : kid'[g] = kid[g]
    BY <1>1 DEF LoadingInv, DocsOK
  <2>4. \A g \in Children : phase'[g] = "starting" =>
          kid'[g] \in spent' /\ kid'[g] \in DOMAIN page'.sent /\ page'.sent[kid'[g]] = g
    BY <1>1, <1>12, <1>13, <2>3 DEF LoadingInv, DocsOK
  <2>5. astray' \in BOOLEAN
    BY <1>1 DEF LoadingInv, DocsOK
  <2>6. QED
    BY <1>1, <1>12, <1>13, <2>1, <2>2, <2>3, <2>4, <2>5 DEF LoadingInv, DocsOK
<1>15. PendingOK'
  BY <1>1, <1>13 DEF LoadingInv, PendingOK
<1>16. LoadOK(page, phase[Main], astray)'
  <2>1. /\ page'.load => page.loading \subseteq {f}
        /\ page'.domcontentloaded <=> page.domcontentloaded \/ f = Main
        /\ page'.same = page.same
    BY <1>3, <1>9, <1>10
  <2>2. LoadOK(page', phase[Main], astray \/ Unmarked)
    BY <1>2, <2>1, FrameDoneLoads DEF LoadingInv
  <2>3. QED
    BY <1>1, <1>12, <2>2 DEF LoadOK
<1>17. GoRightly
  BY <1>2, <1>3, <1>5, <1>11, <1>16, LetGoTwice DEF LoadingInv
<1>18. IdleOK(page, stale, miscounted, jumped)'
  BY <1>1, <1>8
<1>19. QED
  BY <1>7, <1>14, <1>15, <1>16, <1>17, <1>18 DEF LoadingInv

\* Frames S go.
Leaves(p, q, S) ==
  /\ SameFlags(p, q) /\ LetsGo(p, q)
  /\ q.frames = p.frames \ S /\ q.closed = p.closed

LEMMA DetachedPage ==
  ASSUME NEW p, PageOK(p), ~p.closed, NEW S \in SUBSET p.frames,
         NEW theirs, theirs = {r \in DOMAIN p.sent : p.sent[r] \in S}
  PROVE  /\ PageOK(Detached(p, S)) /\ Leaves(p, Detached(p, S), S)
         /\ EndsThese(p, Detached(p, S), theirs)
<1> DEFINE q == Detached(p, S)
<1>1. PageOK(q)
  BY DetachOK
<1>2. CASE S = {}
  <2>1. q = p
    BY <1>2 DEF Detached
  <2>2. theirs = {}
    BY <1>2
  <2> HIDE DEF q
  <2>3. Leaves(p, q, S) /\ EndsThese(p, q, theirs)
    BY <1>2, <2>1, <2>2 DEF Leaves, EndsThese, SameFlags, LetsGo
  <2>4. QED
    BY <1>1, <2>3 DEF q
<1>3. CASE S # {}
  <2>1. /\ SameFlags(p, q) /\ LetsGo(p, q)
        /\ q.sent = Without(p.sent, theirs)
        /\ q.frames = p.frames \ S /\ q.closed = p.closed
    <3>1. IsPage(p)
      BY DEF PageOK
    <3>2. SameFlags(p, q) /\ LetsGo(p, q)
      BY <1>3, <3>1, DetachedFields
    <3>3. q.frames = p.frames \ S /\ q.closed = p.closed
      BY <1>3, <3>1, DetachedFields
    <3>4. /\ q.active = Less(p.active, Cardinality(theirs))
          /\ q.sent = Without(p.sent, theirs)
          /\ q.quiet = Without(p.quiet, S)
      BY <1>3, DetachedFields DEF PageOK
    <3>5. QED
      BY <3>2, <3>3, <3>4
  <2> HIDE DEF q
  <2>2. Leaves(p, q, S)
    BY <2>1 DEF Leaves
  <2>3. EndsThese(p, q, theirs)
    BY <2>1 DEF EndsThese, Without
  <2>4. QED
    BY <1>1, <2>2, <2>3 DEF q
<1>4. QED
  BY <1>2, <1>3

LEMMA DetachFrameStep ==
  ASSUME LoadingInv, NEW f \in Children, DetachFrame(f), UNCHANGED navigationVars
  PROVE  LoadingInv' /\ GoRightly
<1> DEFINE theirs == {r \in DOMAIN page.sent : page.sent[r] \in {f}}
<1>1. /\ ~page.closed /\ phase[f] \notin {"none", "gone"} /\ phase' = [phase EXCEPT ![f] = "gone"]
      /\ page' = Detached(page, {f})
      /\ stale' = stale \ theirs /\ miscounted' = (miscounted \/ stale \cap theirs # {})
      /\ UNCHANGED <<doc, kid, spent, jumped, astray, loads, pending>>
  BY DEF DetachFrame, navigationVars, Ended
<1>2. /\ PageOK(page) /\ IdleOK(page, stale, miscounted, jumped)
      /\ f # Main /\ {f} \in SUBSET page.frames
  BY <1>1, FramePlace DEF LoadingInv
<1>3. /\ PageOK(page') /\ Leaves(page, page', {f}) /\ EndsThese(page, page', theirs)
  <2> DEFINE S == {f}
  <2>1. theirs = {r \in DOMAIN page.sent : page.sent[r] \in S} /\ S \in SUBSET page.frames
        /\ page' = Detached(page, S)
    BY <1>1, <1>2
  <2> HIDE DEF theirs, S
  <2>2. PageOK(page') /\ Leaves(page, page', S) /\ EndsThese(page, page', theirs)
    BY <1>1, <1>2, <2>1, DetachedPage
  <2>3. QED
    BY <2>2 DEF S
<1>4. IdleOK(page, stale, miscounted, jumped)'
  <2> DEFINE S == {f}
  <2>1. theirs = {r \in DOMAIN page.sent : page.sent[r] \in S} /\ S \in SUBSET page.frames
        /\ page' = Detached(page, S)
    BY <1>1, <1>2
  <2> HIDE DEF theirs, S
  <2>2. IdleOK(page', stale \ theirs, miscounted \/ stale \cap theirs # {}, jumped)
    BY <1>2, <2>1, DetachIdle
  <2>3. QED
    BY <1>1, <2>2 DEF IdleOK
<1>5. /\ phase'[Main] = phase[Main] /\ phase'[f] = "gone"
      /\ \A g \in Children \ {f} : phase'[g] = phase[g]
      /\ DOMAIN phase' = Frames
  BY <1>1, ChildPhase
<1>6. /\ DOMAIN page'.sent = DOMAIN page.sent \ theirs
      /\ \A x \in DOMAIN page'.sent : page'.sent[x] = page.sent[x]
      /\ page'.frames = page.frames \ {f}
  BY <1>3 DEF EndsThese, Leaves
<1>7. DocsOK'
  <2>1. phase' \in [Frames -> {"none", "gone", "blank", "starting", "parsing", "interactive", "ready", "loaded"}]
    BY <1>1 DEF LoadingInv, DocsOK
  <2>2. page'.frames = {g \in Children : phase'[g] \notin {"none", "gone"}}
    BY <1>1, <1>5, <1>6 DEF LoadingInv, DocsOK
  <2>3. ASSUME NEW g \in Children, phase'[g] = "starting"
        PROVE  kid'[g] \in spent' /\ kid'[g] \in DOMAIN page'.sent /\ page'.sent[kid'[g]] = g
    <3>1. g # f /\ phase[g] = "starting"
      BY <1>5, <2>3
    <3>2. kid[g] \in spent /\ kid[g] \in DOMAIN page.sent /\ page.sent[kid[g]] = g
      BY <3>1 DEF LoadingInv, DocsOK
    <3>3. kid[g] \notin theirs
      BY <3>1, <3>2
    <3>4. QED
      BY <1>1, <1>6, <3>2, <3>3
  <2>4. miscounted' \in BOOLEAN
    BY <1>1 DEF LoadingInv, DocsOK
  <2>5. DOMAIN page'.sent \subseteq spent' \cup (1 .. loads')
        /\ stale' \subseteq spent' \cup (1 .. loads')
    BY <1>1, <1>6 DEF LoadingInv, DocsOK
  <2>6. QED
    BY <1>1, <1>5, <2>1, <2>2, <2>3, <2>4, <2>5 DEF LoadingInv, DocsOK
<1>8. PendingOK'
  <2>1. pending.load # NoLoad => loads \notin theirs
    BY <1>2 DEF LoadingInv, PendingOK
  <2> HIDE DEF theirs
  <2>2. QED
    BY <1>1, <1>6, <2>1 DEF LoadingInv, PendingOK
<1>9. LoadOK(page, phase[Main], astray)'
  BY <1>1, <1>3, <1>5 DEF LoadingInv, LoadOK, Leaves, SameFlags
<1>10. GoRightly
  BY <1>2, <1>3, <1>9, LetGoAfter DEF Leaves
<1>11. QED
  BY <1>3, <1>4, <1>7, <1>8, <1>9, <1>10 DEF LoadingInv

\* Nothing but the adapter changes, which only has its timers, and its rest, changed.
LEMMA RestStep ==
  ASSUME LoadingInv, PageOK(page'), SameLoading(page, page'), SameFrames(page, page'),
         page'.sent = page.sent, LetsGo(page, page'), IdleOK(page', stale, miscounted, jumped),
         UNCHANGED <<phase, doc, kid, spent, stale, miscounted, jumped, astray, loads, pending>>
  PROVE  LoadingInv' /\ GoRightly
<1>1. DocsOK'
  BY DEF LoadingInv, DocsOK, SameFrames
<1>2. PendingOK'
  BY DEF LoadingInv, PendingOK
<1>3. LoadOK(page, phase[Main], astray)'
  BY DEF LoadingInv, LoadOK, SameLoading, SameFlags
<1>4. IdleOK(page, stale, miscounted, jumped)'
  OBVIOUS
<1>5. GoRightly
  BY <1>3, LetGoAfter DEF LoadingInv
<1>6. QED
  BY <1>1, <1>2, <1>3, <1>4, <1>5 DEF LoadingInv

LEMMA IdleTimerStep ==
  ASSUME LoadingInv, IdleTimer, UNCHANGED navigationVars
  PROVE  LoadingInv' /\ GoRightly
<1> DEFINE gone == {"page"}
           p == [page EXCEPT !.networkidle = TRUE]
           q == Untimed(p, gone)
<1>1. /\ "page" \in DOMAIN page.timers /\ page' = Flush(q)
      /\ UNCHANGED <<phase, doc, kid, spent, stale, miscounted, jumped, astray, loads, pending>>
  BY DEF IdleTimer, Expires, navigationVars
<1>2. PageOK(page) /\ IsPage(page) /\ Running(page) /\ IdleOK(page, stale, miscounted, jumped)
  BY DEF LoadingInv, PageOK
<1>3. page.active = 0
  BY <1>1, <1>2 DEF Running
<1>4. /\ IsPage(p) /\ SameLoading(page, p) /\ SameCounts(page, p) /\ SameFrames(page, p)
      /\ p.networkidle = TRUE /\ p.waiters = page.waiters /\ p.timers = page.timers
  BY <1>2 DEF IsPage, PageFields, SameLoading, SameFlags, SameCounts, SameFrames
<1> HIDE DEF p, gone
<1>5. /\ IsPage(q) /\ SameLoading(p, q) /\ SameCounts(p, q) /\ SameFrames(p, q)
      /\ q.networkidle = p.networkidle /\ q.waiters = p.waiters
      /\ q.timers = [t \in DOMAIN p.timers \ gone |-> p.timers[t] \ gone]
  BY <1>4, UntimedFields
<1> HIDE DEF q
<1>6. /\ SameLoading(page, q) /\ SameCounts(page, q) /\ SameFrames(page, q)
      /\ q.networkidle = TRUE /\ q.waiters = page.waiters
      /\ q.timers = [t \in DOMAIN page.timers \ gone |-> page.timers[t] \ gone]
  BY <1>4, <1>5 DEF SameLoading, SameFlags, SameCounts, SameFrames
<1>7. Running(q)
  <2>1. q.active \in Nat /\ IsQuiet(q.quiet)
    BY <1>2, <1>6 DEF Running, SameCounts
  <2>2. \A t \in DOMAIN page.timers \ (gone \cup {"page"}) : t \in DOMAIN q.quiet /\ q.quiet[t].active = 0
    BY <1>2, <1>6 DEF Running, SameCounts, gone
  <2>3. "page" \notin gone => (page.active = 0 => q.active = 0) /\ q.closed = page.closed
    BY DEF gone
  <2>4. QED
    BY <1>2, <1>6, <2>1, <2>2, <2>3, RunningStill
<1>8. PageOK(q)
  <2>1. Flagged(q)
    BY <1>2, <1>6 DEF PageOK, Flagged, SameLoading, SameFlags, SameFrames
  <2>2. q.loading \subseteq Frames /\ DOMAIN q.quiet \subseteq page.frames \cup {Main}
    BY <1>2, <1>6 DEF PageOK, Framed, SameLoading, SameCounts
  <2>3. QED
    BY <1>2, <1>5, <1>6, <1>7, <2>1, <2>2, SameFrame DEF SameCounts, SameFrames
<1>9. IdleOK(q, stale, miscounted, jumped)
  BY <1>2, <1>3, <1>6, NothingCounted DEF IdleOK, CountsRight, SameCounts
<1>10. /\ SameLoading(q, page') /\ SameCounts(q, page') /\ SameFrames(q, page')
       /\ page'.networkidle = q.networkidle /\ LetsGo(q, page')
  BY <1>1, <1>5, FlushFields
<1>11. PageOK(page')
  BY <1>1, <1>8, FlushOK
<1>12. IdleOK(page', stale, miscounted, jumped)
  BY <1>8, <1>9, <1>10, SameIdle
<1>13. /\ SameLoading(page, page') /\ SameFrames(page, page') /\ page'.sent = page.sent
  BY <1>6, <1>10 DEF SameLoading, SameFlags, SameCounts, SameFrames
<1>14. LetsGo(page, page')
  BY <1>6, <1>10 DEF LetsGo
<1>15. QED
  BY <1>1, <1>11, <1>12, <1>13, <1>14, RestStep

LEMMA FrameTimerStep ==
  ASSUME LoadingInv, NEW f \in Frames, FrameTimer(f), UNCHANGED navigationVars
  PROVE  LoadingInv' /\ GoRightly
<1> DEFINE gone == {f}
           p == [page EXCEPT !.quiet[f].reached = TRUE]
           q == Untimed(p, gone)
<1>1. /\ f \in DOMAIN page.timers /\ page' = Recalculate(q)
      /\ UNCHANGED <<phase, doc, kid, spent, stale, miscounted, jumped, astray, loads, pending>>
  BY DEF FrameTimer, Expires, navigationVars
<1>2. /\ PageOK(page) /\ IsPage(page) /\ Running(page) /\ IdleOK(page, stale, miscounted, jumped)
      /\ f # "page"
  BY FrameIsNotPage DEF LoadingInv, PageOK
<1>3. f \in DOMAIN page.quiet /\ page.quiet[f].active = 0 /\ page.quiet[f] \in QuietStates
  BY <1>1, <1>2 DEF Running, IsQuiet
<1>4. /\ IsPage(p) /\ SameLoading(page, p) /\ SameFrames(page, p)
      /\ p.active = page.active /\ p.sent = page.sent
      /\ p.quiet = [page.quiet EXCEPT ![f].reached = TRUE]
      /\ p.networkidle = page.networkidle /\ p.waiters = page.waiters /\ p.timers = page.timers
  BY <1>2 DEF IsPage, PageFields, SameLoading, SameFlags, SameFrames
<1> HIDE DEF p, gone
<1>5. /\ IsPage(q) /\ SameLoading(p, q) /\ SameCounts(p, q) /\ SameFrames(p, q)
      /\ q.networkidle = p.networkidle /\ q.waiters = p.waiters
      /\ q.timers = [t \in DOMAIN p.timers \ gone |-> p.timers[t] \ gone]
  BY <1>4, UntimedFields
<1> HIDE DEF q
<1>6. /\ SameLoading(page, q) /\ SameFrames(page, q)
      /\ q.active = page.active /\ q.sent = page.sent
      /\ q.networkidle = page.networkidle /\ q.waiters = page.waiters
      /\ q.timers = [t \in DOMAIN page.timers \ gone |-> page.timers[t] \ gone]
  BY <1>4, <1>5 DEF SameLoading, SameFlags, SameCounts, SameFrames
<1>7. q.quiet = [page.quiet EXCEPT ![f].reached = TRUE]
  BY <1>4, <1>5 DEF SameCounts
<1>8. /\ DOMAIN q.quiet = DOMAIN page.quiet /\ IsQuiet(q.quiet)
      /\ \A g \in DOMAIN page.quiet : q.quiet[g].active = page.quiet[g].active
  <2> DEFINE v == [page.quiet[f] EXCEPT !.reached = TRUE]
  <2>1. IsQuiet(page.quiet)
    BY <1>2 DEF Running
  <2>2. v \in QuietStates /\ v.active = page.quiet[f].active
    BY <1>3 DEF QuietStates
  <2>3. q.quiet = [page.quiet EXCEPT ![f] = v]
    BY <1>7
  <2> HIDE DEF v
  <2>4. QED
    BY <1>3, <2>1, <2>2, <2>3 DEF IsQuiet
<1>9. Running(q)
  <2>1. q.active \in Nat
    BY <1>2, <1>6 DEF Running
  <2>2. \A t \in DOMAIN page.timers \ (gone \cup {"page"}) : t \in DOMAIN q.quiet /\ q.quiet[t].active = 0
    BY <1>2, <1>8 DEF Running
  <2>3. (page.active = 0 => q.active = 0) /\ q.closed = page.closed
    BY <1>6 DEF SameFrames
  <2>4. QED
    BY <1>2, <1>6, <1>8, <2>1, <2>2, <2>3, RunningStill
<1>10. PageOK(q)
  <2>1. Flagged(q)
    BY <1>2, <1>6 DEF PageOK, Flagged, SameLoading, SameFlags, SameFrames
  <2>2. q.loading \subseteq Frames /\ DOMAIN q.quiet \subseteq page.frames \cup {Main}
    BY <1>2, <1>6, <1>8 DEF PageOK, Framed, SameLoading
  <2>3. QED
    BY <1>2, <1>5, <1>6, <1>9, <2>1, <2>2, SameFrame DEF SameFrames
<1>11. /\ IsPage(page') /\ SameLoading(q, page') /\ SameCounts(q, page') /\ SameFrames(q, page')
       /\ page'.timers = q.timers
       /\ page'.networkidle \in BOOLEAN /\ (page'.networkidle <=> SubtreeIdle(page'))
       /\ LetsGo(q, page')
  BY <1>1, <1>5, RecalculateFields
<1>12. PageOK(page')
  <2>1. Flagged(page')
    BY <1>10, <1>11 DEF PageOK, Flagged, SameLoading, SameFlags, SameFrames
  <2>2. page'.loading \subseteq q.loading
    BY <1>11 DEF SameLoading
  <2>3. QED
    BY <1>10, <1>11, <2>1, <2>2, FlagsOK DEF LetsGo
<1>13. IdleOK(page', stale, miscounted, jumped)
  <2>1. /\ page'.frames = page.frames /\ page'.active = page.active /\ page'.sent = page.sent
        /\ page'.quiet = [page.quiet EXCEPT ![f].reached = TRUE]
    BY <1>6, <1>7, <1>11 DEF SameCounts, SameFrames
  <2>2. QED
    BY <1>2, <1>3, <1>11, <1>12, <2>1, FrameTimerIdle
<1>14. /\ SameLoading(page, page') /\ SameFrames(page, page') /\ page'.sent = page.sent
  BY <1>6, <1>11 DEF SameLoading, SameFlags, SameCounts, SameFrames
<1>15. LetsGo(page, page')
  BY <1>6, <1>11 DEF LetsGo
<1>16. QED
  BY <1>1, <1>12, <1>13, <1>14, <1>15, RestStep

LEMMA LoadingStep ==
  ASSUME LoadingInv, LoadingNext, UNCHANGED navigationVars
  PROVE  LoadingInv' /\ GoRightly
<1>1. CASE \E r \in Requests, f \in Frames : Send(r, f)
  BY <1>1, SendStep
<1>2. CASE \E r \in Requests \cup Loads : Settle(r)
  BY <1>2, SettleStep
<1>3. CASE Parsed \/ ContentLoads \/ PageLoads \/ Jump
  BY <1>3, ParsedStep, ContentLoadsStep, PageLoadsStep, JumpStep
<1>4. CASE \E f \in Children : FrameEvents(f)
  <2> SUFFICES ASSUME NEW f \in Children, FrameEvents(f) PROVE LoadingInv' /\ GoRightly
    BY <1>4
  <2>1. CASE AttachFrame(f) \/ CommitFrame(f)
    BY <2>1, AttachFrameStep, CommitFrameStep
  <2>2. CASE FailFrame(f) \/ FrameLoads(f) \/ DetachFrame(f)
    BY <2>2, FailFrameStep, FrameLoadsStep, DetachFrameStep
  <2>3. CASE \E r \in Requests : StartFrame(f, r)
    BY <2>3, StartFrameStep
  <2>4. QED
    BY <2>1, <2>2, <2>3 DEF FrameEvents
<1>5. CASE IdleTimer
  BY <1>5, IdleTimerStep
<1>6. CASE \E f \in Frames : FrameTimer(f)
  BY <1>6, FrameTimerStep
<1>7. CASE \E r \in Requests \cup Loads, hop \in Requests : Redirect(r, hop)
  BY <1>7, RedirectStep
<1>8. QED
  BY <1>1, <1>2, <1>3, <1>4, <1>5, <1>6, <1>7 DEF LoadingNext

-----------------------------------------------------------------------------
(* The adapter and the browser: the loads of the main frame.               *)

LEMMA NothingPending ==
  ASSUME pending' = Nothing
  PROVE  PendingOK'
<1>1. (CHOOSE u \in Urls : TRUE) \in Urls
  BY NavigationAssumption
<1>2. NoLoad \in 0 .. MaxLoads
  BY LoadingAssumption DEF NoLoad
<1>3. QED
  BY <1>1, <1>2 DEF PendingOK, Nothing

LEMMA LoadIsNoRequest ==
  ASSUME LoadingInv
  PROVE  /\ pending.load \notin Requests /\ 0 \notin DOMAIN page.sent
         /\ pending.load # NoLoad => pending.load \in DOMAIN page.sent /\ page.sent[pending.load] = Main
         /\ \A f \in Children : phase[f] = "starting" => kid[f] # pending.load
<1>1. pending.load \in 0 .. MaxLoads
  BY DEF LoadingInv, PendingOK
<1>2. pending.load \notin Requests
  BY <1>1, LoadingAssumption
<1>3. 0 \notin DOMAIN page.sent
  BY LoadingAssumption DEF LoadingInv, DocsOK
<1>4. QED
  BY <1>2, <1>3 DEF LoadingInv, DocsOK, PendingOK

\* The load that is not committed is given up, if there is one.
LEMMA CancelPage ==
  ASSUME LoadingInv, ~page.closed
  PROVE  /\ PageOK(Cancelled) /\ SameFrames(page, Cancelled)
         /\ EndsThese(page, Cancelled, {pending.load}) /\ LetsGo(page, Cancelled)
         /\ LoadOK(Cancelled, phase[Main], astray \/ LoadLost)
         /\ IdleOK(Cancelled, stale \ {pending.load},
                   miscounted \/ stale \cap {pending.load} # {}, jumped)
<1> DEFINE l == pending.load
           q == Cancelled
<1>1. PageOK(page) /\ IsPage(page) /\ IdleOK(page, stale, miscounted, jumped)
  BY DEF LoadingInv, PageOK
<1>2. CASE l = NoLoad
  <2>1. q = page
    BY <1>2 DEF Cancelled
  <2>2. 0 \notin DOMAIN page.sent /\ 0 \notin stale /\ l = 0
    BY <1>2, LoadIsNoRequest, LoadingAssumption DEF LoadingInv, DocsOK, NoLoad
  <2>3. SameFrames(page, q) /\ EndsThese(page, q, {l}) /\ LetsGo(page, q)
    BY <2>1, <2>2 DEF SameFrames, EndsThese, LetsGo
  <2>4. LoadOK(q, phase[Main], astray \/ LoadLost)
    BY <2>1 DEF LoadingInv, LoadOK
  <2>5. stale \ {l} = stale /\ stale \cap {l} = {}
    BY <2>2
  <2>6. IdleOK(q, stale \ {l}, miscounted \/ stale \cap {l} # {}, jumped)
    BY <1>1, <2>1, <2>5 DEF IdleOK
  <2>7. QED
    BY <1>1, <2>1, <2>3, <2>4, <2>6
<1>3. CASE l # NoLoad
  <2>1. q = DocumentFailed(page, l) /\ l \in DOMAIN page.sent /\ page.sent[l] = Main
    BY <1>3, LoadIsNoRequest DEF Cancelled
  <2> HIDE DEF l, q
  <2>2. PageOK(q) /\ EndsOne(page, q, l) /\ EndsThese(page, q, {l})
    BY <1>1, <2>1, EndedPage
  <2>3. IdleOK(q, stale \ {l}, miscounted \/ stale \cap {l} # {}, jumped)
    BY <1>1, <2>1, <2>2, EndedIdle
  <2>4. q.domcontentloaded <=> page.domcontentloaded \/ page.sent[l] = Main
    BY <1>1, <2>1, DocumentFailedFields
  <2>5. LoadOK(q, phase[Main], astray \/ LoadLost)
    BY <1>3, <2>1, <2>4 DEF LoadOK, LoadLost, l
  <2>6. QED
    BY <2>2, <2>3, <2>5 DEF EndsOne, l, q
<1>4. QED
  BY <1>2, <1>3

LEMMA CancelStep ==
  ASSUME LoadingInv, ~page.closed, page' = Cancelled, pending' = Nothing, Ended({pending.load}),
         astray' = (astray \/ LoadLost), UNCHANGED <<phase, doc, kid, spent, jumped, loads>>
  PROVE  LoadingInv' /\ GoRightly
<1> DEFINE l == pending.load
<1>1. /\ PageOK(page') /\ SameFrames(page, page')
      /\ EndsThese(page, page', {l}) /\ LetsGo(page, page')
  BY CancelPage
<1>2. LoadOK(page', phase[Main], astray \/ LoadLost)
  BY CancelPage
<1>3. IdleOK(page', stale \ {l}, miscounted \/ stale \cap {l} # {}, jumped)
  BY CancelPage
<1>4. stale' = stale \ {l} /\ miscounted' = (miscounted \/ stale \cap {l} # {})
  BY DEF Ended
<1>5. IdleOK(page, stale, miscounted, jumped)'
  BY <1>3, <1>4 DEF IdleOK
<1>6. LoadOK(page, phase[Main], astray)'
  BY <1>2 DEF LoadOK
<1>7. DocsOK'
  <2>1. /\ DOMAIN page'.sent = DOMAIN page.sent \ {l}
        /\ \A x \in DOMAIN page'.sent : page'.sent[x] = page.sent[x]
        /\ page'.frames = page.frames
    BY <1>1 DEF EndsThese, SameFrames
  <2>2. \A f \in Children : phase[f] = "starting" => kid[f] # l
    BY LoadIsNoRequest
  <2> HIDE DEF l
  <2>3. miscounted' \in BOOLEAN /\ astray' \in BOOLEAN /\ stale' \subseteq stale
    BY <1>4 DEF LoadingInv, DocsOK
  <2>4. QED
    BY <2>1, <2>2, <2>3 DEF LoadingInv, DocsOK
<1>8. PendingOK'
  BY NothingPending
<1>9. GoRightly
  BY <1>1, <1>6, LetGoAfter DEF LoadingInv
<1>10. QED
  BY <1>1, <1>5, <1>6, <1>7, <1>8, <1>9 DEF LoadingInv

LEMMA StartLoadStep ==
  ASSUME LoadingInv, ~page.closed, NEW u \in Urls, NEW c \in Calls \cup {NoCall}, NEW cs,
         StartLoad(u, c, cs)
  PROVE  LoadingInv' /\ GoRightly
<1> DEFINE old == pending.load
           l == loads + 1
           q == Cancelled
           p == WillBeSent(q, l, Main)
<1>1. /\ loads < MaxLoads /\ loads' = l /\ pending' = [load |-> l, url |-> u, by |-> c]
      /\ page' \in {p, StartedLoading(p, Main)}
      /\ stale' = stale \ {old} /\ miscounted' = (miscounted \/ stale \cap {old} # {})
      /\ jumped' = FALSE /\ astray' = (astray \/ LoadLost)
      /\ UNCHANGED <<phase, doc, kid, spent>>
  BY DEF StartLoad, Ended
<1>2. /\ PageOK(q) /\ SameFrames(page, q)
      /\ EndsThese(page, q, {old}) /\ LetsGo(page, q)
  BY CancelPage
<1>3. LoadOK(q, phase[Main], astray \/ LoadLost)
  BY CancelPage
<1>4. IdleOK(q, stale \ {old}, miscounted \/ stale \cap {old} # {}, jumped)
  BY CancelPage
<1>5. IdleOK(q, stale', miscounted', jumped)
  BY <1>1, <1>4 DEF IdleOK
<1> HIDE DEF q
<1>6. /\ DOMAIN q.sent = DOMAIN page.sent \ {old}
      /\ \A x \in DOMAIN q.sent : q.sent[x] = page.sent[x]
      /\ q.frames = page.frames
  BY <1>2 DEF EndsThese, SameFrames
<1>7. \A f \in Children : phase[f] = "starting" => kid[f] # old
  BY LoadIsNoRequest
<1> HIDE DEF old
<1>8. /\ loads \in Nat /\ MaxLoads \in Nat /\ l \in 1 .. MaxLoads /\ l \notin 1 .. loads
      /\ doc \in 0 .. l /\ doc < l
  BY <1>1, LoadingAssumption DEF LoadingInv, DocsOK
<1>9. l \notin Requests
  BY <1>8, LoadingAssumption
<1>10. l \notin DOMAIN page.sent /\ l \notin stale
  BY <1>8, <1>9 DEF LoadingInv, DocsOK
<1>11. l \notin DOMAIN q.sent \cup stale'
  BY <1>1, <1>6, <1>10
<1> HIDE DEF l
<1>12. /\ PageOK(p) /\ IdleOK(p, stale', miscounted', jumped')
       /\ SameFrames(q, p) /\ SameLoading(q, p) /\ LetsGo(q, p)
       /\ SendsOne(q, p, l, Main)
  <2>1. Main \in q.frames \cup {Main}
    OBVIOUS
  <2>2. stale' \ {l} = stale'
    BY <1>11
  <2>3. QED
    BY <1>1, <1>2, <1>5, <1>11, <2>1, <2>2, SentDocs
<1> HIDE DEF p
<1>13. /\ PageOK(page') /\ SameFlags(p, page') /\ SameCounts(p, page') /\ SameFrames(p, page')
       /\ page'.networkidle => p.networkidle
       /\ page'.waiters = p.waiters
  <2>1. CASE page' = p
    BY <1>12, <2>1 DEF SameFlags, SameCounts, SameFrames
  <2>2. CASE page' = StartedLoading(p, Main)
    <3>1. /\ SameFlags(p, page') /\ SameCounts(p, page') /\ SameFrames(p, page')
          /\ page'.networkidle = FALSE /\ page'.waiters = p.waiters
      BY <1>12, <2>2, StartedLoadingFields DEF PageOK
    <3>2. PageOK(page')
      BY <1>12, <2>2, StartOK DEF Frames
    <3>3. QED
      BY <3>1, <3>2
  <2>3. QED
    BY <1>1, <2>1, <2>2
<1>14. IdleOK(page, stale, miscounted, jumped)'
  BY <1>12, <1>13, SameIdle
<1>15. SameFlags(q, page')
  BY <1>12, <1>13 DEF SameLoading, SameFlags
<1>16. LoadOK(page, phase[Main], astray)'
  BY <1>1, <1>3, <1>15 DEF LoadOK, SameFlags
<1>17. LetsGo(page, page')
  <2>1. LetsGo(q, page')
    BY <1>12, <1>13 DEF LetsGo, Satisfied, SameFlags
  <2>2. QED
    BY <1>2, <1>15, <2>1, LetsGoOn
<1>18. /\ DOMAIN page'.sent = DOMAIN q.sent \cup {l} /\ page'.sent[l] = Main
       /\ \A x \in DOMAIN q.sent : page'.sent[x] = q.sent[x]
       /\ page'.frames = page.frames
  BY <1>6, <1>12, <1>13 DEF SendsOne, SameCounts, SameFrames
<1>19. DocsOK'
  <2>1. \A f \in Children : phase[f] = "starting" =>
          kid[f] \in DOMAIN page'.sent /\ page'.sent[kid[f]] = f
    BY <1>6, <1>7, <1>18 DEF LoadingInv, DocsOK
  <2>2. miscounted' \in BOOLEAN /\ astray' \in BOOLEAN
    BY <1>1 DEF LoadingInv, DocsOK
  <2>3. DOMAIN page'.sent \subseteq spent \cup (1 .. loads') /\ stale' \subseteq spent \cup (1 .. loads')
    BY <1>1, <1>6, <1>8, <1>18 DEF LoadingInv, DocsOK, l
  <2>4. loads' \in 0 .. MaxLoads /\ doc' \in 0 .. loads'
    BY <1>1, <1>8
  <2>5. QED
    BY <1>1, <1>18, <2>1, <2>2, <2>3, <2>4 DEF LoadingInv, DocsOK
<1>20. PendingOK'
  BY <1>1, <1>8, <1>18 DEF PendingOK
<1>21. GoRightly
  BY <1>16, <1>17, LetGoAfter DEF LoadingInv
<1>22. QED
  BY <1>13, <1>14, <1>16, <1>19, <1>20, <1>21 DEF LoadingInv

\* The frames of the document go with it.
LEMMA FramesGo ==
  ASSUME LoadingInv, ~page.closed, NEW theirs, theirs = {r \in DOMAIN page.sent : page.sent[r] \in Children}
  PROVE  LET q == Detached(page, page.frames) IN
         /\ PageOK(q) /\ Leaves(page, q, page.frames) /\ EndsThese(page, q, theirs)
         /\ IdleOK(q, stale \ theirs, miscounted \/ stale \cap theirs # {}, jumped)
<1> DEFINE S == page.frames
           q == Detached(page, S)
<1>1. PageOK(page) /\ IdleOK(page, stale, miscounted, jumped)
  BY DEF LoadingInv
<1>2. theirs = {r \in DOMAIN page.sent : page.sent[r] \in S} /\ S \in SUBSET page.frames
  BY <1>1, LoadingAssumption DEF PageOK, Framed
<1> HIDE DEF S
<1>3. PageOK(q) /\ Leaves(page, q, S) /\ EndsThese(page, q, theirs)
  BY <1>1, <1>2, DetachedPage
<1>4. IdleOK(q, stale \ theirs, miscounted \/ stale \cap theirs # {}, jumped)
  BY <1>1, <1>2, DetachIdle
<1> HIDE DEF q
<1>5. QED
  BY <1>3, <1>4 DEF q, S

LEMMA ReplacedPhase ==
  ASSUME LoadingInv, phase' = Replaced
  PROVE  /\ phase' \in [Frames -> {"none", "gone", "blank", "starting", "parsing", "interactive", "ready", "loaded"}]
         /\ phase'[Main] = "parsing"
         /\ \A f \in Children : phase'[f] \in {"none", "gone"}
  BY FramePlace, LoadingAssumption DEF Replaced, LoadingInv, DocsOK, Frames

LEMMA CommitStep ==
  ASSUME LoadingInv, Commit
  PROVE  LoadingInv' /\ GoRightly
<1> DEFINE theirs == {r \in DOMAIN page.sent : page.sent[r] \in Children}
           p == Detached(page, page.frames)
<1>1. /\ ~page.closed /\ pending.load # NoLoad /\ page' = Navigated(p, Main)
      /\ phase' = Replaced /\ doc' = pending.load /\ pending' = Nothing
      /\ stale' = stale \ theirs /\ miscounted' = (miscounted \/ stale \cap theirs # {})
      /\ jumped' = FALSE /\ astray' = FALSE /\ kid' = [f \in Children |-> NoRequest]
      /\ UNCHANGED <<spent, loads>>
  BY DEF Commit, Ended
<1>2. theirs = {r \in DOMAIN page.sent : page.sent[r] \in Children}
  OBVIOUS
<1> HIDE DEF theirs
<1>3. /\ PageOK(p) /\ Leaves(page, p, page.frames) /\ EndsThese(page, p, theirs)
  BY <1>1, <1>2, FramesGo
<1>4. IdleOK(p, stale \ theirs, miscounted \/ stale \cap theirs # {}, jumped)
  BY <1>1, <1>2, FramesGo
<1> HIDE DEF p
<1>5. /\ SameFrames(p, page') /\ page'.load = FALSE /\ page'.sent = p.sent
      /\ page'.waiters = p.waiters
      /\ page'.domcontentloaded = FALSE /\ page'.same = FALSE /\ page'.networkidle = FALSE
  BY <1>1, <1>3, NavigatedFields DEF PageOK
<1>6. PageOK(page')
  BY <1>1, <1>3, NavigateOK
<1>7. IdleOK(page, stale, miscounted, jumped)'
  <2>1. IdleOK(page', stale \ theirs, miscounted \/ stale \cap theirs # {}, jumped)
    BY <1>1, <1>3, <1>4, NavigateIdle
  <2>2. QED
    BY <1>1, <1>5, <2>1 DEF IdleOK
<1>8. LoadOK(page, phase[Main], astray)'
  BY <1>5 DEF LoadOK
<1>9. GoRightly
  BY <1>3, <1>5, LetGoBefore DEF Leaves, LoadingInv
<1>10. /\ DOMAIN page'.sent \subseteq DOMAIN page.sent /\ page'.frames = {}
  BY <1>3, <1>5 DEF EndsThese, Leaves, SameFrames
<1>11. /\ phase' \in [Frames -> {"none", "gone", "blank", "starting", "parsing", "interactive", "ready", "loaded"}]
       /\ phase'[Main] = "parsing"
       /\ \A f \in Children : phase'[f] \in {"none", "gone"}
  BY <1>1, ReplacedPhase
<1>12. DocsOK'
  <2>1. page'.frames = {f \in Children : phase'[f] \notin {"none", "gone"}}
    BY <1>10, <1>11
  <2>2. kid' \in [Children -> Requests \cup {NoRequest}]
        /\ \A f \in Children : phase'[f] # "starting"
    BY <1>1, <1>11
  <2>3. doc' \in 0 .. loads'
    BY <1>1 DEF LoadingInv, DocsOK, PendingOK
  <2>4. miscounted' \in BOOLEAN /\ stale' \subseteq stale
    BY <1>1 DEF LoadingInv, DocsOK
  <2>5. QED
    BY <1>1, <1>10, <1>11, <2>1, <2>2, <2>3, <2>4 DEF LoadingInv, DocsOK
<1>13. PendingOK'
  BY <1>1, NothingPending
<1>14. QED
  BY <1>6, <1>7, <1>8, <1>9, <1>12, <1>13 DEF LoadingInv

LEMMA WriteStep ==
  ASSUME LoadingInv, NEW c \in Calls, Write(c)
  PROVE  LoadingInv' /\ GoRightly
<1> DEFINE theirs == {r \in DOMAIN page.sent : page.sent[r] \in Children}
<1>1. /\ ~page.closed /\ pending.load = NoLoad /\ page' = Detached(page, page.frames)
      /\ phase' = Replaced
      /\ stale' = stale \ theirs /\ miscounted' = (miscounted \/ stale \cap theirs # {})
      /\ astray' = (astray \/ page.load \/ page.domcontentloaded) /\ kid' = [f \in Children |-> NoRequest]
      /\ UNCHANGED <<doc, spent, jumped, loads, pending>>
  BY DEF Write, Ended
<1>2. theirs = {r \in DOMAIN page.sent : page.sent[r] \in Children}
  OBVIOUS
<1> HIDE DEF theirs
<1>3. /\ PageOK(page') /\ Leaves(page, page', page.frames) /\ EndsThese(page, page', theirs)
  BY <1>1, <1>2, FramesGo
<1>4. IdleOK(page', stale \ theirs, miscounted \/ stale \cap theirs # {}, jumped)
  BY <1>1, <1>2, FramesGo
<1>5. IdleOK(page, stale, miscounted, jumped)'
  BY <1>1, <1>4 DEF IdleOK
<1>6. LoadOK(page, phase[Main], astray)'
  <2>1. page.same => page.domcontentloaded \/ astray
    BY DEF LoadingInv, LoadOK
  <2>2. page'.load = page.load /\ page'.domcontentloaded = page.domcontentloaded /\ page'.same = page.same
    BY <1>3 DEF Leaves, SameFlags
  <2>3. QED
    BY <1>1, <2>1, <2>2 DEF LoadOK
<1>7. GoRightly
  BY <1>3, LetGoBefore DEF Leaves, LoadingInv
<1>8. /\ DOMAIN page'.sent \subseteq DOMAIN page.sent /\ page'.frames = {}
  BY <1>3 DEF EndsThese, Leaves
<1>9. /\ phase' \in [Frames -> {"none", "gone", "blank", "starting", "parsing", "interactive", "ready", "loaded"}]
      /\ phase'[Main] = "parsing"
      /\ \A f \in Children : phase'[f] \in {"none", "gone"}
  BY <1>1, ReplacedPhase
<1>10. DocsOK'
  <2>1. page'.frames = {f \in Children : phase'[f] \notin {"none", "gone"}}
    BY <1>8, <1>9
  <2>2. kid' \in [Children -> Requests \cup {NoRequest}]
        /\ \A f \in Children : phase'[f] # "starting"
    BY <1>1, <1>9
  <2>3. miscounted' \in BOOLEAN /\ stale' \subseteq stale
    BY <1>1 DEF LoadingInv, DocsOK
  <2>4. astray' \in BOOLEAN
    BY <1>1 DEF LoadingInv, DocsOK
  <2>5. QED
    BY <1>1, <1>8, <1>9, <2>1, <2>2, <2>3, <2>4 DEF LoadingInv, DocsOK
<1>11. PendingOK'
  BY <1>1 DEF LoadingInv, PendingOK
<1>12. QED
  BY <1>3, <1>5, <1>6, <1>7, <1>10, <1>11 DEF LoadingInv

-----------------------------------------------------------------------------
(* The adapter: what calls do to it.                                       *)

\* The state is reset.
LEMMA ResetStep ==
  ASSUME LoadingInv,
         page' \in {Reset(page)} \cup {[Reset(page) EXCEPT !.allow = b] : b \in BOOLEAN},
         Recount, UNCHANGED <<phase, doc, kid, spent, loads, pending>>
  PROVE  LoadingInv' /\ GoRightly
<1> DEFINE q == Reset(page)
<1>1. PageOK(page) /\ IsPage(page)
  BY DEF LoadingInv, PageOK
<1>2. /\ IsPage(q) /\ SameFrames(page, q)
      /\ q.load = FALSE /\ q.domcontentloaded = FALSE /\ q.networkidle = FALSE
      /\ q.same = FALSE /\ q.allow = FALSE /\ q.loading = {}
      /\ q.active = 0 /\ q.sent = page.sent /\ q.quiet = None /\ q.timers = None
      /\ q.waiters = page.waiters
  BY <1>1, ResetFields
<1>3. PageOK(q)
  BY <1>1, ResetOK
<1>4. PICK b \in BOOLEAN : page' = q \/ page' = [q EXCEPT !.allow = b]
  OBVIOUS
<1> HIDE DEF q
<1>5. /\ IsPage(page') /\ SameFrames(q, page') /\ SameCounts(q, page')
      /\ page'.load = FALSE /\ page'.domcontentloaded = FALSE /\ page'.networkidle = FALSE
      /\ page'.same = FALSE /\ page'.allow \in BOOLEAN /\ page'.loading = {}
      /\ page'.timers = q.timers /\ page'.waiters = page.waiters
  BY <1>2, <1>4 DEF IsPage, PageFields, SameFrames, SameCounts
<1>6. PageOK(page')
  <2>1. Flagged(page')
    BY <1>3, <1>5 DEF PageOK, Flagged, SameFrames
  <2>2. QED
    BY <1>2, <1>3, <1>5, <2>1, FlagsOK
<1>7. /\ stale' = DOMAIN page.sent /\ miscounted' = FALSE /\ jumped' = FALSE /\ astray' = FALSE
  BY DEF Recount
<1>8. IdleOK(page, stale, miscounted, jumped)'
  <2>1. page'.active = 0 /\ page'.quiet = None /\ DOMAIN page'.sent \ stale' = {} /\ DOMAIN None = {}
    BY <1>2, <1>5, <1>7 DEF SameCounts, None
  <2>2. CountsRight(page', stale')
    <3>1. Cardinality(DOMAIN page'.sent \ stale') = 0
      BY <2>1, FS_EmptySet
    <3>2. QED
      BY <2>1, <3>1 DEF CountsRight
  <2>3. QED
    BY <1>5, <2>1, <2>2 DEF IdleOK
<1>9. LoadOK(page, phase[Main], astray)'
  BY <1>5 DEF LoadOK
<1>10. page'.sent = page.sent /\ page'.frames = page.frames
  BY <1>2, <1>5 DEF SameCounts, SameFrames
<1>11. DocsOK'
  BY <1>7, <1>10 DEF LoadingInv, DocsOK
<1>12. PendingOK'
  BY <1>10 DEF LoadingInv, PendingOK
<1>13. GoRightly
  BY <1>5, NobodyGoes
<1>14. QED
  BY <1>6, <1>8, <1>9, <1>11, <1>12, <1>13 DEF LoadingInv

\* Nothing but the adapter changes.
LEMMA AdapterStep ==
  ASSUME LoadingInv, PageOK(page'), page'.sent = page.sent, page'.frames = page.frames,
         IdleOK(page', stale, miscounted, jumped), LoadOK(page', phase[Main], astray),
         UNCHANGED <<phase, doc, kid, spent, stale, miscounted, jumped, astray, loads, pending>>
  PROVE  LoadingInv'
<1>1. DocsOK' /\ PendingOK'
  BY DEF LoadingInv, DocsOK, PendingOK
<1>2. LoadOK(page, phase[Main], astray)' /\ IdleOK(page, stale, miscounted, jumped)'
  OBVIOUS
<1>3. QED
  BY <1>1, <1>2 DEF LoadingInv

\* A wait begins; who is satisfied at once is so with reason.
LEMMA AwaitStep ==
  ASSUME LoadingInv, NEW q \in {page, Synced(page, phase[Main])}, NEW c \in Calls, NEW u \in States,
         page' = Awaits(q, c, u),
         UNCHANGED <<phase, doc, kid, spent, stale, miscounted, jumped, astray, loads, pending>>
  PROVE  /\ LoadingInv' /\ LeaveRightly
         /\ page'.waiters \subseteq page.waiters \cup {[call |-> c, state |-> u]}
         /\ [call |-> c, state |-> u] \notin page'.waiters => Reached(u) \/ astray
<1>1. PageOK(page) /\ IsPage(page) /\ IdleOK(page, stale, miscounted, jumped) /\ LoadOK(page, phase[Main], astray)
  BY DEF LoadingInv, PageOK
<1>2. /\ PageOK(q) /\ IsPage(q) /\ SameCounts(page, q) /\ SameFrames(page, q)
      /\ LoadOK(q, phase[Main], astray)
      /\ q.networkidle = page.networkidle /\ LetsGo(page, q)
  <2>1. CASE q = page
    BY <1>1, <2>1 DEF SameCounts, SameFrames, LetsGo
  <2>2. CASE q = Synced(page, phase[Main])
    <3>1. /\ IsPage(q) /\ SameCounts(page, q) /\ SameFrames(page, q)
          /\ q.load <=> phase[Main] = "loaded"
          /\ q.domcontentloaded <=> phase[Main] # "parsing"
          /\ q.same = page.same
          /\ q.networkidle = page.networkidle /\ LetsGo(page, q)
      BY <1>1, <2>2, SyncedFields
    <3>2. PageOK(q)
      BY <1>1, <2>2, SyncedOK
    <3>3. LoadOK(q, phase[Main], astray)
      BY <1>1, <3>1 DEF LoadOK, LoadingInv, DocsOK
    <3>4. QED
      BY <3>1, <3>2, <3>3
  <2>3. QED
    BY <2>1, <2>2
<1> DEFINE new == [call |-> c, state |-> u]
           W == q.waiters \cup {new}
<1>3. /\ SameLoading(q, page') /\ SameCounts(q, page') /\ SameFrames(q, page')
      /\ page'.networkidle = q.networkidle
      /\ page'.waiters \subseteq W
      /\ \A w \in W \ page'.waiters :
           w.state \in {"domcontentloaded", "load"} => Satisfied(page', w.state)
  BY <1>2, AwaitsFields
<1>4. PageOK(page')
  BY <1>2, AwaitsOK
<1>5. IdleOK(page', stale, miscounted, jumped)
  <2>1. SameCounts(page, page') /\ page'.networkidle = page.networkidle
    BY <1>2, <1>3 DEF SameCounts
  <2>2. QED
    BY <1>1, <2>1, SameIdle
<1>6. LoadOK(page', phase[Main], astray)
  BY <1>2, <1>3 DEF LoadOK, SameLoading, SameFlags
<1>7. LoadingInv'
  <2>1. page'.sent = page.sent /\ page'.frames = page.frames
    BY <1>2, <1>3 DEF SameCounts, SameFrames
  <2>2. QED
    BY <1>4, <1>5, <1>6, <2>1, AdapterStep
<1>8. ASSUME NEW w \in W \ page'.waiters, w.state \in States, ~astray
      PROVE  Reached(w.state)
  <2>1. CASE w.state = "networkidle"
    BY <2>1 DEF Reached
  <2>2. CASE w.state \in {"domcontentloaded", "load"}
    <3>1. Satisfied(page', w.state)
      BY <1>3, <2>2
    <3>2. QED
      BY <1>6, <1>8, <2>2, <3>1 DEF LoadOK, Satisfied, Reached
  <2>3. QED
    BY <1>8, <2>1, <2>2 DEF States
<1>9. ASSUME NEW w \in page.waiters \ q.waiters, ~astray
      PROVE  Reached(w.state)
  <2>1. w.state \in States
    BY <1>1 DEF PageOK, Waited
  <2>2. CASE w.state = "networkidle"
    BY <2>2 DEF Reached
  <2>3. CASE w.state \in {"domcontentloaded", "load"}
    <3>1. Satisfied(q, w.state)
      BY <1>2, <2>3 DEF LetsGo
    <3>2. QED
      BY <1>2, <1>9, <2>3, <3>1 DEF LoadOK, Satisfied, Reached
  <2>4. QED
    BY <2>1, <2>2, <2>3 DEF States
<1>10. LeaveRightly
  <2>1. ASSUME NEW w \in page.waiters \ page'.waiters, ~astray PROVE Reached(w.state)
    <3>1. w.state \in States
      BY <1>1 DEF PageOK, Waited
    <3>2. QED
      BY <1>8, <1>9, <2>1, <3>1
  <2>2. QED
    BY <2>1 DEF LeaveRightly
<1>11. new \notin page'.waiters => Reached(u) \/ astray
  <2>1. new.state = u
    OBVIOUS
  <2>2. QED
    BY <1>8, <2>1
<1>12. page'.waiters \subseteq page.waiters \cup {new}
  BY <1>2, <1>3 DEF LetsGo
<1>13. QED
  BY <1>7, <1>10, <1>11, <1>12

LEMMA TimeOutStep ==
  ASSUME LoadingInv, NEW c \in Calls, TimeOut(c)
  PROVE  LoadingInv' /\ page'.waiters = {w \in page.waiters : w.call # c}
<1>1. /\ page' = [page EXCEPT !.waiters = {w \in @ : w.call # c}]
      /\ UNCHANGED <<phase, doc, kid, spent, stale, miscounted, jumped, astray, loads, pending>>
  BY DEF TimeOut
<1>2. PageOK(page) /\ IsPage(page) /\ IdleOK(page, stale, miscounted, jumped) /\ LoadOK(page, phase[Main], astray)
  BY DEF LoadingInv, PageOK
<1>3. /\ IsPage(page') /\ SameLoading(page, page') /\ SameCounts(page, page') /\ SameFrames(page, page')
      /\ page'.networkidle = page.networkidle /\ page'.timers = page.timers
      /\ page'.waiters = {w \in page.waiters : w.call # c}
  BY <1>1, <1>2 DEF IsPage, PageFields, SameLoading, SameFlags, SameCounts, SameFrames
<1>4. PageOK(page')
  <2>1. Flagged(page')
    BY <1>2, <1>3 DEF PageOK, Flagged, SameLoading, SameFlags, SameFrames
  <2>2. page'.loading \subseteq page.loading /\ page'.waiters \subseteq page.waiters
    BY <1>3 DEF SameLoading
  <2>3. QED
    BY <1>2, <1>3, <2>1, <2>2, FlagsOK
<1>5. IdleOK(page', stale, miscounted, jumped)
  BY <1>2, <1>3, SameIdle
<1>6. LoadOK(page', phase[Main], astray)
  BY <1>2, <1>3 DEF LoadOK, SameLoading, SameFlags
<1>7. page'.sent = page.sent /\ page'.frames = page.frames
  BY <1>3 DEF SameCounts, SameFrames
<1>8. QED
  BY <1>1, <1>3, <1>4, <1>5, <1>6, <1>7, AdapterStep

LEMMA CloseStep ==
  ASSUME LoadingInv, Close
  PROVE  LoadingInv' /\ page'.waiters = {} /\ page'.closed
<1> DEFINE gone == {"page"}
           p == [page EXCEPT !.closed = TRUE, !.waiters = {}]
<1>1. /\ page' = Untimed(p, gone)
      /\ UNCHANGED <<phase, doc, kid, spent, stale, miscounted, jumped, astray, loads, pending>>
  BY DEF Close
<1>2. PageOK(page) /\ IsPage(page) /\ Running(page) /\ IdleOK(page, stale, miscounted, jumped) /\ LoadOK(page, phase[Main], astray)
  BY DEF LoadingInv, PageOK
<1>3. /\ IsPage(p) /\ SameLoading(page, p) /\ SameCounts(page, p) /\ p.frames = page.frames /\ p.closed = TRUE
      /\ p.networkidle = page.networkidle /\ p.timers = page.timers /\ p.waiters = {}
  BY <1>2 DEF IsPage, PageFields, SameLoading, SameFlags, SameCounts
<1> HIDE DEF p, gone
<1>4. /\ IsPage(page') /\ SameLoading(p, page') /\ SameCounts(p, page') /\ SameFrames(p, page')
      /\ page'.networkidle = p.networkidle /\ page'.waiters = p.waiters
      /\ page'.timers = [t \in DOMAIN p.timers \ gone |-> p.timers[t] \ gone]
  BY <1>1, <1>3, UntimedFields
<1>5. /\ SameLoading(page, page') /\ SameCounts(page, page') /\ page'.frames = page.frames /\ page'.closed = TRUE
      /\ page'.networkidle = page.networkidle /\ page'.waiters = {}
      /\ page'.timers = [t \in DOMAIN page.timers \ gone |-> page.timers[t] \ gone]
  BY <1>3, <1>4 DEF SameLoading, SameFlags, SameCounts, SameFrames
<1>6. Running(page')
  <2>1. page'.active \in Nat /\ IsQuiet(page'.quiet)
    BY <1>2, <1>5 DEF Running, SameCounts
  <2>2. \A t \in DOMAIN page.timers \ (gone \cup {"page"}) : t \in DOMAIN page'.quiet /\ page'.quiet[t].active = 0
    BY <1>2, <1>5 DEF Running, SameCounts, gone
  <2>3. "page" \notin gone => (page.active = 0 => page'.active = 0) /\ page'.closed = page.closed
    BY DEF gone
  <2>4. QED
    BY <1>2, <1>5, <2>1, <2>2, <2>3, RunningStill
<1>7. PageOK(page')
  <2>1. Flagged(page')
    BY <1>2, <1>5 DEF PageOK, Flagged, SameLoading, SameFlags
  <2>2. /\ page'.loading \subseteq Frames /\ DOMAIN page'.quiet \subseteq page.frames \cup {Main}
        /\ page'.sent = page.sent
    BY <1>2, <1>5 DEF PageOK, Framed, SameLoading, SameCounts
  <2>3. page'.waiters \subseteq page.waiters
    BY <1>5
  <2>4. QED
    BY <1>2, <1>4, <1>5, <1>6, <2>1, <2>2, <2>3, SameFrame
<1>8. IdleOK(page', stale, miscounted, jumped)
  BY <1>2, <1>5, SameIdle
<1>9. LoadOK(page', phase[Main], astray)
  BY <1>2, <1>5 DEF LoadOK, SameLoading, SameFlags
<1>10. QED
  BY <1>1, <1>5, <1>7, <1>8, <1>9, AdapterStep DEF SameCounts

-----------------------------------------------------------------------------
(* The calls.                                                              *)

CallRecords ==
  [kind : {"goto", "reload", "history", "content", "wait"}, until : States \cup {"commit"},
   url : Urls, at : CallStages, answer : {"none", "error", "same", "started", "committed"},
   came : 0 .. MaxLoads, loader : 0 .. MaxLoads, from : 0 .. MaxLoads,
   end : {"none", "ok", "failed", "interrupted", "timeout", "closed"}]

CallOK(r) ==
  /\ r \in CallRecords
  /\ r.at = "done" <=> r.end # "none"
  /\ r.at \in {"reading", "waiting"} => r.until \in States

CallsOK ==
  /\ DOMAIN calls = Calls /\ calls = [c \in Calls |-> calls[c]]
  /\ \A c \in Calls : CallOK(calls[c])
  /\ url \in Urls /\ refused \in BOOLEAN

\* A wait may outlive its call, which has failed.
WaitersOK ==
  \A w \in page.waiters :
    \/ calls[w.call].at = "done"
    \/ calls[w.call].at = "waiting" /\ calls[w.call].until = w.state

\* Where a call stands: if the browser has answered that it loads, then another
\* document is there, or its load is still to be committed.
Stands(c, r, d, p, closed) ==
  /\ r.from <= d
  /\ r.at \in {"idle", "stopping", "asking"} => r.answer = "none"
  /\ r.answer = "committed" => r.from < d
  /\ Captured(r) /\ r.at \in {"reading", "waiting", "leaving"} => r.answer \in {"same", "started", "committed"}
  /\ r.answer = "started" => r.kind \in {"reload", "history"}
  /\ r.answer = "started" /\ ~closed /\ ~(r.at = "leaving" /\ r.until = "commit") =>
       \/ r.from < d
       \/ /\ p.by = c /\ p.load # NoLoad /\ p.url = r.url
          /\ r.at \in {"going", "reading"}

ArriveOK == \A c \in Calls : Stands(c, calls[c], doc, pending, page.closed)

NavigationInv == LoadingInv /\ CallsOK /\ WaitersOK /\ ArriveOK

\* What the steps may not do, for one call.
LoadedFor(c) ==
  ~LetGo(c) /\ LetGo(c)' =>
    Reached(calls[c].until) \/ Reached(calls[c].until)' \/ astray \/ astray'
ArrivesFor(c) ==
  ~page.closed /\ Captured(calls[c]) /\ calls'[c].end = "ok" =>
    \/ doc # calls[c].from \/ calls[c].answer = "same"
    \/ calls[c].kind # "goto" /\ calls[c].until = "commit"
Rightly == \A c \in Calls : LoadedFor(c) /\ ArrivesFor(c)

Over(how) == [Unused EXCEPT !.at = "done", !.end = how]
Kept(c) == calls'[c] = calls[c]
Fails(c) == \E how \in {"failed", "interrupted", "timeout", "closed"} : calls'[c] = Over(how)
Moves(c) ==
  /\ CallOK(calls'[c])
  /\ calls[c].at \notin {"waiting", "done"} /\ calls'[c].at \notin {"waiting", "done"}

LEMMA UnusedFields ==
  /\ Unused \in CallRecords /\ DOMAIN Unused = {"kind", "until", "url", "at", "answer", "came", "loader", "from", "end"}
  /\ Unused.kind = "wait" /\ Unused.until = "load" /\ Unused.at = "idle" /\ Unused.answer = "none"
  /\ Unused.came = 0 /\ Unused.loader = 0 /\ Unused.from = 0 /\ Unused.end = "none" /\ Unused.url \in Urls
<1>1. (CHOOSE u \in Urls : TRUE) \in Urls
  BY NavigationAssumption
<1>2. QED
  BY <1>1, LoadingAssumption DEF Unused, CallRecords, CallStages, States, NoLoad

LEMMA OverFields ==
  ASSUME NEW how \in {"ok", "failed", "interrupted", "timeout", "closed"}
  PROVE  /\ CallOK(Over(how))
         /\ Over(how).at = "done" /\ Over(how).answer = "none" /\ Over(how).from = 0 /\ Over(how).end = how
<1>1. /\ Over(how) \in CallRecords
      /\ Over(how).at = "done" /\ Over(how).answer = "none" /\ Over(how).from = 0 /\ Over(how).end = how
  BY UnusedFields DEF Over, CallRecords, CallStages
<1>2. QED
  BY <1>1 DEF CallOK

LEMMA OverStands ==
  ASSUME NEW how \in {"ok", "failed", "interrupted", "timeout", "closed"}, NEW c, NEW d \in Nat, NEW p, NEW b
  PROVE  Stands(c, Over(how), d, p, b)
  BY OverFields DEF Stands, Captured

\* Some calls end.
LEMMA EndCalls ==
  ASSUME NEW cs, NEW S, NEW how
  PROVE  LET ds == End(cs, S, how) IN
         /\ ds = [c \in Calls |-> ds[c]] /\ DOMAIN ds = Calls
         /\ \A c \in Calls : ds[c] = IF c \in S THEN Over(how) ELSE cs[c]
  BY DEF End, Over

\* The waits that go on are those of calls that still wait, or that have ended.
LEMMA WaitersStep ==
  ASSUME NavigationInv, page'.waiters \subseteq page.waiters,
         \A c \in Calls : Kept(c) \/ Fails(c) \/ Moves(c)
  PROVE  WaitersOK'
<1> SUFFICES ASSUME NEW w \in page'.waiters
             PROVE  calls'[w.call].at = "done" \/ (calls'[w.call].at = "waiting" /\ calls'[w.call].until = w.state)
  BY DEF WaitersOK
<1>1. /\ w \in page.waiters /\ w.call \in Calls
      /\ calls[w.call].at = "done" \/ (calls[w.call].at = "waiting" /\ calls[w.call].until = w.state)
  BY DEF NavigationInv, LoadingInv, PageOK, Waited, WaitersOK
<1>2. CASE Kept(w.call)
  BY <1>1, <1>2 DEF Kept
<1>3. CASE Fails(w.call)
  BY <1>3, OverFields DEF Fails
<1>4. CASE Moves(w.call)
  BY <1>1, <1>4 DEF Moves
<1>5. QED
  BY <1>1, <1>2, <1>3, <1>4

LEMMA RightlyStep ==
  ASSUME NavigationInv, LeaveRightly, NEW c \in Calls, Kept(c) \/ Fails(c) \/ Moves(c)
  PROVE  LoadedFor(c) /\ ArrivesFor(c)
<1>1. ASSUME ~LetGo(c), LetGo(c)'
      PROVE  Reached(calls[c].until) \/ Reached(calls[c].until)' \/ astray \/ astray'
  <2>1. calls'[c].at = "waiting" /\ ~HasWaiter(page', c)
    BY <1>1 DEF LetGo
  <2>2. Kept(c)
    BY <2>1, OverFields DEF Fails, Moves
  <2>3. calls[c].at = "waiting" /\ HasWaiter(page, c)
    BY <1>1, <2>1, <2>2 DEF LetGo, Kept
  <2>4. PICK w \in page.waiters : w.call = c
    BY <2>3 DEF HasWaiter
  <2>5. w \notin page'.waiters
    BY <2>1, <2>4 DEF HasWaiter
  <2>6. calls[c].until = w.state
    BY <2>3, <2>4 DEF NavigationInv, WaitersOK
  <2>7. Reached(w.state) \/ Reached(w.state)' \/ astray \/ astray'
    BY <2>5 DEF LeaveRightly
  <2>8. CASE Reached(w.state)
    BY <2>6, <2>8
  <2>9. CASE Reached(w.state)'
    <3>1. calls'[c].until = w.state
      BY <2>2, <2>6 DEF Kept
    <3>2. QED
      BY <2>9, <3>1 DEF Reached
  <2>10. QED
    BY <2>7, <2>8, <2>9
<1>2. ASSUME Captured(calls[c]) PROVE calls'[c].end # "ok"
  <2>1. calls[c].at # "done" /\ calls[c].end = "none"
    BY <1>2 DEF Captured, NavigationInv, CallsOK, CallOK
  <2>2. CASE Kept(c)
    BY <2>1, <2>2 DEF Kept
  <2>3. CASE Fails(c)
    BY <2>3, OverFields DEF Fails
  <2>4. CASE Moves(c)
    BY <2>4 DEF Moves, CallOK
  <2>5. QED
    BY <2>2, <2>3, <2>4
<1>3. QED
  BY <1>1, <1>2 DEF LoadedFor, ArrivesFor

LEMMA CallOKStep ==
  ASSUME NavigationInv, \A c \in Calls : Kept(c) \/ Fails(c) \/ Moves(c)
  PROVE  \A c \in Calls : CallOK(calls'[c])
<1> SUFFICES ASSUME NEW c \in Calls PROVE CallOK(calls'[c])
  OBVIOUS
<1>1. CASE Kept(c)
  BY <1>1 DEF Kept, NavigationInv, CallsOK
<1>2. CASE Fails(c)
  BY <1>2, OverFields DEF Fails
<1>3. CASE Moves(c)
  BY <1>3 DEF Moves
<1>4. QED
  BY <1>1, <1>2, <1>3

\* A step of a call that neither begins to wait nor ends, or of no call.
LEMMA Together ==
  ASSUME NavigationInv, LoadingInv', GoRightly, DOMAIN calls' = Calls, calls' = [c \in Calls |-> calls'[c]],
         url' \in Urls, refused' \in BOOLEAN,
         \A c \in Calls : Kept(c) \/ Fails(c) \/ Moves(c),
         \A c \in Calls : Stands(c, calls'[c], doc', pending', page'.closed)
  PROVE  NavigationInv' /\ Rightly
<1>1. WaitersOK'
  BY WaitersStep DEF GoRightly
<1>2. \A c \in Calls : CallOK(calls'[c])
  BY CallOKStep
<1>3. Rightly
  BY RightlyStep DEF Rightly, GoRightly
<1>4. CallsOK'
  BY <1>2 DEF CallsOK
<1>5. ArriveOK'
  BY DEF ArriveOK
<1>6. QED
  BY <1>1, <1>3, <1>4, <1>5 DEF NavigationInv

-----------------------------------------------------------------------------
(* The calls, step by step.                                                *)

\* A page that has closed stays so; no document comes in a step of PageLoading.
LEMMA LoadingKeeps ==
  ASSUME LoadingInv, LoadingNext
  PROVE  doc' = doc /\ (page.closed => page'.closed)
<1>1. IsPage(page)
  BY DEF LoadingInv, PageOK
<1>2. CASE IdleTimer
  <2> DEFINE p == [page EXCEPT !.networkidle = TRUE]
             gone == {"page"}
             q == Untimed(p, gone)
  <2>1. IsPage(p) /\ p.closed = page.closed
    BY <1>1 DEF IsPage, PageFields
  <2>2. page' = Flush(q) /\ doc' = doc
    BY <1>2 DEF IdleTimer
  <2> HIDE DEF p, gone
  <2>3. IsPage(q) /\ SameFrames(p, q)
    BY <2>1, UntimedFields
  <2> HIDE DEF q
  <2>4. SameFrames(q, page')
    BY <2>2, <2>3, FlushFields
  <2>5. QED
    BY <2>1, <2>2, <2>3, <2>4 DEF SameFrames
<1>3. CASE \E f \in Frames : FrameTimer(f)
  <2> PICK f \in Frames : FrameTimer(f)
    BY <1>3
  <2> DEFINE p == [page EXCEPT !.quiet[f].reached = TRUE]
             gone == {f}
             q == Untimed(p, gone)
  <2>1. IsPage(p) /\ p.closed = page.closed
    BY <1>1 DEF IsPage, PageFields
  <2>2. page' = Recalculate(q) /\ doc' = doc
    BY DEF FrameTimer
  <2> HIDE DEF p, gone
  <2>3. IsPage(q) /\ SameFrames(p, q)
    BY <2>1, UntimedFields
  <2> HIDE DEF q
  <2>4. SameFrames(q, page')
    BY <2>2, <2>3, RecalculateFields
  <2>5. QED
    BY <2>1, <2>2, <2>3, <2>4 DEF SameFrames
<1>4. CASE \E r \in Requests, f \in Frames : Send(r, f)
  BY <1>4 DEF Send
<1>5. CASE \E r \in Requests \cup Loads : Settle(r)
  BY <1>5 DEF Settle
<1>6. CASE Parsed \/ ContentLoads \/ PageLoads \/ Jump
  BY <1>6 DEF Parsed, ContentLoads, PageLoads, Jump
<1>7. CASE \E f \in Children : FrameEvents(f)
  BY <1>7 DEF FrameEvents, AttachFrame, CommitFrame, FailFrame, FrameLoads, DetachFrame, StartFrame
<1>8. CASE \E r \in Requests \cup Loads, hop \in Requests : Redirect(r, hop)
  BY <1>8 DEF Redirect
<1>9. QED
  BY <1>2, <1>3, <1>4, <1>5, <1>6, <1>7, <1>8 DEF LoadingNext

\* A call that is left alone stands as it stood,
LEMMA SameStand ==
  ASSUME ArriveOK, doc' = doc, pending' = pending, page.closed => page'.closed, NEW c \in Calls, Kept(c)
  PROVE  Stands(c, calls'[c], doc', pending', page'.closed)
<1>1. Stands(c, calls[c], doc, pending, page.closed)
  BY DEF ArriveOK
<1>2. QED
  BY <1>1 DEF Stands, Kept

\* also if another document has come,
LEMMA LaterStand ==
  ASSUME NavigationInv, NEW d \in Nat, doc < d, NEW p, NEW b, NEW c \in Calls
  PROVE  Stands(c, calls[c], d, p, b)
<1>1. Stands(c, calls[c], doc, pending, page.closed)
  BY DEF NavigationInv, ArriveOK
<1>2. doc \in Nat /\ calls[c].from \in Nat
  BY LoadingAssumption DEF NavigationInv, LoadingInv, DocsOK, CallsOK, CallOK, CallRecords
<1>3. calls[c].from < d
  BY <1>1, <1>2 DEF Stands
<1>4. QED
  BY <1>1, <1>2, <1>3 DEF Stands

\* and if the load that is not committed is given up, since that fails the calls
\* it was for.
LEMMA CancelCalls ==
  ASSUME NavigationInv, ~page.closed
  PROVE  LET cs == CallsCancelled IN
         /\ cs = [c \in Calls |-> cs[c]] /\ DOMAIN cs = Calls
         /\ \A c \in Calls :
              /\ cs[c] = calls[c] \/ cs[c] = Over("failed")
              /\ \A p : Stands(c, cs[c], doc, p, page.closed)
<1> DEFINE cs == CallsCancelled
           S == {c \in Raced(calls, page) : calls[c].url = pending.url}
<1>1. /\ cs = [c \in Calls |-> cs[c]] /\ DOMAIN cs = Calls
      /\ \A c \in Calls : cs[c] = IF pending.load # NoLoad /\ c \in S THEN Over("failed") ELSE calls[c]
  <2>1. CASE pending.load = NoLoad
    BY <2>1 DEF NavigationInv, CallsOK, CallsCancelled
  <2>2. CASE pending.load # NoLoad
    <3>1. cs = End(calls, S, "failed")
      BY <2>2 DEF CallsCancelled, RejectFailed
    <3> HIDE DEF cs, S
    <3>2. QED
      BY <2>2, <3>1, EndCalls
  <2>3. QED
    BY <2>1, <2>2
<1>2. ASSUME NEW c \in Calls, NEW p
      PROVE  Stands(c, cs[c], doc, p, page.closed)
  <2>1. CASE cs[c] = Over("failed")
    <3>1. doc \in Nat
      BY LoadingAssumption DEF NavigationInv, LoadingInv, DocsOK
    <3> HIDE DEF cs
    <3>2. QED
      BY <2>1, <3>1, OverStands
  <2>2. CASE cs[c] = calls[c] /\ ~(pending.load # NoLoad /\ c \in S)
    <3>1. Stands(c, calls[c], doc, pending, page.closed)
      BY DEF NavigationInv, ArriveOK
    <3>2. ASSUME calls[c].answer = "started", ~(calls[c].at = "leaving" /\ calls[c].until = "commit")
          PROVE  calls[c].from < doc
      <4>1. SUFFICES ASSUME pending.load # NoLoad, pending.url = calls[c].url,
                            calls[c].at \in {"going", "reading"}
                     PROVE  FALSE
        BY <3>1, <3>2 DEF Stands
      <4>2. Captured(calls[c])
        BY <3>1, <3>2, <4>1 DEF Stands, Captured
      <4>3. c \in Raced(calls, page)
        BY <4>1, <4>2 DEF Raced
      <4>4. QED
        BY <2>2, <4>1, <4>3
    <3> HIDE DEF cs, S
    <3>3. QED
      BY <2>2, <3>1, <3>2 DEF Stands
  <2>3. QED
    BY <1>1, <2>1, <2>2
<1> HIDE DEF cs, S
<1>3. QED
  BY <1>1, <1>2 DEF cs

LEMMA LoadingCalls ==
  ASSUME NavigationInv, LoadingNext, UNCHANGED navigationVars
  PROVE  NavigationInv' /\ Rightly
<1>1. LoadingInv' /\ GoRightly
  BY LoadingStep DEF NavigationInv
<1>2. UNCHANGED <<calls, url, pending, refused, doc>> /\ (page.closed => page'.closed)
  BY LoadingKeeps DEF NavigationInv, navigationVars
<1>3. \A c \in Calls : Kept(c)
  BY <1>2 DEF Kept
<1>4. \A c \in Calls : Stands(c, calls'[c], doc', pending', page'.closed)
  BY <1>2, <1>3, SameStand DEF NavigationInv
<1>5. /\ DOMAIN calls' = Calls /\ calls' = [c \in Calls |-> calls'[c]]
      /\ url' \in Urls /\ refused' \in BOOLEAN
  BY <1>2 DEF NavigationInv, CallsOK
<1>6. QED
  BY <1>1, <1>3, <1>4, <1>5, Together

\* The load that is not committed ends, and no call begins or goes on.
LEMMA CancelledCalls ==
  ASSUME NavigationInv, ~page.closed, LoadingInv', GoRightly, calls' = CallsCancelled,
         UNCHANGED <<doc, url, refused>>, page'.closed = page.closed
  PROVE  NavigationInv' /\ Rightly
<1>1. /\ DOMAIN calls' = Calls /\ calls' = [c \in Calls |-> calls'[c]]
      /\ \A c \in Calls : calls'[c] = calls[c] \/ calls'[c] = Over("failed")
      /\ \A c \in Calls : Stands(c, calls'[c], doc, pending', page.closed)
  BY CancelCalls
<1>2. \A c \in Calls : Kept(c) \/ Fails(c)
  BY <1>1 DEF Kept, Fails
<1>3. url' \in Urls /\ refused' \in BOOLEAN
  BY DEF NavigationInv, CallsOK
<1>4. QED
  BY <1>1, <1>2, <1>3, Together

LEMMA FailLoadCalls ==
  ASSUME NavigationInv, FailLoad \/ \E c \in Calls : StopLoading(c)
  PROVE  NavigationInv' /\ Rightly
<1>1. /\ ~page.closed /\ page' = Cancelled /\ calls' = CallsCancelled /\ pending' = Nothing
      /\ Ended({pending.load}) /\ astray' = (astray \/ LoadLost)
      /\ UNCHANGED <<phase, doc, kid, spent, jumped, url, loads, refused>>
  BY DEF FailLoad, StopLoading
<1>2. LoadingInv' /\ GoRightly
  BY <1>1, CancelStep DEF NavigationInv
<1>3. page'.closed = page.closed
  BY <1>1, CancelPage DEF NavigationInv, SameFrames
<1>4. QED
  BY <1>1, <1>2, <1>3, CancelledCalls

\* A load begins: the page is as open as it was.
LEMMA StartLoadKeeps ==
  ASSUME LoadingInv, ~page.closed, NEW u, NEW c, NEW cs, StartLoad(u, c, cs)
  PROVE  /\ calls' = cs /\ UNCHANGED <<doc, url, refused>> /\ page'.closed = page.closed
         /\ pending' = [load |-> loads + 1, url |-> u, by |-> c] /\ loads' = loads + 1
<1> DEFINE l == loads + 1
           q == Cancelled
           p == WillBeSent(q, l, Main)
<1>1. page' \in {p, StartedLoading(p, Main)}
  BY DEF StartLoad
<1>2. IsPage(q) /\ SameFrames(page, q) /\ PageOK(q)
  BY CancelPage DEF PageOK
<1> HIDE DEF q, l
<1>3. IsPage(p) /\ SameFrames(q, p)
  BY <1>2, WillBeSentFields
<1> HIDE DEF p
<1>4. SameFrames(p, StartedLoading(p, Main))
  BY <1>3, StartedLoadingFields
<1>5. page'.closed = page.closed
  BY <1>1, <1>2, <1>3, <1>4 DEF SameFrames
<1>6. QED
  BY <1>5 DEF StartLoad

LEMMA PageNavigatesCalls ==
  ASSUME NavigationInv, NEW u \in Urls, PageNavigates(u)
  PROVE  NavigationInv' /\ Rightly
<1>1. ~page.closed /\ StartLoad(u, NoCall, CallsCancelled) /\ LoadingInv
  BY DEF PageNavigates, NavigationInv
<1>2. LoadingInv' /\ GoRightly
  BY <1>1, StartLoadStep
<1>3. calls' = CallsCancelled /\ UNCHANGED <<doc, url, refused>> /\ page'.closed = page.closed
  BY <1>1, StartLoadKeeps
<1>4. QED
  BY <1>1, <1>2, <1>3, CancelledCalls

LEMMA DropBodyCalls ==
  ASSUME NavigationInv, DropBody
  PROVE  NavigationInv' /\ Rightly
<1>1. LoadingInv' /\ GoRightly
  BY DropBodyStep DEF NavigationInv
<1> DEFINE S == {c \in Raced(calls, page) : calls[c].url = url}
<1>2. /\ ~page.closed /\ UNCHANGED <<doc, url, pending, refused>>
      /\ calls' = End(calls, S, "failed")
  BY DEF DropBody, RejectFailed
<1> HIDE DEF S
<1>3. /\ DOMAIN calls' = Calls /\ calls' = [c \in Calls |-> calls'[c]]
      /\ \A c \in Calls : calls'[c] = IF c \in S THEN Over("failed") ELSE calls[c]
  BY <1>2, EndCalls
<1>4. \A c \in Calls : Kept(c) \/ calls'[c] = Over("failed")
  BY <1>3 DEF Kept
<1>5. doc \in Nat
  BY LoadingAssumption DEF NavigationInv, LoadingInv, DocsOK
<1>6. \A c \in Calls : Stands(c, calls'[c], doc', pending', page'.closed)
  BY <1>2, <1>4, <1>5, SameStand, OverStands DEF NavigationInv
<1>7. url' \in Urls /\ refused' \in BOOLEAN
  BY <1>2 DEF NavigationInv, CallsOK
<1>8. QED
  BY <1>1, <1>3, <1>4, <1>6, <1>7, Together DEF Fails

LEMMA CommitCalls ==
  ASSUME NavigationInv, Commit
  PROVE  NavigationInv' /\ Rightly
<1> DEFINE l == pending.load
           S == {c \in Interruptible(calls, Detached(page, page.frames)) : calls[c].loader \notin {NoLoad, l}}
           cs == End(calls, S, "interrupted")
           Answers(c) == c = pending.by /\ cs[c].kind = "goto" /\ cs[c].at = "going"
<1>1. LoadingInv' /\ GoRightly
  BY CommitStep DEF NavigationInv
<1>2. /\ ~page.closed /\ l # NoLoad /\ doc' = l /\ url' = pending.url /\ refused' = refused
      /\ calls' = [c \in Calls |-> IF Answers(c) THEN [cs[c] EXCEPT !.answer = "committed", !.came = l] ELSE cs[c]]
  BY DEF Commit, LetOvertakenGo
<1>3. doc < l /\ l \in 0 .. MaxLoads /\ l \in Nat /\ url' \in Urls
  <2>1. pending.url \in Urls /\ l = loads /\ doc < loads
    BY <1>2 DEF NavigationInv, LoadingInv, PendingOK
  <2>2. loads \in 0 .. MaxLoads
    BY DEF NavigationInv, LoadingInv, DocsOK
  <2>3. url' = pending.url
    BY <1>2
  <2> HIDE DEF l
  <2>4. l \in 0 .. MaxLoads /\ l \in Nat /\ doc < l
    BY <2>1, <2>2, LoadingAssumption
  <2>5. QED
    BY <2>1, <2>3, <2>4
<1> HIDE DEF S, l
<1>4. \A c \in Calls : cs[c] = IF c \in S THEN Over("interrupted") ELSE calls[c]
  BY EndCalls
<1>5. Over("interrupted").at = "done"
  BY OverFields
<1> HIDE DEF cs
<1>6. DOMAIN calls' = Calls /\ calls' = [c \in Calls |-> calls'[c]]
  BY <1>2
<1>7. ASSUME NEW c \in Calls, Answers(c)
      PROVE  Moves(c) /\ Stands(c, calls'[c], doc', pending', page'.closed)
  <2>1. cs[c] = calls[c] /\ calls[c].kind = "goto" /\ calls[c].at = "going"
    BY <1>4, <1>5, <1>7
  <2>2. calls'[c] = [calls[c] EXCEPT !.answer = "committed", !.came = l]
    BY <1>2, <1>7, <2>1
  <2>3. CallOK(calls[c]) /\ calls[c] \in CallRecords
    BY DEF NavigationInv, CallsOK, CallOK
  <2>4. /\ calls'[c] \in CallRecords /\ calls'[c].answer = "committed"
        /\ calls'[c].at = calls[c].at /\ calls'[c].end = calls[c].end /\ calls'[c].until = calls[c].until
        /\ calls'[c].from = calls[c].from /\ calls'[c].kind = calls[c].kind
    BY <1>3, <2>2, <2>3 DEF CallRecords
  <2>5. Moves(c)
    BY <2>1, <2>3, <2>4 DEF Moves, CallOK
  <2>6. Stands(c, calls[c], l, pending', page'.closed)
    BY <1>3, LaterStand
  <2>7. calls[c].from < l
    <3>1. Stands(c, calls[c], doc, pending, page.closed)
      BY DEF NavigationInv, ArriveOK
    <3>2. doc \in Nat /\ calls[c].from \in Nat
      BY <2>3, LoadingAssumption DEF NavigationInv, LoadingInv, DocsOK, CallRecords
    <3>3. QED
      BY <1>3, <3>1, <3>2 DEF Stands
  <2>8. Stands(c, calls'[c], l, pending', page'.closed)
    BY <2>1, <2>4, <2>6, <2>7 DEF Stands
  <2>9. QED
    BY <1>2, <2>5, <2>8
<1>8. ASSUME NEW c \in Calls, ~Answers(c)
      PROVE  (Kept(c) \/ Fails(c)) /\ Stands(c, calls'[c], doc', pending', page'.closed)
  <2>1. calls'[c] = calls[c] \/ calls'[c] = Over("interrupted")
    BY <1>2, <1>4, <1>8
  <2>2. Stands(c, calls'[c], l, pending', page'.closed)
    BY <1>3, <2>1, LaterStand, OverStands
  <2>3. QED
    BY <1>2, <2>1, <2>2 DEF Kept, Fails
<1>9. refused' \in BOOLEAN
  BY <1>2 DEF NavigationInv, CallsOK
<1> HIDE DEF Answers
<1>10. \A c \in Calls : Kept(c) \/ Fails(c) \/ Moves(c)
  BY <1>7, <1>8
<1>11. \A c \in Calls : Stands(c, calls'[c], doc', pending', page'.closed)
  BY <1>7, <1>8
<1>12. QED
  BY <1>1, <1>3, <1>6, <1>9, <1>10, <1>11, Together

\* One call goes on, and no other changes.
LEMMA OneMoves ==
  ASSUME NavigationInv, LoadingInv', GoRightly, NEW c \in Calls, NEW r,
         calls' = [calls EXCEPT ![c] = r], url' = url, refused' \in BOOLEAN,
         doc' = doc, pending' = pending, page'.closed = page.closed,
         CallOK(r), calls[c].at \notin {"waiting", "done"}, r.at \notin {"waiting", "done"},
         Stands(c, r, doc, pending, page.closed)
  PROVE  NavigationInv' /\ Rightly
<1>1. /\ DOMAIN calls' = Calls /\ calls' = [x \in Calls |-> calls'[x]] /\ calls'[c] = r
      /\ \A x \in Calls \ {c} : calls'[x] = calls[x]
  BY DEF NavigationInv, CallsOK
<1>2. Moves(c) /\ \A x \in Calls \ {c} : Kept(x)
  BY <1>1 DEF Moves, Kept
<1>3. \A x \in Calls : Stands(x, calls'[x], doc', pending', page'.closed)
  BY <1>1, <1>2, SameStand DEF NavigationInv
<1>4. url' \in Urls
  BY DEF NavigationInv, CallsOK
<1>5. QED
  BY <1>1, <1>2, <1>3, <1>4, Together

LEMMA SameLoads ==
  ASSUME NavigationInv, UNCHANGED <<loadingVars, pending, loads>>
  PROVE  /\ LoadingInv' /\ GoRightly /\ page'.closed = page.closed /\ doc' = doc
         /\ page' = page /\ LeaveRightly
<1>1. PageOK(page') /\ IdleOK(page, stale, miscounted, jumped)' /\ LoadOK(page, phase[Main], astray)'
  BY DEF NavigationInv, LoadingInv, loadingVars
<1>2. DocsOK' /\ PendingOK'
  BY DEF NavigationInv, LoadingInv, loadingVars, DocsOK, PendingOK
<1>3. page' = page /\ doc' = doc
  BY DEF loadingVars
<1>4. QED
  BY <1>1, <1>2, <1>3 DEF LoadingInv, GoRightly, LeaveRightly

LEMMA RefusingCalls ==
  ASSUME NavigationInv, NEW c \in Calls, Refusing(c)
  PROVE  NavigationInv' /\ Rightly
<1> DEFINE r == [calls[c] EXCEPT !.at = "going", !.answer = "error"]
<1>1. /\ ~page.closed /\ calls[c].at = "asking" /\ calls[c].kind = "goto"
      /\ calls' = [calls EXCEPT ![c] = r] /\ refused' = TRUE
      /\ UNCHANGED <<loadingVars, url, pending, loads>>
  BY DEF Refusing
<1>2. CallOK(calls[c]) /\ calls[c] \in CallRecords /\ Stands(c, calls[c], doc, pending, page.closed)
  BY DEF NavigationInv, CallsOK, CallOK, ArriveOK
<1>3. /\ r \in CallRecords /\ r.at = "going" /\ r.answer = "error" /\ r.from = calls[c].from /\ r.end = calls[c].end
  BY <1>2 DEF CallRecords, CallStages
<1> HIDE DEF r
<1>4. CallOK(r)
  BY <1>1, <1>2, <1>3 DEF CallOK
<1>5. Stands(c, r, doc, pending, page.closed)
  BY <1>2, <1>3 DEF Stands
<1>6. QED
  BY <1>1, <1>3, <1>4, <1>5, OneMoves, SameLoads

LEMMA JumpingCalls ==
  ASSUME NavigationInv, NEW c \in Calls, Jumping(c)
  PROVE  NavigationInv' /\ Rightly
<1> DEFINE r == [calls[c] EXCEPT !.at = "going", !.answer = "same"]
<1>1. /\ ~page.closed /\ calls[c].at = "asking"
      /\ calls' = [calls EXCEPT ![c] = r]
      /\ page' = WithinDocument(page) /\ jumped' = TRUE /\ astray' = (astray \/ phase[Main] # "loaded")
      /\ UNCHANGED <<phase, doc, kid, spent, stale, miscounted, url, pending, loads, refused>>
  BY DEF Jumping
<1>2. CallOK(calls[c]) /\ calls[c] \in CallRecords /\ Stands(c, calls[c], doc, pending, page.closed)
  BY DEF NavigationInv, CallsOK, CallOK, ArriveOK
<1>3. /\ r \in CallRecords /\ r.at = "going" /\ r.answer = "same" /\ r.from = calls[c].from /\ r.end = calls[c].end
  BY <1>2 DEF CallRecords, CallStages
<1> HIDE DEF r
<1>4. CallOK(r)
  BY <1>1, <1>2, <1>3 DEF CallOK
<1>5. Stands(c, r, doc, pending, page.closed)
  BY <1>2, <1>3 DEF Stands
<1>6. LoadingInv' /\ GoRightly
  BY <1>1, WithinStep DEF NavigationInv
<1>7. page'.closed = page.closed
  <2>1. IsPage(page) /\ Flagged(page)
    BY DEF NavigationInv, LoadingInv, PageOK
  <2>2. QED
    BY <1>1, <2>1, WithinDocumentFields DEF SameFrames, Flagged
<1>8. refused' \in BOOLEAN
  BY <1>1 DEF NavigationInv, CallsOK
<1>9. QED
  BY <1>1, <1>3, <1>4, <1>5, <1>6, <1>7, <1>8, OneMoves

LEMMA AnsweredCalls ==
  ASSUME NavigationInv, NEW c \in Calls, Answered(c)
  PROVE  NavigationInv' /\ Rightly
<1>1. /\ ~page.closed /\ calls[c].at = "going" /\ calls[c].answer # "none"
      /\ UNCHANGED <<loadingVars, url, pending, loads, refused>>
  BY DEF Answered
<1>2. CallOK(calls[c]) /\ calls[c] \in CallRecords /\ Stands(c, calls[c], doc, pending, page.closed)
  BY DEF NavigationInv, CallsOK, CallOK, ArriveOK
<1>3. url' \in Urls /\ refused' \in BOOLEAN
  BY <1>1 DEF NavigationInv, CallsOK
<1>4. /\ LoadingInv' /\ GoRightly /\ page'.closed = page.closed /\ doc' = doc
  BY <1>1, SameLoads
<1>5. CASE calls[c].answer = "error"
  <2>1. calls' = End(calls, {c}, "failed")
    BY <1>5 DEF Answered
  <2>2. /\ DOMAIN calls' = Calls /\ calls' = [x \in Calls |-> calls'[x]]
        /\ \A x \in Calls : calls'[x] = IF x \in {c} THEN Over("failed") ELSE calls[x]
    BY <2>1, EndCalls
  <2>3. \A x \in Calls : Kept(x) \/ calls'[x] = Over("failed")
    BY <2>2 DEF Kept
  <2>4. doc \in Nat
    BY LoadingAssumption DEF NavigationInv, LoadingInv, DocsOK
  <2>5. \A x \in Calls : Stands(x, calls'[x], doc', pending', page'.closed)
    BY <1>1, <1>4, <2>3, <2>4, SameStand, OverStands DEF NavigationInv
  <2>6. QED
    BY <1>3, <1>4, <2>2, <2>3, <2>5, Together DEF Fails
<1>6. CASE calls[c].answer # "error"
  <2> DEFINE to == IF calls[c].until = "commit" THEN "leaving" ELSE "reading"
             r == [calls[c] EXCEPT !.loader = calls[c].came, !.at = to]
  <2>1. calls' = [calls EXCEPT ![c] = r]
    BY <1>6 DEF Answered
  <2>2. /\ r \in CallRecords /\ r.at = to /\ r.answer = calls[c].answer /\ r.from = calls[c].from
        /\ r.end = calls[c].end /\ r.until = calls[c].until /\ r.kind = calls[c].kind /\ r.url = calls[c].url
    BY <1>2 DEF CallRecords, CallStages
  <2> HIDE DEF r
  <2>3. CallOK(r)
    <3>1. r.end = "none"
      BY <1>1, <1>2, <2>2 DEF CallOK
    <3>2. r.until \in States \cup {"commit"}
      BY <2>2 DEF CallRecords
    <3>3. QED
      BY <2>2, <3>1, <3>2 DEF CallOK
  <2>4. Stands(c, r, doc, pending, page.closed)
    <3>1. calls[c].answer \in {"same", "started", "committed"}
      BY <1>1, <1>2, <1>6 DEF CallRecords
    <3>2. calls[c].until = "commit" => to = "leaving"
      OBVIOUS
    <3>3. calls[c].until # "commit" => to = "reading"
      OBVIOUS
    <3>4. /\ r.from <= doc /\ (r.answer = "committed" => r.from < doc)
          /\ (r.answer = "started" => r.kind \in {"reload", "history"})
      BY <1>2, <2>2 DEF Stands
    <3>5. r.at \in {"leaving", "reading"}
      BY <2>2
    <3>6. ASSUME r.answer = "started", ~page.closed, ~(r.at = "leaving" /\ r.until = "commit")
          PROVE  r.from < doc \/ (/\ pending.by = c /\ pending.load # NoLoad /\ pending.url = r.url
                                  /\ r.at \in {"going", "reading"})
      BY <1>1, <1>2, <2>2, <3>2, <3>3, <3>6 DEF Stands
    <3>7. QED
      BY <2>2, <3>1, <3>4, <3>5, <3>6 DEF Stands
  <2>5. QED
    BY <1>1, <1>3, <1>4, <2>1, <2>2, <2>3, <2>4, OneMoves
<1>7. QED
  BY <1>5, <1>6

LEMMA LoadingCallCalls ==
  ASSUME NavigationInv, NEW c \in Calls, Loading(c)
  PROVE  NavigationInv' /\ Rightly
<1> DEFINE u == calls[c].url
           cs == CallsCancelled
           how == IF cs[c].kind = "goto" THEN "none" ELSE "started"
           ds == IF cs[c].at = "done" THEN cs ELSE [cs EXCEPT ![c].at = "going", ![c].answer = how]
<1>1. ~page.closed /\ calls[c].at = "asking" /\ Captured(calls[c]) /\ StartLoad(u, c, ds)
  BY DEF Loading
<1>2. CallOK(calls[c]) /\ calls[c] \in CallRecords /\ Stands(c, calls[c], doc, pending, page.closed) /\ u \in Urls
  BY DEF NavigationInv, CallsOK, CallOK, CallRecords, ArriveOK
<1>3. /\ cs = [x \in Calls |-> cs[x]] /\ DOMAIN cs = Calls
      /\ \A x \in Calls : cs[x] = calls[x] \/ cs[x] = Over("failed")
      /\ \A x \in Calls : \A p : Stands(x, cs[x], doc, p, page.closed)
  BY <1>1, CancelCalls
<1> HIDE DEF cs, u
<1>4. LoadingInv' /\ GoRightly
  <2> HIDE DEF ds
  <2>1. c \in Calls \cup {NoCall} /\ LoadingInv
    BY DEF NavigationInv
  <2>2. QED
    BY <1>1, <1>2, <2>1, StartLoadStep
<1>5. /\ calls' = ds /\ UNCHANGED <<doc, url, refused>> /\ page'.closed = page.closed
      /\ pending' = [load |-> loads + 1, url |-> u, by |-> c]
  <2> HIDE DEF ds
  <2>1. QED
    BY <1>1, StartLoadKeeps DEF NavigationInv
<1>6. url' \in Urls /\ refused' \in BOOLEAN
  BY <1>5 DEF NavigationInv, CallsOK
<1>7. CASE cs[c].at = "done"
  <2>1. calls' = cs
    BY <1>5, <1>7
  <2>2. \A x \in Calls : Kept(x) \/ Fails(x)
    BY <1>3, <2>1 DEF Kept, Fails
  <2>3. \A x \in Calls : Stands(x, calls'[x], doc', pending', page'.closed)
    BY <1>3, <1>5, <2>1
  <2>4. DOMAIN calls' = Calls /\ calls' = [x \in Calls |-> calls'[x]]
    BY <1>3, <2>1
  <2>5. QED
    BY <1>4, <1>6, <2>2, <2>3, <2>4, Together
<1>8. CASE cs[c].at # "done"
  <2> DEFINE r == [calls[c] EXCEPT !.at = "going", !.answer = how]
  <2>1. cs[c] = calls[c]
    BY <1>3, <1>8, OverFields
  <2>2. how \in {"none", "started"} /\ (how = "started" => calls[c].kind # "goto")
    BY <2>1
  <2> HIDE DEF how
  <2>3. calls' = [cs EXCEPT ![c].at = "going", ![c].answer = how]
    BY <1>5, <1>8
  <2>4. /\ DOMAIN calls' = Calls /\ calls' = [x \in Calls |-> calls'[x]]
        /\ calls'[c] = r /\ \A x \in Calls \ {c} : calls'[x] = cs[x]
    BY <1>3, <2>1, <2>3
  <2>5. /\ r \in CallRecords /\ r.at = "going" /\ r.answer = how /\ r.from = calls[c].from /\ r.end = calls[c].end
        /\ r.kind = calls[c].kind /\ r.url = u
    BY <1>2, <2>2 DEF CallRecords, CallStages, u
  <2> HIDE DEF r
  <2>6. CallOK(r)
    BY <1>1, <1>2, <2>5 DEF CallOK
  <2>7. Moves(c)
    BY <1>1, <2>4, <2>5, <2>6 DEF Moves
  <2>8. \A x \in Calls \ {c} : Kept(x) \/ Fails(x)
    BY <1>3, <2>4 DEF Kept, Fails
  <2>9. loads + 1 # NoLoad
    BY LoadingAssumption DEF NavigationInv, LoadingInv, DocsOK, NoLoad
  <2>10. Stands(c, r, doc', pending', page'.closed)
    <3>1. pending'.by = c /\ pending'.load # NoLoad /\ pending'.url = r.url
      BY <1>5, <2>5, <2>9
    <3>2. r.answer = "started" => r.kind \in {"reload", "history"}
      BY <1>1, <2>2, <2>5 DEF Captured
    <3>3. r.from <= doc
      BY <1>2, <2>5 DEF Stands
    <3>4. QED
      BY <1>5, <2>2, <2>5, <3>1, <3>2, <3>3 DEF Stands
  <2>11. \A x \in Calls : Stands(x, calls'[x], doc', pending', page'.closed)
    BY <1>3, <1>5, <2>4, <2>10
  <2>12. QED
    BY <1>4, <1>6, <2>4, <2>7, <2>8, <2>11, Together
<1>9. QED
  BY <1>7, <1>8

\* What goes on for other urls ends, or goes on.
LEMMA InterruptCalls ==
  ASSUME NavigationInv, NEW u
  PROVE  LET cs == Interrupt(u) IN
         /\ cs = [c \in Calls |-> cs[c]] /\ DOMAIN cs = Calls
         /\ \A c \in Calls : cs[c] = calls[c] \/ cs[c] = Over("failed") \/ cs[c] = Over("interrupted")
<1> DEFINE early == {c \in Overtaken(u) : calls[c].loader = NoLoad}
           S == early \cap Raced(calls, page)
           T == (Overtaken(u) \ early) \cap Interruptible(calls, page)
           ds == End(calls, S, "failed")
           cs == End(ds, T, "interrupted")
<1>1. Interrupt(u) = cs
  BY DEF Interrupt
<1> HIDE DEF early, S, T
<1>2. \A c \in Calls : ds[c] = IF c \in S THEN Over("failed") ELSE calls[c]
  BY EndCalls
<1> HIDE DEF ds
<1>3. /\ cs = [c \in Calls |-> cs[c]] /\ DOMAIN cs = Calls
      /\ \A c \in Calls : cs[c] = IF c \in T THEN Over("interrupted") ELSE ds[c]
  BY EndCalls
<1> HIDE DEF cs
<1>4. QED
  BY <1>1, <1>2, <1>3

LEMMA BeginPage ==
  ASSUME NavigationInv, NEW c, NEW cs, Begin(c, cs), UNCHANGED <<phase, doc, kid, spent, loads, pending>>
  PROVE  LoadingInv' /\ GoRightly /\ page'.closed = page.closed
<1> DEFINE b == cs[c].kind # "reload"
           q == Reset(page)
<1>1. page' = [q EXCEPT !.allow = b] /\ b \in BOOLEAN /\ Recount
  BY DEF Begin
<1> HIDE DEF b
<1>2. IsPage(q) /\ SameFrames(page, q)
  BY ResetFields DEF NavigationInv, LoadingInv, PageOK
<1>3. LoadingInv' /\ GoRightly
  BY <1>1, ResetStep DEF NavigationInv
<1> HIDE DEF q
<1>4. page'.closed = page.closed
  BY <1>1, <1>2 DEF IsPage, PageFields, SameFrames
<1>5. QED
  BY <1>3, <1>4

LEMMA BegunCall ==
  ASSUME NavigationInv, NEW c \in Calls, NEW r, CallOK(r), r.end = "none", r.answer = "none", NEW u \in Urls
  PROVE  LET s == [r EXCEPT !.at = "asking", !.from = doc, !.url = u] IN
         /\ CallOK(s) /\ s.at = "asking"
         /\ Stands(c, s, doc, pending, page.closed)
<1> DEFINE s == [r EXCEPT !.at = "asking", !.from = doc, !.url = u]
<1>1. doc \in 0 .. MaxLoads /\ doc \in Nat
  BY LoadingAssumption DEF NavigationInv, LoadingInv, DocsOK
<1>2. r \in CallRecords
  BY DEF CallOK
<1>3. s \in CallRecords /\ s.at = "asking" /\ s.from = doc /\ s.answer = "none" /\ s.end = "none"
  BY <1>1, <1>2 DEF CallRecords, CallStages
<1> HIDE DEF s
<1>4. CallOK(s)
  BY <1>3 DEF CallOK
<1>5. Stands(c, s, doc, pending, page.closed)
  BY <1>1, <1>3 DEF Stands
<1>6. QED
  BY <1>3, <1>4, <1>5 DEF s

LEMMA StoppedCalls ==
  ASSUME NavigationInv, NEW c \in Calls, Stopped(c)
  PROVE  NavigationInv' /\ Rightly
<1> DEFINE u == IF calls[c].kind = "reload" THEN url ELSE calls[c].url
           s == [calls[c] EXCEPT !.at = "asking", !.from = doc, !.url = u]
<1>1. /\ ~page.closed /\ calls[c].at = "stopping" /\ Begin(c, calls)
      /\ UNCHANGED <<phase, doc, kid, spent, url, pending, loads, refused>>
  BY DEF Stopped
<1>2. CallOK(calls[c]) /\ calls[c] \in CallRecords /\ Stands(c, calls[c], doc, pending, page.closed)
  BY DEF NavigationInv, CallsOK, CallOK, ArriveOK
<1>3. LoadingInv' /\ GoRightly /\ page'.closed = page.closed
  BY <1>1, BeginPage
<1>4. u \in Urls /\ refused' \in BOOLEAN
  BY <1>1, <1>2 DEF NavigationInv, CallsOK, CallRecords
<1>5. calls' = [calls EXCEPT ![c] = s]
  BY <1>1 DEF Begin
<1>6. calls[c].answer = "none" /\ calls[c].end = "none"
  BY <1>1, <1>2 DEF Stands, CallOK
<1> HIDE DEF u
<1>7. CallOK(s) /\ s.at = "asking" /\ Stands(c, s, doc, pending, page.closed)
  BY <1>2, <1>4, <1>6, BegunCall
<1> HIDE DEF s
<1>8. QED
  BY <1>1, <1>3, <1>4, <1>5, <1>7, OneMoves

LEMMA NavigateCalls ==
  ASSUME NavigationInv, NEW c \in Calls, NEW kind \in Kinds, NEW until \in Untils, NEW u \in Urls,
         Navigate(c, kind, until, u)
  PROVE  NavigationInv' /\ Rightly
<1> DEFINE r == [Unused EXCEPT !.kind = kind, !.until = until, !.url = u, !.at = "stopping"]
           is == Interrupt(u)
           cs == [is EXCEPT ![c] = r]
           v == IF cs[c].kind = "reload" THEN url ELSE cs[c].url
           s == [cs[c] EXCEPT !.at = "asking", !.from = doc, !.url = v]
<1>1. /\ ~page.closed /\ calls[c].at = "idle" /\ kind \in {"goto", "reload", "history"}
      /\ UNCHANGED <<phase, doc, kid, spent, url, pending, loads, refused>>
  BY DEF Navigate
<1>2. /\ is = [x \in Calls |-> is[x]] /\ DOMAIN is = Calls
      /\ \A x \in Calls : is[x] = calls[x] \/ is[x] = Over("failed") \/ is[x] = Over("interrupted")
  BY InterruptCalls
<1>3. IF Overtaken(u) = {} THEN Begin(c, cs) ELSE calls' = cs /\ UNCHANGED <<page, stale, miscounted, jumped, astray>>
  BY DEF Navigate
<1>4. url' \in Urls /\ refused' \in BOOLEAN
  BY <1>1 DEF NavigationInv, CallsOK
<1>5. /\ r \in CallRecords /\ r.at = "stopping" /\ r.answer = "none" /\ r.from = 0 /\ r.end = "none" /\ r.url = u
  BY <1>1, UnusedFields, NavigationAssumption DEF CallRecords, CallStages
<1>6. CallOK(r)
  BY <1>5 DEF CallOK
<1> HIDE DEF is, r
<1>7. cs = [x \in Calls |-> cs[x]] /\ DOMAIN cs = Calls /\ cs[c] = r /\ \A x \in Calls \ {c} : cs[x] = is[x]
  BY <1>2
<1> HIDE DEF cs
<1>8. doc \in Nat
  BY LoadingAssumption DEF NavigationInv, LoadingInv, DocsOK
<1>9. ASSUME LoadingInv', GoRightly, page'.closed = page.closed,
             calls' = [x \in Calls |-> calls'[x]], DOMAIN calls' = Calls,
             \A x \in Calls \ {c} : calls'[x] = cs[x],
             CallOK(calls'[c]), calls'[c].at \notin {"waiting", "done"},
             Stands(c, calls'[c], doc, pending, page.closed)
      PROVE  NavigationInv' /\ Rightly
  <2>1. Moves(c)
    BY <1>1, <1>9 DEF Moves
  <2>2. \A x \in Calls \ {c} : Kept(x) \/ calls'[x] = Over("failed") \/ calls'[x] = Over("interrupted")
    BY <1>2, <1>7, <1>9 DEF Kept
  <2>3. \A x \in Calls : Kept(x) \/ Fails(x) \/ Moves(x)
    BY <2>1, <2>2 DEF Fails
  <2>4. \A x \in Calls \ {c} : Stands(x, calls'[x], doc', pending', page'.closed)
    BY <1>1, <1>8, <1>9, <2>2, SameStand, OverStands DEF NavigationInv
  <2>5. \A x \in Calls : Stands(x, calls'[x], doc', pending', page'.closed)
    BY <1>1, <1>9, <2>4
  <2>6. QED
    BY <1>4, <1>9, <2>3, <2>5, Together
<1>10. CASE Overtaken(u) = {}
  <2>1. Begin(c, cs)
    BY <1>3, <1>10
  <2>2. LoadingInv' /\ GoRightly /\ page'.closed = page.closed
    BY <1>1, <2>1, BeginPage
  <2>3. v \in Urls
    BY <1>5, <1>7 DEF NavigationInv, CallsOK
  <2>4. /\ calls' = [x \in Calls |-> calls'[x]] /\ DOMAIN calls' = Calls
        /\ calls'[c] = s /\ \A x \in Calls \ {c} : calls'[x] = cs[x]
    <3>1. calls' = [cs EXCEPT ![c] = s]
      BY <2>1 DEF Begin
    <3> HIDE DEF s
    <3>2. QED
      BY <1>7, <3>1
  <2> HIDE DEF v
  <2>5. CallOK(s) /\ s.at = "asking" /\ Stands(c, s, doc, pending, page.closed)
    BY <1>5, <1>6, <1>7, <2>3, BegunCall
  <2> HIDE DEF s
  <2>6. QED
    BY <1>9, <2>2, <2>4, <2>5
<1>11. CASE Overtaken(u) # {}
  <2>1. calls' = cs /\ UNCHANGED <<page, stale, miscounted, jumped, astray>>
    BY <1>3, <1>11
  <2>2. UNCHANGED <<loadingVars, pending, loads>>
    BY <1>1, <2>1 DEF loadingVars
  <2>3. LoadingInv' /\ GoRightly /\ page'.closed = page.closed
    BY <2>2, SameLoads
  <2>4. Stands(c, r, doc, pending, page.closed)
    BY <1>5, <1>8 DEF Stands, Captured
  <2>5. QED
    BY <1>5, <1>6, <1>7, <1>9, <2>1, <2>3, <2>4
<1>12. QED
  BY <1>10, <1>11

LEMMA WaitCalls ==
  ASSUME NavigationInv, NEW c \in Calls, NEW until \in Untils, Wait(c, until)
  PROVE  NavigationInv' /\ Rightly
<1> DEFINE r == [Unused EXCEPT !.kind = "wait", !.until = until, !.at = "reading"]
<1>1. /\ ~page.closed /\ calls[c].at = "idle" /\ until # "commit"
      /\ calls' = [calls EXCEPT ![c] = r]
      /\ UNCHANGED <<loadingVars, url, pending, loads, refused>>
  BY DEF Wait
<1>2. until \in States
  BY <1>1, NavigationAssumption
<1>3. /\ r \in CallRecords /\ r.at = "reading" /\ r.kind = "wait" /\ r.until = until
      /\ r.answer = "none" /\ r.from = 0 /\ r.end = "none"
  BY <1>2, UnusedFields DEF CallRecords, CallStages
<1> HIDE DEF r
<1>4. CallOK(r)
  BY <1>2, <1>3 DEF CallOK
<1>5. doc \in Nat
  BY LoadingAssumption DEF NavigationInv, LoadingInv, DocsOK
<1>6. Stands(c, r, doc, pending, page.closed)
  BY <1>3, <1>5 DEF Stands, Captured
<1>7. refused' \in BOOLEAN
  BY <1>1 DEF NavigationInv, CallsOK
<1>8. QED
  BY <1>1, <1>3, <1>4, <1>6, <1>7, OneMoves, SameLoads

LEMMA SetContentCalls ==
  ASSUME NavigationInv, NEW c \in Calls, NEW until \in Untils, SetContent(c, until)
  PROVE  NavigationInv' /\ Rightly
<1> DEFINE r == [Unused EXCEPT !.kind = "content", !.until = until, !.at = "asking"]
<1>1. /\ ~page.closed /\ calls[c].at = "idle"
      /\ calls' = [calls EXCEPT ![c] = r]
      /\ page' = Reset(page) /\ Recount
      /\ UNCHANGED <<phase, doc, kid, spent, url, pending, loads, refused>>
  BY DEF SetContent
<1>2. /\ r \in CallRecords /\ r.at = "asking" /\ r.kind = "content"
      /\ r.answer = "none" /\ r.from = 0 /\ r.end = "none"
  BY NavigationAssumption, UnusedFields DEF CallRecords, CallStages
<1> HIDE DEF r
<1>3. CallOK(r)
  BY <1>2 DEF CallOK
<1>4. doc \in Nat
  BY LoadingAssumption DEF NavigationInv, LoadingInv, DocsOK
<1>5. Stands(c, r, doc, pending, page.closed)
  BY <1>2, <1>4 DEF Stands, Captured
<1>6. LoadingInv' /\ GoRightly
  BY <1>1, ResetStep DEF NavigationInv
<1>7. page'.closed = page.closed
  BY <1>1, ResetFields DEF NavigationInv, LoadingInv, PageOK, SameFrames
<1>8. refused' \in BOOLEAN
  BY <1>1 DEF NavigationInv, CallsOK
<1>9. QED
  BY <1>1, <1>2, <1>3, <1>5, <1>6, <1>7, <1>8, OneMoves

LEMMA WriteCalls ==
  ASSUME NavigationInv, NEW c \in Calls, Write(c)
  PROVE  NavigationInv' /\ Rightly
<1> DEFINE r == [calls[c] EXCEPT !.at = "going"]
<1>1. /\ ~page.closed /\ calls[c].at = "asking" /\ calls[c].kind = "content"
      /\ calls' = [calls EXCEPT ![c] = r] /\ page' = Detached(page, page.frames)
      /\ UNCHANGED <<doc, url, pending, refused>>
  BY DEF Write
<1>2. CallOK(calls[c]) /\ calls[c] \in CallRecords /\ Stands(c, calls[c], doc, pending, page.closed)
  BY DEF NavigationInv, CallsOK, CallOK, ArriveOK
<1>3. /\ r \in CallRecords /\ r.at = "going" /\ r.kind = "content" /\ r.answer = calls[c].answer
      /\ r.from = calls[c].from /\ r.end = calls[c].end
  BY <1>1, <1>2 DEF CallRecords, CallStages
<1> HIDE DEF r
<1>4. CallOK(r)
  BY <1>1, <1>2, <1>3 DEF CallOK
<1>5. Stands(c, r, doc, pending, page.closed)
  BY <1>1, <1>2, <1>3 DEF Stands
<1>6. LoadingInv' /\ GoRightly
  BY WriteStep DEF NavigationInv
<1>7. page'.closed = page.closed
  <2> DEFINE theirs == {x \in DOMAIN page.sent : page.sent[x] \in Children}
  <2>1. theirs = {x \in DOMAIN page.sent : page.sent[x] \in Children}
    OBVIOUS
  <2> HIDE DEF theirs
  <2>2. Leaves(page, page', page.frames)
    BY <1>1, <2>1, FramesGo DEF NavigationInv
  <2>3. QED
    BY <2>2 DEF Leaves
<1>8. refused' \in BOOLEAN
  BY <1>1 DEF NavigationInv, CallsOK
<1>9. QED
  BY <1>1, <1>3, <1>4, <1>5, <1>6, <1>7, <1>8, OneMoves

\* A call begins to wait.
LEMMA BeginsToWait ==
  ASSUME NavigationInv, LoadingInv', LeaveRightly, NEW c \in Calls, NEW u \in States,
         calls[c].until = u, calls[c].at \in {"reading", "going"},
         calls' = [calls EXCEPT ![c].at = "waiting"],
         page'.waiters \subseteq page.waiters \cup {[call |-> c, state |-> u]},
         [call |-> c, state |-> u] \notin page'.waiters => Reached(u) \/ astray,
         UNCHANGED <<doc, url, pending, refused>>, page'.closed = page.closed,
         calls[c].kind # "content" => calls[c].at = "reading" /\ (page.closed \/ pending.load = NoLoad)
  PROVE  NavigationInv' /\ Rightly
<1> DEFINE r == [calls[c] EXCEPT !.at = "waiting"]
           n == [call |-> c, state |-> u]
<1>1. CallOK(calls[c]) /\ calls[c] \in CallRecords /\ Stands(c, calls[c], doc, pending, page.closed)
  BY DEF NavigationInv, CallsOK, CallOK, ArriveOK
<1>2. /\ DOMAIN calls' = Calls /\ calls' = [x \in Calls |-> calls'[x]] /\ calls'[c] = r
      /\ \A x \in Calls \ {c} : calls'[x] = calls[x]
  BY DEF NavigationInv, CallsOK
<1>3. /\ r \in CallRecords /\ r.at = "waiting" /\ r.kind = calls[c].kind /\ r.until = u
      /\ r.answer = calls[c].answer /\ r.from = calls[c].from /\ r.end = calls[c].end
  BY <1>1 DEF CallRecords, CallStages
<1> HIDE DEF r
<1>4. CallOK(r) /\ r.end = "none"
  BY <1>1, <1>3 DEF CallOK
<1>5. Stands(c, r, doc, pending, page.closed)
  <2>1. r.from <= doc /\ (r.answer = "committed" => r.from < doc)
        /\ (r.answer = "started" => r.kind \in {"reload", "history"})
    BY <1>1, <1>3 DEF Stands
  <2>2. ASSUME Captured(r) PROVE r.answer \in {"same", "started", "committed"}
    <3>1. calls[c].at = "reading" /\ Captured(calls[c])
      BY <1>3, <2>2 DEF Captured
    <3>2. QED
      BY <1>1, <1>3, <3>1 DEF Stands
  <2>3. ASSUME r.answer = "started", ~page.closed PROVE r.from < doc
    <3>1. calls[c].at = "reading" /\ pending.load = NoLoad
      BY <1>3, <2>1, <2>3
    <3>2. QED
      BY <1>1, <1>3, <2>3, <3>1 DEF Stands
  <2>4. QED
    BY <1>3, <2>1, <2>2, <2>3 DEF Stands
<1>6. \A x \in Calls \ {c} : Kept(x)
  BY <1>2 DEF Kept
<1>7. \A x \in Calls : Stands(x, calls'[x], doc', pending', page'.closed)
  BY <1>2, <1>5, <1>6, SameStand DEF NavigationInv
<1>8. \A x \in Calls : CallOK(calls'[x])
  BY <1>2, <1>4 DEF NavigationInv, CallsOK
<1>9. CallsOK'
  BY <1>2, <1>8 DEF NavigationInv, CallsOK
<1>10. ArriveOK'
  BY <1>7 DEF ArriveOK
<1>11. WaitersOK'
  <2> SUFFICES ASSUME NEW w \in page'.waiters
               PROVE  calls'[w.call].at = "done" \/ (calls'[w.call].at = "waiting" /\ calls'[w.call].until = w.state)
    BY DEF WaitersOK
  <2>1. CASE w = n
    BY <1>2, <1>3, <2>1
  <2>2. CASE w \in page.waiters
    <3>1. /\ w.call \in Calls
          /\ calls[w.call].at = "done" \/ (calls[w.call].at = "waiting" /\ calls[w.call].until = w.state)
      BY <2>2 DEF NavigationInv, LoadingInv, PageOK, Waited, WaitersOK
    <3>2. w.call # c
      BY <3>1
    <3>3. QED
      BY <1>2, <3>1, <3>2
  <2>3. QED
    BY <2>1, <2>2
<1>12. LoadedFor(c)
  <2>1. ASSUME ~HasWaiter(page', c) PROVE Reached(u) \/ astray
    BY <2>1 DEF HasWaiter
  <2>2. QED
    BY <1>2, <1>3, <2>1 DEF LoadedFor, LetGo
<1>13. ArrivesFor(c)
  BY <1>2, <1>4 DEF ArrivesFor
<1>14. Rightly
  BY <1>6, <1>12, <1>13, RightlyStep DEF Rightly
<1>15. QED
  BY <1>9, <1>10, <1>11, <1>14 DEF NavigationInv

LEMMA AwaitsClosed ==
  ASSUME LoadingInv, NEW q \in {page, Synced(page, phase[Main])}, NEW c, NEW u, page' = Awaits(q, c, u)
  PROVE  page'.closed = page.closed
<1>1. IsPage(page)
  BY DEF LoadingInv, PageOK
<1>2. IsPage(q) /\ SameFrames(page, q)
  <2>1. CASE q = page
    BY <1>1, <2>1 DEF SameFrames
  <2>2. CASE q = Synced(page, phase[Main])
    BY <1>1, <2>2, SyncedFields
  <2>3. QED
    BY <2>1, <2>2
<1>3. SameFrames(q, Awaits(q, c, u))
  BY <1>2, AwaitsFields
<1>4. QED
  BY <1>2, <1>3 DEF SameFrames

LEMMA ReadCalls ==
  ASSUME NavigationInv, NEW c \in Calls, Read(c)
  PROVE  NavigationInv' /\ Rightly
<1> DEFINE u == calls[c].until
           q == ReadyState
<1>1. /\ calls[c].at = "reading" /\ (page.closed \/ pending.load = NoLoad)
      /\ page' = Awaits(q, c, u) /\ calls' = [calls EXCEPT ![c].at = "waiting"]
      /\ UNCHANGED <<phase, doc, kid, spent, stale, miscounted, jumped, url, pending, loads, refused, astray>>
  BY DEF Read
<1>2. u \in States
  BY <1>1 DEF NavigationInv, CallsOK, CallOK
<1>3. q \in {page, Synced(page, phase[Main])} /\ LoadingInv
  BY DEF ReadyState, NavigationInv
<1> HIDE DEF q
<1>4. /\ LoadingInv' /\ LeaveRightly
      /\ page'.waiters \subseteq page.waiters \cup {[call |-> c, state |-> u]}
      /\ [call |-> c, state |-> u] \notin page'.waiters => Reached(u) \/ astray
  BY <1>1, <1>2, <1>3, AwaitStep
<1>5. page'.closed = page.closed
  BY <1>1, <1>3, AwaitsClosed
<1>6. QED
  BY <1>1, <1>2, <1>4, <1>5, BeginsToWait

LEMMA WrittenCalls ==
  ASSUME NavigationInv, NEW c \in Calls, Written(c)
  PROVE  NavigationInv' /\ Rightly
<1> DEFINE u == calls[c].until
<1>1. /\ ~page.closed /\ calls[c].at = "going" /\ calls[c].kind = "content"
      /\ UNCHANGED <<phase, doc, kid, spent, stale, miscounted, jumped, url, pending, loads, refused, astray>>
  BY DEF Written
<1>2. CallOK(calls[c]) /\ calls[c] \in CallRecords /\ Stands(c, calls[c], doc, pending, page.closed)
  BY DEF NavigationInv, CallsOK, CallOK, ArriveOK
<1>3. CASE u = "commit"
  <2> DEFINE r == [calls[c] EXCEPT !.at = "leaving"]
  <2>1. calls' = [calls EXCEPT ![c] = r] /\ page' = page
    BY <1>3 DEF Written
  <2>2. /\ r \in CallRecords /\ r.at = "leaving" /\ r.kind = "content" /\ r.answer = calls[c].answer
        /\ r.from = calls[c].from /\ r.end = calls[c].end
    BY <1>1, <1>2 DEF CallRecords, CallStages
  <2> HIDE DEF r
  <2>3. CallOK(r)
    BY <1>1, <1>2, <2>2 DEF CallOK
  <2>4. Stands(c, r, doc, pending, page.closed)
    BY <1>1, <1>2, <2>2 DEF Stands, Captured
  <2>5. UNCHANGED <<loadingVars, pending, loads>> /\ refused' \in BOOLEAN
    BY <1>1, <2>1 DEF loadingVars, NavigationInv, CallsOK
  <2>6. QED
    BY <1>1, <2>1, <2>2, <2>3, <2>4, <2>5, OneMoves, SameLoads
<1>4. CASE u # "commit"
  <2>1. page' = Awaits(page, c, u) /\ calls' = [calls EXCEPT ![c].at = "waiting"]
    BY <1>4 DEF Written
  <2>2. u \in States
    BY <1>2, <1>4 DEF CallRecords
  <2>3. page \in {page, Synced(page, phase[Main])} /\ LoadingInv
    BY DEF NavigationInv
  <2>4. /\ LoadingInv' /\ LeaveRightly
        /\ page'.waiters \subseteq page.waiters \cup {[call |-> c, state |-> u]}
        /\ [call |-> c, state |-> u] \notin page'.waiters => Reached(u) \/ astray
    BY <1>1, <2>1, <2>2, <2>3, AwaitStep
  <2>5. page'.closed = page.closed
    BY <2>1, <2>3, AwaitsClosed
  <2>6. QED
    BY <1>1, <2>1, <2>2, <2>4, <2>5, BeginsToWait
<1>5. QED
  BY <1>3, <1>4

\* The end of one call, whichever way, and of its wait.
LEMMA OneEnds ==
  ASSUME NavigationInv, LoadingInv', NEW c \in Calls, NEW how \in {"ok", "timeout", "closed"},
         calls' = End(calls, {c}, how), UNCHANGED <<doc, url, pending, refused>>,
         page'.closed = page.closed,
         page'.waiters \subseteq page.waiters, \A w \in page.waiters : w.call # c => w \in page'.waiters,
         how = "ok" => ArrivesFor(c)
  PROVE  NavigationInv' /\ Rightly
<1>1. /\ DOMAIN calls' = Calls /\ calls' = [x \in Calls |-> calls'[x]]
      /\ \A x \in Calls : calls'[x] = IF x \in {c} THEN Over(how) ELSE calls[x]
  BY EndCalls
<1>2. calls'[c] = Over(how) /\ \A x \in Calls \ {c} : Kept(x) /\ calls'[x] = calls[x]
  BY <1>1 DEF Kept
<1>3. CallOK(Over(how)) /\ Over(how).at = "done" /\ Over(how).end = how
  BY OverFields
<1>4. doc \in Nat
  BY LoadingAssumption DEF NavigationInv, LoadingInv, DocsOK
<1>5. CallsOK'
  BY <1>1, <1>2, <1>3 DEF NavigationInv, CallsOK
<1>6. ArriveOK'
  <2>1. \A x \in Calls \ {c} : Stands(x, calls'[x], doc', pending', page'.closed)
    BY <1>2, SameStand DEF NavigationInv
  <2>2. Stands(c, calls'[c], doc', pending', page'.closed)
    BY <1>2, <1>4, OverStands
  <2>3. QED
    BY <2>1, <2>2 DEF ArriveOK
<1>7. WaitersOK'
  <2> SUFFICES ASSUME NEW w \in page'.waiters
               PROVE  calls'[w.call].at = "done" \/ (calls'[w.call].at = "waiting" /\ calls'[w.call].until = w.state)
    BY DEF WaitersOK
  <2>1. /\ w.call \in Calls
        /\ calls[w.call].at = "done" \/ (calls[w.call].at = "waiting" /\ calls[w.call].until = w.state)
    BY DEF NavigationInv, LoadingInv, PageOK, Waited, WaitersOK
  <2>2. QED
    BY <1>2, <1>3, <2>1
<1>8. ASSUME NEW x \in Calls PROVE LoadedFor(x)
  <2>1. CASE x = c
    BY <1>2, <1>3, <2>1 DEF LoadedFor, LetGo
  <2>2. CASE x # c
    <3>1. HasWaiter(page, x) => HasWaiter(page', x)
      BY <2>2 DEF HasWaiter
    <3>2. QED
      BY <1>2, <2>2, <3>1 DEF LoadedFor, LetGo
  <2>3. QED
    BY <2>1, <2>2
<1>9. ASSUME NEW x \in Calls PROVE ArrivesFor(x)
  <2>1. CASE x = c
    BY <1>2, <1>3, <2>1 DEF ArrivesFor
  <2>2. CASE x # c
    <3>1. Captured(calls[x]) => calls[x].end = "none"
      BY DEF NavigationInv, CallsOK, CallOK, Captured
    <3>2. QED
      BY <1>2, <2>2, <3>1 DEF ArrivesFor
  <2>3. QED
    BY <2>1, <2>2
<1>10. QED
  BY <1>5, <1>6, <1>7, <1>8, <1>9 DEF NavigationInv, Rightly

LEMMA LeaveCalls ==
  ASSUME NavigationInv, NEW c \in Calls, Leave(c)
  PROVE  NavigationInv' /\ Rightly
<1> DEFINE how == IF page.closed /\ calls[c].kind = "content" THEN "closed" ELSE "ok"
<1>1. /\ calls[c].at = "leaving" \/ (calls[c].at = "waiting" /\ ~HasWaiter(page, c))
      /\ page.closed \/ pending.load = NoLoad \/ calls[c].kind = "wait"
      /\ calls' = End(calls, {c}, how)
      /\ UNCHANGED <<loadingVars, url, pending, loads, refused>>
  BY DEF Leave
<1>2. how \in {"ok", "timeout", "closed"}
  OBVIOUS
<1> HIDE DEF how
<1>3. LoadingInv' /\ page' = page /\ doc' = doc
  BY <1>1, SameLoads
<1>4. ArrivesFor(c)
  <2> SUFFICES ASSUME ~page.closed, Captured(calls[c])
               PROVE  \/ doc # calls[c].from \/ calls[c].answer = "same"
                      \/ calls[c].kind # "goto" /\ calls[c].until = "commit"
    BY DEF ArrivesFor
  <2>1. Stands(c, calls[c], doc, pending, page.closed)
    BY DEF NavigationInv, ArriveOK
  <2>2. pending.load = NoLoad
    BY <1>1 DEF Captured
  <2>3. calls[c].from \in Nat /\ doc \in Nat
    BY LoadingAssumption DEF NavigationInv, LoadingInv, DocsOK, CallsOK, CallOK, CallRecords
  <2>4. calls[c].answer \in {"same", "started", "committed"}
    BY <1>1, <2>1 DEF Stands
  <2>5. CASE calls[c].answer = "committed"
    BY <2>1, <2>3, <2>5 DEF Stands
  <2>6. CASE calls[c].answer = "started"
    <3>1. calls[c].kind # "goto"
      BY <2>1, <2>6 DEF Stands
    <3>2. ASSUME ~(calls[c].at = "leaving" /\ calls[c].until = "commit") PROVE calls[c].from < doc
      BY <2>1, <2>2, <2>6, <3>2 DEF Stands
    <3>3. QED
      BY <2>3, <3>1, <3>2
  <2>7. QED
    BY <2>4, <2>5, <2>6
<1>5. QED
  BY <1>1, <1>2, <1>3, <1>4, OneEnds

LEMMA TimeOutCalls ==
  ASSUME NavigationInv, NEW c \in Calls, TimeOut(c)
  PROVE  NavigationInv' /\ Rightly
<1>1. /\ calls' = End(calls, {c}, "timeout") /\ UNCHANGED <<doc, url, pending, refused>>
      /\ page' = [page EXCEPT !.waiters = {w \in @ : w.call # c}]
  BY DEF TimeOut
<1>2. LoadingInv' /\ page'.waiters = {w \in page.waiters : w.call # c}
  BY TimeOutStep DEF NavigationInv
<1>3. page'.closed = page.closed
  BY <1>1 DEF NavigationInv, LoadingInv, PageOK, IsPage, PageFields
<1>4. QED
  BY <1>1, <1>2, <1>3, OneEnds

LEMMA CloseCalls ==
  ASSUME NavigationInv, Close
  PROVE  NavigationInv' /\ Rightly
<1> DEFINE S == {c \in Calls : \/ calls[c].at \in {"stopping", "asking", "going"}
                               \/ calls[c].at = "waiting" /\ HasWaiter(page, c)}
<1>1. LoadingInv' /\ page'.waiters = {} /\ page'.closed
  BY CloseStep DEF NavigationInv
<1>2. calls' = End(calls, S, "closed") /\ UNCHANGED <<doc, url, pending, refused>>
  BY DEF Close
<1>3. \A c \in Calls \ S : ~(calls[c].at = "waiting" /\ HasWaiter(page, c))
  OBVIOUS
<1> HIDE DEF S
<1>4. /\ DOMAIN calls' = Calls /\ calls' = [c \in Calls |-> calls'[c]]
      /\ \A c \in Calls : calls'[c] = IF c \in S THEN Over("closed") ELSE calls[c]
  BY <1>2, EndCalls
<1>5. CallOK(Over("closed")) /\ Over("closed").at = "done" /\ Over("closed").end = "closed"
  BY OverFields
<1>6. doc \in Nat
  BY LoadingAssumption DEF NavigationInv, LoadingInv, DocsOK
<1>7. CallsOK'
  BY <1>2, <1>4, <1>5 DEF NavigationInv, CallsOK
<1>8. \A c \in Calls : Kept(c) \/ calls'[c] = Over("closed")
  BY <1>4 DEF Kept
<1>9. ArriveOK'
  <2>1. \A c \in Calls : Stands(c, calls'[c], doc', pending', page'.closed)
    BY <1>1, <1>2, <1>6, <1>8, SameStand, OverStands DEF NavigationInv
  <2>2. QED
    BY <2>1 DEF ArriveOK
<1>10. WaitersOK'
  BY <1>1 DEF WaitersOK
<1>11. ASSUME NEW c \in Calls PROVE LoadedFor(c) /\ ArrivesFor(c)
  <2>1. CASE c \in S
    BY <1>4, <1>5, <2>1 DEF LoadedFor, LetGo, ArrivesFor
  <2>2. CASE c \notin S
    <3>1. calls'[c] = calls[c] /\ ~(calls[c].at = "waiting" /\ HasWaiter(page, c))
      BY <1>3, <1>4, <2>2
    <3>2. LoadedFor(c)
      BY <3>1 DEF LoadedFor, LetGo
    <3>3. Captured(calls[c]) => calls[c].end = "none"
      BY DEF NavigationInv, CallsOK, CallOK, Captured
    <3>4. QED
      BY <3>1, <3>2, <3>3 DEF ArrivesFor
  <2>3. QED
    BY <2>1, <2>2
<1>12. QED
  BY <1>1, <1>7, <1>9, <1>10, <1>11 DEF NavigationInv, Rightly

-----------------------------------------------------------------------------
(* The theorems.                                                           *)

LEMMA InitLoading ==
  ASSUME Init
  PROVE  LoadingInv
<1>1. /\ page = [domcontentloaded |-> TRUE, load |-> TRUE, networkidle |-> TRUE,
                 same |-> FALSE, allow |-> FALSE, loading |-> {}, active |-> 0, timers |-> None,
                 quiet |-> With(None, Main, [NoQuiet EXCEPT !.reached = TRUE]),
                 frames |-> {}, sent |-> None, waiters |-> {}, closed |-> FALSE]
      /\ phase = [f \in Frames |-> IF f = Main THEN "loaded" ELSE "none"]
      /\ doc = 0 /\ kid = [f \in Children |-> NoRequest]
      /\ spent = {} /\ stale = {} /\ miscounted = FALSE /\ jumped = FALSE /\ astray = FALSE
      /\ loads = 0 /\ pending = Nothing
  BY DEF Init, LoadingInit
<1>2. /\ page.domcontentloaded = TRUE /\ page.load = TRUE /\ page.networkidle = TRUE
      /\ page.same = FALSE /\ page.allow = FALSE /\ page.loading = {} /\ page.active = 0
      /\ page.timers = None /\ page.quiet = With(None, Main, [NoQuiet EXCEPT !.reached = TRUE])
      /\ page.frames = {} /\ page.sent = None /\ page.waiters = {} /\ page.closed = FALSE
  BY <1>1
<1>3. IsPage(page)
  BY <1>1 DEF IsPage, PageFields
<1>4. DOMAIN None = {}
  BY DEF None
<1>5. /\ DOMAIN page.quiet = {Main} /\ page.quiet[Main] = [active |-> 0, reached |-> TRUE]
      /\ page.quiet = [x \in {Main} |-> [active |-> 0, reached |-> TRUE]]
  BY <1>2, <1>4 DEF With, NoQuiet
<1>6. Running(page)
  <2>1. IsQuiet(page.quiet)
    BY <1>5 DEF IsQuiet, QuietStates
  <2>2. page.timers \in [DOMAIN page.timers -> SUBSET DOMAIN page.timers] /\ DOMAIN page.timers = {}
    BY <1>2, <1>4 DEF None
  <2>3. QED
    BY <1>2, <2>1, <2>2 DEF Running
<1>7. DOMAIN page.sent = {} /\ page.sent = [x \in {} |-> x]
  BY <1>2 DEF None
<1>8. Framed(page)
  BY <1>2, <1>5, <1>7, FS_EmptySet DEF Framed, Frames
<1>9. PageOK(page)
  BY <1>2, <1>3, <1>6, <1>8 DEF PageOK, Flagged, Waited
<1>10. IdleOK(page, stale, miscounted, jumped)
  <2>1. DOMAIN page.sent \ stale = {} /\ Cardinality({}) = 0
    BY <1>7, FS_EmptySet
  <2>2. \A f : {r \in DOMAIN page.sent \ stale : page.sent[r] = f} = {}
    BY <2>1
  <2>3. CountsRight(page, stale)
    BY <1>2, <1>5, <2>1, <2>2 DEF CountsRight
  <2>4. \A f \in DOMAIN page.quiet : page.quiet[f].active = 0
    BY <1>5
  <2>5. DOMAIN page.sent \subseteq stale
    BY <2>1
  <2>6. QED
    BY <2>3, <2>4, <2>5 DEF IdleOK
<1>11. phase[Main] = "loaded" /\ Main \notin Children
  BY <1>1, LoadingAssumption DEF Frames
<1>12. LoadOK(page, phase[Main], astray)
  BY <1>2, <1>11 DEF LoadOK
<1>13. DocsOK
  <2>1. \A f \in Children : phase[f] = "none"
    BY <1>1, <1>11 DEF Frames
  <2>2. page.frames = {f \in Children : phase[f] \notin {"none", "gone"}}
    BY <1>2, <2>1
  <2>3. phase \in [Frames -> {"none", "gone", "blank", "starting", "parsing", "interactive", "ready", "loaded"}]
    BY <1>1
  <2>4. kid \in [Children -> Requests \cup {NoRequest}]
    BY <1>1
  <2>5. \A f \in Children : phase[f] # "starting"
    BY <2>1
  <2>6. loads \in 0 .. MaxLoads /\ doc \in 0 .. loads
    BY <1>1, LoadingAssumption
  <2>7. spent \subseteq Requests /\ DOMAIN page.sent \subseteq spent \cup (1 .. loads) /\ stale \subseteq spent \cup (1 .. loads)
    BY <1>1, <1>7
  <2>8. miscounted \in BOOLEAN /\ jumped \in BOOLEAN /\ astray \in BOOLEAN
    BY <1>1
  <2>9. QED
    BY <1>11, <2>2, <2>3, <2>4, <2>5, <2>6, <2>7, <2>8 DEF DocsOK
<1>14. PendingOK
  <2>1. (CHOOSE u \in Urls : TRUE) \in Urls
    BY NavigationAssumption
  <2>2. QED
    BY <1>1, <2>1, LoadingAssumption DEF PendingOK, Nothing, NoLoad
<1>15. QED
  BY <1>9, <1>10, <1>12, <1>13, <1>14 DEF LoadingInv

LEMMA InitInv ==
  ASSUME Init
  PROVE  NavigationInv
<1>1. LoadingInv
  BY InitLoading
<1>2. /\ calls = [c \in Calls |-> Unused] /\ url \in Urls /\ refused = FALSE /\ doc = 0
      /\ page.waiters = {}
  BY DEF Init, LoadingInit
<1>3. CallOK(Unused)
  BY UnusedFields DEF CallOK
<1>4. CallsOK
  BY <1>2, <1>3 DEF CallsOK
<1>5. \A p, b : \A c \in Calls : Stands(c, Unused, 0, p, b)
  BY UnusedFields DEF Stands, Captured
<1>6. ArriveOK
  BY <1>2, <1>5 DEF ArriveOK
<1>7. WaitersOK
  BY <1>2 DEF WaitersOK
<1>8. QED
  BY <1>1, <1>4, <1>6, <1>7 DEF NavigationInv

\* Every step keeps the invariant, and lets go and succeeds rightly.
LEMMA NavigationStep ==
  ASSUME NavigationInv, [Next]_vars
  PROVE  NavigationInv' /\ Rightly
<1>1. CASE LoadingNext /\ UNCHANGED navigationVars
  BY <1>1, LoadingCalls
<1>2. CASE \E u \in Urls : PageNavigates(u)
  BY <1>2, PageNavigatesCalls
<1>3. CASE DropBody \/ Commit \/ FailLoad
  BY <1>3, DropBodyCalls, CommitCalls, FailLoadCalls
<1>4. CASE \E c \in Calls : \E until \in Untils : Starts(c, until)
  BY <1>4, NavigateCalls, WaitCalls, SetContentCalls DEF Starts
<1>5. CASE \E c \in Calls : Goes(c)
  <2> PICK c \in Calls : Goes(c)
    BY <1>5
  <2>1. CASE StopLoading(c)
    BY <2>1, FailLoadCalls
  <2>2. CASE Stopped(c) \/ Loading(c)
    BY <2>2, StoppedCalls, LoadingCallCalls
  <2>3. CASE Jumping(c) \/ Refusing(c)
    BY <2>3, JumpingCalls, RefusingCalls
  <2>4. CASE Answered(c) \/ Read(c)
    BY <2>4, AnsweredCalls, ReadCalls
  <2>5. CASE Leave(c) \/ Write(c) \/ Written(c)
    BY <2>5, LeaveCalls, WriteCalls, WrittenCalls
  <2>6. QED
    BY <2>1, <2>2, <2>3, <2>4, <2>5 DEF Goes
<1>6. CASE \E c \in Calls : TimeOut(c)
  BY <1>6, TimeOutCalls
<1>7. CASE Close
  BY <1>7, CloseCalls
<1>8. CASE UNCHANGED vars
  <2>1. UNCHANGED <<loadingVars, pending, loads>> /\ UNCHANGED <<calls, url, refused>>
    BY <1>8 DEF vars, navigationVars
  <2>2. LoadingInv' /\ GoRightly /\ page'.closed = page.closed /\ doc' = doc
    BY <2>1, SameLoads
  <2>3. \A c \in Calls : Kept(c)
    BY <2>1 DEF Kept
  <2>4. \A c \in Calls : Stands(c, calls'[c], doc', pending', page'.closed)
    BY <2>1, <2>2, <2>3, SameStand DEF NavigationInv
  <2>5. DOMAIN calls' = Calls /\ calls' = [c \in Calls |-> calls'[c]] /\ url' \in Urls /\ refused' \in BOOLEAN
    BY <2>1 DEF NavigationInv, CallsOK
  <2>6. QED
    BY <2>2, <2>3, <2>4, <2>5, Together
<1>9. QED
  BY <1>1, <1>2, <1>3, <1>4, <1>5, <1>6, <1>7, <1>8 DEF Next

\* The invariant: what the adapter knows fits the browser, its counts cover the
\* requests, and every call stands where its answer says.
THEOREM InductiveInvariant == Spec => []NavigationInv
<1>1. Init => NavigationInv
  BY InitInv
<1>2. NavigationInv /\ [Next]_vars => NavigationInv'
  BY NavigationStep
<1>3. QED
  BY <1>1, <1>2, PTL DEF Spec

LEMMA InvImpliesTypeOK ==
  ASSUME NavigationInv
  PROVE  NavigationTypeOK
<1>1. /\ PageOK(page) /\ IsPage(page) /\ Flagged(page) /\ Running(page) /\ Framed(page) /\ Waited(page)
      /\ DocsOK /\ PendingOK
  BY DEF NavigationInv, LoadingInv, PageOK
<1>2. 1 .. loads \subseteq Loads /\ doc \in 0 .. MaxLoads /\ loads \in 0 .. MaxLoads
  BY <1>1, LoadingAssumption DEF DocsOK, Loads
<1>3. /\ page = [x \in PageFields |-> page[x]]
      /\ {page.domcontentloaded, page.load, page.networkidle} \subseteq BOOLEAN
      /\ {page.same, page.allow, page.closed} \subseteq BOOLEAN
  BY <1>1 DEF IsPage, Flagged
<1>4. /\ page.active \in Nat
      /\ page.quiet \in [DOMAIN page.quiet -> [active : Nat, reached : BOOLEAN]]
      /\ page.timers \in [DOMAIN page.timers -> SUBSET DOMAIN page.timers]
      /\ \A t \in DOMAIN page.timers :
            IF t = "page" THEN page.active = 0 /\ ~page.closed
            ELSE t \in DOMAIN page.quiet /\ page.quiet[t].active = 0
  BY <1>1 DEF Running, IsQuiet, QuietStates
<1>5. /\ page.loading \subseteq Frames
      /\ DOMAIN page.quiet \subseteq page.frames \cup {Main}
      /\ page.sent \in [DOMAIN page.sent -> page.frames \cup {Main}]
  BY <1>1 DEF Framed
<1>6. /\ page.frames = {f \in Children : phase[f] \notin {"none", "gone"}}
      /\ DOMAIN page.sent \subseteq spent \cup Loads /\ stale \subseteq spent \cup Loads
      /\ phase \in [Frames -> {"none", "gone", "blank", "starting", "parsing", "interactive", "ready", "loaded"}]
      /\ kid \in [Children -> Requests \cup {NoRequest}] /\ spent \subseteq Requests
      /\ \A f \in Children : phase[f] = "starting" => kid[f] \in spent
      /\ {miscounted, jumped, astray} \subseteq BOOLEAN
  BY <1>1, <1>2 DEF DocsOK
<1>7. LoadingTypeOK
  BY <1>2, <1>3, <1>4, <1>5, <1>6 DEF LoadingTypeOK
<1>8. /\ calls \in [Calls -> CallRecords]
      /\ \A c \in Calls : calls[c].at = "done" <=> calls[c].end # "none"
      /\ url \in Urls /\ refused \in BOOLEAN
  <2>1. \A c \in Calls : calls[c] \in CallRecords /\ (calls[c].at = "done" <=> calls[c].end # "none")
    BY DEF NavigationInv, CallsOK, CallOK
  <2>2. QED
    BY <2>1 DEF NavigationInv, CallsOK
<1>9. /\ pending \in [load : 0 .. MaxLoads, url : Urls, by : Calls \cup {NoCall}]
      /\ pending.load # NoLoad => pending.load = loads /\ page.sent[loads] = Main
      /\ page.waiters \subseteq [call : Calls, state : States]
  BY <1>1 DEF PendingOK, Waited
<1>10. QED
  BY <1>2, <1>7, <1>8, <1>9 DEF NavigationTypeOK, CallRecords

\* The variables have their types; a timer runs only of a page, or a frame, of
\* which no request is counted (maybeArmNetworkIdleTimer, 8446-8505), the page
\* knows the frames there are, and a call is done exactly when it has its end.
THEOREM TypeCorrect == Spec => []NavigationTypeOK
<1>1. NavigationInv => NavigationTypeOK
  BY InvImpliesTypeOK
<1>2. QED
  BY <1>1, InductiveInvariant, PTL

\* The page is idle when nothing is under way that was sent since its counters
\* were reset: the counters of the page and of its frames, their timers and the
\* recalculation (8446-8528) agree, over frames that come and go, navigations
\* and resets.
THEOREM PageIdle == Spec => []IdleMeansIdle
<1>1. NavigationInv => IdleMeansIdle
  BY DEF NavigationInv, LoadingInv, IdleOK, IdleMeansIdle
<1>2. QED
  BY <1>1, InductiveInvariant, PTL

\* Who waits for "load" or "domcontentloaded" is let go when the document has
\* come so far, in every interleaving of calls, frames, loads and resets: the
\* flags that flushWaiters looks at are never ahead of the document, but where
\* LoadMeansLoaded names the code that lets them.
THEOREM LetGoWhenLoaded == Spec => LoadMeansLoaded
<1>1. NavigationInv /\ [Next]_vars =>
        [\A c \in Calls :
           ~LetGo(c) /\ LetGo(c)' =>
             Reached(calls[c].until) \/ Reached(calls[c].until)' \/ astray \/ astray']_vars
  BY NavigationStep DEF Rightly, LoadedFor
<1>2. QED
  BY <1>1, InductiveInvariant, PTL DEF Spec, LoadMeansLoaded

\* goto, reload, goBack and goForward do not succeed on the document they began
\* on, unless their target is in it: a call whose load is lost, overtaken or
\* refused fails, whichever call or page gave rise to that.
THEOREM Arrival == Spec => NavigationsArrive
<1>1. NavigationInv /\ [Next]_vars =>
        [\A c \in Calls :
           ~page.closed /\ Captured(calls[c]) /\ calls'[c].end = "ok" =>
             \/ doc # calls[c].from \/ calls[c].answer = "same"
             \/ calls[c].kind # "goto" /\ calls[c].until = "commit"]_vars
  BY NavigationStep DEF Rightly, ArrivesFor
<1>2. QED
  BY <1>1, InductiveInvariant, PTL DEF Spec, NavigationsArrive

=============================================================================
