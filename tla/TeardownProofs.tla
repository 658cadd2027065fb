--------------------------- MODULE TeardownProofs ---------------------------
(***************************************************************************)
(* Proofs about Teardown, for any contexts, pages, calls and waiters: the  *)
(* close events come in order, and a recording is given up only for the    *)
(* reasons VideoKept names.                                                *)
(***************************************************************************)
EXTENDS Teardown, TLAPS

-----------------------------------------------------------------------------
(* The inductive invariant.                                                *)

\* The call i of close() has begun, and is for the page p.
CallFor(i, p) == i \in Calls /\ call[i] # "idle" /\ pageOf[i] = p

\* Calls, and those they wait for, are for one page; a context makes its
\* calls only as it closes.
CallsPlaced ==
  /\ \A p \in Pages :
       /\ pageOf[p] = p
       /\ ctx[ContextOf[p]] \notin {"none", "creating", "refused"}
       /\ ctx[ContextOf[p]] = "open" => call[p] = "idle"
       /\ closePromise[p] # None => CallFor(closePromise[p], p)
  /\ \A k \in Calls :
       /\ call[k] # "idle" => pageOf[k] \in Pages
       /\ call[k] = "joined" => CallFor(joined[k], pageOf[k])

\* What the stages of a call say of its page.  One call stops the recording.
StagesMean ==
  \A k \in Calls :
    /\ call[k] \in {"owner", "late"} => pageOf[k] \in owned
    /\ call[k] = "adapter" => pageOf[k] \notin Open
    /\ call[k] = "done" => pageOf[k] \in owned \/ pageOf[k] \notin Open
    /\ call[k] = "failed" => video[pageOf[k]] = "failed"
    /\ call[k] = "video" =>
         /\ video[pageOf[k]] = "stopping"
         /\ \A i \in Calls : call[i] = "video" /\ pageOf[i] = pageOf[k] => i = k

\* The events that have been sent are those of what is closed.
ToldOnce ==
  /\ \A p \in Pages : told[p] = IF p \in Open THEN 0 ELSE 1
  /\ \A c \in Contexts : told[c] = IF ctx[c] = "closed" THEN 1 ELSE 0

\* A context sends its event after its pages have gone.
Emptied ==
  \A p \in Pages : ctx[ContextOf[p]] \in {"emptied", "left", "closed"} => p \notin Open

LeaversGone ==
  browser \in {"adapter", "closed"} => \A c \in leavers : ctx[c] = "closed"

\* A context that has closed its pages leaves those to its adapter that own
\* it, and those for which close() was not waited for as another threw.
GivenUp(p) == p \in owned \/ \E q \in PagesOf(ContextOf[p]) : video[q] = "failed"

PagesTried ==
  \A p \in Open :
    /\ ctx[ContextOf[p]] = "pages" => call[p] # "idle"
    /\ ctx[ContextOf[p]] \in {"hars", "adapter"} /\ video[p] = "on" => GivenUp(p)

IInv ==
  /\ TypeOK /\ CallsPlaced /\ StagesMean /\ ToldOnce /\ Emptied /\ LeaversGone /\ PagesTried
  /\ VideoKept

-----------------------------------------------------------------------------

LEMMA InitIInv == Init => IInv
<1> SUFFICES ASSUME Init PROVE IInv
  OBVIOUS
<1> USE TeardownAssumption
<1>1. TypeOK
  BY DEF Init, TypeOK, Calls
<1>2. CallsPlaced /\ StagesMean
  BY DEF Init, CallsPlaced, StagesMean, Calls
<1>3. ToldOnce /\ Emptied /\ LeaversGone /\ PagesTried /\ VideoKept
  BY DEF Init, ToldOnce, Emptied, LeaversGone, PagesTried, VideoKept, Open
<1>4. QED
  BY <1>1, <1>2, <1>3 DEF IInv

-----------------------------------------------------------------------------
(* The end of a page.                                                      *)

Videos == {"none", "on", "stopping", "saved", "failed", "lost"}

\* The waits that a close event rejects have the types of waits.
LEMMA Rejected ==
  ASSUME TypeOK, NEW ss, Reject(ss)
  PROVE  wait' \in [Waiters -> {"idle", "waiting", "asking", "answered", "rejected"}]
BY DEF TypeOK, Reject

\* What the end of pages does to pages and their recordings.
PagesEnded(ps, why, recordings) ==
  /\ ended' \in [Pages -> {"open", "close", "context", "tab", "disconnect"}]
  /\ video' \in [Pages -> Videos]
  /\ wait' \in [Waiters -> {"idle", "waiting", "asking", "answered", "rejected"}]
  /\ told' \in [Pages \cup Contexts -> 0..2]
  /\ Open' = Open \ ps
  /\ \A p \in Pages : ended'[p] = ended[p] \/ (p \in ps /\ p \in Open /\ ended'[p] = why)
  /\ \A p \in Pages :
       \/ video'[p] = recordings[p]
       \/ p \in ps /\ p \in Open /\ recordings[p] = "on" /\ video'[p] = "lost"
  /\ \A p \in Pages : told'[p] = IF p \in Open' THEN 0 ELSE 1
  /\ \A c \in Contexts : told'[c] = told[c]

LEMMA PagesEndEffect ==
  ASSUME TypeOK, ToldOnce, NEW ps \in SUBSET Pages,
         NEW why \in {"close", "context", "tab", "disconnect"},
         NEW recordings \in [Pages -> Videos], PagesEnd(ps, why, recordings)
  PROVE  PagesEnded(ps, why, recordings)
<1> DEFINE fresh == ps \cap Open
<1> USE TeardownAssumption
<1>1. fresh \subseteq Pages /\ Open \subseteq Pages
  BY DEF Open
<1>2. /\ ended' = [p \in Pages |-> IF p \in fresh THEN why ELSE ended[p]]
      /\ video' = [p \in Pages |-> IF p \in fresh /\ recordings[p] = "on" THEN "lost"
                                   ELSE recordings[p]]
      /\ told' = [t \in DOMAIN told |-> IF t \in fresh THEN told[t] + 1 ELSE told[t]]
      /\ Reject(fresh)
  BY DEF PagesEnd, Tell
<1> HIDE DEF fresh
<1>3. Open' = Open \ ps
  BY <1>2 DEF Open, fresh
<1>4. \A p \in Pages : told'[p] = IF p \in Open' THEN 0 ELSE 1
  BY <1>2, <1>3 DEF TypeOK, ToldOnce, fresh
<1>5. \A c \in Contexts : told'[c] = told[c]
  BY <1>1, <1>2 DEF TypeOK
<1>6. told' \in [Pages \cup Contexts -> 0..2]
  BY <1>2, <1>4, <1>5 DEF TypeOK
<1>7. ended' \in [Pages -> {"open", "close", "context", "tab", "disconnect"}]
  BY <1>2 DEF TypeOK
<1>8. video' \in [Pages -> Videos]
  BY <1>2 DEF Videos
<1>9. wait' \in [Waiters -> {"idle", "waiting", "asking", "answered", "rejected"}]
  BY <1>2, Rejected
<1>10. \A p \in Pages : ended'[p] = ended[p] \/ (p \in ps /\ p \in Open /\ ended'[p] = why)
  BY <1>2 DEF fresh
<1>11. \A p \in Pages :
         \/ video'[p] = recordings[p]
         \/ p \in ps /\ p \in Open /\ recordings[p] = "on" /\ video'[p] = "lost"
  BY <1>2 DEF fresh
<1>12. QED
  BY <1>3, <1>4, <1>5, <1>6, <1>7, <1>8, <1>9, <1>10, <1>11 DEF PagesEnded

\* Pages end without their calls: by themselves, by the context's adapter, or
\* as the browser disconnects.
LEMMA PagesEndIInv ==
  ASSUME IInv, NEW ps \in SUBSET Pages, NEW why \in {"context", "tab", "disconnect"},
         PagesEnd(ps, why, video), UNCHANGED <<browserVars, callVars, scopeOf, missed>>,
         ctx' \in [Contexts -> {"none", "creating", "refused", "open", "pages", "hars", "adapter",
                                "emptied", "leaving", "left", "closed", "failed"}],
         \A c \in Contexts :
           \/ ctx'[c] = ctx[c]
           \/ ctx[c] = "adapter" /\ ctx'[c] = "emptied" /\ PagesOf(c) \subseteq ps,
         why = "context" => \A p \in ps : ctx[ContextOf[p]] = "adapter"
  PROVE  IInv'
<1> USE TeardownAssumption DEF IInv
<1>1. /\ ended' \in [Pages -> {"open", "close", "context", "tab", "disconnect"}]
      /\ video' \in [Pages -> Videos]
      /\ wait' \in [Waiters -> {"idle", "waiting", "asking", "answered", "rejected"}]
      /\ told' \in [Pages \cup Contexts -> 0..2]
      /\ Open' = Open \ ps
      /\ \A p \in Pages : ended'[p] = ended[p] \/ (p \in ps /\ p \in Open /\ ended'[p] = why)
      /\ \A p \in Pages :
           \/ video'[p] = video[p]
           \/ p \in ps /\ p \in Open /\ video[p] = "on" /\ video'[p] = "lost"
      /\ \A p \in Pages : told'[p] = IF p \in Open' THEN 0 ELSE 1
      /\ \A c \in Contexts : told'[c] = told[c]
  <2>1. PICK recordings : recordings = video
    OBVIOUS
  <2>2. PagesEnd(ps, why, recordings) /\ recordings \in [Pages -> Videos]
    BY <2>1 DEF PagesEnd, TypeOK, Videos
  <2>3. PagesEnded(ps, why, recordings)
    BY <2>2, PagesEndEffect
  <2>4. QED
    BY <2>1, <2>3 DEF PagesEnded
<1>2. TypeOK'
  BY <1>1 DEF TypeOK, Videos, browserVars, callVars
<1>3. CallsPlaced'
  BY DEF CallsPlaced, CallFor, callVars
<1>4. StagesMean'
  BY <1>1 DEF StagesMean, CallsPlaced, callVars
<1>5. ToldOnce'
  BY <1>1 DEF ToldOnce
<1>6. Emptied' /\ LeaversGone'
  BY <1>1 DEF Emptied, LeaversGone, PagesOf, browserVars, TypeOK
<1>7. PagesTried'
  BY <1>1 DEF PagesTried, GivenUp, PagesOf, callVars, Open
<1>8. VideoKept'
  <2> SUFFICES ASSUME NEW p \in Pages, video'[p] = "lost"
               PROVE  \/ p \in owned'
                      \/ ended'[p] \in {"tab", "disconnect"}
                      \/ \E q \in PagesOf(ContextOf[p]) : video'[q] = "failed"
    BY DEF VideoKept, PagesOf
  <2>1. CASE video[p] = "lost"
    BY <1>1, <2>1 DEF VideoKept, PagesOf, callVars, Open
  <2>2. CASE video[p] # "lost"
    <3>1. p \in ps /\ p \in Open /\ video[p] = "on" /\ ended'[p] = why
      BY <1>1, <2>2 DEF Open
    <3>2. CASE why = "context"
      BY <1>1, <3>1, <3>2 DEF PagesTried, GivenUp, PagesOf, callVars
    <3>3. QED
      BY <3>1, <3>2
  <2>3. QED
    BY <2>1, <2>2
<1>9. QED
  BY <1>2, <1>3, <1>4, <1>5, <1>6, <1>7, <1>8

LEMMA TabGoesIInv == ASSUME IInv, NEW p \in Pages, TabGoes(p) PROVE IInv'
BY PagesEndIInv DEF TabGoes, IInv, TypeOK

LEMMA AdapterEmptiesIInv == ASSUME IInv, NEW c \in Contexts, AdapterEmpties(c) PROVE IInv'
BY PagesEndIInv DEF AdapterEmpties, IInv, TypeOK, PagesOf

\* _didDisconnect() of the pages, up to the last.
LEMMA PageLeavesIInv == ASSUME IInv, NEW c \in Contexts, PageLeaves(c) PROVE IInv'
<1> USE TeardownAssumption
<1>1. CASE \E p \in ToClose(c) : PagesEnd({p}, "disconnect", video) /\ UNCHANGED ctx
  <2>1. PICK p \in Pages : PagesEnd({p}, "disconnect", video) /\ UNCHANGED ctx
    BY <1>1 DEF ToClose, PagesOf
  <2>2. QED
    BY <2>1, PagesEndIInv DEF PageLeaves, IInv, TypeOK
<1>2. CASE ToClose(c) = {} /\ ctx' = [ctx EXCEPT ![c] = "left"]
           /\ UNCHANGED <<ended, video, wait, told>>
  <2> USE DEF IInv
  <2>1. ctx[c] = "leaving" /\ \A p \in Pages : ContextOf[p] = c => p \notin Open
    BY <1>2 DEF PageLeaves, ToClose, PagesOf
  <2>2. UNCHANGED <<browserVars, callVars, scopeOf, missed>>
    BY DEF PageLeaves
  <2>3. TypeOK'
    BY <1>2, <2>2 DEF TypeOK, browserVars, callVars
  <2>4. CallsPlaced' /\ StagesMean'
    BY <1>2, <2>1, <2>2 DEF CallsPlaced, CallFor, StagesMean, TypeOK, Open, callVars
  <2>5. ToldOnce' /\ Emptied' /\ LeaversGone'
    BY <1>2, <2>1, <2>2 DEF ToldOnce, Emptied, LeaversGone, TypeOK, Open, browserVars
  <2>6. PagesTried' /\ VideoKept'
    BY <1>2, <2>1, <2>2 DEF PagesTried, GivenUp, VideoKept, PagesOf, TypeOK, Open, callVars
  <2>7. QED
    BY <2>3, <2>4, <2>5, <2>6
<1>3. QED
  BY <1>1, <1>2 DEF PageLeaves

-----------------------------------------------------------------------------
(* page.close().                                                           *)

pageVars == <<browserVars, ended, video, owned, wait, told, scopeOf, missed>>

\* A context begins to close, by itself or for the page that owns it: it makes
\* a call for each of its pages, which had none of it so far.
LEMMA CallsOfContextIInv ==
  ASSUME IInv, NEW c \in Contexts, ctx[c] = "open", NEW own \in Pages \cup {None},
         NEW k \in Users \cup {None}, CallsOfContext(c, own, k), UNCHANGED pageVars,
         pageOf' = IF k = None THEN pageOf ELSE [pageOf EXCEPT ![k] = own],
         k = None <=> own = None,
         k # None => call[k] = "idle" /\ own \in owned /\ closePromise[own] = None
                     /\ ContextOf[own] = c
  PROVE  IInv'
<1> USE TeardownAssumption DEF IInv
<1> DEFINE ps == ToClose(c)
<1>1. /\ ps \subseteq Pages /\ None \notin Calls /\ k \notin Pages /\ Pages \subseteq Calls
      /\ k # None => k \in Calls
      /\ \A p \in ps : ContextOf[p] = c /\ call[p] = "idle"
      /\ \A p \in Pages : ContextOf[p] = c /\ p \in Open => p \in ps
  BY DEF ToClose, PagesOf, Calls, CallsPlaced
<1>2. /\ call' = [i \in Calls |-> IF i \in ps THEN FirstStage(i)
                                  ELSE IF i = k THEN "owner" ELSE call[i]]
      /\ joined' = [i \in Calls |-> IF i \in ps THEN closePromise[i] ELSE joined[i]]
      /\ closePromise' = [p \in Pages |->
                            IF p = own THEN k
                            ELSE IF p \in ps /\ closePromise[p] = None THEN p
                            ELSE closePromise[p]]
      /\ ctx' = [ctx EXCEPT ![c] = "pages"]
  BY DEF CallsOfContext
<1> HIDE DEF ps
<1>3. \A p \in ps :
        /\ FirstStage(p) \in {"joined", "late", "dialogs"}
        /\ FirstStage(p) = "joined" => closePromise[p] # None
        /\ FirstStage(p) = "late" => p \in owned
  BY DEF FirstStage
<1>4. /\ \A i \in Calls : pageOf'[i] = IF i = k THEN own ELSE pageOf[i]
      /\ \A i \in Calls : call[i] # "idle" => pageOf'[i] = pageOf[i] /\ call'[i] = call[i]
      /\ pageOf' \in [Calls -> Pages \cup {None}]
  BY <1>1, <1>2 DEF TypeOK
<1>5. TypeOK'
  <2>1. /\ call' \in [Calls -> {"idle", "joined", "owner", "late", "dialogs", "video", "adapter",
                                "done", "failed"}]
        /\ joined' \in [Calls -> Calls \cup {None}]
        /\ closePromise' \in [Pages -> Calls \cup {None}]
    BY <1>1, <1>2, <1>3 DEF TypeOK
  <2>2. QED
    BY <1>2, <1>4, <2>1 DEF TypeOK, pageVars, browserVars
<1>6. CallsPlaced'
  <2>1. \A i, p : CallFor(i, p) => i \in Calls /\ call'[i] # "idle" /\ pageOf'[i] = p
    BY <1>4 DEF CallFor
  <2>2. ASSUME NEW p \in Pages, closePromise'[p] # None
        PROVE  /\ closePromise'[p] \in Calls /\ call'[closePromise'[p]] # "idle"
               /\ pageOf'[closePromise'[p]] = p
    <3>1. CASE p = own
      BY <1>1, <1>2, <1>4, <2>2, <3>1
    <3>2. CASE p # own /\ p \in ps /\ closePromise[p] = None
      <4>1. closePromise'[p] = p /\ p \in Calls /\ call'[p] = FirstStage(p)
        BY <1>1, <1>2, <3>2
      <4>2. pageOf'[p] = p
        BY <1>1, <1>4 DEF CallsPlaced
      <4>3. QED
        BY <1>3, <3>2, <4>1, <4>2
    <3>3. CASE p # own /\ ~(p \in ps /\ closePromise[p] = None)
      <4>1. closePromise'[p] = closePromise[p] /\ CallFor(closePromise[p], p)
        BY <1>2, <2>2, <3>3 DEF CallsPlaced
      <4>2. QED
        BY <2>1, <4>1
    <3>4. QED
      BY <3>1, <3>2, <3>3
  <2>3. ASSUME NEW i \in Calls, call'[i] = "joined"
        PROVE  /\ joined'[i] \in Calls /\ call'[joined'[i]] # "idle"
               /\ pageOf'[joined'[i]] = pageOf'[i]
    <3>1. CASE i \in ps
      <4>1. closePromise[i] # None /\ pageOf'[i] = i /\ joined'[i] = closePromise[i]
        BY <1>1, <1>2, <1>3, <1>4, <2>3, <3>1 DEF CallsPlaced
      <4>2. CallFor(joined'[i], i)
        BY <1>1, <3>1, <4>1 DEF CallsPlaced
      <4>3. QED
        BY <2>1, <4>1, <4>2
    <3>2. CASE i \notin ps
      <4>1. call[i] = "joined" /\ joined'[i] = joined[i] /\ pageOf'[i] = pageOf[i]
        BY <1>2, <1>4, <2>3, <3>2
      <4>2. CallFor(joined'[i], pageOf'[i])
        BY <4>1 DEF CallsPlaced
      <4>3. QED
        BY <2>1, <4>2
    <3>3. QED
      BY <3>1, <3>2
  <2>4. \A p \in Pages : /\ pageOf'[p] = p
                         /\ ctx'[ContextOf[p]] \notin {"none", "creating", "refused"}
                         /\ ctx'[ContextOf[p]] = "open" => call'[p] = "idle"
    BY <1>1, <1>2, <1>4 DEF CallsPlaced, TypeOK
  <2>5. \A i \in Calls : call'[i] # "idle" => pageOf'[i] \in Pages
    BY <1>1, <1>2, <1>4, <2>4 DEF CallsPlaced
  <2>6. QED
    BY <2>2, <2>3, <2>4, <2>5 DEF CallsPlaced, CallFor
<1>7. StagesMean'
  BY <1>1, <1>2, <1>3, <1>4 DEF StagesMean, CallsPlaced, Open, pageVars
<1>8. ToldOnce' /\ Emptied' /\ LeaversGone'
  BY <1>2 DEF ToldOnce, Emptied, LeaversGone, TypeOK, Open, pageVars, browserVars
<1>9. PagesTried'
  <2> SUFFICES ASSUME NEW p \in Open'
               PROVE  /\ ctx'[ContextOf[p]] = "pages" => call'[p] # "idle"
                      /\ ctx'[ContextOf[p]] \in {"hars", "adapter"} /\ video'[p] = "on" =>
                           GivenUp(p)'
    BY DEF PagesTried
  <2>1. p \in Open /\ p \in Pages
    BY DEF Open, pageVars
  <2>2. QED
    BY <1>1, <1>2, <1>3, <1>4, <2>1 DEF PagesTried, GivenUp, PagesOf, TypeOK, pageVars
<1>10. VideoKept'
  BY DEF VideoKept, PagesOf, pageVars
<1>11. QED
  BY <1>5, <1>6, <1>7, <1>8, <1>9, <1>10

LEMMA ContextCloseIInv == ASSUME IInv, NEW c \in Contexts, ContextClose(c) PROVE IInv'
BY CallsOfContextIInv, TeardownAssumption DEF ContextClose, pageVars

\* A call of close() that its user makes.
LEMMA PageCloseIInv ==
  ASSUME IInv, NEW k \in Users, NEW p \in Pages, PageClose(k, p) PROVE IInv'
<1> USE TeardownAssumption
<1>1. /\ call[k] = "idle" /\ pageOf' = [pageOf EXCEPT ![k] = p] /\ UNCHANGED pageVars
      /\ k \in Calls /\ k \notin Pages /\ k # None /\ Pages \subseteq Calls /\ None \notin Calls
  BY DEF PageClose, pageVars, Calls
<1>2. CASE /\ closePromise[p] = None /\ p \in owned /\ ctx[ContextOf[p]] = "open"
           /\ CallsOfContext(ContextOf[p], p, k)
  BY <1>1, <1>2, CallsOfContextIInv
<1>3. CASE /\ call' = [call EXCEPT ![k] = FirstStage(p)]
           /\ joined' = [joined EXCEPT ![k] = closePromise[p]]
           /\ closePromise' = [closePromise EXCEPT ![p] = IF @ = None THEN k ELSE @]
           /\ UNCHANGED ctx
  <2> USE DEF IInv
  <2>1. /\ FirstStage(p) \in {"joined", "late", "dialogs"}
        /\ FirstStage(p) = "joined" => closePromise[p] # None
        /\ FirstStage(p) = "late" => p \in owned
    BY DEF FirstStage
  <2>2. /\ \A i \in Calls \ {k} : call'[i] = call[i] /\ pageOf'[i] = pageOf[i]
                                  /\ joined'[i] = joined[i]
        /\ call'[k] = FirstStage(p) /\ pageOf'[k] = p /\ joined'[k] = closePromise[p]
        /\ \A q \in Pages : closePromise'[q] = IF q = p /\ closePromise[q] = None THEN k
                                              ELSE closePromise[q]
    BY <1>1, <1>3 DEF TypeOK
  <2>3. \A i, q : CallFor(i, q) => i \in Calls /\ call'[i] # "idle" /\ pageOf'[i] = q
    BY <1>1, <2>2 DEF CallFor
  <2>4. TypeOK'
    BY <1>1, <1>3, <2>1 DEF TypeOK, pageVars, browserVars
  <2>5. CallsPlaced'
    <3>1. ASSUME NEW q \in Pages, closePromise'[q] # None
          PROVE  /\ closePromise'[q] \in Calls /\ call'[closePromise'[q]] # "idle"
                 /\ pageOf'[closePromise'[q]] = q
      <4>1. CASE q = p /\ closePromise[q] = None
        BY <1>1, <2>1, <2>2, <4>1
      <4>2. CASE ~(q = p /\ closePromise[q] = None)
        <5>1. closePromise'[q] = closePromise[q] /\ CallFor(closePromise[q], q)
          BY <2>2, <3>1, <4>2 DEF CallsPlaced
        <5>2. QED
          BY <2>3, <5>1
      <4>3. QED
        BY <4>1, <4>2
    <3>2. ASSUME NEW i \in Calls, call'[i] = "joined"
          PROVE  /\ joined'[i] \in Calls /\ call'[joined'[i]] # "idle"
                 /\ pageOf'[joined'[i]] = pageOf'[i]
      <4>1. CallFor(joined'[i], pageOf'[i])
        BY <2>1, <2>2, <3>2 DEF CallsPlaced
      <4>2. QED
        BY <2>3, <4>1
    <3>3. \A q \in Pages : /\ pageOf'[q] = q
                           /\ ctx'[ContextOf[q]] \notin {"none", "creating", "refused"}
                           /\ ctx'[ContextOf[q]] = "open" => call'[q] = "idle"
      BY <1>1, <1>3, <2>2 DEF CallsPlaced
    <3>4. \A i \in Calls : call'[i] # "idle" => pageOf'[i] \in Pages
      BY <2>2 DEF CallsPlaced
    <3>5. QED
      BY <3>1, <3>2, <3>3, <3>4 DEF CallsPlaced, CallFor
  <2>6. StagesMean'
    BY <1>1, <2>1, <2>2 DEF StagesMean, Open, pageVars
  <2>7. ToldOnce' /\ Emptied' /\ LeaversGone'
    BY <1>1, <1>3 DEF ToldOnce, Emptied, LeaversGone, Open, pageVars, browserVars
  <2>8. PagesTried' /\ VideoKept'
    BY <1>1, <1>3, <2>2 DEF PagesTried, GivenUp, VideoKept, PagesOf, Open, pageVars
  <2>9. QED
    BY <2>4, <2>5, <2>6, <2>7, <2>8
<1>4. QED
  BY <1>2, <1>3 DEF PageClose

\* A call returns or throws.  It returns when its page is closed, or its
\* context is to close the page; it throws when the recording cannot be stopped.
LEMMA EndCallIInv ==
  ASSUME IInv, NEW k \in Calls, NEW result \in {"done", "failed"}, call[k] # "idle",
         EndCall(k, result),
         UNCHANGED <<browserVars, ctx, ended, owned, wait, told, scopeOf, missed>>,
         video' \in [Pages -> Videos],
         \A q \in Pages : \/ video'[q] = video[q]
                          \/ call[k] = "video" /\ q = pageOf[k] /\ video'[q] = "failed",
         result = "done" => pageOf[k] \in owned \/ pageOf[k] \notin Open,
         result = "failed" => video'[pageOf[k]] = "failed",
         call[k] = "video" => result = "failed"
  PROVE  IInv'
<1> USE TeardownAssumption DEF IInv
<1>1. /\ call' = [call EXCEPT ![k] = result] /\ pageOf' = pageOf /\ joined' = joined
      /\ \A i \in Calls \ {k} : call'[i] = call[i]
      /\ call'[k] = result
      /\ closePromise' \in [Pages -> Calls \cup {None}]
      /\ \A q \in Pages : closePromise'[q] = closePromise[q] \/ closePromise'[q] = None
      /\ pageOf[k] \in Pages
  BY DEF EndCall, TypeOK, CallsPlaced
<1>2. TypeOK'
  BY <1>1 DEF TypeOK, Videos, browserVars
<1>3. CallsPlaced'
  <2>1. \A i, q : CallFor(i, q) => i \in Calls /\ call'[i] # "idle" /\ pageOf'[i] = q
    BY <1>1 DEF CallFor
  <2>2. ASSUME NEW q \in Pages, closePromise'[q] # None
        PROVE  /\ closePromise'[q] \in Calls /\ call'[closePromise'[q]] # "idle"
               /\ pageOf'[closePromise'[q]] = q
    <3>1. closePromise'[q] = closePromise[q] /\ CallFor(closePromise[q], q)
      BY <1>1, <2>2 DEF CallsPlaced
    <3>2. QED
      BY <2>1, <3>1
  <2>3. ASSUME NEW i \in Calls, call'[i] = "joined"
        PROVE  /\ joined'[i] \in Calls /\ call'[joined'[i]] # "idle"
               /\ pageOf'[joined'[i]] = pageOf'[i]
    <3>1. CallFor(joined'[i], pageOf'[i])
      BY <1>1, <2>3 DEF CallsPlaced
    <3>2. QED
      BY <2>1, <3>1
  <2>4. QED
    BY <1>1, <2>2, <2>3 DEF CallsPlaced, CallFor
<1>4. StagesMean'
  BY <1>1 DEF StagesMean, Open, CallsPlaced
<1>5. ToldOnce' /\ Emptied' /\ LeaversGone'
  BY DEF ToldOnce, Emptied, LeaversGone, Open, browserVars
<1>6. PagesTried'
  BY <1>1 DEF PagesTried, GivenUp, PagesOf, Open
<1>7. VideoKept'
  BY DEF VideoKept, PagesOf
<1>8. QED
  BY <1>2, <1>3, <1>4, <1>5, <1>6, <1>7

\* A call closes the adapter of its page, whose recording is not on.
LEMMA CloseAdapterIInv ==
  ASSUME IInv, NEW k \in Calls, call[k] \in {"dialogs", "video"},
         NEW recordings \in [Pages -> Videos], CloseAdapter(k, recordings),
         UNCHANGED <<browserVars, ctx, owned, scopeOf, missed>>,
         recordings[pageOf[k]] # "on",
         \A q \in Pages : \/ recordings[q] = video[q]
                          \/ call[k] = "video" /\ q = pageOf[k] /\ recordings[q] = "saved"
  PROVE  IInv'
<1> USE TeardownAssumption DEF IInv
<1>1. pageOf[k] \in Pages
  BY DEF CallsPlaced
<1>2. PagesEnded({pageOf[k]}, "close", recordings)
  <2>1. PICK ps \in SUBSET Pages : ps = {pageOf[k]}
    BY <1>1
  <2>2. PagesEnd(ps, "close", recordings)
    BY <2>1 DEF CloseAdapter
  <2>3. PagesEnded(ps, "close", recordings)
    BY <2>2, PagesEndEffect
  <2>4. QED
    BY <2>1, <2>3 DEF PagesEnded
<1>3. /\ ended' \in [Pages -> {"open", "close", "context", "tab", "disconnect"}]
      /\ video' \in [Pages -> Videos]
      /\ wait' \in [Waiters -> {"idle", "waiting", "asking", "answered", "rejected"}]
      /\ told' \in [Pages \cup Contexts -> 0..2]
      /\ Open' = Open \ {pageOf[k]}
      /\ \A p \in Pages : ended'[p] = ended[p] \/ (p \in Open /\ ended'[p] = "close")
      /\ \A p \in Pages : video'[p] = recordings[p]
      /\ \A p \in Pages : told'[p] = IF p \in Open' THEN 0 ELSE 1
      /\ \A c \in Contexts : told'[c] = told[c]
  BY <1>2 DEF PagesEnded
<1>4. /\ call' = [call EXCEPT ![k] = "adapter"] /\ UNCHANGED <<pageOf, joined, closePromise>>
      /\ \A i \in Calls \ {k} : call'[i] = call[i]
      /\ call'[k] = "adapter"
  BY DEF CloseAdapter, TypeOK
<1>5. TypeOK'
  BY <1>3, <1>4 DEF TypeOK, Videos, browserVars
<1>6. CallsPlaced'
  BY <1>4 DEF CallsPlaced, CallFor
<1>7. StagesMean'
  BY <1>3, <1>4 DEF StagesMean, CallsPlaced
<1>8. ToldOnce' /\ Emptied' /\ LeaversGone'
  BY <1>3 DEF ToldOnce, Emptied, LeaversGone, browserVars
<1>9. PagesTried'
  BY <1>3, <1>4 DEF PagesTried, GivenUp, PagesOf, Open, StagesMean
<1>10. VideoKept'
  BY <1>3 DEF VideoKept, PagesOf, Open, StagesMean
<1>11. QED
  BY <1>5, <1>6, <1>7, <1>8, <1>9, <1>10

LEMMA CallStepIInv == ASSUME IInv, NEW k \in Calls, CallStep(k) PROVE IInv'
<1> USE TeardownAssumption
<1>1. /\ call[k] # "idle" => pageOf[k] \in Pages
      /\ video \in [Pages -> Videos]
  BY DEF IInv, CallsPlaced, TypeOK, Videos
<1>2. CASE JoinedEnds(k)
  <2>1. PICK j : j = joined[k]
    OBVIOUS
  <2>2. /\ call[k] = "joined" /\ j \in Calls /\ pageOf[j] = pageOf[k]
        /\ call[j] \in {"done", "failed"} /\ EndCall(k, call[j])
        /\ UNCHANGED <<browserVars, ctx, ended, video, owned, wait, told, scopeOf, missed>>
    BY <1>2, <2>1 DEF JoinedEnds, IInv, CallsPlaced, CallFor, EndCall
  <2>3. PICK result \in {"done", "failed"} : result = call[j]
    BY <2>2
  <2>4. EndCall(k, result)
    BY <2>2, <2>3 DEF EndCall
  <2>5. /\ result = "done" => pageOf[k] \in owned \/ pageOf[k] \notin Open
        /\ result = "failed" => video'[pageOf[k]] = "failed"
    BY <2>2, <2>3 DEF IInv, StagesMean
  <2>6. QED
    BY <1>1, <2>2, <2>4, <2>5, EndCallIInv
<1>3. CASE OwnerEnds(k)
  <2>1. pageOf[k] \in owned /\ call[k] \in {"owner", "late"}
    BY <1>3 DEF OwnerEnds, IInv, StagesMean
  <2>2. QED
    BY <1>1, <1>3, <2>1, EndCallIInv DEF OwnerEnds
<1>4. CASE AdapterClosed(k)
  <2>1. pageOf[k] \notin Open
    BY <1>4 DEF AdapterClosed, IInv, StagesMean
  <2>2. QED
    BY <1>1, <1>4, <2>1, EndCallIInv DEF AdapterClosed
<1>5. CASE DialogsDismissed(k)
  <2>1. /\ call[k] = "dialogs" /\ pageOf[k] \in Pages
        /\ UNCHANGED <<browserVars, ctx, owned, scopeOf, missed>>
    BY <1>1, <1>5 DEF DialogsDismissed
  <2>2. CASE video[pageOf[k]] # "on" /\ CloseAdapter(k, video)
    <3>1. PICK recordings \in [Pages -> Videos] : recordings = video
      BY <1>1
    <3>2. CloseAdapter(k, recordings)
      BY <2>2, <3>1 DEF CloseAdapter, PagesEnd
    <3>3. QED
      BY <2>1, <2>2, <3>1, <3>2, CloseAdapterIInv
  <2>3. CASE /\ video[pageOf[k]] = "on"
             /\ video' = [video EXCEPT ![pageOf[k]] = "stopping"]
             /\ call' = [call EXCEPT ![k] = "video"]
             /\ UNCHANGED <<ended, wait, told, pageOf, joined, closePromise>>
    <3> USE DEF IInv
    <3>1. /\ \A i \in Calls \ {k} : call'[i] = call[i]
          /\ call'[k] = "video"
          /\ \A q \in Pages : video'[q] = IF q = pageOf[k] THEN "stopping" ELSE video[q]
      BY <2>1, <2>3 DEF TypeOK
    <3>2. TypeOK'
      BY <2>1, <2>3 DEF TypeOK, browserVars
    <3>3. CallsPlaced'
      BY <2>1, <2>3, <3>1 DEF CallsPlaced, CallFor
    <3>4. StagesMean'
      BY <2>1, <2>3, <3>1 DEF StagesMean, CallsPlaced, Open
    <3>5. ToldOnce' /\ Emptied' /\ LeaversGone'
      BY <2>1, <2>3 DEF ToldOnce, Emptied, LeaversGone, Open, browserVars
    <3>6. PagesTried' /\ VideoKept'
      BY <2>1, <2>3, <3>1 DEF PagesTried, VideoKept, GivenUp, PagesOf, Open
    <3>7. QED
      BY <3>2, <3>3, <3>4, <3>5, <3>6
  <2>4. QED
    BY <1>5, <2>2, <2>3 DEF DialogsDismissed
<1>6. CASE VideoStops(k)
  <2>1. /\ call[k] = "video" /\ pageOf[k] \in Pages /\ video[pageOf[k]] = "stopping"
        /\ UNCHANGED <<browserVars, ctx, owned, scopeOf, missed>>
    BY <1>1, <1>6 DEF VideoStops, IInv, StagesMean
  <2>2. CASE CloseAdapter(k, [video EXCEPT ![pageOf[k]] = "saved"])
    <3>1. PICK recordings \in [Pages -> Videos] :
            recordings = [video EXCEPT ![pageOf[k]] = "saved"]
      BY <1>1 DEF Videos
    <3>2. CloseAdapter(k, recordings)
      BY <2>2, <3>1 DEF CloseAdapter, PagesEnd
    <3>3. /\ recordings[pageOf[k]] = "saved"
          /\ \A q \in Pages \ {pageOf[k]} : recordings[q] = video[q]
      BY <1>1, <2>1, <3>1
    <3>4. QED
      BY <2>1, <3>2, <3>3, CloseAdapterIInv
  <2>3. CASE /\ video' = [video EXCEPT ![pageOf[k]] = "failed"] /\ EndCall(k, "failed")
             /\ UNCHANGED <<ended, wait, told>>
    <3>1. /\ video' \in [Pages -> Videos] /\ video'[pageOf[k]] = "failed"
          /\ \A q \in Pages \ {pageOf[k]} : video'[q] = video[q]
      BY <1>1, <2>1, <2>3 DEF Videos
    <3>2. QED
      BY <2>1, <2>3, <3>1, EndCallIInv
  <2>4. QED
    BY <1>6, <2>2, <2>3 DEF VideoStops
<1>7. QED
  BY <1>2, <1>3, <1>4, <1>5, <1>6 DEF CallStep

-----------------------------------------------------------------------------
(* RoxyBrowserContext and RoxyBrowser.                                     *)

\* The ways a context goes on that change nothing else, or send its event.
LEMMA ContextMovesIInv ==
  ASSUME IInv, NEW c \in Contexts, NEW state, ctx' = [ctx EXCEPT ![c] = state],
         \/ ctx[c] = "pages" /\ state = "hars"
            /\ \A p \in Open : ContextOf[p] = c /\ video[p] = "on" => GivenUp(p)
         \/ ctx[c] = "hars" /\ state \in {"adapter", "failed"}
         \/ ctx[c] = "left" /\ state = "failed"
         \/ ctx[c] = "none" /\ state = "creating"
         \/ ctx[c] = "creating" /\ state \in {"open", "refused"}
         \/ ctx[c] \in {"emptied", "left"} /\ state = "closed",
         IF state = "closed" THEN Tell({c}) /\ Reject({c}) ELSE UNCHANGED <<told, wait>>,
         contexts' \subseteq Contexts,
         UNCHANGED <<browser, leavers, ended, video, callVars, scopeOf, missed>>
  PROVE  IInv'
<1> USE TeardownAssumption DEF IInv
<1>1. /\ \A d \in Contexts : ctx'[d] = IF d = c THEN state ELSE ctx[d]
      /\ ctx[c] # "closed"
  BY DEF TypeOK
<1>2. ToldOnce' /\ told' \in [Pages \cup Contexts -> 0..2]
  <2>1. CASE state = "closed"
    <3>1. told' = [t \in DOMAIN told |-> IF t \in {c} THEN told[t] + 1 ELSE told[t]]
      BY <2>1 DEF Tell
    <3>2. \A t \in Pages \cup Contexts : told'[t] = IF t = c THEN 1 ELSE told[t]
      BY <1>1, <3>1 DEF TypeOK, ToldOnce
    <3>3. told' \in [Pages \cup Contexts -> 0..2]
      <4>1. \A t \in Pages \cup Contexts : told[t] \in 0..2 /\ 1 \in 0..2
        BY DEF TypeOK
      <4>2. \A t \in Pages \cup Contexts : told'[t] \in 0..2
        BY <3>2, <4>1
      <4>3. told' = [t \in Pages \cup Contexts |-> told'[t]]
        BY <3>1 DEF TypeOK
      <4>4. QED
        BY <4>2, <4>3
    <3>4. QED
      BY <1>1, <2>1, <3>2, <3>3 DEF ToldOnce, Open
  <2>2. CASE state # "closed"
    BY <1>1, <2>2 DEF ToldOnce, TypeOK, Open
  <2>3. QED
    BY <2>1, <2>2
<1>3. TypeOK'
  <2>1. wait' \in [Waiters -> {"idle", "waiting", "asking", "answered", "rejected"}]
    BY Rejected DEF TypeOK
  <2>2. ctx' \in [Contexts -> {"none", "creating", "refused", "open", "pages", "hars", "adapter",
                               "emptied", "leaving", "left", "closed", "failed"}]
    BY DEF TypeOK
  <2>3. QED
    BY <1>2, <2>1, <2>2 DEF TypeOK, callVars
<1>4. CallsPlaced' /\ StagesMean'
  BY <1>1 DEF CallsPlaced, CallFor, StagesMean, Open, callVars
<1>5. Emptied' /\ LeaversGone'
  BY <1>1 DEF Emptied, LeaversGone, Open, TypeOK
<1>6. PagesTried' /\ VideoKept'
  BY <1>1 DEF PagesTried, VideoKept, GivenUp, PagesOf, Open, callVars
<1>7. QED
  BY <1>2, <1>3, <1>4, <1>5, <1>6

\* Every page of the context that is open has had its call: it has returned, so
\* that the page owns the context; or another has thrown, and its recording
\* has failed.
LEMMA PagesClosedIInv == ASSUME IInv, NEW c \in Contexts, PagesClosed(c) PROVE IInv'
<1> USE TeardownAssumption
<1> DEFINE calls == {p \in PagesOf(c) : call[p] # "idle"}
<1>1. /\ ctx[c] = "pages" /\ ctx' = [ctx EXCEPT ![c] = "hars"]
      /\ (\A p \in calls : call[p] = "done") \/ (\E p \in calls : call[p] = "failed")
      /\ UNCHANGED <<browserVars, ended, video, callVars, wait, told, scopeOf, missed>>
  BY DEF PagesClosed
<1>2. ASSUME NEW p \in Open, ContextOf[p] = c PROVE GivenUp(p)
  <2>1. p \in Pages /\ p \in Calls /\ pageOf[p] = p /\ p \in calls
    BY <1>1, <1>2 DEF IInv, PagesTried, CallsPlaced, PagesOf, Calls, Open
  <2>2. CASE \A q \in calls : call[q] = "done"
    BY <2>1, <2>2 DEF IInv, StagesMean, GivenUp
  <2>3. CASE \E q \in calls : call[q] = "failed"
    <3>1. PICK q \in calls : call[q] = "failed"
      BY <2>3
    <3>2. q \in Calls /\ pageOf[q] = q /\ q \in PagesOf(c)
      BY <3>1 DEF IInv, CallsPlaced, PagesOf, Calls
    <3>3. QED
      BY <1>2, <3>1, <3>2 DEF IInv, StagesMean, GivenUp
  <2>4. QED
    BY <1>1, <2>2, <2>3
<1>3. contexts' \subseteq Contexts /\ UNCHANGED <<browser, leavers>>
  BY <1>1 DEF IInv, TypeOK, browserVars
<1>4. QED
  BY <1>1, <1>2, <1>3, ContextMovesIInv

LEMMA ContextStepIInv == ASSUME IInv, NEW c \in Contexts, ContextStep(c) PROVE IInv'
<1>1. contexts \subseteq Contexts
  BY DEF IInv, TypeOK
<1>2. CASE HarsExported(c)
  BY <1>1, <1>2, ContextMovesIInv DEF HarsExported, browserVars
<1>3. CASE ContextClosed(c)
  BY <1>1, <1>3, ContextMovesIInv DEF ContextClosed, EmitClose
<1>4. CASE ContextLeft(c)
  BY <1>1, <1>4, ContextMovesIInv DEF ContextLeft, EmitClose, browserVars
<1>5. CASE ContextCreated(c)
  BY <1>1, <1>5, ContextMovesIInv DEF ContextCreated
<1>6. QED
  BY <1>2, <1>3, <1>4, <1>5, PagesClosedIInv, AdapterEmptiesIInv, PageLeavesIInv
  DEF ContextStep

LEMMA NewContextIInv == ASSUME IInv, NEW c \in Contexts, NewContext(c) PROVE IInv'
BY ContextMovesIInv DEF NewContext, browserVars, IInv, TypeOK

\* The browser awaits the contexts that have something left to do.
LEMMA BrowserIInv == ASSUME IInv, BrowserStep \/ BrowserClose PROVE IInv'
<1> USE TeardownAssumption DEF IInv
<1>1. CASE SessionEnds
  <2>1. \A c \in Contexts : ctx'[c] = ctx[c] \/ (ctx[c] = "open" /\ ctx'[c] = "leaving")
    BY <1>1 DEF SessionEnds, Disconnected, TypeOK
  <2>2. TypeOK'
    BY <1>1, <2>1 DEF SessionEnds, Disconnected, TypeOK, callVars
  <2>3. CallsPlaced' /\ StagesMean'
    BY <1>1, <2>1 DEF SessionEnds, CallsPlaced, CallFor, StagesMean, Open, callVars
  <2>4. ToldOnce' /\ Emptied' /\ LeaversGone'
    BY <1>1, <2>1 DEF SessionEnds, ToldOnce, Emptied, LeaversGone, Open
  <2>5. PagesTried' /\ VideoKept'
    BY <1>1, <2>1 DEF SessionEnds, PagesTried, VideoKept, GivenUp, PagesOf, Open, callVars
  <2>6. QED
    BY <2>2, <2>3, <2>4, <2>5
<1>2. CASE ContextsLeft \/ BrowserClosed \/ BrowserClose
  <2>1. /\ UNCHANGED <<leavers, ctx, ended, video, callVars, wait, told, scopeOf, missed>>
        /\ browser' \in {"session", "adapter", "closed", "failed"}
        /\ contexts' \subseteq Contexts
    BY <1>2 DEF ContextsLeft, BrowserClosed, BrowserClose, TypeOK
  <2>2. TypeOK'
    BY <2>1 DEF TypeOK, callVars
  <2>3. CallsPlaced' /\ StagesMean'
    BY <2>1 DEF CallsPlaced, CallFor, StagesMean, Open, callVars
  <2>4. ToldOnce' /\ Emptied' /\ LeaversGone'
    BY <1>2, <2>1 DEF ContextsLeft, BrowserClosed, BrowserClose, ToldOnce, Emptied, LeaversGone, Open
  <2>5. PagesTried' /\ VideoKept'
    BY <2>1 DEF PagesTried, VideoKept, GivenUp, PagesOf, Open, callVars
  <2>6. QED
    BY <2>2, <2>3, <2>4, <2>5
<1>3. QED
  BY <1>1, <1>2 DEF BrowserStep

LEMMA SetOwnedContextIInv ==
  ASSUME IInv, NEW p \in NewPages, SetOwnedContext(p) PROVE IInv'
<1> USE TeardownAssumption DEF IInv, SetOwnedContext
<1>1. TypeOK' /\ CallsPlaced'
  BY DEF TypeOK, CallsPlaced, CallFor, browserVars
<1>2. StagesMean' /\ ToldOnce' /\ Emptied' /\ LeaversGone'
  BY DEF StagesMean, ToldOnce, Emptied, LeaversGone, Open, browserVars
<1>3. PagesTried' /\ VideoKept'
  BY DEF PagesTried, VideoKept, GivenUp, PagesOf, Open
<1>4. QED
  BY <1>1, <1>2, <1>3

\* Waiters change nothing but themselves.
LEMMA WaiterIInv ==
  ASSUME IInv, NEW w \in Waiters,
         EventComes(w) \/ WaitGoesOn(w) \/ \E s \in Scopes : WaitForEvent(w, s)
  PROVE  IInv'
<1> USE DEF IInv
<1>1. UNCHANGED <<browserVars, ctx, ended, video, callVars, told>>
  BY DEF EventComes, WaitGoesOn, WaitForEvent
<1>2. TypeOK'
  <2>1. /\ wait' \in [Waiters -> {"idle", "waiting", "asking", "answered", "rejected"}]
        /\ scopeOf' \in [Waiters -> Scopes \cup {None}]
        /\ missed' \subseteq Waiters
    <3>1. CASE EventComes(w) \/ WaitGoesOn(w)
      BY <3>1 DEF EventComes, WaitGoesOn, TypeOK
    <3>2. CASE \E s \in Scopes : WaitForEvent(w, s)
      BY <3>2 DEF WaitForEvent, TypeOK
    <3>3. QED
      BY <3>1, <3>2
  <2>2. QED
    BY <1>1, <2>1 DEF TypeOK, browserVars, callVars
<1>3. CallsPlaced' /\ StagesMean'
  BY <1>1 DEF CallsPlaced, CallFor, StagesMean, Open, callVars
<1>4. ToldOnce' /\ Emptied' /\ LeaversGone'
  BY <1>1 DEF ToldOnce, Emptied, LeaversGone, Open, browserVars
<1>5. PagesTried' /\ VideoKept'
  BY <1>1 DEF PagesTried, VideoKept, GivenUp, PagesOf, Open, callVars
<1>6. QED
  BY <1>2, <1>3, <1>4, <1>5

-----------------------------------------------------------------------------
(* Every step, and the theorems.                                           *)

LEMMA NextIInv == ASSUME IInv, Next PROVE IInv'
BY CallStepIInv, ContextStepIInv, ContextCloseIInv, NewContextIInv, BrowserIInv, PageCloseIInv,
   TabGoesIInv, SetOwnedContextIInv, WaiterIInv
DEF Next

LEMMA StutterIInv == ASSUME IInv, UNCHANGED vars PROVE IInv'
<1> USE DEF IInv, vars, browserVars, callVars
<1>1. TypeOK' /\ CallsPlaced' /\ StagesMean'
  BY DEF TypeOK, CallsPlaced, CallFor, StagesMean, Open
<1>2. ToldOnce' /\ Emptied' /\ LeaversGone' /\ PagesTried' /\ VideoKept'
  BY DEF ToldOnce, Emptied, LeaversGone, PagesTried, VideoKept, GivenUp, PagesOf, Open
<1>3. QED
  BY <1>1, <1>2

\* The inductive invariant holds in every state that is reached.
THEOREM Invariance == Spec => []IInv
<1>1. Init => IInv
  BY InitIInv
<1>2. IInv /\ [Next]_vars => IInv'
  BY NextIInv, StutterIInv
<1>3. QED
  BY <1>1, <1>2, PTL DEF Spec

\* Every variable keeps its type: among the rest, no close event is ever
\* counted beyond the bound of told.
THEOREM TypeCorrect == Spec => []TypeOK
<1>1. IInv => TypeOK
  BY DEF IInv
<1>2. QED
  BY <1>1, Invariance, PTL

\* However pages, contexts and the browser close one another, each close event
\* is sent once, that of a context after those of its pages, and the browser's
\* disconnected after those of the contexts it disconnected.
THEOREM ClosedInOrder == Spec => []CloseInOrder
<1>1. IInv => CloseInOrder
  <2> SUFFICES ASSUME IInv PROVE CloseInOrder
    OBVIOUS
  <2> USE TeardownAssumption DEF IInv
  <2>1. \A s \in DOMAIN told : told[s] <= 1
    BY DEF TypeOK, ToldOnce
  <2>2. \A p \in Pages : told[ContextOf[p]] = 1 => told[p] = 1
    BY DEF ToldOnce, Emptied
  <2>3. browser = "closed" => \A c \in leavers : told[c] = 1
    BY DEF TypeOK, ToldOnce, LeaversGone
  <2>4. QED
    BY <2>1, <2>2, <2>3 DEF CloseInOrder
<1>2. QED
  BY <1>1, Invariance, PTL

\* A recording that close() of its page or context could have saved is lost
\* only where the page owns its context or another recording has failed.
THEOREM RecordingsKept == Spec => []VideoKept
<1>1. IInv => VideoKept
  BY DEF IInv
<1>2. QED
  BY <1>1, Invariance, PTL
=============================================================================
