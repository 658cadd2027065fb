----------------------------- MODULE BidiProofs -----------------------------
(***************************************************************************)
(* Proofs about the two modules of the BiDi protocol's connection.         *)
(*                                                                         *)
(* BidiSessions, for any processes, browsers and sessions: no session of a *)
(* living process is ended by others, and what the file says goes wrong    *)
(* only for entries that two processes raced for.  BidiClient keeps the    *)
(* promises of CommandCalls, for any number of commands, frames and        *)
(* listeners.                                                              *)
(***************************************************************************)
EXTENDS BidiSessions, BidiClient, SequenceTheorems, TLAPS

-----------------------------------------------------------------------------
(* The inductive invariant.                                                *)

\* A process rewrites the file in two phases of its life, and has something
\* to look at in one.
Rewriting ==
  \A p \in Processes :
    /\ file[p] # "none" => pc[p] \in {"cleaning", "unregistering"}
    /\ pc[p] = "cleaning" => file[p] # "none"
    /\ todo[p] # {} => pc[p] = "cleaning" /\ file[p] = "read"
    /\ file[p] = "none" => snapshot[p] = {}

\* What was ever in the file was registered, and is of a session that exists.
Known ==
  /\ \A s \in appended : owner[s] \in Processes
  /\ registry \subseteq appended
  /\ \A p \in Processes :
       /\ content[p] \subseteq snapshot[p]
       /\ todo[p] \subseteq snapshot[p]
       /\ snapshot[p] \subseteq appended

\* A session is used by the process that started it.
Owned ==
  \A p \in Processes :
    /\ session[p] # NoSession => owner[session[p]] = p /\ pc[p] # "dead"
    /\ pc[p] \in {"registering", "connected"} => session[p] # NoSession
    /\ pc[p] = "unregistering" /\ file[p] = "none" =>
         session[p] # NoSession /\ session[p] \notin live

\* What a process read and is still alive, it writes back or has yet to look
\* at.
Covered ==
  \A p \in Processes : file[p] # "none" => snapshot[p] \cap live \subseteq content[p] \cup todo[p]

\* The dead stay dead, and their sessions are what the cleanup looks at.
DeadLookedAt ==
  \A p \in Processes :
    /\ \A q \in dead[p] : pc[q] = "dead"
    /\ pc[p] \in {"cleaning", "connecting"} =>
         \A s \in appended \cap live :
           EndpointOfSession(s) = EndpointOf[p] /\ owner[s] \in dead[p] =>
             s \in todo[p] \cup failed \cup raced

\* An entry whose session has ended is there for one of the reasons of
\* NoLeftovers, or its owner is about to take it back: it has not emptied the
\* file yet.  The same goes for what is about to be written into a file that
\* is empty.
Excused(s) ==
  \/ EndpointOfSession(s) \notin up
  \/ pc[owner[s]] = "dead"
  \/ s \in failed \cup raced

Leaving(s) ==
  LET q == owner[s]
  IN  /\ pc[q] = "unregistering"
      /\ \/ file[q] = "none" /\ session[q] = s
         \/ file[q] = "read" /\ s \notin content[q]

EndedAccounted ==
  \A s \in (registry \cup InWriting) \ live : Excused(s) \/ Leaving(s)

IInv ==
  /\ TypeOK /\ Rewriting /\ Known /\ Owned /\ Covered /\ DeadLookedAt /\ EndedAccounted
  /\ RegistryComplete /\ OwnersKeepSessions

-----------------------------------------------------------------------------

LEMMA InitIInv == Init => IInv
<1> SUFFICES ASSUME Init PROVE IInv
  OBVIOUS
<1>1. TypeOK
  BY SessionsAssumption DEF Init, TypeOK, Stages, Unused
<1>2. InWriting = {}
  BY DEF Init, InWriting
<1>3. Rewriting /\ Known /\ Owned /\ Covered /\ DeadLookedAt /\ EndedAccounted /\ RegistryComplete
     /\ OwnersKeepSessions
  BY <1>2 DEF Init, Rewriting, Known, Owned, Covered, DeadLookedAt, EndedAccounted,
              RegistryComplete, OwnersKeepSessions
<1>4. QED
  BY <1>1, <1>3 DEF IInv

\* InWriting, entry by entry, in a state and in the next.
LEMMA InWritingMember ==
  \A s : /\ s \in InWriting <=> \E p \in Processes : file[p] = "open" /\ s \in content[p]
         /\ s \in InWriting' <=> \E p \in Processes : file'[p] = "open" /\ s \in content'[p]
BY DEF InWriting


\* Once an ended session is excused it stays so.
LEMMA ExcusedStays ==
  ASSUME NEW s, owner'[s] = owner[s], up' \subseteq up, failed \subseteq failed',
         raced \subseteq raced', pc[owner[s]] = "dead" => pc'[owner[s]] = "dead", Excused(s)
  PROVE  Excused(s)'
BY DEF Excused, EndpointOfSession

\* What is in the file or about to be was registered by a process.
LEMMA EntriesKnown ==
  ASSUME TypeOK, Known, NEW s \in registry \cup InWriting
  PROVE  s \in appended /\ s \in Sessions /\ owner[s] \in Processes
BY InWritingMember DEF Known, TypeOK

LEMMA InWritingTyped == TypeOK => InWriting \subseteq Sessions
BY InWritingMember DEF TypeOK

-----------------------------------------------------------------------------
(* The cleanup.                                                            *)

LEMMA CleanupReadsIInv == ASSUME IInv, NEW p \in Processes, CleanupReads(p) PROVE IInv'
<1> USE SessionsAssumption DEF IInv
<1>1. TypeOK'
  <2>1. raced' \subseteq Sessions /\ registry \subseteq Sessions
    BY InWritingTyped DEF CleanupReads, TypeOK, Read
  <2>2. pc' \in [Processes -> Stages] /\ dead' \in [Processes -> SUBSET Processes]
    BY DEF CleanupReads, TypeOK, Goto, Stages
  <2>3. /\ todo' \in [Processes -> SUBSET Sessions] /\ content' \in [Processes -> SUBSET Sessions]
        /\ snapshot' \in [Processes -> SUBSET Sessions]
    BY <2>1 DEF CleanupReads, TypeOK, Read
  <2>4. file' \in [Processes -> {"none", "read", "open"}]
        /\ linked' \subseteq {q \in Processes : file'[q] = "open"}
    BY DEF CleanupReads, TypeOK, Read, Rewriting
  <2>5. QED
    BY <2>1, <2>2, <2>3, <2>4 DEF CleanupReads, TypeOK, Read, browserVars, Unused
<1>2. Rewriting'
  BY DEF CleanupReads, TypeOK, Goto, Read, browserVars, Rewriting
<1>3. Known'
  BY DEF CleanupReads, TypeOK, Goto, Read, browserVars, Rewriting, Known
<1>4. Owned'
  BY DEF CleanupReads, TypeOK, Goto, Read, browserVars, Owned
<1>5. Covered'
  BY DEF CleanupReads, TypeOK, Goto, Read, browserVars, Rewriting, Covered
<1>6. DeadLookedAt'
  BY InWritingMember DEF CleanupReads, TypeOK, Goto, Read, browserVars, DeadLookedAt,
     RegistryComplete, EndpointOfSession
<1>7. EndedAccounted'
  <2> SUFFICES ASSUME NEW s \in registry' \cup InWriting', s \notin live', ~Excused(s)'
               PROVE  Leaving(s)'
    BY DEF EndedAccounted
  <2>1. s \in registry \cup InWriting /\ s \notin live
    BY InWritingMember DEF CleanupReads, TypeOK, Goto, Read, browserVars, Rewriting
  <2>2. owner[s] \in Processes
    BY <2>1, EntriesKnown
  <2>3. ~Excused(s)
    BY <2>2, ExcusedStays DEF CleanupReads, TypeOK, Goto, Read, browserVars
  <2>4. owner[s] # p
    BY <2>1, <2>3 DEF EndedAccounted, Leaving, CleanupReads
  <2>5. QED
    BY <2>1, <2>2, <2>3, <2>4 DEF EndedAccounted, Leaving, CleanupReads, Goto, Read, browserVars, TypeOK
<1>8. RegistryComplete'
  BY InWritingMember DEF CleanupReads, TypeOK, Goto, Read, browserVars, RegistryComplete, Rewriting
<1>9. OwnersKeepSessions'
  BY DEF CleanupReads, TypeOK, Goto, Read, browserVars, Owned, OwnersKeepSessions
<1>10. QED
  BY <1>1, <1>2, <1>3, <1>4, <1>5, <1>6, <1>7, <1>8, <1>9

\* A session that is not live has ended before or is stale, its owner dead.
LEMMA CleanupLooksIInv ==
  ASSUME IInv, NEW p \in Processes, NEW s \in Sessions, CleanupLooks(p, s) PROVE IInv'
<1> USE SessionsAssumption DEF IInv
<1>1. TypeOK'
  BY DEF CleanupLooks, TypeOK, Keep, Unused
<1>2. Rewriting'
  BY DEF CleanupLooks, TypeOK, Keep, Rewriting
<1>3. Known'
  BY DEF CleanupLooks, TypeOK, Keep, Known
<1>4. Owned'
  BY DEF CleanupLooks, TypeOK, Keep, Owned, Known
<1>5. Covered'
  BY DEF CleanupLooks, TypeOK, Keep, Covered
<1>6. DeadLookedAt'
  BY DEF CleanupLooks, TypeOK, Keep, Stale, DeadLookedAt, EndpointOfSession
<1>7. EndedAccounted'
  <2> SUFFICES ASSUME NEW t \in registry' \cup InWriting', t \notin live', ~Excused(t)'
               PROVE  Leaving(t)'
    BY DEF EndedAccounted
  <2>1. t \in registry \cup InWriting
    BY InWritingMember DEF CleanupLooks, TypeOK, Keep, Rewriting
  <2>2. ~Excused(t)
    BY ExcusedStays DEF CleanupLooks
  <2>3. t \notin live
    BY <2>2 DEF CleanupLooks, Stale, Excused
  <2>4. Leaving(t) /\ owner[t] # p /\ owner[t] \in Processes
    BY <2>1, <2>2, <2>3, EntriesKnown DEF EndedAccounted, Leaving, CleanupLooks
  <2>5. content'[owner[t]] = content[owner[t]]
    BY <2>4 DEF CleanupLooks, Keep, TypeOK
  <2>6. QED
    BY <2>4, <2>5 DEF Leaving, CleanupLooks
<1>8. RegistryComplete'
  BY InWritingMember DEF CleanupLooks, TypeOK, Keep, RegistryComplete
<1>9. OwnersKeepSessions'
  BY DEF CleanupLooks, TypeOK, Stale, Owned, OwnersKeepSessions
<1>10. QED
  BY <1>1, <1>2, <1>3, <1>4, <1>5, <1>6, <1>7, <1>8, <1>9

-----------------------------------------------------------------------------
(* Rewriting the file, for a cleanup or to take an entry back.             *)

frame == <<session, todo, owner, live, up, appended, failed, dead>>

\* The entries that go with the file are written back by their reader, or were
\* changed or read by two.
LEMMA RemoveIInv ==
  ASSUME IInv, NEW p \in Processes, NEW stage \in {"connecting", "idle"}, todo[p] = {},
         file[p] = "read", stage = "connecting" => pc[p] = "cleaning",
         Remove(p, stage), UNCHANGED frame
  PROVE  IInv'
<1> USE SessionsAssumption DEF IInv
<1>1. TypeOK'
  <2>1. raced' \subseteq Sessions
    BY InWritingTyped DEF Remove, Changed, TypeOK
  <2>2. /\ pc' \in [Processes -> Stages]
        /\ content' \in [Processes -> SUBSET Sessions]
        /\ snapshot' \in [Processes -> SUBSET Sessions]
        /\ file' \in [Processes -> {"none", "read", "open"}]
    BY DEF Remove, Forget, Goto, TypeOK, Stages
  <2>3. QED
    BY <2>1, <2>2 DEF Remove, TypeOK, Unused, frame
<1>2. Rewriting'
  BY DEF Remove, Forget, Goto, TypeOK, Rewriting, frame
<1>3. Known'
  BY DEF Remove, Forget, TypeOK, Known, frame
<1>4. Owned'
  BY DEF Remove, Forget, Goto, TypeOK, Owned, Rewriting, frame
<1>5. Covered'
  BY DEF Remove, Forget, TypeOK, Covered, frame
<1>6. DeadLookedAt'
  BY DEF Remove, Forget, Goto, TypeOK, Rewriting, DeadLookedAt, EndpointOfSession, frame
<1>7. EndedAccounted'
  BY InWritingMember DEF Remove, Forget, TypeOK, EndedAccounted, Excused, frame
<1>8. RegistryComplete'
  <2> SUFFICES ASSUME NEW s \in appended \cap live
               PROVE  s \in registry' \cup InWriting' \cup raced'
    BY DEF RegistryComplete, frame
  <2>1. s \in raced'
    BY DEF RegistryComplete, Remove, Covered, Changed
  <2>2. QED
    BY <2>1
<1>9. OwnersKeepSessions'
  BY DEF Remove, Forget, Goto, TypeOK, Owned, OwnersKeepSessions, Rewriting, frame
<1>10. QED
  BY <1>1, <1>2, <1>3, <1>4, <1>5, <1>6, <1>7, <1>8, <1>9

LEMMA TruncateIInv ==
  ASSUME IInv, NEW p \in Processes, todo[p] = {}, file[p] = "read", Truncate(p),
         UNCHANGED frame
  PROVE  IInv'
<1> USE SessionsAssumption DEF IInv
<1>1. TypeOK'
  <2>1. raced' \subseteq Sessions
    BY InWritingTyped DEF Truncate, Changed, TypeOK
  <2>2. /\ file' \in [Processes -> {"none", "read", "open"}]
        /\ linked' \subseteq {q \in Processes : file'[q] = "open"}
    BY DEF Truncate, TypeOK
  <2>3. QED
    BY <2>1, <2>2 DEF Truncate, TypeOK, Unused, frame
<1>2. Rewriting'
  BY DEF Truncate, TypeOK, Rewriting, frame
<1>3. Known'
  BY DEF Truncate, TypeOK, Known, frame
<1>4. Owned'
  BY DEF Truncate, TypeOK, Owned, frame
<1>5. Covered'
  BY DEF Truncate, TypeOK, Covered, frame
<1>6. DeadLookedAt'
  BY DEF Truncate, DeadLookedAt, EndpointOfSession, frame
\* What p is to write was in the file until now, or has changed.
<1>7. EndedAccounted'
  <2> SUFFICES ASSUME NEW s \in registry' \cup InWriting', s \notin live, ~Excused(s)'
               PROVE  Leaving(s)'
    BY DEF EndedAccounted, frame
  <2>1. s \in content[p] /\ s \in registry
    BY InWritingMember DEF Truncate, Changed, Excused, TypeOK, Known
  <2>2. ~Excused(s) /\ owner[s] \in Processes
    BY <2>1, ExcusedStays, EntriesKnown DEF Truncate, frame
  <2>3. Leaving(s) /\ owner[s] # p
    BY <2>1, <2>2 DEF EndedAccounted, Leaving
  <2>4. QED
    BY <2>2, <2>3 DEF Leaving, Truncate, TypeOK, frame
<1>8. RegistryComplete'
  <2> SUFFICES ASSUME NEW s \in appended \cap live
               PROVE  s \in registry' \cup InWriting' \cup raced'
    BY DEF RegistryComplete, frame
  <2>1. CASE s \in registry /\ s \in snapshot[p]
    <3>1. s \in content[p] /\ file'[p] = "open" /\ content' = content
      BY <2>1 DEF Covered, Truncate, TypeOK
    <3>2. QED
      BY <3>1, InWritingMember
  <2>2. CASE ~(s \in registry /\ s \in snapshot[p])
    BY <2>2 DEF RegistryComplete, Truncate, Changed
  <2>3. QED
    BY <2>1, <2>2
<1>9. OwnersKeepSessions'
  BY DEF Truncate, TypeOK, Owned, OwnersKeepSessions, frame
<1>10. QED
  BY <1>1, <1>2, <1>3, <1>4, <1>5, <1>6, <1>7, <1>8, <1>9

\* What was put into the file since it was emptied, or into one that has been
\* removed, counts as raced for.
LEMMA WriteIInv ==
  ASSUME IInv, NEW p \in Processes, NEW stage \in {"connecting", "idle"}, todo[p] = {},
         stage = "connecting" => pc[p] = "cleaning", Write(p, stage), UNCHANGED frame
  PROVE  IInv'
<1> USE SessionsAssumption DEF IInv
<1>1. registry' \subseteq content[p] \cup registry /\ raced' \subseteq Sessions
  BY DEF Write, TypeOK
<1>2. TypeOK'
  <2>1. registry' \subseteq Sessions \ Unused
    BY <1>1 DEF TypeOK, Known, Unused, SessionsAssumption
  <2>2. /\ pc' \in [Processes -> Stages]
        /\ content' \in [Processes -> SUBSET Sessions]
        /\ snapshot' \in [Processes -> SUBSET Sessions]
        /\ file' \in [Processes -> {"none", "read", "open"}]
        /\ linked' \subseteq {q \in Processes : file'[q] = "open"}
    BY DEF Write, Forget, Goto, TypeOK, Stages
  <2>3. QED
    BY <1>1, <2>1, <2>2 DEF TypeOK, Unused, frame
<1>3. Rewriting'
  BY DEF Write, Forget, Goto, TypeOK, Rewriting, frame
<1>4. Known'
  BY <1>1 DEF Write, Forget, TypeOK, Known, frame
<1>5. Owned'
  BY DEF Write, Forget, Goto, TypeOK, Owned, Rewriting, frame
<1>6. Covered'
  BY DEF Write, Forget, TypeOK, Covered, frame
<1>7. DeadLookedAt'
  BY DEF Write, Forget, Goto, TypeOK, Rewriting, DeadLookedAt, EndpointOfSession, frame
<1>8. EndedAccounted'
  <2> SUFFICES ASSUME NEW s \in registry' \cup InWriting', s \notin live, ~Excused(s)'
               PROVE  Leaving(s)'
    BY DEF EndedAccounted, frame
  <2>1. s \in InWriting
    BY <1>1, InWritingMember DEF Write, Forget, Excused, TypeOK
  <2>2. owner[s] \in Processes
    BY <2>1, EntriesKnown
  <2>3. ~Excused(s)
    BY <2>2, ExcusedStays DEF Write, Goto, TypeOK, Rewriting, frame
  <2>4. Leaving(s) /\ owner[s] # p
    BY <2>1, <2>3 DEF EndedAccounted, Leaving, Write
  <2>5. QED
    BY <2>2, <2>4 DEF Leaving, Write, Forget, Goto, TypeOK, frame
<1>9. RegistryComplete'
  <2> SUFFICES ASSUME NEW s \in appended \cap live
               PROVE  s \in registry' \cup InWriting' \cup raced'
    BY DEF RegistryComplete, frame
  <2>1. CASE s \in registry \cup raced \cup content[p]
    BY <2>1 DEF Write
  <2>2. CASE s \in InWriting /\ s \notin content[p]
    BY <2>2, InWritingMember DEF Write, Forget, TypeOK
  <2>3. QED
    BY <2>1, <2>2 DEF RegistryComplete
<1>10. OwnersKeepSessions'
  BY DEF Write, Forget, Goto, TypeOK, Owned, OwnersKeepSessions, Rewriting, frame
<1>11. QED
  BY <1>2, <1>3, <1>4, <1>5, <1>6, <1>7, <1>8, <1>9, <1>10

LEMMA RewriteIInv ==
  ASSUME IInv, NEW p \in Processes, CleanupWrites(p) \/ UnregisterWrites(p) PROVE IInv'
<1>1. UNCHANGED frame
  BY DEF CleanupWrites, UnregisterWrites, browserVars, frame
<1>2. todo[p] = {}
  BY DEF CleanupWrites, UnregisterWrites, IInv, Rewriting
<1>3. CASE CleanupWrites(p)
  BY <1>1, <1>2, <1>3, RemoveIInv, TruncateIInv, WriteIInv DEF CleanupWrites
<1>4. CASE UnregisterWrites(p)
  BY <1>1, <1>2, <1>4, RemoveIInv, TruncateIInv, WriteIInv DEF UnregisterWrites
<1>5. QED
  BY <1>3, <1>4

-----------------------------------------------------------------------------
(* Connecting.                                                             *)

\* The new session was unused, so that no file or process knows it.
LEMMA NewSessionIInv == ASSUME IInv, NEW p \in Processes, NewSession(p) PROVE IInv'
<1> USE SessionsAssumption DEF IInv
<1>1. PICK s \in Unused : /\ owner' = [owner EXCEPT ![s] = p]
                          /\ live' = live \cup {s}
                          /\ session' = [session EXCEPT ![p] = s]
  BY DEF NewSession
<1>2. s \in Sessions /\ owner[s] = NoSession /\ s \notin appended /\ s \notin live
  BY <1>1 DEF Unused, TypeOK, Known
<1>3. \A t \in Sessions : t # s => owner'[t] = owner[t]
  BY <1>1, <1>2 DEF TypeOK
<1>4. TypeOK'
  <2>1. /\ pc' \in [Processes -> Stages]
        /\ session' \in [Processes -> Sessions \cup {NoSession}]
        /\ owner' \in [Sessions -> Processes \cup {NoSession}]
        /\ dead' \in [Processes -> SUBSET Processes]
    BY <1>1, <1>2 DEF NewSession, Goto, TypeOK, Stages
  <2>2. live' \subseteq Sessions \ Unused' /\ registry \subseteq Sessions \ Unused'
    BY <1>1, <1>2 DEF TypeOK, Unused, Known
  <2>3. QED
    BY <2>1, <2>2 DEF NewSession, TypeOK, fileVars
<1>5. Rewriting'
  BY DEF NewSession, Goto, TypeOK, Rewriting, fileVars
<1>6. Known'
  BY <1>2, <1>3 DEF NewSession, TypeOK, Known, fileVars
<1>7. Owned'
  BY <1>1, <1>2, <1>3 DEF NewSession, Goto, TypeOK, Owned, fileVars
<1>8. Covered'
  BY <1>1, <1>2 DEF NewSession, TypeOK, Covered, Known, fileVars
<1>9. DeadLookedAt'
  BY <1>1, <1>2, <1>3 DEF NewSession, Goto, TypeOK, DeadLookedAt, EndpointOfSession, fileVars
<1>10. EndedAccounted'
  <2> SUFFICES ASSUME NEW t \in registry' \cup InWriting', t \notin live', ~Excused(t)'
               PROVE  Leaving(t)'
    BY DEF EndedAccounted
  <2>1. t \in registry \cup InWriting /\ t \notin live
    BY <1>1, InWritingMember DEF NewSession, fileVars
  <2>2. t \in Sessions /\ owner[t] \in Processes /\ t # s /\ owner'[t] = owner[t]
    BY <1>1, <1>3, <2>1, EntriesKnown
  <2>3. ~Excused(t)
    BY <2>2, ExcusedStays DEF NewSession, Goto, TypeOK, fileVars
  <2>4. Leaving(t) /\ owner[t] # p
    BY <2>1, <2>3 DEF EndedAccounted, Leaving, NewSession
  <2>5. QED
    BY <1>1, <2>2, <2>4 DEF Leaving, NewSession, Goto, TypeOK, fileVars
<1>11. RegistryComplete'
  BY <1>1, <1>2, InWritingMember DEF NewSession, RegistryComplete, fileVars
<1>12. OwnersKeepSessions'
  BY <1>1, <1>2, <1>3 DEF NewSession, Goto, TypeOK, Owned, OwnersKeepSessions, fileVars
<1>13. QED
  BY <1>4, <1>5, <1>6, <1>7, <1>8, <1>9, <1>10, <1>11, <1>12

\* A browser that goes with its launcher has sessions of the launcher only.
LEMMA BrowserEnds ==
  ASSUME IInv, NEW p \in Processes, up' = BrowserAfter(p), live' = SessionsAfter(p)
  PROVE  /\ up' \subseteq up /\ live' \subseteq live
         /\ \A s \in live \ live' : EndpointOfSession(s) \notin up'
         /\ \A q \in Processes \ {p}, s \in live : owner[s] = q => s \in live'
BY SessionsAssumption DEF IInv, TypeOK, BrowserAfter, SessionsAfter, EndpointOfSession

LEMMA ConnectFailsIInv == ASSUME IInv, NEW p \in Processes, ConnectFails(p) PROVE IInv'
<1> USE SessionsAssumption DEF IInv
<1>1. /\ up' \subseteq up /\ live' \subseteq live
      /\ \A s \in live \ live' : EndpointOfSession(s) \notin up'
      /\ \A q \in Processes \ {p}, s \in live : owner[s] = q => s \in live'
  BY BrowserEnds DEF ConnectFails
<1>2. TypeOK'
  BY <1>1 DEF ConnectFails, Goto, TypeOK, Stages, Unused, fileVars
<1>3. Rewriting'
  BY DEF ConnectFails, Goto, TypeOK, Rewriting, fileVars
<1>4. Known'
  BY DEF ConnectFails, TypeOK, Known, fileVars
<1>5. Owned'
  BY <1>1 DEF ConnectFails, Goto, TypeOK, Owned, fileVars
<1>6. Covered'
  BY <1>1 DEF ConnectFails, TypeOK, Covered, fileVars
<1>7. DeadLookedAt'
  BY <1>1 DEF ConnectFails, Goto, TypeOK, DeadLookedAt, EndpointOfSession, fileVars
<1>8. EndedAccounted'
  <2> SUFFICES ASSUME NEW t \in registry' \cup InWriting', t \notin live', ~Excused(t)'
               PROVE  Leaving(t)'
    BY DEF EndedAccounted
  <2>1. t \in registry \cup InWriting /\ owner[t] \in Processes
    BY InWritingMember, EntriesKnown DEF ConnectFails, fileVars
  <2>2. ~Excused(t) /\ t \notin live
    BY <1>1, <2>1, ExcusedStays
       DEF ConnectFails, Goto, TypeOK, fileVars, Excused, EndpointOfSession
  <2>3. Leaving(t) /\ owner[t] # p
    BY <2>1, <2>2 DEF EndedAccounted, Leaving, ConnectFails
  <2>4. QED
    BY <2>1, <2>3 DEF Leaving, ConnectFails, Goto, TypeOK, fileVars
<1>9. RegistryComplete'
  BY <1>1, InWritingMember DEF ConnectFails, RegistryComplete, fileVars
<1>10. OwnersKeepSessions'
  BY <1>1 DEF ConnectFails, Goto, TypeOK, Owned, OwnersKeepSessions, fileVars
<1>11. QED
  BY <1>2, <1>3, <1>4, <1>5, <1>6, <1>7, <1>8, <1>9, <1>10

LEMMA RegisterIInv == ASSUME IInv, NEW p \in Processes, Register(p) PROVE IInv'
<1> USE SessionsAssumption DEF IInv
<1>1. session[p] \in Sessions /\ owner[session[p]] = p /\ pc[p] # "dead"
  BY DEF Register, Owned, TypeOK
<1>2. TypeOK'
  BY <1>1 DEF Register, Goto, TypeOK, Stages, Unused, browserVars
<1>3. Rewriting'
  BY DEF Register, Goto, TypeOK, Rewriting
<1>4. Known'
  BY <1>1 DEF Register, TypeOK, Known, browserVars
<1>5. Owned'
  BY DEF Register, Goto, TypeOK, Owned, browserVars
<1>6. Covered'
  BY DEF Register, Covered, browserVars
<1>7. DeadLookedAt'
  BY <1>1 DEF Register, Goto, TypeOK, DeadLookedAt, EndpointOfSession, browserVars
\* The session that is registered is used, or its browser has gone.
<1>8. EndedAccounted'
  <2> SUFFICES ASSUME NEW t \in registry' \cup InWriting', t \notin live', ~Excused(t)'
               PROVE  Leaving(t)'
    BY DEF EndedAccounted
  <2>1. CASE t \in registry \cup InWriting
    <3>1. owner[t] \in Processes
      BY <2>1, EntriesKnown
    <3>2. ~Excused(t)
      BY <3>1, ExcusedStays DEF Register, Goto, TypeOK, browserVars
    <3>3. Leaving(t) /\ owner[t] # p
      BY <2>1, <3>2 DEF EndedAccounted, Leaving, Register, browserVars
    <3>4. QED
      BY <3>1, <3>3 DEF Leaving, Register, Goto, TypeOK, browserVars
  <2>2. CASE t = session[p]
    <3>1. EndpointOfSession(t) = EndpointOf[p] /\ EndpointOf[p] \in up /\ t \notin live
      BY <1>1, <2>2 DEF Register, Excused, EndpointOfSession, browserVars
    <3>2. QED
      BY <2>2, <3>1 DEF Register, OwnersKeepSessions
  <2>3. QED
    BY <2>1, <2>2, InWritingMember DEF Register
<1>9. RegistryComplete'
  BY InWritingMember DEF Register, RegistryComplete, browserVars
<1>10. OwnersKeepSessions'
  BY DEF Register, Goto, TypeOK, Owned, OwnersKeepSessions, browserVars
<1>11. QED
  BY <1>2, <1>3, <1>4, <1>5, <1>6, <1>7, <1>8, <1>9, <1>10

-----------------------------------------------------------------------------
(* Closing.                                                                *)

\* The session that is ended is the process's own; its entry is taken back, or
\* its browser goes, or it never had one.
LEMMA CloseEndsSessionIInv == ASSUME IInv, NEW p \in Processes, CloseEndsSession(p) PROVE IInv'
<1> USE SessionsAssumption DEF IInv
<1> DEFINE mine == session[p]
<1>1. mine \in Sessions /\ owner[mine] = p /\ pc[p] = "connected" /\ file[p] = "none"
  BY DEF CloseEndsSession, Owned, TypeOK, Rewriting
<1>2. /\ up' = BrowserAfter(p) /\ up' \subseteq up /\ live' \subseteq live
      /\ \A s \in live \ live' : s = mine \/ EndpointOfSession(s) \notin up'
      /\ \A q \in Processes \ {p}, s \in live : owner[s] = q => s \in live'
  BY <1>1, BrowserEnds DEF CloseEndsSession, TypeOK, BrowserAfter, SessionsAfter,
                           EndpointOfSession
<1>3. /\ pc' = [pc EXCEPT ![p] = pc'[p]] /\ pc'[p] \in {"idle", "unregistering"}
      /\ \A q \in Processes \ {p} : session'[q] = session[q]
      /\ session' \in [Processes -> Sessions \cup {NoSession}]
      /\ failed' \subseteq failed \cup {mine} /\ failed \subseteq failed'
      /\ pc'[p] = "idle" => session'[p] = NoSession
      /\ pc'[p] = "unregistering" => session'[p] = mine /\ mine \notin live'
  BY DEF CloseEndsSession, Closed, Goto, Disown, TypeOK
<1>4. TypeOK'
  BY <1>1, <1>2, <1>3 DEF CloseEndsSession, TypeOK, Stages, Unused, fileVars
<1>5. Rewriting'
  BY <1>1, <1>3 DEF CloseEndsSession, TypeOK, Rewriting, fileVars
<1>6. Known'
  BY DEF CloseEndsSession, Known, fileVars
<1>7. Owned'
  BY <1>1, <1>2, <1>3 DEF CloseEndsSession, TypeOK, Owned, fileVars
<1>8. Covered'
  BY <1>2 DEF CloseEndsSession, Covered, fileVars
<1>9. DeadLookedAt'
  BY <1>1, <1>2, <1>3 DEF CloseEndsSession, TypeOK, DeadLookedAt, EndpointOfSession, fileVars
<1>10. EndedAccounted'
  <2> SUFFICES ASSUME NEW t \in registry' \cup InWriting', t \notin live', ~Excused(t)'
               PROVE  Leaving(t)'
    BY DEF EndedAccounted
  <2>1. /\ t \in registry \cup InWriting
        /\ t \in appended /\ t \in Sessions /\ owner[t] \in Processes
    BY InWritingMember, EntriesKnown DEF CloseEndsSession, fileVars
  <2>2. ~Excused(t)
    BY <1>1, <1>2, <1>3, <2>1, ExcusedStays DEF CloseEndsSession, TypeOK, fileVars
  <2>3. CASE t = mine
    <3>1. t \notin failed' /\ p \notin Launchers
      BY <1>1, <1>2, <2>3 DEF Excused, EndpointOfSession, CloseEndsSession, BrowserAfter
    <3>2. pc'[p] = "unregistering" /\ session'[p] = t
      BY <1>1, <2>1, <2>3, <3>1
         DEF CloseEndsSession, Closed, Unregisters, Goto, TypeOK
    <3>3. QED
      BY <1>1, <2>3, <3>2 DEF Leaving, CloseEndsSession, fileVars
  <2>4. CASE t # mine
    <3>1. t \notin live
      BY <1>2, <2>4 DEF Excused, CloseEndsSession, EndpointOfSession
    <3>2. Leaving(t) /\ owner[t] # p
      BY <1>1, <2>1, <2>2, <3>1 DEF EndedAccounted, Leaving
    <3>3. QED
      BY <1>3, <2>1, <3>2 DEF Leaving, CloseEndsSession, TypeOK, fileVars
  <2>5. QED
    BY <2>3, <2>4
<1>11. RegistryComplete'
  BY <1>2, InWritingMember DEF CloseEndsSession, RegistryComplete, fileVars
<1>12. OwnersKeepSessions'
  BY <1>1, <1>2, <1>3 DEF TypeOK, Owned, OwnersKeepSessions
<1>13. QED
  BY <1>4, <1>5, <1>6, <1>7, <1>8, <1>9, <1>10, <1>11, <1>12

LEMMA UnregisterReadsIInv == ASSUME IInv, NEW p \in Processes, UnregisterReads(p) PROVE IInv'
<1> USE SessionsAssumption DEF IInv
<1>1. raced' \subseteq Sessions /\ registry \subseteq Sessions
  BY InWritingTyped DEF UnregisterReads, TypeOK, Read
<1>2. TypeOK'
  BY <1>1 DEF UnregisterReads, TypeOK, Read, Disown, browserVars, Unused
<1>3. Rewriting'
  BY DEF UnregisterReads, TypeOK, Read, Rewriting
<1>4. Known'
  BY DEF UnregisterReads, TypeOK, Read, browserVars, Rewriting, Known
<1>5. Owned'
  BY DEF UnregisterReads, TypeOK, Read, Disown, browserVars, Owned
<1>6. Covered'
  BY DEF UnregisterReads, TypeOK, Read, browserVars, Owned, Covered
<1>7. DeadLookedAt'
  BY DEF UnregisterReads, TypeOK, Read, browserVars, DeadLookedAt, EndpointOfSession
\* What is about to be written counts as read by two.
<1>8. EndedAccounted'
  <2> SUFFICES ASSUME NEW t \in registry' \cup InWriting', t \notin live', ~Excused(t)'
               PROVE  Leaving(t)'
    BY DEF EndedAccounted
  <2>1. t \in registry /\ t \notin live /\ owner[t] \in Processes
    BY InWritingMember, EntriesKnown
       DEF UnregisterReads, Read, TypeOK, browserVars, Excused
  <2>2. ~Excused(t)
    BY <2>1, ExcusedStays DEF UnregisterReads, Read, browserVars
  <2>3. Leaving(t)
    BY <2>1, <2>2 DEF EndedAccounted
  <2>4. QED
    BY <2>1, <2>3 DEF Leaving, UnregisterReads, Read, Disown, TypeOK, browserVars
<1>9. RegistryComplete'
  BY InWritingMember DEF UnregisterReads, TypeOK, Read, browserVars, RegistryComplete
<1>10. OwnersKeepSessions'
  BY DEF UnregisterReads, TypeOK, Disown, browserVars, OwnersKeepSessions
<1>11. QED
  BY <1>2, <1>3, <1>4, <1>5, <1>6, <1>7, <1>8, <1>9, <1>10

-----------------------------------------------------------------------------
(* Failures.                                                               *)

\* A process that stops rewriting leaves what it was to write to those who
\* raced for it.
LEMMA StopsIInv ==
  ASSUME IInv, NEW p \in Processes, NEW stage \in {"idle", "dead"},
         Goto(p, stage), WriteLost(p), dead' = [dead EXCEPT ![p] = {}],
         UNCHANGED <<owner, appended, failed>>,
         up' \subseteq up, live' \subseteq live,
         \A s \in live \ live' : EndpointOfSession(s) \notin up',
         \A q \in Processes \ {p}, s \in live : owner[s] = q => s \in live',
         session' \in [Processes -> Sessions \cup {NoSession}],
         \A q \in Processes : session'[q] \in {session[q], NoSession},
         \A q \in Processes \ {p} : session'[q] = session[q],
         stage = "dead" => session'[p] = NoSession,
         stage = "idle" => file[p] = "open",
         pc[p] # "dead"
  PROVE  IInv'
<1> USE SessionsAssumption DEF IInv
<1>1. TypeOK'
  <2>1. /\ pc' \in [Processes -> Stages]
        /\ content' \in [Processes -> SUBSET Sessions]
        /\ snapshot' \in [Processes -> SUBSET Sessions]
        /\ todo' \in [Processes -> SUBSET Sessions]
        /\ dead' \in [Processes -> SUBSET Processes]
        /\ file' \in [Processes -> {"none", "read", "open"}]
        /\ linked' \subseteq {q \in Processes : file'[q] = "open"}
    BY DEF WriteLost, Forget, Goto, TypeOK, Stages
  <2>2. raced' \subseteq Sessions
    BY DEF WriteLost, TypeOK
  <2>3. QED
    BY <2>1, <2>2 DEF WriteLost, TypeOK, Unused
<1>2. Rewriting'
  BY DEF WriteLost, Forget, Goto, TypeOK, Rewriting
<1>3. Known'
  BY DEF WriteLost, Forget, TypeOK, Known
<1>4. Owned'
  BY DEF WriteLost, Forget, Goto, TypeOK, Owned, Rewriting
<1>5. Covered'
  BY DEF WriteLost, Forget, TypeOK, Covered
<1>6. DeadLookedAt'
  BY DEF WriteLost, Forget, Goto, TypeOK, DeadLookedAt, EndpointOfSession
<1>7. EndedAccounted'
  <2> SUFFICES ASSUME NEW t \in registry' \cup InWriting', t \notin live', ~Excused(t)'
               PROVE  Leaving(t)'
    BY DEF EndedAccounted
  <2>1. t \in registry \cup InWriting
    BY InWritingMember DEF WriteLost, Forget, TypeOK
  <2>2. owner[t] \in Processes
    BY <2>1, EntriesKnown
  <2>3. ~Excused(t) /\ t \notin live
    BY <2>2, ExcusedStays DEF WriteLost, Goto, TypeOK, Excused, EndpointOfSession
  <2>4. Leaving(t)
    BY <2>1, <2>3 DEF EndedAccounted
  <2>5. owner[t] # p
    BY <2>2, <2>4 DEF Leaving, Excused, Goto, TypeOK
  <2>6. QED
    BY <2>2, <2>4, <2>5 DEF Leaving, WriteLost, Forget, Goto, TypeOK
<1>8. RegistryComplete'
  BY InWritingMember DEF WriteLost, Forget, TypeOK, RegistryComplete
<1>9. OwnersKeepSessions'
  BY DEF Goto, TypeOK, Owned, OwnersKeepSessions
<1>10. QED
  BY <1>1, <1>2, <1>3, <1>4, <1>5, <1>6, <1>7, <1>8, <1>9

LEMMA WriteFailsIInv == ASSUME IInv, NEW p \in Processes, WriteFails(p) PROVE IInv'
<1>1. /\ up' \subseteq up /\ live' \subseteq live
      /\ \A s \in live \ live' : EndpointOfSession(s) \notin up'
      /\ \A q \in Processes \ {p}, s \in live : owner[s] = q => s \in live'
  BY BrowserEnds DEF WriteFails
<1>2. pc[p] # "dead" /\ session' \in [Processes -> Sessions \cup {NoSession}]
  BY DEF IInv, Rewriting, TypeOK, WriteFails
<1>3. QED
  BY <1>1, <1>2, StopsIInv DEF WriteFails

LEMMA CrashIInv == ASSUME IInv, NEW p \in Processes, Crash(p) PROVE IInv'
<1>1. /\ session' \in [Processes -> Sessions \cup {NoSession}]
      /\ session'[p] = NoSession
      /\ \A q \in Processes \ {p} : session'[q] = session[q]
  BY DEF IInv, TypeOK, Crash, Disown
<1>2. QED
  BY <1>1, StopsIInv DEF Crash, browserVars

LEMMA BrowserGoneIInv == ASSUME IInv, NEW e \in Endpoints, BrowserGone(e) PROVE IInv'
<1> USE SessionsAssumption DEF IInv
<1>1. up' \subseteq up /\ live' \subseteq live
      /\ \A s \in live \ live' : EndpointOfSession(s) \notin up'
  BY DEF BrowserGone, EndpointOfSession
<1>2. TypeOK' /\ Rewriting'
  BY DEF BrowserGone, TypeOK, Rewriting, Unused, fileVars
<1>3. Known' /\ Owned' /\ Covered' /\ DeadLookedAt'
  BY <1>1 DEF BrowserGone, Known, Owned, Covered, DeadLookedAt, EndpointOfSession, fileVars
<1>4. EndedAccounted'
  <2> SUFFICES ASSUME NEW t \in registry' \cup InWriting', t \notin live', ~Excused(t)'
               PROVE  Leaving(t)'
    BY DEF EndedAccounted
  <2>1. t \in registry \cup InWriting /\ ~Excused(t) /\ t \notin live
    BY <1>1, InWritingMember, ExcusedStays
       DEF BrowserGone, fileVars, Excused, EndpointOfSession
  <2>2. QED
    BY <2>1 DEF EndedAccounted, Leaving, BrowserGone, fileVars
<1>5. RegistryComplete'
  BY <1>1, InWritingMember DEF BrowserGone, RegistryComplete, fileVars
<1>6. OwnersKeepSessions'
  BY DEF BrowserGone, OwnersKeepSessions, Owned, TypeOK, EndpointOfSession
<1>7. QED
  BY <1>2, <1>3, <1>4, <1>5, <1>6

-----------------------------------------------------------------------------
(* The theorems.                                                           *)

LEMMA StepIInv == IInv /\ [Next]_vars => IInv'
<1> SUFFICES ASSUME IInv, [Next]_vars PROVE IInv'
  OBVIOUS
<1>1. CASE UNCHANGED vars
  <2>1. InWriting' = InWriting
    BY <1>1 DEF InWriting, vars, fileVars
  <2>2. QED
    BY <1>1, <2>1 DEF vars, fileVars, browserVars, IInv, TypeOK, Unused, Rewriting, Known,
       Owned, Covered, DeadLookedAt, EndedAccounted, Excused, Leaving, EndpointOfSession,
       RegistryComplete, OwnersKeepSessions
<1>2. ASSUME NEW e \in Endpoints, BrowserGone(e) PROVE IInv'
  BY <1>2, BrowserGoneIInv
<1>3. ASSUME NEW p \in Processes,
             \/ CleanupReads(p) \/ CleanupWrites(p)
             \/ \E s \in Sessions : CleanupLooks(p, s)
             \/ NewSession(p) \/ ConnectFails(p) \/ Register(p)
             \/ CloseEndsSession(p) \/ UnregisterReads(p) \/ UnregisterWrites(p)
             \/ WriteFails(p) \/ Crash(p)
      PROVE  IInv'
  BY <1>3, CleanupReadsIInv, CleanupLooksIInv, RewriteIInv, NewSessionIInv, ConnectFailsIInv,
     RegisterIInv, CloseEndsSessionIInv, UnregisterReadsIInv, WriteFailsIInv, CrashIInv
<1>4. QED
  BY <1>1, <1>2, <1>3 DEF Next

LEMMA Invariance == Spec => []IInv
BY InitIInv, StepIInv, PTL DEF Spec

\* The variables have their types: no entry of the file is of a session that
\* was never started.
THEOREM TypeCorrect == Spec => []TypeOK
<1>1. IInv => TypeOK
  BY DEF IInv
<1>2. QED
  BY <1>1, Invariance, PTL

\* No cleanup ends the session of a process that lives and uses it, however
\* old or torn the file is that it read.
THEOREM OwnersSafe == Spec => []OwnersKeepSessions
<1>1. IInv => OwnersKeepSessions
  BY DEF IInv
<1>2. QED
  BY <1>1, Invariance, PTL

\* The file loses only entries that two processes raced for.
THEOREM Registered == Spec => []RegistryComplete
<1>1. IInv => RegistryComplete
  BY DEF IInv
<1>2. QED
  BY <1>1, Invariance, PTL

\* A process that goes on to connect has ended all the sessions it could know
\* to be stale.
THEOREM StaleEnded == Spec => []StaleSessionsEnded
<1>1. IInv => StaleSessionsEnded
  BY DEF IInv, TypeOK, Rewriting, DeadLookedAt, StaleSessionsEnded
<1>2. QED
  BY <1>1, Invariance, PTL

\* With everybody at rest no entry is left of a session that was ended in
\* order.
THEOREM LeftoversAccounted == Spec => []NoLeftovers
<1>1. ASSUME IInv PROVE NoLeftovers
  <2> SUFFICES ASSUME \A p \in Processes : pc[p] \in {"idle", "connected", "dead"},
                      NEW s \in registry \ live
               PROVE  Excused(s)
    BY DEF NoLeftovers, Excused
  <2>1. owner[s] \in Processes
    BY <1>1, EntriesKnown DEF IInv
  <2>2. QED
    BY <1>1, <2>1 DEF IInv, EndedAccounted, Leaving
<1>2. QED
  BY <1>1, Invariance, PTL

-----------------------------------------------------------------------------
(* The client.                                                             *)

ClientInv == ClientTypeOK /\ PendingIsWaiting /\ (closed => pending = {})

LEMMA InitClientInv == ClientInit => ClientInv
<1> SUFFICES ASSUME ClientInit PROVE ClientInv
  OBVIOUS
<1> USE BidiAssumption
<1>1. ClientTypeOK
  <2>1. << >> \in Seq(Frames)
    OBVIOUS
  <2>2. 0 \in 0..MaxCommands
    OBVIOUS
  <2>3. QED
    BY <2>1, <2>2 DEF ClientInit, ClientTypeOK
<1>2. PendingIsWaiting /\ (closed => pending = {})
  BY DEF ClientInit, PendingIsWaiting, Ids
<1>3. QED
  BY <1>1, <1>2 DEF ClientInv

\* What rejectPendingCommands does to an outcome: it fails what was waiting.
LEMMA RejectIInv ==
  ASSUME ClientInv, RejectPendingCommands
  PROVE  /\ commandId' = commandId
         /\ pending' = {}
         /\ outcome' = [i \in Ids |-> IF outcome[i] = "waiting" THEN "failed" ELSE outcome[i]]
         /\ outcome' \in [Ids -> {"idle", "waiting", "answered", "failed"}]
         /\ \A i \in Ids : outcome'[i] # "waiting" /\ (outcome'[i] = "idle" <=> outcome[i] = "idle")
<1>1. \A i \in Ids : i \in pending <=> outcome[i] = "waiting"
  BY DEF ClientInv, PendingIsWaiting
<1>2. /\ commandId' = commandId
      /\ pending' = {}
      /\ outcome' = [i \in Ids |-> IF outcome[i] = "waiting" THEN "failed" ELSE outcome[i]]
  BY <1>1 DEF RejectPendingCommands
<1>3. QED
  BY <1>2 DEF ClientInv, ClientTypeOK

LEMMA SendCommandIInv == ClientInv /\ SendCommand => ClientInv'
<1> SUFFICES ASSUME ClientInv, SendCommand PROVE ClientInv'
  OBVIOUS
<1> USE BidiAssumption
<1> DEFINE id == commandId + 1
<1>0. ClientTypeOK /\ PendingIsWaiting /\ ~closed /\ ~closed'
  BY DEF ClientInv, SendCommand
<1>1. id \in Ids /\ commandId' = id /\ commandId \in Nat
  BY <1>0 DEF SendCommand, ClientTypeOK, Ids
<1>2. \/ /\ pending' = pending
         /\ outcome' = [outcome EXCEPT ![id] = "failed"]
         /\ received' = received
      \/ /\ pending' = pending \cup {id}
         /\ outcome' = [outcome EXCEPT ![id] = "waiting"]
         /\ received' \subseteq received \cup {id}
  BY DEF SendCommand
<1>3. UNCHANGED <<socket, connected, closed, frames, listeners, delivering>>
  BY DEF SendCommand, eventVars
<1>4. outcome[id] = "idle" /\ id \notin pending
  BY <1>0, <1>1 DEF PendingIsWaiting, Ids
<1>5. ClientTypeOK'
  <2>1. outcome' \in [Ids -> {"idle", "waiting", "answered", "failed"}]
    BY <1>0, <1>1, <1>2 DEF ClientTypeOK
  <2>2. commandId' \in 0..MaxCommands
    BY <1>1 DEF Ids
  <2>3. pending' \subseteq Ids /\ received' \subseteq Ids
    <3> HIDE DEF id
    <3>1. QED
      BY <1>0, <1>1, <1>2 DEF ClientTypeOK
  <2>4. QED
    BY <1>0, <1>3, <2>1, <2>2, <2>3 DEF ClientTypeOK
<1>6. PendingIsWaiting'
  <2> SUFFICES ASSUME NEW i \in Ids
              PROVE  /\ i \in pending' <=> outcome'[i] = "waiting"
                     /\ outcome'[i] = "idle" <=> i > commandId'
    BY DEF PendingIsWaiting
  <2>1. CASE i = id
    BY <1>0, <1>1, <1>2, <1>4, <2>1 DEF ClientTypeOK, Ids
  <2>2. CASE i # id
    <3>1. outcome'[i] = outcome[i] /\ (i \in pending' <=> i \in pending)
      BY <1>0, <1>2, <2>2 DEF ClientTypeOK
    <3>2. i > commandId' <=> i > commandId
      BY <1>1, <2>2 DEF Ids
    <3>3. QED
      BY <1>0, <3>1, <3>2 DEF PendingIsWaiting
  <2>3. QED
    BY <2>1, <2>2
<1>7. QED
  BY <1>0, <1>5, <1>6 DEF ClientInv

LEMMA CloseIInv == ClientInv /\ Close => ClientInv'
<1> SUFFICES ASSUME ClientInv, Close PROVE ClientInv'
  OBVIOUS
<1>1. /\ commandId' = commandId
      /\ pending' = {}
      /\ outcome' \in [Ids -> {"idle", "waiting", "answered", "failed"}]
      /\ \A i \in Ids : outcome'[i] # "waiting" /\ (outcome'[i] = "idle" <=> outcome[i] = "idle")
  BY RejectIInv DEF Close
<1>2. ClientTypeOK'
  BY <1>1 DEF ClientInv, ClientTypeOK, Close, eventVars
<1>3. PendingIsWaiting'
  BY <1>1 DEF ClientInv, PendingIsWaiting
<1>4. QED
  BY <1>1, <1>2, <1>3 DEF ClientInv

LEMMA SocketClosesIInv == ClientInv /\ SocketCloses => ClientInv'
<1> SUFFICES ASSUME ClientInv, SocketCloses PROVE ClientInv'
  OBVIOUS
<1>1. /\ UNCHANGED <<listeners, delivering>>
      /\ socket' = "closed"
      /\ connected' \in {"pending", "resolved", "rejected"}
      /\ frames' = << >>
      /\ received' = {}
  BY DEF SocketCloses, eventVars, ClientInv, ClientTypeOK
<1>2. << >> \in Seq(Frames)
  OBVIOUS
<1>3. CASE closed
  <2>1. UNCHANGED <<closed, commandId, pending, outcome>>
    BY <1>3 DEF SocketCloses, HandleClose, commandVars
  <2>2. ClientTypeOK'
    BY <1>1, <1>2, <2>1 DEF ClientInv, ClientTypeOK
  <2>3. QED
    BY <2>1, <2>2 DEF ClientInv, PendingIsWaiting
<1>4. CASE ~closed
  <2>1. closed' /\ closed' \in BOOLEAN
    BY <1>4 DEF SocketCloses, HandleClose
  <2>2. /\ commandId' = commandId
        /\ pending' = {}
        /\ outcome' \in [Ids -> {"idle", "waiting", "answered", "failed"}]
        /\ \A i \in Ids : outcome'[i] # "waiting" /\ (outcome'[i] = "idle" <=> outcome[i] = "idle")
    BY <1>4, RejectIInv DEF SocketCloses, HandleClose
  <2>3. ClientTypeOK'
    BY <1>1, <1>2, <2>1, <2>2 DEF ClientInv, ClientTypeOK
  <2>4. PendingIsWaiting'
    BY <2>2 DEF ClientInv, PendingIsWaiting
  <2>5. QED
    BY <2>2, <2>3, <2>4 DEF ClientInv
<1>5. QED
  BY <1>3, <1>4

LEMMA HandleMessageIInv == ClientInv /\ HandleMessage => ClientInv'
<1> SUFFICES ASSUME ClientInv, HandleMessage PROVE ClientInv'
  OBVIOUS
<1> DEFINE f == Head(frames)
<1>0. ClientTypeOK /\ PendingIsWaiting /\ (closed => pending = {})
  BY DEF ClientInv
<1>1. frames' \in Seq(Frames) /\ f \in Frames
  BY <1>0, HeadTailProperties DEF HandleMessage, ClientTypeOK
<1>2. UNCHANGED <<socket, connected, closed, received, listeners>>
  BY DEF HandleMessage
<1>3. \/ /\ UNCHANGED <<commandId, pending, outcome>>
         /\ delivering' \in {delivering, listeners}
      \/ /\ f.id \in pending
         /\ pending' = pending \ {f.id}
         /\ outcome' = [outcome EXCEPT ![f.id] = IF f.type = "success" THEN "answered"
                                                 ELSE "failed"]
         /\ UNCHANGED <<commandId, delivering>>
  BY DEF HandleMessage, HandleAnswer, commandVars
<1> HIDE DEF f
<1>4. CASE UNCHANGED <<commandId, pending, outcome>> /\ delivering' \in {delivering, listeners}
  <2>1. ClientTypeOK'
    BY <1>0, <1>1, <1>2, <1>4 DEF ClientTypeOK
  <2>2. QED
    BY <1>0, <1>2, <1>4, <2>1 DEF ClientInv, PendingIsWaiting
<1>5. CASE /\ f.id \in pending
           /\ pending' = pending \ {f.id}
           /\ outcome' = [outcome EXCEPT ![f.id] = IF f.type = "success" THEN "answered"
                                                   ELSE "failed"]
           /\ UNCHANGED <<commandId, delivering>>
  <2>1. f.id \in Ids
    BY <1>0, <1>5 DEF ClientTypeOK
  <2>2. outcome' \in [Ids -> {"idle", "waiting", "answered", "failed"}]
    BY <1>0, <1>5 DEF ClientTypeOK
  <2>3. ClientTypeOK'
    BY <1>0, <1>1, <1>2, <1>5, <2>2 DEF ClientTypeOK
  <2>4. PendingIsWaiting'
    BY <1>0, <1>5, <2>1 DEF ClientTypeOK, PendingIsWaiting
  <2>5. QED
    BY <1>0, <1>2, <1>5, <2>3, <2>4 DEF ClientInv
<1>6. QED
  BY <1>3, <1>4, <1>5

LEMMA BrowserIInv ==
  ASSUME ClientInv, NEW type \in {"success", "error", "event"}, NEW id \in Ids \cup {NoId},
         type = "event" => id = NoId, BrowserSends(type, id)
  PROVE  ClientInv'
<1>1. [type |-> type, id |-> id] \in Frames
  BY DEF Frames
<1>2. frames' \in Seq(Frames)
  BY <1>1 DEF BrowserSends, ClientInv, ClientTypeOK
<1>3. UNCHANGED <<socket, connected, closed, commandId, pending, outcome, listeners,
                  delivering>> /\ received' \subseteq received
  BY DEF BrowserSends, commandVars, eventVars
<1>4. ClientTypeOK'
  BY <1>2, <1>3 DEF ClientInv, ClientTypeOK
<1>5. QED
  BY <1>3, <1>4 DEF ClientInv, PendingIsWaiting

LEMMA NextClientInv == ClientInv /\ [ClientNext]_clientVars => ClientInv'
<1> SUFFICES ASSUME ClientInv, [ClientNext]_clientVars PROVE ClientInv'
  OBVIOUS
<1>1. CASE SendCommand
  BY <1>1, SendCommandIInv
<1>2. CASE Close
  BY <1>2, CloseIInv
<1>3. CASE SocketCloses
  BY <1>3, SocketClosesIInv
<1>4. CASE HandleMessage
  BY <1>4, HandleMessageIInv
<1>5. ASSUME NEW l \in Listeners, On(l) \/ RemoveListener(l) \/ ListenerCalled(l)
      PROVE  ClientInv'
  <2>1. /\ UNCHANGED <<socket, connected, closed, commandId, pending, outcome, received,
                       frames>>
        /\ listeners' \subseteq Listeners
        /\ delivering' \subseteq Listeners
    BY <1>5 DEF On, RemoveListener, ListenerCalled, commandVars, ClientInv, ClientTypeOK
  <2>2. ClientTypeOK'
    BY <2>1 DEF ClientInv, ClientTypeOK
  <2>3. QED
    BY <2>1, <2>2 DEF ClientInv, PendingIsWaiting
<1>6. CASE Opened
  <2>1. /\ UNCHANGED <<closed, commandId, pending, outcome, received, frames, listeners,
                       delivering>>
        /\ socket' = "open"
        /\ connected' \in {"pending", "resolved", "rejected"}
    BY <1>6 DEF Opened, commandVars, eventVars, ClientInv, ClientTypeOK
  <2>2. ClientTypeOK'
    BY <2>1 DEF ClientInv, ClientTypeOK
  <2>3. QED
    BY <2>1, <2>2 DEF ClientInv, PendingIsWaiting
<1>7. ASSUME NEW id \in Ids, BrowserAnswers(id) PROVE ClientInv'
  BY <1>7, BrowserIInv DEF BrowserAnswers
<1>8. CASE BrowserSpeaksUp
  BY <1>8, BrowserIInv DEF BrowserSpeaksUp
<1>9. CASE UNCHANGED clientVars
  <2>1. UNCHANGED <<socket, connected, closed, commandId, pending, outcome, received,
                    frames, listeners, delivering>>
    BY <1>9 DEF clientVars, commandVars, eventVars
  <2>2. QED
    BY <2>1 DEF ClientInv, ClientTypeOK, PendingIsWaiting
<1>10. QED
  BY <1>1, <1>2, <1>3, <1>4, <1>5, <1>6, <1>7, <1>8, <1>9 DEF ClientNext

\* Every state the client reaches satisfies the invariant.
THEOREM ClientInductive == ClientSpec => []ClientInv
<1>1. QED
  BY InitClientInv, NextClientInv, PTL DEF ClientSpec

\* The types, of WebSocketBidiClient's fields.
THEOREM ClientTypeCorrect == ClientSpec => []ClientTypeOK
<1>1. ClientInv => ClientTypeOK
  BY DEF ClientInv
<1>2. QED
  BY <1>1, ClientInductive, PTL

\* pendingCommands holds the commands somebody waits for, and no other.
THEOREM PendingCorrect == ClientSpec => []PendingIsWaiting
<1>1. ClientInv => PendingIsWaiting
  BY DEF ClientInv
<1>2. QED
  BY <1>1, ClientInductive, PTL

\* No sendCommand promise is left waiting once the client is closed, whether
\* close() or the close event came first.
THEOREM NobodyWaits == ClientSpec => []NobodyWaitsWhenClosed
<1>1. ClientInv => NobodyWaitsWhenClosed
  BY DEF ClientInv, PendingIsWaiting, NobodyWaitsWhenClosed
<1>2. QED
  BY <1>1, ClientInductive, PTL

-----------------------------------------------------------------------------
(* The refinement.                                                         *)

LEMMA ClientInitRefines == ClientInit => Abstract!CallsInit
  BY DEF ClientInit, Abstract!CallsInit

LEMMA EndRefines ==
  ASSUME ClientInv, ~closed, closed', RejectPendingCommands
  PROVE  Abstract!End
  BY RejectIInv DEF Abstract!End

LEMMA ClientStepRefines ==
  ASSUME ClientInv, [ClientNext]_clientVars
  PROVE  [Abstract!CallsNext]_<<~closed, outcome>>
<1> DEFINE Stutter == UNCHANGED <<closed, outcome>>
<1>1. CASE SendCommand
  <2> DEFINE id == commandId + 1
  <2>1. id \in Ids /\ outcome[id] = "idle" /\ ~closed /\ closed' = closed
    BY <1>1, BidiAssumption DEF SendCommand, ClientInv, ClientTypeOK, PendingIsWaiting, Ids
  <2>2. \/ outcome' = [outcome EXCEPT ![id] = "failed"]
        \/ outcome' = [outcome EXCEPT ![id] = "waiting"]
    BY <1>1 DEF SendCommand
  <2>3. Abstract!Start(id) \/ Abstract!Refuse(id)
    BY <2>1, <2>2 DEF Abstract!Start, Abstract!Refuse
  <2>4. QED
    BY <2>1, <2>3 DEF Abstract!CallsNext
<1>2. CASE Close
  <2>1. Abstract!End
    BY <1>2, EndRefines DEF Close
  <2>2. QED
    BY <2>1 DEF Abstract!CallsNext
<1>3. CASE SocketCloses
  <2>1. CASE closed
    BY <1>3, <2>1 DEF SocketCloses, HandleClose, commandVars
  <2>2. CASE ~closed
    <3>1. Abstract!End
      BY <1>3, <2>2, EndRefines DEF SocketCloses, HandleClose
    <3>2. QED
      BY <3>1 DEF Abstract!CallsNext
  <2>3. QED
    BY <2>1, <2>2
<1>4. CASE HandleMessage
  <2> DEFINE f == Head(frames)
             how == IF f.type = "success" THEN "answered" ELSE "failed"
  <2>1. Stutter \/ (f.id \in pending /\ outcome' = [outcome EXCEPT ![f.id] = how]
                                     /\ closed' = closed)
    BY <1>4 DEF HandleMessage, HandleAnswer, commandVars
  <2>2. CASE f.id \in pending /\ outcome' = [outcome EXCEPT ![f.id] = how] /\ closed' = closed
    <3>1. ~closed /\ f.id \in Ids /\ outcome[f.id] = "waiting"
      BY <2>2 DEF ClientInv, ClientTypeOK, PendingIsWaiting
    <3>2. Abstract!Settle(f.id, "answered") \/ Abstract!Settle(f.id, "failed")
      BY <2>2, <3>1 DEF Abstract!Settle
    <3>3. QED
      BY <3>1, <3>2 DEF Abstract!CallsNext
  <2>3. QED
    BY <2>1, <2>2
<1>5. ASSUME NEW l \in Listeners, On(l) \/ RemoveListener(l) \/ ListenerCalled(l)
      PROVE  Stutter
  BY <1>5 DEF On, RemoveListener, ListenerCalled, commandVars
<1>6. CASE Opened
  BY <1>6 DEF Opened, commandVars
<1>7. ASSUME NEW type, NEW id, BrowserSends(type, id) PROVE Stutter
  BY <1>7 DEF BrowserSends, commandVars
<1>8. CASE (\E id \in Ids : BrowserAnswers(id)) \/ BrowserSpeaksUp
  BY <1>7, <1>8 DEF BrowserAnswers, BrowserSpeaksUp
<1>9. CASE UNCHANGED clientVars
  BY <1>9 DEF clientVars, commandVars
<1>10. QED
  BY <1>1, <1>2, <1>3, <1>4, <1>5, <1>6, <1>8, <1>9 DEF ClientNext

\* Whatever the order of answers, close() and the loss of the connection, a
\* caller sees a command settled once, as CommandCalls says.
THEOREM ClientRefinement == ClientSpec => Implements
<1>1. QED
  BY ClientInitRefines, ClientStepRefines, ClientInductive, PTL DEF ClientSpec, Implements, Abstract!CallsSpec
=============================================================================
