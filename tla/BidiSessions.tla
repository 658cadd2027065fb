---------------------------- MODULE BidiSessions ----------------------------
(***************************************************************************)
(* The registry of BiDi sessions (src/src/protocol/bidi/sessionRegistry.ts *)
(* and its callers).  A Firefox keeps a session when its client is gone,   *)
(* and accepts only so many.  Every process that starts a session appends  *)
(* it to one file in the temporary directory; a process that connects      *)
(* later ends the sessions whose process is dead.  The file is read,       *)
(* filtered and written back without a lock.                               *)
(*                                                                         *)
(* readFile and appendFile are one step.  writeFile is two, as it opens    *)
(* and truncates the file before it writes.  Processes are of one user     *)
(* (process.kill fails for those of another), make one connection at a     *)
(* time, and their pids are not used again.                                *)
(***************************************************************************)
EXTENDS Naturals, FiniteSets

CONSTANTS
  Processes,
  Endpoints,     \* one for each browser
  EndpointOf,    \* the endpoint a process connects to
  Launchers,     \* processes that launch their browser (launchFirefoxBidi)
  MaxSessions,   \* sessions a browser accepts
  Sessions,      \* bound: sessions started in one behaviour
  NoSession

ASSUME SessionsAssumption ==
  /\ EndpointOf \in [Processes -> Endpoints]
  /\ Launchers \subseteq Processes
  /\ \A p \in Launchers : \A q \in Processes \ {p} : EndpointOf[q] # EndpointOf[p]
  /\ MaxSessions \in Nat \ {0}
  /\ NoSession \notin Sessions \cup Processes

VARIABLES
  pc,        \* where each process is
  session,   \* the session it owns
  registry,  \* entries of the file
  file,      \* how far the process is with rewriting the file
  linked,    \* processes whose open file is still the one with that name
  todo,      \* entries the cleanup has not looked at
  content,   \* entries to be written back
  owner,     \* pid of each session, NoSession while it is unused
  live,      \* sessions the browsers hold
  up,        \* endpoints whose browser runs
  \* History: entries as each process read them; sessions whose append
  \* succeeded; sessions whose entry changed, or was read, while another
  \* process rewrote the file; sessions that some cleanup could not end;
  \* processes that were dead when a process read the file.
  snapshot, appended, raced, failed, dead

fileVars == <<registry, file, linked, todo, content, snapshot, raced>>
browserVars == <<owner, live, up>>
vars == <<pc, session, fileVars, browserVars, appended, failed, dead>>

Stages == {"idle", "cleaning", "connecting", "registering", "connected",
           "unregistering", "dead"}

EndpointOfSession(s) == EndpointOf[owner[s]]
Unused == {s \in Sessions : owner[s] = NoSession}

TypeOK ==
  /\ pc \in [Processes -> Stages]
  /\ session \in [Processes -> Sessions \cup {NoSession}]
  /\ registry \subseteq Sessions \ Unused
  /\ file \in [Processes -> {"none", "read", "open"}]
  /\ linked \subseteq {p \in Processes : file[p] = "open"}
  /\ todo \in [Processes -> SUBSET Sessions]
  /\ content \in [Processes -> SUBSET Sessions]
  /\ owner \in [Sessions -> Processes \cup {NoSession}]
  /\ live \subseteq Sessions \ Unused
  /\ up \subseteq Endpoints
  /\ snapshot \in [Processes -> SUBSET Sessions]
  /\ appended \subseteq Sessions
  /\ raced \subseteq Sessions
  /\ failed \subseteq Sessions
  /\ dead \in [Processes -> SUBSET Processes]

Init ==
  /\ pc = [p \in Processes |-> "idle"]
  /\ session = [p \in Processes |-> NoSession]
  /\ registry = {}
  /\ file = [p \in Processes |-> "none"]
  /\ linked = {}
  /\ todo = [p \in Processes |-> {}]
  /\ content = [p \in Processes |-> {}]
  /\ owner = [s \in Sessions |-> NoSession]
  /\ live = {}
  /\ up = Endpoints
  /\ snapshot = [p \in Processes |-> {}]
  /\ appended = {}
  /\ raced = {}
  /\ failed = {}
  /\ dead = [p \in Processes |-> {}]

Goto(p, stage) == pc' = [pc EXCEPT ![p] = stage]

\* The process forgets what it read and what it meant to write.
Forget(p) ==
  /\ file' = [file EXCEPT ![p] = "none"]
  /\ content' = [content EXCEPT ![p] = {}]
  /\ snapshot' = [snapshot EXCEPT ![p] = {}]

Disown(p) == session' = [session EXCEPT ![p] = NoSession]

\* cleanupFirefoxProcess: a launched browser goes with the connection.
BrowserAfter(p) == IF p \in Launchers THEN up \ {EndpointOf[p]} ELSE up
SessionsAfter(p) ==
  IF p \in Launchers THEN {s \in live : EndpointOfSession(s) # EndpointOf[p]} ELSE live

-----------------------------------------------------------------------------
(* The file.                                                               *)

\* Entries that somebody is about to write into the file he has emptied.
InWriting == UNION {content[p] : p \in {q \in Processes : file[q] = "open"}}

Changed(p) == (snapshot[p] \ registry) \cup (registry \ snapshot[p])

Read(p, kept) ==
  /\ file' = [file EXCEPT ![p] = "read"]
  /\ snapshot' = [snapshot EXCEPT ![p] = registry]
  /\ content' = [content EXCEPT ![p] = kept]
  /\ raced' = raced \cup InWriting
  /\ UNCHANGED <<registry, linked>>

\* writeFirefoxBidiSessionEntries removes the file when nothing is left, and
\* otherwise opens it.  After the file, `stage'.
Remove(p, stage) ==
  /\ content[p] = {}
  /\ registry' = {}
  /\ linked' = {}
  /\ raced' = raced \cup Changed(p) \cup InWriting
  /\ Forget(p)
  /\ Goto(p, stage)

Truncate(p) ==
  /\ content[p] # {}
  /\ registry' = {}
  /\ linked' = linked \cup {p}
  /\ raced' = raced \cup Changed(p) \cup InWriting
  /\ file' = [file EXCEPT ![p] = "open"]
  /\ UNCHANGED <<pc, content, snapshot>>

\* The text goes over what others have put there since: some of it survives
\* behind.  A file removed meanwhile is written to no effect.
Write(p, stage) ==
  /\ file[p] = "open"
  /\ raced' = raced \cup registry \cup (IF p \in linked THEN {} ELSE content[p])
  /\ \/ /\ p \in linked
        /\ \E rest \in SUBSET registry : registry' = content[p] \cup rest
     \/ p \notin linked /\ UNCHANGED registry
  /\ linked' = linked \ {p}
  /\ Forget(p)
  /\ Goto(p, stage)

\* The process dies with the file empty, or the disk is full.
WriteLost(p) ==
  /\ raced' = IF file[p] = "open" THEN raced \cup content[p] ELSE raced
  /\ linked' = linked \ {p}
  /\ Forget(p)
  /\ todo' = [todo EXCEPT ![p] = {}]
  /\ UNCHANGED registry

-----------------------------------------------------------------------------
(* Connecting.                                                             *)

\* cleanupStaleFirefoxBidiSessions, up to its loop.
CleanupReads(p) ==
  /\ pc[p] = "idle"
  /\ dead' = [dead EXCEPT ![p] = {q \in Processes : pc[q] = "dead"}]
  /\ \/ /\ registry = {}
        /\ Goto(p, "connecting")
        /\ snapshot' = [snapshot EXCEPT ![p] = {}]
        /\ raced' = raced \cup InWriting
        /\ UNCHANGED <<registry, file, linked, todo, content>>
     \/ /\ registry # {}
        /\ Goto(p, "cleaning")
        /\ Read(p, {})
        /\ todo' = [todo EXCEPT ![p] = registry]
  /\ UNCHANGED <<session, browserVars, appended, failed>>

\* Mutant of Stale: whoever owns the session.
StaleOwnerOrNot(p, s) == EndpointOfSession(s) = EndpointOf[p]

\* Mutant of Stale: the other way round.
StaleElsewhere(p, s) ==
  EndpointOfSession(s) # EndpointOf[p] /\ pc[owner[s]] = "dead"

Stale(p, s) ==
  EndpointOfSession(s) = EndpointOf[p] /\ pc[owner[s]] = "dead"

Keep(p, s) == content' = [content EXCEPT ![p] = @ \cup {s}]

\* The loop body.  A session that is gone cannot be ended; one that is there
\* may fail to end, too.
CleanupLooks(p, s) ==
  /\ pc[p] = "cleaning"
  /\ s \in todo[p]
  /\ todo' = [todo EXCEPT ![p] = @ \ {s}]
  /\ \/ ~Stale(p, s) /\ Keep(p, s) /\ UNCHANGED <<live, failed>>
     \/ /\ Stale(p, s)
        /\ s \in live
        /\ live' = live \ {s}
        /\ UNCHANGED <<content, failed>>
     \/ /\ Stale(p, s)
        /\ Keep(p, s)
        /\ failed' = failed \cup {s}
        /\ UNCHANGED live
  /\ UNCHANGED <<pc, session, registry, file, linked, snapshot, raced, owner, up, appended, dead>>

CleanupWrites(p) ==
  /\ pc[p] = "cleaning"
  /\ todo[p] = {}
  /\ \/ file[p] = "read" /\ (Remove(p, "connecting") \/ Truncate(p))
     \/ Write(p, "connecting")
  /\ UNCHANGED <<session, todo, browserVars, appended, failed, dead>>

\* The connection, sessionStatus and session.new.  The session of someone
\* else, at a path or with an id of its own, is left alone and not modelled.
NewSession(p) ==
  /\ pc[p] = "connecting"
  /\ EndpointOf[p] \in up
  /\ Cardinality({s \in live : EndpointOfSession(s) = EndpointOf[p]}) < MaxSessions
  /\ \E s \in Unused :
       /\ owner' = [owner EXCEPT ![s] = p]
       /\ live' = live \cup {s}
       /\ session' = [session EXCEPT ![p] = s]
  /\ Goto(p, "registering")
  /\ dead' = [dead EXCEPT ![p] = {}]
  /\ UNCHANGED <<fileVars, up, appended, failed>>

\* The browser cannot be reached, or has its maximum of sessions.
ConnectFails(p) ==
  /\ pc[p] = "connecting"
  /\ Goto(p, "idle")
  /\ up' = BrowserAfter(p)
  /\ live' = SessionsAfter(p)
  /\ dead' = [dead EXCEPT ![p] = {}]
  /\ UNCHANGED <<session, fileVars, owner, appended, failed>>

\* registerOwnedFirefoxBidiSession; a failure is swallowed.
Register(p) ==
  /\ pc[p] = "registering"
  /\ Goto(p, "connected")
  /\ \/ /\ registry' = registry \cup {session[p]}
        /\ appended' = appended \cup {session[p]}
     \/ UNCHANGED <<registry, appended>>
  /\ UNCHANGED <<session, file, linked, todo, content, snapshot, raced, browserVars, failed, dead>>

-----------------------------------------------------------------------------
(* Closing.                                                                *)

\* Mutant of Unregisters: connectBidiFromWsEndpoint drops it, too.
UnregistersNever(p) == FALSE

\* launchFirefoxBidi does not hand on unregisterOwnedSession.
Unregisters(p) == p \notin Launchers /\ session[p] \in appended

\* Closing ends here, or goes on with the registry.
Closed(p) ==
  IF Unregisters(p) THEN Goto(p, "unregistering") /\ UNCHANGED session
  ELSE Goto(p, "idle") /\ Disown(p)

\* Mutant of CloseEndsSession: the entry is taken back whether the session
\* ended or not.
CloseAnyway(p) ==
  /\ pc[p] = "connected"
  /\ live' = live \ {session[p]} \/ UNCHANGED live
  /\ Closed(p)
  /\ up' = BrowserAfter(p)
  /\ UNCHANGED <<fileVars, owner, appended, failed, dead>>

\* sessionEnd; only if it succeeds the entry is taken back.  A launched
\* browser is killed in the end.
CloseEndsSession(p) ==
  /\ pc[p] = "connected"
  /\ \/ /\ session[p] \in live
        /\ live' = live \ {session[p]}
        /\ Closed(p)
        /\ UNCHANGED failed
     \/ /\ Goto(p, "idle")
        /\ Disown(p)
        /\ failed' = failed \cup {session[p]}
        /\ live' = SessionsAfter(p)
  /\ up' = BrowserAfter(p)
  /\ UNCHANGED <<fileVars, owner, appended, dead>>

\* unregisterOwnedFirefoxBidiSession.
UnregisterReads(p) ==
  /\ pc[p] = "unregistering"
  /\ file[p] = "none"
  /\ Read(p, registry \ {session[p]})
  /\ Disown(p)
  /\ UNCHANGED <<pc, todo, browserVars, appended, failed, dead>>

UnregisterWrites(p) ==
  /\ pc[p] = "unregistering"
  /\ \/ file[p] = "read" /\ (Remove(p, "idle") \/ Truncate(p))
     \/ Write(p, "idle")
  /\ UNCHANGED <<session, todo, browserVars, appended, failed, dead>>

-----------------------------------------------------------------------------
(* Failures.                                                               *)

\* After a failed cleanup there is no connection.
WriteFails(p) ==
  /\ file[p] = "open"
  /\ Goto(p, "idle")
  /\ WriteLost(p)
  /\ up' = BrowserAfter(p)
  /\ live' = SessionsAfter(p)
  /\ dead' = [dead EXCEPT ![p] = {}]
  /\ UNCHANGED <<session, owner, appended, failed>>

Crash(p) ==
  /\ pc[p] # "dead"
  /\ Goto(p, "dead")
  /\ WriteLost(p)
  /\ Disown(p)
  /\ dead' = [dead EXCEPT ![p] = {}]
  /\ UNCHANGED <<browserVars, appended, failed>>

BrowserGone(e) ==
  /\ e \in up
  /\ up' = up \ {e}
  /\ live' = {s \in live : EndpointOfSession(s) # e}
  /\ UNCHANGED <<pc, session, fileVars, owner, appended, failed, dead>>

Next ==
  \/ \E p \in Processes :
       \/ CleanupReads(p) \/ CleanupWrites(p)
       \/ \E s \in Sessions : CleanupLooks(p, s)
       \/ NewSession(p) \/ ConnectFails(p) \/ Register(p)
       \/ CloseEndsSession(p) \/ UnregisterReads(p) \/ UnregisterWrites(p)
       \/ WriteFails(p) \/ Crash(p)
  \/ \E e \in Endpoints : BrowserGone(e)

Spec == Init /\ [][Next]_vars

-----------------------------------------------------------------------------
(* Properties.                                                             *)

\* Cleanups of other processes, with files read long ago and torn, never end
\* the session of a process that lives and uses it.
OwnersKeepSessions ==
  \A p \in Processes :
    pc[p] \in {"registering", "connected"} /\ EndpointOf[p] \in up => session[p] \in live

\* A session that a browser holds and that was registered stays in the file
\* for a later process to find, unless its entry was appended or read while
\* another process rewrote the file.
RegistryComplete ==
  \A s \in appended \cap live : s \in registry \cup InWriting \cup raced

\* tests/unit/bidiBackend.test.ts:228, "cleans stale owned BiDi sessions before
\* connecting a root websocket endpoint": the sessions of the endpoint whose
\* process was dead when the file was read are gone by then.  The exceptions
\* are those never registered, those whose ending failed, and races for the file.
StaleSessionsEnded ==
  \A p \in Processes : \A s \in live :
    pc[p] = "connecting" /\ EndpointOfSession(s) = EndpointOf[p] /\ owner[s] \in dead[p] =>
      s \notin appended \/ s \in failed \cup raced

\* With every process at rest, an entry whose session has ended is of a browser
\* that is gone, or of a process that died before it could take it back, or of
\* one whose ending failed - or a rewrite by another process brought it back.
NoLeftovers ==
  (\A p \in Processes : pc[p] \in {"idle", "connected", "dead"}) =>
    \A s \in registry \ live :
      \/ EndpointOfSession(s) \notin up
      \/ pc[owner[s]] = "dead"
      \/ s \in failed \cup raced
=============================================================================
