------------------------- MODULE McpSessionsProofs -------------------------
(***************************************************************************)
(* Proofs about McpSessions, for any clients, calls and browser sessions.  *)
(***************************************************************************)
EXTENDS McpSessions, TLAPS

-----------------------------------------------------------------------------
(* The inductive invariant.                                                *)

\* A bundle has been closed once if its session is over, and else not at all.
Ended ==
  \A c \in Clients :
    /\ closings[c] = IF bundle[c] \in {"none", "open"} THEN 0 ELSE 1
    /\ transport[c] = "none" => bundle[c] = "none"

\* A call that was accepted has a client, one that was dispatched a runtime.
Placed ==
  \A k \in Calls :
    /\ Underway(k) => call[k].client \in Clients
    /\ call[k].stage \in {"closing", "attaching"} => call[k].runtime \in 1..MaxRuntimes

\* A connection is an open browser session, attached for the client of the
\* runtime and held by no other runtime.
Holding ==
  /\ \A rt \in Runtimes : connection[rt] # NoBrowser =>
       browser[connection[rt]] = "open" /\ attachedFor[connection[rt]] = rt[1]
  /\ \A rt, su \in Runtimes :
       connection[rt] # NoBrowser /\ connection[rt] = connection[su] => rt = su

\* The calls of a client that makes one at a time, none of which its session
\* leaves behind: a call past close() works on the runtime of the session,
\* which has no connection.
Orderly ==
  \A c \in Clients \ overlapped : \A k \in Calls :
    call[k].client = c /\ Underway(k) =>
      /\ c \in sessions
      /\ \A l \in Calls : call[l].client = c /\ Underway(l) => l = k
      /\ call[k].stage \in {"closing", "attaching"} =>
           call[k].runtime = current[c] /\ Connected(c) = NoBrowser

IInv == TypeOK /\ Ended /\ Placed /\ Holding /\ Orderly /\ NothingForgotten

-----------------------------------------------------------------------------

LEMMA InitIInv == Init => IInv
<1> SUFFICES ASSUME Init PROVE IInv
  OBVIOUS
<1> USE McpAssumption
<1>1. call \in [Calls -> Call]
  BY DEF Init, Call
<1>2. TypeOK
  BY <1>1 DEF Init, TypeOK
<1>3. Ended /\ Placed /\ Holding /\ Orderly /\ NothingForgotten
  BY DEF Init, Ended, Placed, Holding, Orderly, NothingForgotten, Underway, Runtimes
<1>4. QED
  BY <1>2, <1>3 DEF IInv

\* The state that only sessions, calls and browsers change.
core == <<sessions, bundle, closings, current, made, connection, browser, call,
          attachedFor, overlapped>>

\* A step that leaves the core alone needs to keep only types and transports.
LEMMA CoreUnchanged ==
  ASSUME IInv, UNCHANGED core, TypeOK',
         \A c \in Clients : transport'[c] = "none" => transport[c] = "none"
  PROVE  IInv'
<1>1. Ended'
  BY DEF IInv, Ended, core
<1>2. (Placed /\ Holding)'
  BY DEF IInv, Placed, Holding, Underway, core
<1>3. (Orderly /\ NothingForgotten)'
  BY DEF IInv, Orderly, NothingForgotten, Underway, Connected, core
<1>4. QED
  BY <1>1, <1>2, <1>3 DEF IInv

\* What the runtime of a session holds is a connection.
LEMMA ConnectedTyped ==
  ASSUME TypeOK, NEW c \in Clients
  PROVE  /\ Connected(c) \in BrowserSessions \cup {NoBrowser}
         /\ current[c] # 0 => <<c, current[c]>> \in Runtimes
         /\ Connected(c) # NoBrowser =>
              current[c] # 0 /\ Connected(c) = connection[<<c, current[c]>>]
<1>1. current[c] # 0 => <<c, current[c]>> \in Runtimes
  BY McpAssumption DEF TypeOK, Runtimes
<1>2. QED
  BY <1>1 DEF TypeOK, Connected

-----------------------------------------------------------------------------
(* closeSession.                                                           *)

\* What closing sessions were connected to is let go before its close starts; a
\* session between calls has no other.
LEMMA CloseSessionsIInv ==
  ASSUME IInv, NEW S \in SUBSET Clients, CloseSessions(S),
         ping' \in [Clients -> {"off", "sent", "timer"}],
         transport' \in [Clients -> {"none", "open", "closed"}],
         shutdown' \in {"no", "sessions", "listener"},
         awaited' \in SUBSET Clients,
         \A c \in Clients : transport'[c] = "none" => transport[c] = "none"
  PROVE  IInv'
<1> DEFINE T == S \cap sessions
<1> USE DEF IInv
<1>1. \A c \in T : bundle[c] = "open" /\ c \in Clients
  BY DEF TypeOK
<1>2. /\ sessions' = sessions \ T
      /\ closings' = [c \in Clients |-> IF c \in T THEN closings[c] + 1 ELSE closings[c]]
      /\ bundle' = [c \in Clients |-> IF c \in T THEN "closing" ELSE bundle[c]]
      /\ parting' = [c \in Clients |-> IF c \in T THEN Connected(c) ELSE parting[c]]
      /\ current' = [c \in Clients |-> IF c \in T THEN 0 ELSE current[c]]
      /\ connection' = [rt \in Runtimes |-> IF rt[1] \in T /\ rt[2] = current[rt[1]]
                                            THEN NoBrowser ELSE connection[rt]]
      /\ browser' = [b \in BrowserSessions |->
                       IF \E c \in T : Connected(c) = b THEN "closing" ELSE browser[b]]
      /\ overlapped' = overlapped \cup {c \in T : Busy(c)}
      /\ made' = made /\ silent' = silent /\ attachedFor' = attachedFor /\ call' = call
  BY DEF CloseSessions
<1> HIDE DEF T
<1>3. TypeOK'
  <2>1. parting' \in [Clients -> BrowserSessions \cup {NoBrowser}]
    BY <1>2, ConnectedTyped DEF TypeOK
  <2>2. current' \in [Clients -> 0..MaxRuntimes] /\ made' \in [Clients -> 0..MaxRuntimes]
    BY <1>2, McpAssumption DEF TypeOK
  <2>3. connection' \in [Runtimes -> BrowserSessions \cup {NoBrowser}]
    BY <1>2 DEF TypeOK
  <2>4. closings' \in [Clients -> Nat]
    BY <1>2 DEF TypeOK
  <2>5. sessions' = {c \in Clients : bundle'[c] = "open"} /\ sessions' \subseteq Clients
    BY <1>2 DEF TypeOK
  <2>6. bundle' \in [Clients -> {"none", "open", "closing", "closed"}]
    BY <1>2 DEF TypeOK
  <2>7. browser' \in [BrowserSessions -> {"unused", "open", "closing", "closed", "abandoned"}]
    BY <1>2 DEF TypeOK
  <2>8. overlapped' \subseteq Clients /\ silent' \subseteq Clients
    BY <1>1, <1>2 DEF TypeOK
  <2>9. call' \in [Calls -> Call] /\ attachedFor' \in [BrowserSessions -> Clients \cup {NoClient}]
    BY <1>2 DEF TypeOK
  <2>10. QED
    BY <2>1, <2>2, <2>3, <2>4, <2>5, <2>6, <2>7, <2>8, <2>9 DEF TypeOK
<1>4. Ended'
  <2> SUFFICES ASSUME NEW c \in Clients
               PROVE  /\ closings'[c] = IF bundle'[c] \in {"none", "open"} THEN 0 ELSE 1
                      /\ transport'[c] = "none" => bundle'[c] = "none"
    BY DEF Ended
  <2>1. CASE c \in T
    BY <1>1, <1>2, <2>1 DEF Ended
  <2>2. CASE c \notin T
    BY <1>2, <2>2 DEF Ended
  <2>3. QED
    BY <2>1, <2>2
<1>5. Placed'
  BY <1>2 DEF Placed, Underway
\* A connection that remains is not what a session of T was connected to.
<1>6. ASSUME NEW rt \in Runtimes, connection'[rt] # NoBrowser
      PROVE  connection'[rt] = connection[rt] /\ browser'[connection[rt]] = "open"
  <2>1. connection'[rt] = connection[rt] /\ ~(rt[1] \in T /\ rt[2] = current[rt[1]])
    BY <1>2, <1>6
  <2>2. ASSUME NEW c \in T, Connected(c) = connection[rt]
        PROVE  FALSE
    <3>1. current[c] # 0 /\ connection[<<c, current[c]>>] = connection[rt]
          /\ <<c, current[c]>> \in Runtimes
      BY <1>1, <1>6, <2>1, <2>2, ConnectedTyped
    <3>2. rt = <<c, current[c]>>
      BY <3>1, <1>6, <2>1 DEF Holding
    <3>3. QED
      BY <2>1, <3>2
  <2>3. connection[rt] \in BrowserSessions
    BY <1>6, <2>1 DEF TypeOK
  <2>4. QED
    BY <1>2, <1>6, <2>1, <2>2, <2>3 DEF Holding
<1>7. Holding'
  BY <1>2, <1>6 DEF Holding
<1>8. ASSUME NEW c \in Clients, c \notin overlapped'
      PROVE  /\ c \notin overlapped
             /\ c \in T => ~Busy(c)
             /\ c \notin T => Connected(c)' = Connected(c)
  <2>1. c \notin overlapped /\ (c \in T => ~Busy(c))
    BY <1>2, <1>8
  <2>2. ASSUME c \notin T PROVE Connected(c)' = Connected(c)
    <3>1. current'[c] = current[c]
      BY <1>2, <2>2
    <3>2. current[c] # 0 => connection'[<<c, current[c]>>] = connection[<<c, current[c]>>]
      BY <1>2, <2>2, ConnectedTyped
    <3>3. QED
      BY <3>1, <3>2 DEF Connected
  <2>3. QED
    BY <2>1, <2>2
<1>9. Orderly'
  BY <1>2, <1>8 DEF Orderly, Underway, Busy
<1>10. NothingForgotten'
  <2> SUFFICES ASSUME NEW b \in BrowserSessions, NEW c \in Clients, attachedFor[b] = c,
                      c \notin overlapped', browser'[b] = "open"
               PROVE  c \in sessions' /\ Connected(c)' = b
    BY <1>2, McpAssumption DEF NothingForgotten, TypeOK
  <2>1. browser[b] = "open" /\ ~\E d \in T : Connected(d) = b
    BY <1>2
  <2>2. c \in sessions /\ Connected(c) = b
    BY <1>8, <2>1, McpAssumption DEF NothingForgotten
  <2>3. c \notin T
    BY <2>1, <2>2
  <2>4. QED
    BY <1>2, <1>8, <2>2, <2>3
<1>11. QED
  BY <1>3, <1>4, <1>5, <1>7, <1>9, <1>10

-----------------------------------------------------------------------------
(* The steps of a session.                                                 *)

LEMMA InitializeIInv ==
  ASSUME IInv, NEW c \in Clients, Initialize(c)
  PROVE  IInv'
<1> USE DEF IInv
<1>1. /\ transport[c] = "none" /\ transport' = [transport EXCEPT ![c] = "open"]
      /\ sessions' = sessions \cup {c} /\ bundle' = [bundle EXCEPT ![c] = "open"]
      /\ UNCHANGED <<silent, parting, closings, runtimeVars, shutdownVars, call,
                     attachedFor, overlapped>>
  BY DEF Initialize
<1>2. bundle[c] = "none"
  BY <1>1 DEF Ended
<1>3. TypeOK'
  <2>1. ping' \in [Clients -> {"off", "sent", "timer"}]
    BY DEF TypeOK, Initialize
  <2>2. sessions' = {d \in Clients : bundle'[d] = "open"}
    BY <1>1 DEF TypeOK
  <2>3. QED
    BY <1>1, <2>1, <2>2 DEF TypeOK, runtimeVars, shutdownVars
<1>4. Ended'
  BY <1>1, <1>2 DEF Ended, TypeOK
<1>5. (Placed /\ Holding)'
  BY <1>1 DEF Placed, Holding, Underway, runtimeVars
<1>6. (Orderly /\ NothingForgotten)'
  BY <1>1 DEF Orderly, NothingForgotten, Underway, Connected, runtimeVars
<1>7. QED
  BY <1>3, <1>4, <1>5, <1>6

LEMMA BundleClosesIInv ==
  ASSUME IInv, NEW c \in Clients, BundleCloses(c)
  PROVE  IInv'
<1> USE DEF IInv
<1>1. /\ bundle[c] = "closing" /\ bundle' = [bundle EXCEPT ![c] = "closed"]
      /\ parting' = [parting EXCEPT ![c] = NoBrowser]
      /\ transport' = [transport EXCEPT ![c] = "closed"]
      /\ UNCHANGED <<sessions, closings, heartbeatVars, runtimeVars, shutdownVars,
                     call, attachedFor, overlapped>>
  BY DEF BundleCloses
<1>2. sessions' = {d \in Clients : bundle'[d] = "open"}
  BY <1>1 DEF TypeOK
<1>3. TypeOK'
  BY <1>1, <1>2 DEF TypeOK, heartbeatVars, runtimeVars, shutdownVars
<1>4. Ended'
  BY <1>1 DEF Ended, TypeOK
<1>5. (Placed /\ Holding)'
  BY <1>1 DEF Placed, Holding, Underway, runtimeVars
<1>6. (Orderly /\ NothingForgotten)'
  BY <1>1 DEF Orderly, NothingForgotten, Underway, Connected, runtimeVars
<1>7. QED
  BY <1>3, <1>4, <1>5, <1>6

LEMMA SessionNextIInv ==
  ASSUME IInv, NEW c \in Clients, SessionNext(c)
  PROVE  IInv'
<1>1. CASE Initialize(c)
  BY <1>1, InitializeIInv
<1>2. CASE BundleCloses(c)
  BY <1>2, BundleClosesIInv
<1>3. CASE DeleteRequest(c)
  <2>1. /\ CloseSessions({c}) /\ UNCHANGED <<ping, shutdownVars>>
        /\ transport' = [transport EXCEPT ![c] = "closed"]
    BY <1>3 DEF DeleteRequest
  <2>2. \A d \in Clients : transport'[d] = "none" => transport[d] = "none"
    BY <2>1 DEF IInv, TypeOK
  <2>3. QED
    BY <2>1, <2>2, CloseSessionsIInv DEF IInv, TypeOK, shutdownVars
<1>4. CASE PingFails(c)
  <2>1. /\ CloseSessions({c}) /\ UNCHANGED <<transport, shutdownVars>>
        /\ ping' = [ping EXCEPT ![c] = "off"]
    BY <1>4 DEF PingFails
  <2>2. QED
    BY <2>1, CloseSessionsIInv DEF IInv, TypeOK, shutdownVars
<1>5. CASE GoesSilent(c) \/ Pong(c) \/ Beat(c)
  <2>1. /\ UNCHANGED <<runtimeVars, sessionVars, shutdownVars, transport, call,
                       attachedFor, overlapped>>
        /\ silent' \subseteq Clients
        /\ ping' \in [Clients -> {"off", "sent", "timer"}]
    BY <1>5 DEF GoesSilent, Pong, Beat, IInv, TypeOK
  <2>2. TypeOK'
    BY <2>1 DEF IInv, TypeOK, runtimeVars, sessionVars, shutdownVars
  <2>3. QED
    BY <2>1, <2>2, CoreUnchanged DEF core, runtimeVars, sessionVars
<1>6. QED
  BY <1>1, <1>2, <1>3, <1>4, <1>5 DEF SessionNext

LEMMA ShutdownIInv ==
  ASSUME IInv, ShutdownStarts \/ ShutdownContinues
  PROVE  IInv'
<1>1. CASE ShutdownStarts
  <2>1. /\ CloseSessions(sessions) /\ UNCHANGED <<ping, transport>>
        /\ shutdown' = "sessions" /\ awaited' = sessions
    BY <1>1 DEF ShutdownStarts
  <2>2. QED
    BY <2>1, CloseSessionsIInv DEF IInv, TypeOK
<1>2. CASE ShutdownContinues
  <2>1. /\ shutdown' = "listener"
        /\ UNCHANGED <<awaited, heartbeatVars, runtimeVars, sessionVars, transport,
                       call, attachedFor, overlapped>>
    BY <1>2 DEF ShutdownContinues
  <2>2. TypeOK'
    BY <2>1 DEF IInv, TypeOK, heartbeatVars, runtimeVars, sessionVars
  <2>3. QED
    BY <2>1, <2>2, CoreUnchanged DEF core, runtimeVars, sessionVars
<1>3. QED
  BY <1>1, <1>2

-----------------------------------------------------------------------------
(* The steps of a tool call.                                               *)

\* A second call of a client marks it overlapped, so the others stay one at a time.
LEMMA AcceptIInv ==
  ASSUME IInv, NEW k \in Calls, NEW c \in Clients, NEW kind \in {"connect", "close"},
         Accept(k, c, kind)
  PROVE  IInv'
<1> USE DEF IInv
<1> DEFINE new == [client |-> c, kind |-> kind, stage |-> "accepted", runtime |-> 0,
                   old |-> NoBrowser]
<1>1. /\ c \in sessions /\ call[k].stage = "idle"
      /\ call' = [call EXCEPT ![k] = new]
      /\ overlapped' = IF Busy(c) THEN overlapped \cup {c} ELSE overlapped
      /\ UNCHANGED <<heartbeatVars, runtimeVars, sessionVars, shutdownVars, transport,
                     attachedFor>>
  BY DEF Accept, CallStep
<1>2. new \in Call
  BY McpAssumption DEF Call
<1>3. /\ call'[k].client = c /\ call'[k].stage = "accepted"
      /\ \A l \in Calls \ {k} : call'[l] = call[l]
  BY <1>1 DEF TypeOK
<1>4. TypeOK'
  <2>1. call' \in [Calls -> Call] /\ overlapped' \subseteq Clients
    BY <1>1, <1>2 DEF TypeOK
  <2>2. QED
    BY <1>1, <2>1 DEF TypeOK, heartbeatVars, runtimeVars, sessionVars, shutdownVars
<1>5. Ended'
  BY <1>1 DEF Ended, sessionVars
<1>6. Placed'
  BY <1>3 DEF Placed, Underway
<1>7. Holding'
  BY <1>1 DEF Holding, runtimeVars
<1>8. Orderly'
  <2>1. overlapped \subseteq overlapped' /\ (c \notin overlapped' => ~Busy(c))
    BY <1>1
  <2>2. \A d \in Clients : Connected(d)' = Connected(d)
    BY <1>1 DEF Connected, runtimeVars
  <2> SUFFICES ASSUME NEW d \in Clients \ overlapped', NEW j \in Calls,
                      call'[j].client = d, Underway(j)'
               PROVE  /\ d \in sessions'
                      /\ \A l \in Calls : call'[l].client = d /\ Underway(l)' => l = j
                      /\ call'[j].stage \in {"closing", "attaching"} =>
                           call'[j].runtime = current'[d] /\ Connected(d)' = NoBrowser
    BY DEF Orderly
  <2>3. CASE j = k
    BY <1>1, <1>3, <2>1, <2>3 DEF Busy, Underway, sessionVars
  <2>4. CASE j # k
    BY <1>1, <1>3, <2>1, <2>2, <2>4 DEF Orderly, Busy, Underway, sessionVars, runtimeVars
  <2>5. QED
    BY <2>3, <2>4
<1>9. NothingForgotten'
  BY <1>1 DEF NothingForgotten, Connected, sessionVars, runtimeVars
<1>10. QED
  BY <1>4, <1>5, <1>6, <1>7, <1>8, <1>9

\* The runtime gives up what it held before it starts to close it.
LEMMA DispatchIInv ==
  ASSUME IInv, NEW k \in Calls, Dispatch(k)
  PROVE  IInv'
<1> USE DEF IInv
<1>1. PICK c \in Clients : c = call[k].client
  BY DEF Dispatch, Placed, Underway
<1>2. PICK n \in 1..MaxRuntimes : n = IF current[c] = 0 THEN made[c] + 1 ELSE current[c]
  <2>1. current[c] \in 0..MaxRuntimes /\ made[c] \in 0..MaxRuntimes
    BY <1>1 DEF TypeOK
  <2>2. (IF current[c] = 0 THEN made[c] + 1 ELSE current[c]) <= MaxRuntimes
    BY <1>1 DEF Dispatch
  <2>3. QED
    BY <2>1, <2>2, McpAssumption
<1>3. PICK old \in BrowserSessions \cup {NoBrowser} : old = Connected(c)
  BY <1>1, ConnectedTyped
<1>4. /\ call[k].stage = "accepted"
      /\ current' = [current EXCEPT ![c] = n]
      /\ made' = [made EXCEPT ![c] = IF current[c] = 0 THEN n ELSE @]
      /\ connection' = [connection EXCEPT ![<<c, n>>] = NoBrowser]
      /\ browser' = [b \in BrowserSessions |-> IF b = old THEN "closing" ELSE browser[b]]
      /\ call' = [call EXCEPT ![k] =
                     [call[k] EXCEPT !.stage = "closing", !.runtime = n, !.old = old]]
      /\ UNCHANGED <<heartbeatVars, sessionVars, shutdownVars, transport,
                     attachedFor, overlapped>>
  BY <1>1, <1>2, <1>3 DEF Dispatch, CallStep, Connected
<1>5. /\ call'[k].client = c /\ call'[k].stage = "closing" /\ call'[k].runtime = n
      /\ \A l \in Calls \ {k} : call'[l] = call[l]
      /\ call'[k] \in Call
  <2>1. call[k] \in Call /\ n \in 0..MaxRuntimes
    BY McpAssumption DEF TypeOK
  <2>2. call'[k] = [call[k] EXCEPT !.stage = "closing", !.runtime = n, !.old = old]
    BY <1>4 DEF TypeOK
  <2>3. \A l \in Calls \ {k} : call'[l] = call[l]
    BY <1>4 DEF TypeOK
  <2>4. QED
    BY <1>1, <2>1, <2>2, <2>3 DEF Call
<1>6. /\ Connected(c)' = NoBrowser
      /\ \A d \in Clients \ {c} : current'[d] = current[d] /\ Connected(d)' = Connected(d)
  <2>1. current'[c] = n /\ connection'[<<c, n>>] = NoBrowser
    BY <1>4 DEF TypeOK, Runtimes
  <2>2. ASSUME NEW d \in Clients \ {c}
        PROVE  current'[d] = current[d] /\ Connected(d)' = Connected(d)
    <3>1. current'[d] = current[d]
      BY <1>4 DEF TypeOK
    <3>2. current[d] # 0 => connection'[<<d, current[d]>>] = connection[<<d, current[d]>>]
      BY <1>4, ConnectedTyped DEF TypeOK
    <3>3. QED
      BY <3>1, <3>2 DEF Connected
  <2>3. QED
    BY <2>1, <2>2, McpAssumption DEF Connected
<1>7. /\ connection' \in [Runtimes -> BrowserSessions \cup {NoBrowser}]
      /\ current' \in [Clients -> 0..MaxRuntimes] /\ made' \in [Clients -> 0..MaxRuntimes]
      /\ browser' \in [BrowserSessions -> {"unused", "open", "closing", "closed", "abandoned"}]
      /\ \A rt \in Runtimes : connection'[rt] # NoBrowser => 
            connection'[rt] = connection[rt] /\ rt # <<c, n>>
  <2>1. \A m \in 1..MaxRuntimes : m \in 0..MaxRuntimes
    BY McpAssumption
  <2>2. current' \in [Clients -> 0..MaxRuntimes] /\ made' \in [Clients -> 0..MaxRuntimes]
    BY <1>4, <2>1 DEF TypeOK
  <2>3. browser' \in [BrowserSessions -> {"unused", "open", "closing", "closed", "abandoned"}]
    BY <1>4 DEF TypeOK
  <2>4. QED
    BY <1>4, <2>2, <2>3 DEF TypeOK, Runtimes
<1>8. TypeOK'
  <2>1. call' \in [Calls -> Call]
    BY <1>4, <1>5 DEF TypeOK
  <2>2. QED
    BY <1>4, <1>7, <2>1 DEF TypeOK, heartbeatVars, sessionVars, shutdownVars
<1>9. Ended'
  BY <1>4 DEF Ended, sessionVars
<1>10. Placed'
  BY <1>4, <1>5 DEF Placed, Underway
<1>11. Holding'
  <2>1. ASSUME NEW rt \in Runtimes, connection'[rt] # NoBrowser
        PROVE  connection[rt] # old
    <3>1. connection'[rt] = connection[rt] /\ rt # <<c, n>>
      BY <1>7, <2>1
    <3>2. CASE current[c] = 0
      BY <1>3, <2>1, <3>1, <3>2 DEF Connected
    <3>3. CASE current[c] # 0
      BY <1>2, <1>3, <2>1, <3>1, <3>3 DEF Holding, Connected, Runtimes
    <3>4. QED
      BY <3>2, <3>3
  <2>2. ASSUME NEW rt \in Runtimes, connection'[rt] # NoBrowser
        PROVE  browser'[connection'[rt]] = "open" /\ attachedFor'[connection'[rt]] = rt[1]
    <3>1. connection'[rt] = connection[rt] /\ connection[rt] \in BrowserSessions
      BY <1>7, <2>2 DEF TypeOK
    <3>2. QED
      BY <1>4, <2>1, <2>2, <3>1 DEF Holding
  <2>3. QED
    BY <1>7, <2>2 DEF Holding
<1>12. Orderly'
  <2> SUFFICES ASSUME NEW d \in Clients \ overlapped', NEW j \in Calls,
                      call'[j].client = d, Underway(j)'
               PROVE  /\ d \in sessions'
                      /\ \A l \in Calls : call'[l].client = d /\ Underway(l)' => l = j
                      /\ call'[j].stage \in {"closing", "attaching"} =>
                           call'[j].runtime = current'[d] /\ Connected(d)' = NoBrowser
    BY DEF Orderly
  <2>1. /\ \A l \in Calls : call'[l].client = call[l].client
        /\ \A l \in Calls : Underway(l)' => Underway(l)
        /\ d \notin overlapped /\ sessions' = sessions
    BY <1>1, <1>4, <1>5 DEF Underway, sessionVars
  <2>2. d \in sessions /\ \A l \in Calls : call[l].client = d /\ Underway(l) => l = j
    BY <2>1 DEF Orderly
  <2>3. ASSUME call'[j].stage \in {"closing", "attaching"}
        PROVE  call'[j].runtime = current'[d] /\ Connected(d)' = NoBrowser
    <3>1. CASE j = k
      <4>1. d = c /\ current'[c] = n
        BY <1>4, <1>5, <3>1 DEF TypeOK
      <4>2. QED
        BY <1>5, <1>6, <3>1, <4>1
    <3>2. CASE j # k
      <4>1. d # c
        BY <1>1, <1>4, <2>2, <3>2 DEF Underway
      <4>2. QED
        BY <1>5, <1>6, <2>1, <2>3, <3>2, <4>1 DEF Orderly
    <3>3. QED
      BY <3>1, <3>2
  <2>4. QED
    BY <2>1, <2>2, <2>3
<1>13. NothingForgotten'
  <2> SUFFICES ASSUME NEW b \in BrowserSessions, NEW d \in Clients, attachedFor[b] = d,
                      d \notin overlapped, browser'[b] = "open"
               PROVE  d \in sessions' /\ Connected(d)' = b
    BY <1>4, McpAssumption DEF NothingForgotten, TypeOK
  <2>1. browser[b] = "open" /\ b # old
    BY <1>4
  <2>2. d \in sessions /\ Connected(d) = b
    BY <2>1, McpAssumption DEF NothingForgotten
  <2>3. QED
    BY <1>3, <1>4, <1>6, <2>1, <2>2 DEF sessionVars
<1>14. QED
  BY <1>8, <1>9, <1>10, <1>11, <1>12, <1>13

\* What a step of call k that makes no runtime keeps of Orderly.
LEMMA OrderlyKept ==
  ASSUME IInv, NEW k \in Calls,
         \A l \in Calls \ {k} : call'[l] = call[l],
         call'[k].client = call[k].client,
         call'[k].runtime = call[k].runtime,
         UNCHANGED <<sessions, current, overlapped>>,
         call[k].stage \in {"closing", "attaching"},
         \A c \in Clients : Connected(c)' = Connected(c)
                           \/ (c = call[k].client /\ call'[k].stage = "done")
  PROVE  Orderly'
<1> SUFFICES ASSUME NEW c \in Clients \ overlapped', NEW j \in Calls,
                    call'[j].client = c, Underway(j)'
             PROVE  /\ c \in sessions'
                    /\ \A l \in Calls : call'[l].client = c /\ Underway(l)' => l = j
                    /\ call'[j].stage \in {"closing", "attaching"} =>
                         call'[j].runtime = current'[c] /\ Connected(c)' = NoBrowser
  BY DEF Orderly
<1>1. /\ \A l \in Calls : call'[l].client = call[l].client
      /\ \A l \in Calls : Underway(l)' => Underway(l)
      /\ call'[j].stage \in {"closing", "attaching"} =>
           call[j].stage \in {"closing", "attaching"}
  BY DEF Underway
<1>2. Connected(c)' = Connected(c)
  BY <1>1 DEF IInv, Orderly, Underway
<1>3. QED
  BY <1>1, <1>2 DEF IInv, Orderly

\* close() has waited; nothing the session holds changes.
LEMMA ClosedIInv ==
  ASSUME IInv, NEW k \in Calls, Closed(k)
  PROVE  IInv'
<1> USE DEF IInv
<1>1. PICK stage \in {"attaching", "done"} :
        /\ call[k].stage = "closing"
        /\ call' = [call EXCEPT ![k] =
                       [call[k] EXCEPT !.old = NoBrowser, !.stage = stage]]
        /\ UNCHANGED <<heartbeatVars, runtimeVars, sessionVars, shutdownVars, transport,
                       attachedFor, overlapped>>
  BY DEF Closed, CallStep
<1>2. /\ \A l \in Calls \ {k} : call'[l] = call[l]
      /\ call'[k] = [call[k] EXCEPT !.old = NoBrowser, !.stage = stage]
      /\ call[k] \in Call
  BY <1>1 DEF TypeOK
<1>3. /\ call'[k] \in Call /\ call'[k].client = call[k].client
      /\ call'[k].runtime = call[k].runtime /\ call'[k].stage = stage
  BY <1>2 DEF Call
<1>4. TypeOK'
  <2>1. call' \in [Calls -> Call]
    BY <1>1, <1>2, <1>3 DEF TypeOK
  <2>2. QED
    BY <1>1, <2>1 DEF TypeOK, heartbeatVars, runtimeVars, sessionVars, shutdownVars
<1>5. (Ended /\ Holding)'
  BY <1>1 DEF Ended, Holding, sessionVars, runtimeVars
<1>6. Placed'
  BY <1>1, <1>2, <1>3 DEF Placed, Underway
<1>7. \A c \in Clients : Connected(c)' = Connected(c)
  BY <1>1 DEF Connected, runtimeVars
<1>8. Orderly'
  <2>1. UNCHANGED <<sessions, current, overlapped>>
    BY <1>1 DEF sessionVars, runtimeVars
  <2>2. call[k].stage \in {"closing", "attaching"}
    BY <1>1
  <2>3. \A c \in Clients : Connected(c)' = Connected(c)
                           \/ (c = call[k].client /\ call'[k].stage = "done")
    BY <1>7
  <2>4. call'[k].client = call[k].client /\ call'[k].runtime = call[k].runtime
    BY <1>3
  <2>5. \A l \in Calls \ {k} : call'[l] = call[l]
    BY <1>2
  <2>6. QED
    BY <2>1, <2>2, <2>3, <2>4, <2>5, OrderlyKept
<1>9. NothingForgotten'
  BY <1>1, <1>7 DEF NothingForgotten, Connected, sessionVars, runtimeVars
<1>10. QED
  BY <1>4, <1>5, <1>6, <1>8, <1>9

\* Nobody holds what the factory returns, and a call on its own finds no connection
\* to overwrite.
LEMMA AttachIInv ==
  ASSUME IInv, NEW k \in Calls, NEW b \in BrowserSessions, Attach(k, b)
  PROVE  IInv'
<1> USE DEF IInv
<1>1. PICK c \in Clients, n \in 1..MaxRuntimes : c = call[k].client /\ n = call[k].runtime
  BY DEF Attach, Placed, Underway
<1>2. /\ call[k].stage = "attaching" /\ browser[b] = "unused"
      /\ browser' = [browser EXCEPT ![b] = "open"]
      /\ connection' = [connection EXCEPT ![<<c, n>>] = b]
      /\ attachedFor' = [attachedFor EXCEPT ![b] = c]
      /\ call' = [call EXCEPT ![k] = [call[k] EXCEPT !.stage = "done"]]
      /\ UNCHANGED <<current, made, heartbeatVars, sessionVars, shutdownVars,
                     transport, overlapped>>
  BY <1>1 DEF Attach, CallStep
<1>3. /\ \A l \in Calls \ {k} : call'[l] = call[l]
      /\ call'[k] = [call[k] EXCEPT !.stage = "done"]
      /\ call[k] \in Call
  BY <1>2 DEF TypeOK
<1>4. /\ call'[k] \in Call /\ call'[k].client = call[k].client
      /\ call'[k].runtime = call[k].runtime /\ call'[k].stage = "done"
  BY <1>3 DEF Call
<1>5. TypeOK'
  <2>1. call' \in [Calls -> Call]
    BY <1>2, <1>3, <1>4 DEF TypeOK
  <2>2. QED
    BY <1>2, <2>1 DEF TypeOK, heartbeatVars, sessionVars, shutdownVars
<1>6. Ended'
  BY <1>2 DEF Ended, sessionVars
<1>7. Placed'
  BY <1>3, <1>4 DEF Placed, Underway
\* No runtime holds a session that the factory has not returned yet.
<1>8. /\ \A rt \in Runtimes : connection[rt] # b
      /\ <<c, n>> \in Runtimes /\ connection'[<<c, n>>] = b
      /\ \A rt \in Runtimes \ {<<c, n>>} : connection'[rt] = connection[rt]
  <2>1. \A rt \in Runtimes : connection[rt] # b
    BY <1>2, McpAssumption DEF Holding
  <2>2. <<c, n>> \in Runtimes
    BY DEF Runtimes
  <2>3. QED
    BY <1>2, <2>1, <2>2 DEF TypeOK
<1>9. Holding'
  <2>1. ASSUME NEW rt \in Runtimes, connection'[rt] # NoBrowser
        PROVE  browser'[connection'[rt]] = "open" /\ attachedFor'[connection'[rt]] = rt[1]
    <3>1. CASE rt = <<c, n>>
      BY <1>2, <1>8, <3>1 DEF TypeOK
    <3>2. CASE rt # <<c, n>>
      <4>1. connection'[rt] = connection[rt] /\ connection[rt] \in BrowserSessions \ {b}
        BY <1>8, <2>1, <3>2 DEF TypeOK
      <4>2. QED
        BY <1>2, <2>1, <4>1 DEF Holding, TypeOK
    <3>3. QED
      BY <3>1, <3>2
  <2>2. ASSUME NEW rt \in Runtimes, NEW su \in Runtimes,
               connection'[rt] # NoBrowser, connection'[rt] = connection'[su]
        PROVE  rt = su
    BY <1>8, <2>2 DEF Holding
  <2>3. QED
    BY <2>1, <2>2 DEF Holding
<1>10. \A d \in Clients \ {c} : Connected(d)' = Connected(d)
  BY <1>2, <1>8, ConnectedTyped DEF Connected
<1>11. Orderly'
  <2>1. UNCHANGED <<sessions, current, overlapped>>
    BY <1>2 DEF sessionVars
  <2>2. QED
    BY <1>1, <1>2, <1>3, <1>4, <1>10, <2>1, OrderlyKept
<1>12. NothingForgotten'
  <2> SUFFICES ASSUME NEW a \in BrowserSessions, NEW d \in Clients, attachedFor'[a] = d,
                      d \notin overlapped, browser'[a] = "open"
               PROVE  d \in sessions' /\ Connected(d)' = a
    BY <1>2, <1>5, McpAssumption DEF NothingForgotten, TypeOK
  <2>1. c \notin overlapped =>
          c \in sessions /\ n = current[c] /\ Connected(c) = NoBrowser
    BY <1>1, <1>2 DEF Orderly, Underway
  <2>2. CASE a = b
    <3>1. d = c /\ current'[c] = n /\ n # 0
      BY <1>2, <2>1, <2>2 DEF TypeOK
    <3>2. QED
      BY <1>2, <1>8, <2>1, <2>2, <3>1 DEF Connected, sessionVars
  <2>3. CASE a # b
    <3>1. attachedFor[a] = d /\ browser[a] = "open"
      BY <1>2, <2>3 DEF TypeOK
    <3>2. d \in sessions /\ Connected(d) = a
      BY <3>1, McpAssumption DEF NothingForgotten
    <3>3. d # c
      BY <2>1, <3>2, McpAssumption
    <3>4. QED
      BY <1>2, <1>10, <3>2, <3>3 DEF sessionVars
  <2>4. QED
    BY <2>2, <2>3
<1>13. QED
  BY <1>5, <1>6, <1>7, <1>9, <1>11, <1>12

\* A factory that throws leaves at most a browser session nobody attached.
LEMMA AttachFailsIInv ==
  ASSUME IInv, NEW k \in Calls, AttachFails(k)
  PROVE  IInv'
<1> USE DEF IInv
<1>1. /\ call[k].stage = "attaching"
      /\ call' = [call EXCEPT ![k] = [call[k] EXCEPT !.stage = "done"]]
      /\ UNCHANGED <<current, made, connection, heartbeatVars, sessionVars,
                     shutdownVars, transport, attachedFor, overlapped>>
  BY DEF AttachFails, CallStep
<1>2. /\ browser' \in [BrowserSessions -> {"unused", "open", "closing", "closed", "abandoned"}]
      /\ \A b \in BrowserSessions : browser'[b] = "open" <=> browser[b] = "open"
  BY DEF AttachFails, TypeOK
<1>3. /\ \A l \in Calls \ {k} : call'[l] = call[l]
      /\ call'[k] = [call[k] EXCEPT !.stage = "done"]
      /\ call[k] \in Call
  BY <1>1 DEF TypeOK
<1>4. /\ call'[k] \in Call /\ call'[k].client = call[k].client
      /\ call'[k].runtime = call[k].runtime /\ call'[k].stage = "done"
  BY <1>3 DEF Call
<1>5. TypeOK'
  <2>1. call' \in [Calls -> Call]
    BY <1>1, <1>3, <1>4 DEF TypeOK
  <2>2. QED
    BY <1>1, <1>2, <2>1 DEF TypeOK, heartbeatVars, sessionVars, shutdownVars
<1>6. Ended'
  BY <1>1 DEF Ended, sessionVars
<1>7. Placed'
  BY <1>3, <1>4 DEF Placed, Underway
<1>8. Holding'
  BY <1>1, <1>2 DEF Holding, TypeOK
<1>9. \A c \in Clients : Connected(c)' = Connected(c)
  BY <1>1 DEF Connected
<1>10. Orderly'
  BY <1>1, <1>3, <1>4, <1>9, OrderlyKept DEF Underway, sessionVars
<1>11. NothingForgotten'
  BY <1>1, <1>2, <1>9 DEF NothingForgotten, Connected, sessionVars
<1>12. QED
  BY <1>5, <1>6, <1>7, <1>8, <1>10, <1>11

\* Only a browser session that is being closed becomes closed.
LEMMA BrowserClosesIInv ==
  ASSUME IInv, NEW b \in BrowserSessions, BrowserCloses(b)
  PROVE  IInv'
<1> USE DEF IInv
<1>1. /\ browser[b] = "closing" /\ browser' = [browser EXCEPT ![b] = "closed"]
      /\ UNCHANGED <<current, made, connection, heartbeatVars, sessionVars,
                     shutdownVars, transport, call, attachedFor, overlapped>>
  BY DEF BrowserCloses
<1>2. \A a \in BrowserSessions : browser'[a] = "open" <=> browser[a] = "open"
  BY <1>1 DEF TypeOK
<1>3. TypeOK'
  BY <1>1 DEF TypeOK, heartbeatVars, sessionVars, shutdownVars
<1>4. (Ended /\ Placed)'
  BY <1>1 DEF Ended, Placed, Underway, sessionVars
<1>5. Holding'
  BY <1>1, <1>2 DEF Holding, TypeOK
<1>6. (Orderly /\ NothingForgotten)'
  BY <1>1, <1>2 DEF Orderly, NothingForgotten, Underway, Connected, sessionVars
<1>7. QED
  BY <1>3, <1>4, <1>5, <1>6

-----------------------------------------------------------------------------
(* Theorems.                                                               *)

LEMMA NextIInv == IInv /\ [Next]_vars => IInv'
<1> SUFFICES ASSUME IInv, [Next]_vars PROVE IInv'
  OBVIOUS
<1>1. CASE UNCHANGED vars
  <2>1. TypeOK'
    BY <1>1 DEF IInv, TypeOK, vars, heartbeatVars, runtimeVars, sessionVars, shutdownVars
  <2>2. QED
    BY <1>1, <2>1, CoreUnchanged DEF core, vars, runtimeVars, sessionVars
<1>2. CASE \E c \in Clients : SessionNext(c)
  BY <1>2, SessionNextIInv
<1>3. ASSUME NEW k \in Calls, CallNext(k)
      PROVE  IInv'
  BY <1>3, AcceptIInv, DispatchIInv, ClosedIInv, AttachIInv, AttachFailsIInv DEF CallNext
<1>4. CASE \E b \in BrowserSessions : BrowserCloses(b)
  BY <1>4, BrowserClosesIInv
<1>5. CASE ShutdownStarts \/ ShutdownContinues
  BY <1>5, ShutdownIInv
<1>6. QED
  BY <1>1, <1>2, <1>3, <1>4, <1>5 DEF Next

\* Every state the server reaches satisfies the inductive invariant.
THEOREM Inductive == Spec => []IInv
<1>1. Init => IInv
  BY InitIInv
<1>2. IInv /\ [Next]_vars => IInv'
  BY NextIInv
<1>3. QED
  BY <1>1, <1>2, PTL DEF Spec

\* Sessions, calls, runtimes and browser sessions keep their types, and the
\* map `sessions' holds the clients whose bundle is open.
THEOREM TypeCorrect == Spec => []TypeOK
<1>1. IInv => TypeOK
  BY DEF IInv
<1>2. QED
  BY <1>1, Inductive, PTL

\* closeSession closes a session's bundle once, however many of a failing
\* ping, a DELETE and the shutdown call it.
THEOREM ClosedOnce == Spec => []SessionClosedOnce
<1>1. ASSUME Ended PROVE SessionClosedOnce
  <2> SUFFICES ASSUME NEW c \in Clients PROVE closings[c] <= 1
    BY DEF SessionClosedOnce
  <2>1. closings[c] = 0 \/ closings[c] = 1
    BY <1>1 DEF Ended
  <2>2. QED
    BY <2>1
<1>2. IInv => SessionClosedOnce
  BY <1>1 DEF IInv
<1>3. QED
  BY <1>2, Inductive, PTL

\* A runtime that has a connection can use it: nobody closes what it holds.
THEOREM Usable == Spec => []ConnectionUsable
<1>1. IInv => ConnectionUsable
  BY DEF IInv, Holding, ConnectionUsable
<1>2. QED
  BY <1>1, Inductive, PTL

\* A client that makes one call at a time, and ends its session between calls,
\* loses no browser session.
THEOREM Forgotten == Spec => []NothingForgotten
<1>1. IInv => NothingForgotten
  BY DEF IInv
<1>2. QED
  BY <1>1, Inductive, PTL
=============================================================================
