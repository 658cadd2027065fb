---------------------------- MODULE McpSessions ----------------------------
(***************************************************************************)
(* The MCP server over HTTP (src/src/mcp/transports/http.ts): one server   *)
(* bundle per client session, its McpRuntimeManager, and the McpRuntime    *)
(* whose tools roxy_browser_connect and browser_close attach the session   *)
(* to a browser and detach it (src/src/mcp/runtime.ts).                    *)
(*                                                                         *)
(* Tool calls of one session run concurrently.  Everything between two     *)
(* awaits is one action; what the code awaits is another's step: a browser *)
(* session being closed, a factory making one, the client's pong.          *)
(***************************************************************************)
EXTENDS Naturals

CONSTANTS
  Clients,          \* each opens at most one MCP session
  Calls,            \* tool calls
  BrowserSessions,  \* what the session factory may return
  MaxRuntimes,      \* bound: runtimes one manager makes
  Heartbeat,        \* PLAYWRIGHT_MCP_PING_TIMEOUT_MS is positive
  NoClient,
  NoBrowser

ASSUME McpAssumption ==
  /\ MaxRuntimes \in Nat \ {0}
  /\ Heartbeat \in BOOLEAN
  /\ NoClient \notin Clients
  /\ NoBrowser \notin BrowserSessions

Runtimes == Clients \X (1..MaxRuntimes)

VARIABLES
  sessions,    \* keys of the map `sessions'
  ping,        \* per client, the heartbeat of its session
  silent,      \* clients that answer no ping any more
  transport,   \* StreamableHTTPServerTransport
  bundle,      \* RoxyBrowserMcpServerBundle
  parting,     \* per client, the browser session its closing bundle awaits
  current,     \* per client, the runtime its manager holds; 0 = none
  made,        \* per client, the number of runtimes made
  connection,  \* McpRuntime.connection
  browser,     \* browser sessions
  call,        \* per tool call, its locals
  shutdown,    \* close() of the HTTP bundle
  awaited,     \* clients whose closeSession it awaits
  closings,    \* history: calls of bundle.close per client
  attachedFor, \* history: the client a browser session was attached for
  overlapped   \* history: clients whose calls, or end, overlapped a call

heartbeatVars == <<ping, silent>>
runtimeVars == <<current, made, connection, browser>>
sessionVars == <<sessions, bundle, parting, closings>>
shutdownVars == <<shutdown, awaited>>
vars == <<heartbeatVars, runtimeVars, sessionVars, shutdownVars, transport,
          call, attachedFor, overlapped>>

Call == [client: Clients \cup {NoClient},
         kind: {"connect", "close"},
         stage: {"idle", "accepted", "closing", "attaching", "done"},
         runtime: 0..MaxRuntimes,
         old: BrowserSessions \cup {NoBrowser}]

TypeOK ==
  /\ sessions \subseteq Clients
  /\ ping \in [Clients -> {"off", "sent", "timer"}]
  /\ silent \subseteq Clients
  /\ transport \in [Clients -> {"none", "open", "closed"}]
  /\ bundle \in [Clients -> {"none", "open", "closing", "closed"}]
  /\ parting \in [Clients -> BrowserSessions \cup {NoBrowser}]
  /\ current \in [Clients -> 0..MaxRuntimes]
  /\ made \in [Clients -> 0..MaxRuntimes]
  /\ connection \in [Runtimes -> BrowserSessions \cup {NoBrowser}]
  /\ browser \in [BrowserSessions -> {"unused", "open", "closing", "closed", "abandoned"}]
  /\ call \in [Calls -> Call]
  /\ shutdown \in {"no", "sessions", "listener"}
  /\ awaited \subseteq Clients
  /\ closings \in [Clients -> Nat]
  /\ attachedFor \in [BrowserSessions -> Clients \cup {NoClient}]
  /\ overlapped \subseteq Clients
  /\ sessions = {c \in Clients : bundle[c] = "open"}

Init ==
  /\ sessions = {}
  /\ ping = [c \in Clients |-> "off"]
  /\ silent = {}
  /\ transport = [c \in Clients |-> "none"]
  /\ bundle = [c \in Clients |-> "none"]
  /\ parting = [c \in Clients |-> NoBrowser]
  /\ current = [c \in Clients |-> 0]
  /\ made = [c \in Clients |-> 0]
  /\ connection = [rt \in Runtimes |-> NoBrowser]
  /\ browser = [b \in BrowserSessions |-> "unused"]
  /\ call = [k \in Calls |-> [client |-> NoClient, kind |-> "close", stage |-> "idle",
                              runtime |-> 0, old |-> NoBrowser]]
  /\ shutdown = "no"
  /\ awaited = {}
  /\ closings = [c \in Clients |-> 0]
  /\ attachedFor = [b \in BrowserSessions |-> NoClient]
  /\ overlapped = {}

-----------------------------------------------------------------------------
(* Sessions.                                                               *)

\* An initialize request is answered as long as the server listens, and
\* onsessioninitialized starts the heartbeat with a first ping.
Initialize(c) ==
  /\ transport[c] = "none"
  /\ shutdown # "listener"
  /\ transport' = [transport EXCEPT ![c] = "open"]
  /\ sessions' = sessions \cup {c}
  /\ bundle' = [bundle EXCEPT ![c] = "open"]
  /\ ping' = [ping EXCEPT ![c] = IF Heartbeat THEN "sent" ELSE "off"]
  /\ UNCHANGED <<silent, parting, closings, runtimeVars, shutdownVars, call,
                 attachedFor, overlapped>>

Underway(k) == call[k].stage \in {"accepted", "closing", "attaching"}
Busy(c) == \E k \in Calls : call[k].client = c /\ Underway(k)

\* The browser session the runtime in c's manager is connected to.
Connected(c) == IF current[c] = 0 THEN NoBrowser ELSE connection[<<c, current[c]>>]

\* Mutant of CloseSessions: the early return for a session that is gone is missing.
CloseSessionsAgain(S) ==
  LET T == {c \in S : bundle[c] # "none"}
  IN  /\ sessions' = sessions \ T
      /\ closings' = [c \in Clients |-> IF c \in T THEN closings[c] + 1 ELSE closings[c]]
      /\ bundle' = [c \in Clients |-> IF c \in T THEN "closing" ELSE bundle[c]]
      /\ overlapped' = overlapped \cup {c \in T : Busy(c)}
      /\ UNCHANGED <<parting, current, connection, browser, made, silent, attachedFor, call>>

\* closeSession of each client of S that still has a session, up to the first
\* await: the session leaves the map, closeAll empties the manager, and each
\* runtime drops its connection and starts to close it.
CloseSessions(S) ==
  LET T == S \cap sessions
  IN  /\ sessions' = sessions \ T
      /\ closings' = [c \in Clients |-> IF c \in T THEN closings[c] + 1 ELSE closings[c]]
      /\ bundle' = [c \in Clients |-> IF c \in T THEN "closing" ELSE bundle[c]]
      /\ parting' = [c \in Clients |-> IF c \in T THEN Connected(c) ELSE parting[c]]
      /\ current' = [c \in Clients |-> IF c \in T THEN 0 ELSE current[c]]
      /\ connection' = [rt \in Runtimes |-> IF rt[1] \in T /\ rt[2] = current[rt[1]]
                                            THEN NoBrowser ELSE connection[rt]]
      /\ browser' = [b \in BrowserSessions |->
                       IF \E c \in T : Connected(c) = b THEN "closing" ELSE browser[b]]
      /\ overlapped' = overlapped \cup {c \in T : Busy(c)}
      /\ UNCHANGED <<made, silent, attachedFor, call>>

\* ... and the rest: closeAll has returned, the server and its transport close.
BundleCloses(c) ==
  /\ bundle[c] = "closing"
  /\ parting[c] # NoBrowser => browser[parting[c]] = "closed"
  /\ bundle' = [bundle EXCEPT ![c] = "closed"]
  /\ parting' = [parting EXCEPT ![c] = NoBrowser]
  /\ transport' = [transport EXCEPT ![c] = "closed"]
  /\ UNCHANGED <<sessions, closings, heartbeatVars, runtimeVars, shutdownVars,
                 call, attachedFor, overlapped>>

\* The SDK answers DELETE by closing the transport; onclose calls closeSession.
DeleteRequest(c) ==
  /\ c \in sessions
  /\ transport[c] = "open"
  /\ transport' = [transport EXCEPT ![c] = "closed"]
  /\ CloseSessions({c})
  /\ UNCHANGED <<ping, shutdownVars>>

GoesSilent(c) ==
  /\ silent' = silent \cup {c}
  /\ UNCHANGED <<ping, runtimeVars, sessionVars, shutdownVars, transport, call,
                 attachedFor, overlapped>>

Pong(c) ==
  /\ ping[c] = "sent" /\ transport[c] = "open" /\ c \notin silent
  /\ ping' = [ping EXCEPT ![c] = "timer"]
  /\ UNCHANGED <<silent, runtimeVars, sessionVars, shutdownVars, transport, call,
                 attachedFor, overlapped>>

\* Mutant of Beat: the heartbeat stops after one ping.
BeatOnce(c) ==
  /\ ping[c] = "timer"
  /\ ping' = [ping EXCEPT ![c] = "off"]
  /\ UNCHANGED <<silent, runtimeVars, sessionVars, shutdownVars, transport, call,
                 attachedFor, overlapped>>

\* The interval is over; beat() looks whether the session is still there.
Beat(c) ==
  /\ ping[c] = "timer"
  /\ ping' = [ping EXCEPT ![c] = IF c \in sessions THEN "sent" ELSE "off"]
  /\ UNCHANGED <<silent, runtimeVars, sessionVars, shutdownVars, transport, call,
                 attachedFor, overlapped>>

\* The ping timed out, or was rejected because the transport closed.
PingFails(c) ==
  /\ ping[c] = "sent"
  /\ ping' = [ping EXCEPT ![c] = "off"]
  /\ CloseSessions({c})
  /\ UNCHANGED <<transport, shutdownVars>>

ShutdownStarts ==
  /\ shutdown = "no"
  /\ shutdown' = "sessions"
  /\ awaited' = sessions
  /\ CloseSessions(sessions)
  /\ UNCHANGED <<ping, transport>>

\* Mutant of ShutdownContinues: it waits until no session is left.
ShutdownWaitsForAll ==
  /\ shutdown = "sessions"
  /\ sessions = {} /\ \A c \in awaited : bundle[c] = "closed"
  /\ shutdown' = "listener"
  /\ UNCHANGED <<awaited, heartbeatVars, runtimeVars, sessionVars, transport,
                 call, attachedFor, overlapped>>

ShutdownContinues ==
  /\ shutdown = "sessions"
  /\ \A c \in awaited : bundle[c] = "closed"
  /\ shutdown' = "listener"
  /\ UNCHANGED <<awaited, heartbeatVars, runtimeVars, sessionVars, transport,
                 call, attachedFor, overlapped>>

-----------------------------------------------------------------------------
(* Tool calls.                                                             *)

CallStep(k, fields) == call' = [call EXCEPT ![k] = fields]

\* handleMcpRequest finds the session and hands the request to its transport.
Accept(k, c, kind) ==
  /\ call[k].stage = "idle"
  /\ c \in sessions /\ transport[c] = "open"
  /\ CallStep(k, [client |-> c, kind |-> kind, stage |-> "accepted", runtime |-> 0,
                  old |-> NoBrowser])
  /\ overlapped' = IF Busy(c) THEN overlapped \cup {c} ELSE overlapped
  /\ UNCHANGED <<heartbeatVars, runtimeVars, sessionVars, shutdownVars, transport,
                 attachedFor>>

\* Mutants of Dispatch: McpRuntime.close forgets the connection only when the
\* browser session has closed; connect() does not close.
DispatchKeepsConnection(k) ==
  LET c == call[k].client
      n == IF current[c] = 0 THEN made[c] + 1 ELSE current[c]
      old == IF current[c] = 0 THEN NoBrowser ELSE connection[<<c, n>>]
  IN  /\ call[k].stage = "accepted"
      /\ n <= MaxRuntimes
      /\ current' = [current EXCEPT ![c] = n]
      /\ made' = [made EXCEPT ![c] = IF current[c] = 0 THEN n ELSE @]
      /\ browser' = [b \in BrowserSessions |-> IF b = old THEN "closing" ELSE browser[b]]
      /\ CallStep(k, [call[k] EXCEPT !.stage = "closing", !.runtime = n, !.old = old])
      /\ UNCHANGED <<connection, heartbeatVars, sessionVars, shutdownVars, transport,
                     attachedFor, overlapped>>

DispatchConnectsOver(k) ==
  LET c == call[k].client
      n == IF current[c] = 0 THEN made[c] + 1 ELSE current[c]
  IN  /\ call[k].stage = "accepted"
      /\ n <= MaxRuntimes
      /\ current' = [current EXCEPT ![c] = n]
      /\ made' = [made EXCEPT ![c] = IF current[c] = 0 THEN n ELSE @]
      /\ CallStep(k, [call[k] EXCEPT !.stage = "closing", !.runtime = n])
      /\ UNCHANGED <<connection, browser, heartbeatVars, sessionVars, shutdownVars,
                     transport, attachedFor, overlapped>>

\* The tool starts: getRuntime, then McpRuntime.close up to its first await,
\* which is the start of connect() as well.
Dispatch(k) ==
  LET c == call[k].client
      n == IF current[c] = 0 THEN made[c] + 1 ELSE current[c]
      old == IF current[c] = 0 THEN NoBrowser ELSE connection[<<c, n>>]
  IN  /\ call[k].stage = "accepted"
      /\ n <= MaxRuntimes
      /\ current' = [current EXCEPT ![c] = n]
      /\ made' = [made EXCEPT ![c] = IF current[c] = 0 THEN n ELSE @]
      /\ connection' = [connection EXCEPT ![<<c, n>>] = NoBrowser]
      /\ browser' = [b \in BrowserSessions |-> IF b = old THEN "closing" ELSE browser[b]]
      /\ CallStep(k, [call[k] EXCEPT !.stage = "closing", !.runtime = n, !.old = old])
      /\ UNCHANGED <<heartbeatVars, sessionVars, shutdownVars, transport,
                     attachedFor, overlapped>>

\* McpRuntime.close returns; connect() goes on to the session factory.
Closed(k) ==
  /\ call[k].stage = "closing"
  /\ call[k].old # NoBrowser => browser[call[k].old] = "closed"
  /\ CallStep(k, [call[k] EXCEPT !.old = NoBrowser,
                    !.stage = IF call[k].kind = "connect" THEN "attaching" ELSE "done"])
  /\ UNCHANGED <<heartbeatVars, runtimeVars, sessionVars, shutdownVars, transport,
                 attachedFor, overlapped>>

\* The factory returns a session, which becomes the connection.
Attach(k, b) ==
  LET c == call[k].client
  IN  /\ call[k].stage = "attaching"
      /\ browser[b] = "unused"
      /\ browser' = [browser EXCEPT ![b] = "open"]
      /\ connection' = [connection EXCEPT ![<<c, call[k].runtime>>] = b]
      /\ attachedFor' = [attachedFor EXCEPT ![b] = c]
      /\ CallStep(k, [call[k] EXCEPT !.stage = "done"])
      /\ UNCHANGED <<current, made, heartbeatVars, sessionVars, shutdownVars,
                     transport, overlapped>>

\* It throws; what it had opened by then stays open.
AttachFails(k) ==
  /\ call[k].stage = "attaching"
  /\ \/ UNCHANGED browser
     \/ \E b \in BrowserSessions : /\ browser[b] = "unused"
                                   /\ browser' = [browser EXCEPT ![b] = "abandoned"]
  /\ CallStep(k, [call[k] EXCEPT !.stage = "done"])
  /\ UNCHANGED <<current, made, connection, heartbeatVars, sessionVars,
                 shutdownVars, transport, attachedFor, overlapped>>

\* session.close() of a browser session has finished.
BrowserCloses(b) ==
  /\ browser[b] = "closing"
  /\ browser' = [browser EXCEPT ![b] = "closed"]
  /\ UNCHANGED <<current, made, connection, heartbeatVars, sessionVars,
                 shutdownVars, transport, call, attachedFor, overlapped>>

SessionNext(c) ==
  \/ Initialize(c) \/ BundleCloses(c) \/ DeleteRequest(c)
  \/ GoesSilent(c) \/ Pong(c) \/ Beat(c) \/ PingFails(c)

CallNext(k) ==
  \/ \E c \in Clients : \E kind \in {"connect", "close"} : Accept(k, c, kind)
  \/ Dispatch(k) \/ Closed(k) \/ AttachFails(k)
  \/ \E b \in BrowserSessions : Attach(k, b)

Next ==
  \/ \E c \in Clients : SessionNext(c)
  \/ \E k \in Calls : CallNext(k)
  \/ \E b \in BrowserSessions : BrowserCloses(b)
  \/ ShutdownStarts \/ ShutdownContinues

Spec == Init /\ [][Next]_vars

\* Timers fire, a ping is answered or times out, and browser sessions close:
\* their close() catches every error and has nothing to wait for but replies.
FairSpec ==
  /\ Spec
  /\ \A c \in Clients : /\ WF_vars(Beat(c))
                        /\ WF_vars(Pong(c) \/ PingFails(c))
                        /\ WF_vars(BundleCloses(c))
  /\ \A b \in BrowserSessions : WF_vars(BrowserCloses(b))
  /\ WF_vars(ShutdownContinues)

-----------------------------------------------------------------------------
(* Properties.                                                             *)

\* However a ping that fails, a DELETE and the shutdown meet, each of which
\* calls closeSession, a session's bundle is closed once.
SessionClosedOnce == \A c \in Clients : closings[c] <= 1

\* A runtime, also one whose session is gone, never holds a browser session
\* that somebody closes or has closed: a tool that finds a connection can use it.
ConnectionUsable ==
  \A rt \in Runtimes : connection[rt] # NoBrowser => browser[connection[rt]] = "open"

\* A client that waits for each answer before the next call, and whose session
\* does not end during a call, loses no browser session: whatever was attached
\* for it is closed, being closed, or the connection of its runtime.
NothingForgotten ==
  \A b \in BrowserSessions :
    LET c == attachedFor[b]
    IN  c # NoClient /\ c \notin overlapped /\ browser[b] = "open" =>
          c \in sessions /\ Connected(c) = b

\* tests/unit/mcp.test.ts:3074: the session of a client that has stopped
\* answering is closed, at whatever point of the heartbeat it stops.
SilentClientsLoseSession ==
  \A c \in Clients : c \in silent /\ c \in sessions ~> bundle[c] = "closed"

\* A shutdown gets to the listener even if clients connect and call tools
\* meanwhile.
ShutdownReachesListener == shutdown = "sessions" ~> shutdown = "listener"

=============================================================================
