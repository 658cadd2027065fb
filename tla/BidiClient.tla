----------------------------- MODULE BidiClient -----------------------------
(***************************************************************************)
(* WebSocketBidiClient (src/src/protocol/bidi/client.ts): commands and     *)
(* events over one WebSocket.  A handler of the socket runs to its end     *)
(* before the next, except that handleMessage calls event listeners one by *)
(* one, and a listener may call the client back; `delivering' holds the    *)
(* listeners of such a call that are still to come.                        *)
(*                                                                         *)
(* The socket and the browser behind it are external, modelled from what   *)
(* the client relies on: frames arrive in order, at most one answer comes  *)
(* for a command, and nothing comes after the close event.                 *)
(***************************************************************************)
EXTENDS Naturals, Sequences

CONSTANTS
  MaxCommands,  \* bound: commands sent in one behaviour
  MaxFrames,    \* bound: frames from the browser under way
  Listeners     \* listeners of one event

ASSUME BidiAssumption == MaxCommands \in Nat /\ MaxFrames \in Nat

Ids == 1..MaxCommands
NoId == 0               \* an answer without id, or one that does not parse

VARIABLES
  socket,      \* readyState
  connected,   \* the promise of connect()
  closed,      \* this.closed
  commandId,
  pending,     \* keys of pendingCommands
  outcome,     \* the promise sendCommand returned, per id
  received,    \* commands the browser has not answered
  frames,      \* frames from the browser, in order
  listeners,   \* eventListeners of the event
  delivering   \* listeners handleMessage is calling

commandVars == <<commandId, pending, outcome>>
eventVars == <<listeners, delivering>>
clientVars == <<socket, connected, closed, commandVars, received, frames, eventVars>>

Frames == [type: {"success", "error"}, id: Ids \cup {NoId}] \cup [type: {"event"}, id: {NoId}]

ClientTypeOK ==
  /\ socket \in {"connecting", "open", "closing", "closed"}
  /\ connected \in {"pending", "resolved", "rejected"}
  /\ closed \in BOOLEAN
  /\ commandId \in 0..MaxCommands
  /\ pending \subseteq Ids
  /\ outcome \in [Ids -> {"idle", "waiting", "answered", "failed"}]
  /\ received \subseteq Ids
  /\ frames \in Seq(Frames)
  /\ listeners \subseteq Listeners
  /\ delivering \subseteq Listeners

ClientInit ==
  /\ socket = "connecting"
  /\ connected = "pending"
  /\ closed = FALSE
  /\ commandId = 0
  /\ pending = {}
  /\ outcome = [i \in Ids |-> "idle"]
  /\ received = {}
  /\ frames = << >>
  /\ listeners = {}
  /\ delivering = {}

\* No listener is being called: the socket may report something.
Idle == delivering = {}

-----------------------------------------------------------------------------
(* Calls of the client.                                                    *)

\* sendCommand on a client that is not closed.  send() throws before the
\* socket is open, and drops the command once it is closing.
SendCommand ==
  /\ ~closed
  /\ commandId < MaxCommands
  /\ commandId' = commandId + 1
  /\ LET id == commandId + 1
     IN  \/ /\ socket = "connecting"
            /\ outcome' = [outcome EXCEPT ![id] = "failed"]
            /\ UNCHANGED <<pending, received>>
         \/ /\ socket # "connecting"
            /\ pending' = pending \cup {id}
            /\ outcome' = [outcome EXCEPT ![id] = "waiting"]
            /\ received' = IF socket = "open" THEN received \cup {id} ELSE received
  /\ UNCHANGED <<socket, connected, closed, frames, eventVars>>

\* Mutant of RejectPendingCommands: the map is cleared before the loop.
RejectNobody ==
  /\ pending' = {}
  /\ UNCHANGED <<commandId, outcome>>

RejectPendingCommands ==
  /\ pending' = {}
  /\ outcome' = [i \in Ids |-> IF i \in pending THEN "failed" ELSE outcome[i]]
  /\ UNCHANGED commandId

Close ==
  /\ ~closed
  /\ closed' = TRUE
  /\ socket' = IF socket = "closed" THEN socket ELSE "closing"
  /\ RejectPendingCommands
  /\ UNCHANGED <<connected, received, frames, eventVars>>

On(l) ==
  /\ listeners' = listeners \cup {l}
  /\ UNCHANGED <<socket, connected, closed, commandVars, received, frames, delivering>>

RemoveListener(l) ==
  /\ listeners' = listeners \ {l}
  /\ UNCHANGED <<socket, connected, closed, commandVars, received, frames, delivering>>

-----------------------------------------------------------------------------
(* Events of the socket.                                                   *)

Opened ==
  /\ Idle
  /\ socket = "connecting"
  /\ socket' = "open"
  /\ connected' = IF connected = "pending" THEN "resolved" ELSE connected
  /\ UNCHANGED <<closed, commandVars, received, frames, eventVars>>

\* The close event, which an error event precedes when the connection failed.
HandleClose ==
  IF closed THEN UNCHANGED <<closed, commandVars>>
  ELSE closed' = TRUE /\ RejectPendingCommands

SocketCloses ==
  /\ Idle
  /\ socket # "closed"
  /\ socket' = "closed"
  /\ connected' = IF connected = "pending" THEN "rejected" ELSE connected
  /\ frames' = << >>
  /\ received' = {}
  /\ HandleClose
  /\ UNCHANGED eventVars

\* Mutant of HandleAnswer: no entry is looked for.
HandleAnswerUnasked(f) ==
  /\ pending' = pending \ {f.id}
  /\ outcome' = [outcome EXCEPT ![f.id] = IF f.type = "success" THEN "answered"
                                          ELSE "failed"]
  /\ UNCHANGED <<commandId, delivering>>

\* An answer settles the command with its id, if one is pending.
HandleAnswer(f) ==
  IF f.id \in pending
  THEN /\ pending' = pending \ {f.id}
       /\ outcome' = [outcome EXCEPT ![f.id] = IF f.type = "success" THEN "answered"
                                               ELSE "failed"]
       /\ UNCHANGED <<commandId, delivering>>
  ELSE UNCHANGED <<commandVars, delivering>>

HandleMessage ==
  /\ Idle
  /\ socket \in {"open", "closing"}
  /\ frames # << >>
  /\ frames' = Tail(frames)
  /\ LET f == Head(frames)
     IN  \/ f.type # "event" /\ HandleAnswer(f)
         \/ f.type = "event" /\ delivering' = listeners /\ UNCHANGED commandVars
  /\ UNCHANGED <<socket, connected, closed, received, listeners>>

\* The next listener returns, or throws past the loop.
ListenerCalled(l) ==
  /\ l \in delivering
  /\ delivering' = delivering \ {l} \/ delivering' = {}
  /\ UNCHANGED <<socket, connected, closed, commandVars, received, frames, listeners>>

-----------------------------------------------------------------------------
(* The browser.                                                            *)

BrowserSends(type, id) ==
  /\ socket \in {"open", "closing"}
  /\ Len(frames) < MaxFrames
  /\ frames' = Append(frames, [type |-> type, id |-> id])
  /\ received' = received \ {id}
  /\ UNCHANGED <<socket, connected, closed, commandVars, eventVars>>

BrowserAnswers(id) ==
  /\ id \in received
  /\ BrowserSends("success", id) \/ BrowserSends("error", id)

BrowserSpeaksUp == BrowserSends("event", NoId) \/ BrowserSends("error", NoId)

ClientNext ==
  \/ SendCommand \/ Close
  \/ \E l \in Listeners : On(l) \/ RemoveListener(l) \/ ListenerCalled(l)
  \/ Opened \/ SocketCloses \/ HandleMessage
  \/ \E id \in Ids : BrowserAnswers(id)
  \/ BrowserSpeaksUp

ClientSpec == ClientInit /\ [][ClientNext]_clientVars

\* The browser answers every command it got, frames get through, listeners
\* return, and the close handshake ends.
FairSpec ==
  /\ ClientSpec
  /\ WF_clientVars(HandleMessage)
  /\ \A id \in Ids : SF_clientVars(BrowserAnswers(id))
  /\ WF_clientVars(\E l \in Listeners : ListenerCalled(l))
  /\ WF_clientVars(Idle /\ socket = "closing" /\ SocketCloses)

-----------------------------------------------------------------------------
(* Properties.                                                             *)

\* Of the browser's answers and the caller's promises: a command is waiting
\* exactly while its entry is in pendingCommands, so that either an answer or
\* rejectPendingCommands finds it; ids are never used twice.
PendingIsWaiting ==
  \A i \in Ids : /\ i \in pending <=> outcome[i] = "waiting"
                 /\ outcome[i] = "idle" <=> i > commandId

\* Nobody waits on a closed client, also when close(), the close event and
\* answers under way meet, or when a listener closes the client.
NobodyWaitsWhenClosed == closed => pending = {} /\ \A i \in Ids : outcome[i] # "waiting"

\* The client keeps the promises of CommandCalls.
Abstract == INSTANCE CommandCalls WITH Calls <- Ids, open <- ~closed, call <- outcome
Implements == Abstract!CallsSpec

\* Every command is settled, although the client has no timeout: by an
\* answer, or by the close of the connection.
EveryCommandSettles ==
  \A i \in Ids : outcome[i] = "waiting" ~> outcome[i] \in {"answered", "failed"}
=============================================================================
