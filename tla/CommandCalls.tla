---------------------------- MODULE CommandCalls ----------------------------
(***************************************************************************)
(* What a protocol client promises its callers: every command is settled  *)
(* once, by the peer's answer to that command or by the end of the         *)
(* connection, and nothing is left waiting on a connection that ended.     *)
(***************************************************************************)
CONSTANT Calls

VARIABLES
  open,   \* the connection accepts commands
  call    \* what each caller sees

Promise == {"idle", "waiting", "answered", "failed"}

CallsInit == /\ open = TRUE
             /\ call = [c \in Calls |-> "idle"]

Start(c) == /\ open
            /\ call[c] = "idle"
            /\ call' = [call EXCEPT ![c] = "waiting"]
            /\ UNCHANGED open

\* A command that could not be sent.
Refuse(c) == /\ call[c] = "idle"
             /\ call' = [call EXCEPT ![c] = "failed"]
             /\ UNCHANGED open

Settle(c, how) == /\ open
                  /\ call[c] = "waiting"
                  /\ call' = [call EXCEPT ![c] = how]
                  /\ UNCHANGED open

End == /\ open
       /\ open' = FALSE
       /\ call' = [c \in Calls |-> IF call[c] = "waiting" THEN "failed" ELSE call[c]]

CallsNext ==
  \/ \E c \in Calls : Start(c) \/ Refuse(c)
  \/ \E c \in Calls : Settle(c, "answered") \/ Settle(c, "failed")
  \/ End

CallsSpec == CallsInit /\ [][CallsNext]_<<open, call>>
=============================================================================
