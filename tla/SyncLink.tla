------------------------------ MODULE SyncLink ------------------------------
(***************************************************************************)
(* What SnapcastComm promises a single calling thread: Open, Close and     *)
(* Exit are synchronous commands on one connection.  A command is posted,  *)
(* carried out, acknowledged, and only then does the call return; the      *)
(* acknowledgement of Open finds the connection up, that of Close finds it *)
(* down.  The connection may also come down by itself.                     *)
(***************************************************************************)
VARIABLES
    phase,      \* "idle", a command not yet acknowledged, "acked" or "exited"
    connection  \* "up" when there is a connection to the player, else "down"

vars == <<phase, connection>>

Init == phase = "idle" /\ connection = "down"

Post(c) == phase = "idle" /\ phase' = c /\ UNCHANGED connection

Connect ==
    /\ phase = "OPEN" /\ connection = "down"
    /\ connection' = "up"
    /\ UNCHANGED phase

Disconnect == connection = "up" /\ connection' = "down" /\ UNCHANGED phase

\* The call may return once this has happened.
Acknowledge ==
    /\ <<phase, connection>> \in {<<"OPEN", "up">>, <<"CLOSE", "down">>}
    /\ phase' = "acked"
    /\ UNCHANGED connection

Return == phase = "acked" /\ phase' = "idle" /\ UNCHANGED connection

\* Exit is acknowledged without anyone waiting; nothing happens afterwards.
Exit ==
    /\ phase = "EXIT" /\ connection = "down"
    /\ phase' = "exited"
    /\ UNCHANGED connection

Next ==
    \/ \E c \in {"OPEN", "CLOSE", "EXIT"} : Post(c)
    \/ Connect \/ Disconnect \/ Acknowledge \/ Return \/ Exit

Spec == Init /\ [][Next]_vars
=============================================================================
