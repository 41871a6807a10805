------------------------------ MODULE Endpoint ------------------------------
(***************************************************************************)
(* LightningCastDeviceSample: the SnapcastComm, LightningCastClient and    *)
(* LightningCastServer threads and the main program with its exit          *)
(* sequence.  ServicePublisher takes no part in a session and is left out. *)
(***************************************************************************)
EXTENDS LightningCastClient

CONSTANT MayQuit    \* whether the user may press q

ASSUME QuitAssumption == MayQuit \in BOOLEAN

VARIABLES
    spc,            \* where the LightningCastServer thread is
    server_wake,    \* the server's eventfd is readable
    mpc             \* where main is in its exit sequence

process == <<spc, server_wake, mpc>>
vars    == <<snapcast, client, process>>

ServerPc == {"select", "open", "exited"}
MainPc   == {"keys", "clientExit", "serverExit", "joinSnapcast", "joinClient", "joinServer",
             "done"}

\* Type invariant of the composition.
TypeOK ==
    /\ Snap!TypeOK
    /\ ClientTypeOK
    /\ spc \in ServerPc /\ mpc \in MainPc
    /\ server_wake \in BOOLEAN

Init ==
    /\ Snap!Init
    /\ ClientInit
    /\ spc = "select" /\ server_wake = FALSE /\ mpc = "keys"

-----------------------------------------------------------------------------
(* LightningCastServer                                                     *)

\* doParse of an OPEN message: LightningCastServer::Open calls the client's.
ServerOpens(ip) ==
    /\ spc = "select" /\ spc' = "open"
    /\ request' = ip /\ Return(Server, "check")
    /\ UNCHANGED <<snapcast, mailbox, casting, cpc, opened, server_wake, mpc>>

\* It sends IsOpen to Android and goes back to its loop.
ServerReplies ==
    /\ spc = "open" /\ upc[Server] = "return"
    /\ spc' = "select" /\ Return(Server, "out")
    /\ UNCHANGED <<snapcast, mailbox, casting, cpc, request, opened, server_wake, mpc>>

ServerStops ==
    /\ spc = "select" /\ server_wake
    /\ server_wake' = FALSE /\ spc' = "exited"
    /\ UNCHANGED <<snapcast, client, mpc>>

-----------------------------------------------------------------------------
(* main() after q                                                          *)

MainQuits ==
    /\ MayQuit /\ mpc = "keys"
    /\ mpc' = "clientExit" /\ Return(Main, "check")
    /\ UNCHANGED <<snapcast, mailbox, casting, cpc, request, opened, spc, server_wake>>

SnapcastExit ==
    /\ mpc = "clientExit" /\ upc[Main] = "return"
    /\ Snap!Exit(Main)
    /\ mpc' = "serverExit"
    /\ UNCHANGED <<client, spc, server_wake>>

ServerExit ==
    /\ mpc = "serverExit"
    /\ server_wake' = TRUE
    /\ mpc' = "joinSnapcast"
    /\ UNCHANGED <<snapcast, client, spc>>

Join ==
    /\ \/ mpc = "joinSnapcast" /\ wpc = "exited" /\ mpc' = "joinClient"
       \/ mpc = "joinClient" /\ cpc = "exited" /\ mpc' = "joinServer"
       \/ mpc = "joinServer" /\ spc = "exited" /\ mpc' = "done"
    /\ UNCHANGED <<snapcast, client, spc, server_wake>>

-----------------------------------------------------------------------------
\* When main returns the process ends with all its threads.
Running == mpc # "done"

SnapcastThread == Running /\ Snap!WorkerStep /\ UNCHANGED <<client, process>>

ClientThread ==
    /\ Running
    /\ ClientStep \/ SnapcastCall(Client)
    /\ UNCHANGED process

ServerThread ==
    /\ Running
    /\ \/ (UserStep(Server) \/ Open \/ OpenReturns \/ SnapcastCall(Server))
          /\ UNCHANGED process
       \/ ServerReplies \/ ServerStops

MainThread ==
    \/ (UserStep(Main) \/ Exit \/ SnapcastCall(Main)) /\ UNCHANGED process
    \/ SnapcastExit \/ ServerExit \/ Join

Environment ==
    /\ Running
    /\ \/ Snap!Environment /\ UNCHANGED <<client, process>>
       \/ ClientSpuriousWakeup /\ UNCHANGED process
       \/ \E ip \in Servers : ServerOpens(ip)
       \/ MainQuits

Next == SnapcastThread \/ ClientThread \/ ServerThread \/ MainThread \/ Environment

Spec == Init /\ [][Next]_vars

\* Every thread that can run does; the player is started sooner or later and
\* answers what it reads.
Fairness ==
    /\ WF_vars(SnapcastThread) /\ WF_vars(ClientThread)
    /\ WF_vars(ServerThread) /\ WF_vars(MainThread)
    /\ WF_vars(Running /\ Snap!PlayerListens /\ UNCHANGED <<client, process>>)
    /\ WF_vars(Running /\ Snap!PlayerAnswers /\ UNCHANGED <<client, process>>)

FairSpec == Spec /\ Fairness

-----------------------------------------------------------------------------
(* Properties                                                              *)

\* getIsOpen tells the truth about the session.  It is never true without one,
\* and, until the user quits, never false while messages are being handled, so
\* an open from another device always finds the session it has to end.
IsOpenTruthful ==
    /\ is_open => cpc \in {"finish", "loop", "select", "busy", "leave"}
    /\ cpc \in {"loop", "select", "busy"} /\ mpc = "keys" => is_open

\* Nobody waiting for a client command spins with the client's mutex held.
ClientSpinFree == client_ready_sync => client_cmd = "NONE"

\* serverIP is replaced by the server thread while the client thread reads it
\* without the mutex; the player is still only sent to the Android device whose
\* session asked for it, until the user quits.
PlaysFromSession == pc[Client] = "sendStart" /\ mpc = "keys" => serverIP = session

\* The server answers IsOpen 1 only if the client has connected to the address
\* of that very request, whoever else posts commands over it.
ReplyTruthful == upc[Server] = "return" /\ opened => session = request

\* Every step of the system is one that SnapcastComm allows its callers.
ImplementsSnapcastComm == Snap!Spec

\* An open that finds the client idle is answered.
IdleOpenAnswered ==
    spc = "open" /\ upc[Server] = "check" /\ cpc = "wait" /\ mpc = "keys"
        ~> spc = "select" \/ mpc # "keys"

\* A quit that finds the client idle ends the process, unless an open arrives.
IdleQuitCompletes ==
    upc[Main] = "check" /\ cpc = "wait" ~> mpc = "done" \/ spc = "open"

\* LightningCastClient.cpp, at the end of do_open: "Stop snapcast"
SnapcastStopped == cpc = "close" => playing = NoServer

\* LightningCastDeviceSample.cpp: "Press q and enter to exit"
QuitCompletes == mpc = "clientExit" ~> mpc = "done"
=============================================================================
