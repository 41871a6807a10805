------------------------ MODULE LightningCastClient ------------------------
(***************************************************************************)
(* The LightningCastClient thread, which keeps one session with an Android *)
(* device, and the two threads that call it: the LightningCastServer       *)
(* thread, which calls Open, and the main thread, which calls Exit.        *)
(*                                                                         *)
(* The client has a mailbox of the same make as SnapcastComm's.  All three *)
(* threads also call SnapcastComm: the client thread for every message it  *)
(* reads and when a session ends, the others through the doStop of Open    *)
(* and Exit.  The module has the operations; Endpoint composes them with   *)
(* the SnapcastComm worker, the server and the main program.               *)
(*                                                                         *)
(* The messages of a session are chosen freely when the client reads them. *)
(* Writes to Android (greeting, heartbeat, keys) have no effect here.      *)
(*                                                                         *)
(* A definition named after another one with a suffix, as Post_KeepSync,   *)
(* is that definition with a fault seeded: no specification uses it, it    *)
(* shows that a property would notice such a fault in the code.            *)
(***************************************************************************)
EXTENDS Naturals, Sequences, FiniteSets

CONSTANTS
    Client,     \* the thread that runs LightningCastClient::handle
    Server,     \* the LightningCastServer thread
    Main,       \* the main thread
    Worker,     \* the SnapcastComm thread
    Servers,    \* addresses Android may send with open
    NoServer,   \* "not an address"
    Messages,   \* the messages of a session that may arrive: "PLAY", "STOP"
    FaultKinds, \* failures of the player, see SnapcastComm
    MaxFaults   \* how many such failures may happen (bounds the model)

Users   == {Server, Main}
Callers == {Client, Server, Main}

ASSUME DistinctThreads == Cardinality({Client, Server, Main, Worker}) = 4

ASSUME PlayerAssumption == NoServer \notin Servers /\ MaxFaults \in Nat

VARIABLES
    \* SnapcastComm
    cmd, ready, ready_sync, pending, send_start_result, server_fd, wake_fd,
    condWait, syncWait, pc, wpc, toPlayer, fromPlayer, receipt,
    listening, playing, faults,
    \* LightningCastClient
    client_cmd,         \* LightningCastClientCmd: the mailbox
    client_ready,       \* predicate of the client thread's wait on cond
    client_ready_sync,  \* predicate of the users' wait on cond_sync
    clientAsleep,       \* the client thread sleeps on cond
    clientSync,         \* users asleep on cond_sync
    is_open,            \* what getIsOpen returns
    serverIP,           \* the address Open was last called with
    client_fd,          \* the socket to Android: "none" is -1
    client_wake,        \* the client's eventfd is readable
    cpc,                \* where the client thread is
    upc,                \* where each user is inside Open or Exit
    request,            \* the argument of the Open under way
    opened,             \* what the last Open returned
    session             \* history: the address of the last session

Snap == INSTANCE SnapcastComm

snapcast == <<cmd, ready, ready_sync, pending, send_start_result, server_fd, wake_fd,
              condWait, syncWait, pc, wpc, toPlayer, fromPlayer, receipt,
              listening, playing, faults>>
mailbox == <<client_cmd, client_ready, client_ready_sync, clientAsleep, clientSync>>
casting == <<is_open, serverIP, client_fd, client_wake, session>>
calls   == <<upc, request, opened>>
client  == <<mailbox, casting, cpc, calls>>

LightningCastClientCmd == {"NONE", "OPEN", "CLOSE", "EXIT"}

ClientPc == {"handle", "wait", "connect", "setOpen", "setClosed", "finish", "finishFailed",
             "loop", "select", "busy", "leave", "stop", "stopping", "close", "exited"}

UserPc == {"out", "check", "stop", "closeWait", "post", "openWait", "return"}

ClientTypeOK ==
    /\ client_cmd \in LightningCastClientCmd
    /\ client_ready \in BOOLEAN /\ client_ready_sync \in BOOLEAN
    /\ clientAsleep \in BOOLEAN /\ clientSync \subseteq Users
    /\ is_open \in BOOLEAN /\ client_wake \in BOOLEAN /\ opened \in BOOLEAN
    /\ {serverIP, request, session} \subseteq Servers \cup {NoServer}
    /\ client_fd \in {"none", "connected"}
    /\ cpc \in ClientPc
    /\ upc \in [Users -> UserPc]

ClientInit ==
    /\ client_cmd = "NONE" /\ client_ready = FALSE /\ client_ready_sync = FALSE
    /\ clientAsleep = FALSE /\ clientSync = {}
    /\ is_open = FALSE /\ serverIP = NoServer /\ client_fd = "none" /\ client_wake = FALSE
    /\ cpc = "handle"
    /\ upc = [t \in Users |-> "out"]
    /\ request = NoServer /\ opened = FALSE /\ session = NoServer

-----------------------------------------------------------------------------
(* The mailbox, as in SnapcastComm; only the client thread waits on cond   *)

Return(t, l) == upc' = [upc EXCEPT ![t] = l]

Post_KeepSync(c) ==
    /\ client_cmd' = c
    /\ client_ready' = TRUE
    /\ UNCHANGED client_ready_sync
    /\ clientAsleep' = FALSE

Post(c) ==
    /\ client_cmd' = c
    /\ client_ready' = TRUE
    /\ client_ready_sync' = FALSE
    /\ clientAsleep' = FALSE

finishCmd_NoNotify ==
    /\ client_cmd' = "NONE"
    /\ client_ready_sync' = TRUE
    /\ UNCHANGED clientSync

finishCmd ==
    /\ client_cmd' = "NONE"
    /\ client_ready_sync' = TRUE
    /\ clientSync' \in Snap!Notify(clientSync)

ClientSpuriousWakeup ==
    /\ \/ clientAsleep /\ clientAsleep' = FALSE /\ UNCHANGED clientSync
       \/ \E t \in clientSync : clientSync' = clientSync \ {t} /\ UNCHANGED clientAsleep
    /\ UNCHANGED <<snapcast, client_cmd, client_ready, client_ready_sync, casting, cpc,
                   calls>>

-----------------------------------------------------------------------------
(* The calling threads: Open and Exit                                      *)

getIsOpen_Ignored(t) ==
    /\ upc[t] = "check"
    /\ Return(t, "post")
    /\ UNCHANGED <<snapcast, mailbox, casting, cpc, request, opened>>

\* Both begin with getIsOpen, and stop the player and close an open session.
getIsOpen(t) ==
    /\ upc[t] = "check"
    /\ \/ is_open /\ Snap!doStop(t) /\ Return(t, "stop")
       \/ ~is_open /\ Return(t, "post") /\ UNCHANGED snapcast
    /\ UNCHANGED <<mailbox, casting, cpc, request, opened>>

Close(t) ==
    /\ upc[t] = "stop" /\ pc[t] = "out"
    /\ Post("CLOSE")
    /\ client_wake' = TRUE
    /\ clientSync' = clientSync \cup {t}
    /\ Return(t, "closeWait")
    /\ UNCHANGED <<snapcast, is_open, serverIP, client_fd, session, cpc, request, opened>>

\* while (cmd != NONE) cond_sync.wait(lock, ready_sync), once the thread runs.
Awake(t)  == t \notin clientSync /\ client_ready_sync /\ client_cmd = "NONE"
Asleep(t) == t \notin clientSync /\ ~client_ready_sync

SleepAgain(t) ==
    /\ upc[t] \in {"closeWait", "openWait"} /\ Asleep(t)
    /\ clientSync' = clientSync \cup {t}
    /\ UNCHANGED <<snapcast, client_cmd, client_ready, client_ready_sync, clientAsleep,
                   casting, cpc, calls>>

CloseReturns(t) ==
    /\ upc[t] = "closeWait" /\ Awake(t)
    /\ is_open' = FALSE
    /\ Return(t, "post")
    /\ UNCHANGED <<snapcast, mailbox, serverIP, client_fd, client_wake, session, cpc,
                   request, opened>>

Open ==
    /\ upc[Server] = "post"
    /\ Post("OPEN")
    /\ is_open' = FALSE /\ serverIP' = request
    /\ clientSync' = clientSync \cup {Server}
    /\ Return(Server, "openWait")
    /\ UNCHANGED <<snapcast, client_fd, client_wake, session, cpc, request, opened>>

OpenReturns ==
    /\ upc[Server] = "openWait" /\ Awake(Server)
    /\ opened' = is_open
    /\ Return(Server, "return")
    /\ UNCHANGED <<snapcast, mailbox, casting, cpc, request>>

Exit_NoReady ==
    /\ upc[Main] = "post"
    /\ client_cmd' = "EXIT" /\ client_ready_sync' = FALSE
    /\ clientAsleep' = FALSE
    /\ Return(Main, "return")
    /\ UNCHANGED <<snapcast, client_ready, clientSync, casting, cpc, request, opened>>

\* Exit posts EXIT, neither waits nor writes wake_fd.
Exit ==
    /\ upc[Main] = "post"
    /\ Post("EXIT")
    /\ Return(Main, "return")
    /\ UNCHANGED <<snapcast, clientSync, casting, cpc, request, opened>>

-----------------------------------------------------------------------------
(* The client thread: handle() and do_open()                               *)

Runs ==
    \/ cpc = "handle" /\ UNCHANGED client_ready
    \/ cpc = "wait" /\ ~clientAsleep /\ client_ready /\ client_ready' = FALSE

Sleep ==
    /\ clientAsleep' = TRUE
    /\ client_ready' = FALSE
    /\ cpc' = "wait"

HandleNone ==
    /\ \/ cpc = "handle" /\ client_cmd = "NONE"
       \/ cpc = "wait" /\ ~clientAsleep /\ (client_ready => client_cmd = "NONE")
    /\ Sleep
    /\ UNCHANGED <<snapcast, client_cmd, client_ready_sync, clientSync, casting, calls>>

HandleClose ==
    /\ cpc = "handle" \/ (cpc = "wait" /\ ~clientAsleep /\ client_ready)
    /\ client_cmd = "CLOSE"
    /\ finishCmd
    /\ Sleep
    /\ UNCHANGED <<snapcast, casting, calls>>

HandleExit ==
    /\ Runs /\ client_cmd = "EXIT"
    /\ finishCmd
    /\ cpc' = "exited"
    /\ UNCHANGED <<snapcast, clientAsleep, casting, calls>>

HandleOpen ==
    /\ Runs /\ client_cmd = "OPEN"
    /\ cpc' = "connect"
    /\ UNCHANGED <<snapcast, client_cmd, client_ready_sync, clientAsleep, clientSync,
                   casting, calls>>

\* One attempt: the name may not resolve, the connection may be refused.
connectServer ==
    /\ cpc = "connect"
    /\ \/ /\ client_fd' = "connected" /\ session' = serverIP
          /\ cpc' = "setOpen"
       \/ cpc' = "setClosed" /\ UNCHANGED <<client_fd, session>>
    /\ UNCHANGED <<snapcast, mailbox, is_open, serverIP, client_wake, calls>>

setIsOpen_KeepOnLeave ==
    /\ \/ cpc = "setOpen" /\ is_open' = TRUE /\ cpc' = "finish"
       \/ cpc = "setClosed" /\ is_open' = FALSE /\ cpc' = "finishFailed"
       \/ cpc = "leave" /\ cpc' = "stop" /\ UNCHANGED is_open
    /\ UNCHANGED <<snapcast, mailbox, serverIP, client_fd, client_wake, session, calls>>

setIsOpen_IgnoreFailure ==
    /\ \/ cpc = "setOpen" /\ is_open' = TRUE /\ cpc' = "finish"
       \/ cpc = "setClosed" /\ is_open' = TRUE /\ cpc' = "finishFailed"
       \/ cpc = "leave" /\ is_open' = FALSE /\ cpc' = "stop"
    /\ UNCHANGED <<snapcast, mailbox, serverIP, client_fd, client_wake, session, calls>>

\* The three calls of setIsOpen in do_open.
setIsOpen ==
    /\ \/ cpc = "setOpen" /\ is_open' = TRUE /\ cpc' = "finish"
       \/ cpc = "setClosed" /\ is_open' = FALSE /\ cpc' = "finishFailed"
       \/ cpc = "leave" /\ is_open' = FALSE /\ cpc' = "stop"
    /\ UNCHANGED <<snapcast, mailbox, serverIP, client_fd, client_wake, session, calls>>

\* Marks the slot finished whatever command it holds by now.
LockfinishCmd ==
    /\ \/ cpc = "finish" /\ cpc' = "loop"
       \/ cpc = "finishFailed" /\ cpc' = "handle"
    /\ finishCmd
    /\ UNCHANGED <<snapcast, client_ready, clientAsleep, casting, calls>>

\* while (cmd == NONE), read without the mutex.
LoopTest ==
    /\ cpc = "loop"
    /\ cpc' = IF client_cmd = "NONE" THEN "select" ELSE "leave"
    /\ UNCHANGED <<snapcast, mailbox, casting, calls>>

\* select() returns for the eventfd, or after half a second for the heartbeat,
\* which ends the session when Android has been silent for too long.
SelectReturns ==
    /\ cpc = "select"
    /\ \/ client_wake /\ cpc' = "loop"
       \/ ~client_wake /\ cpc' \in {"loop", "leave"}
    /\ client_wake' = FALSE
    /\ UNCHANGED <<snapcast, mailbox, is_open, serverIP, client_fd, session, calls>>

\* A scan that has just read the eventfd goes on to the socket only if there is
\* no command by then.
Scan ==
    /\ cpc = "select"
    /\ client_wake => client_cmd = "NONE"
    /\ client_wake' = FALSE

doPlay ==
    /\ Scan /\ "PLAY" \in Messages
    /\ Snap!doPlay(Client)
    /\ cpc' = "busy"
    /\ UNCHANGED <<mailbox, is_open, serverIP, client_fd, session, calls>>

\* doPause and doStop.
doStop ==
    /\ Scan /\ "STOP" \in Messages
    /\ Snap!doStop(Client)
    /\ cpc' = "busy"
    /\ UNCHANGED <<mailbox, is_open, serverIP, client_fd, session, calls>>

\* The other messages set fields nobody waits for, and some send a heartbeat.
doSet ==
    /\ Scan
    /\ cpc' = "loop"
    /\ UNCHANGED <<snapcast, mailbox, is_open, serverIP, client_fd, session, calls>>

doParse == doPlay \/ doStop \/ doSet

\* doRead returns false: end of file, SET_EXIT, or a message it cannot parse.
doReadFails ==
    /\ Scan
    /\ cpc' = "leave"
    /\ UNCHANGED <<snapcast, mailbox, is_open, serverIP, client_fd, session, calls>>

\* The call into SnapcastComm returns.
Handled ==
    /\ pc[Client] = "out"
    /\ \/ cpc = "busy" /\ cpc' = "loop"
       \/ cpc = "stopping" /\ cpc' = "close"
    /\ UNCHANGED <<snapcast, mailbox, casting, calls>>

StopSnapcast_CloseOnly ==
    /\ cpc = "stop"
    /\ pc' = [pc EXCEPT ![Client] = "close"]
    /\ cpc' = "stopping"
    /\ UNCHANGED <<cmd, ready, ready_sync, pending, send_start_result, server_fd, wake_fd,
                   condWait, syncWait, wpc, toPlayer, fromPlayer, receipt, listening,
                   playing, faults, mailbox, casting, calls>>

\* "Stop snapcast", at the end of do_open.
StopSnapcast ==
    /\ cpc = "stop"
    /\ Snap!doStop(Client)
    /\ cpc' = "stopping"
    /\ UNCHANGED <<mailbox, casting, calls>>

CloseFd_NoClose ==
    /\ cpc = "close"
    /\ client_fd' = "shutdown"
    /\ cpc' = "handle"
    /\ UNCHANGED <<snapcast, mailbox, is_open, serverIP, client_wake, session, calls>>

CloseFd ==
    /\ cpc = "close"
    /\ client_fd' = "none"
    /\ cpc' = "handle"
    /\ UNCHANGED <<snapcast, mailbox, is_open, serverIP, client_wake, session, calls>>

-----------------------------------------------------------------------------
ClientStep ==
    \/ HandleNone \/ HandleClose \/ HandleExit \/ HandleOpen
    \/ connectServer \/ setIsOpen \/ LockfinishCmd \/ LoopTest \/ SelectReturns
    \/ doParse \/ doReadFails \/ Handled \/ StopSnapcast \/ CloseFd

UserStep(t) == getIsOpen(t) \/ Close(t) \/ SleepAgain(t) \/ CloseReturns(t)

\* A step of a call to SnapcastComm that one of the threads has under way.
SnapcastCall(t) == Snap!InCall(t, serverIP) /\ UNCHANGED client
=============================================================================
