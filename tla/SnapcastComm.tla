---------------------------- MODULE SnapcastComm ----------------------------
(***************************************************************************)
(* The SnapcastComm thread of LightningCastDeviceSample, the threads that  *)
(* call it, and the PlayerClient at the other end of its socket.           *)
(*                                                                         *)
(* One worker thread (SnapcastComm::handle) owns the connection.  Other    *)
(* threads post a command into a one-slot mailbox (cmd, ready, ready_sync) *)
(* and block on cond_sync until the worker has finished it, and they write *)
(* requests on the socket themselves and block on cond until the worker    *)
(* has read the receipt (pending).                                         *)
(*                                                                         *)
(* Every critical section of `mutex' and of `server_mutex' is one action,  *)
(* so neither mutex is a variable.  A condition variable is the set of the *)
(* threads asleep on it; a thread that has been notified has left the set  *)
(* and still has to re-acquire the mutex and test its predicate.           *)
(*                                                                         *)
(* A definition named after another one with a suffix, as Post_KeepSync,   *)
(* is that definition with a fault seeded: no specification uses it, it    *)
(* shows that a property would notice such a fault in the code.            *)
(***************************************************************************)
EXTENDS Naturals, Sequences, FiniteSets

CONSTANTS
    Callers,    \* the threads that call Open, sendStart, sendStop, Close, Exit
    Worker,     \* the thread that runs handle()
    Servers,    \* addresses of SnapCast servers, sent with START
    NoServer,   \* "not an address": the player plays nothing
    FaultKinds, \* which failures may happen: "crash", "garbage", "select"
    MaxFaults   \* how many failures may happen (bounds the model)

ASSUME ThreadsAssumption == Worker \notin Callers /\ IsFiniteSet(Callers)

ASSUME ServersAssumption == NoServer \notin Servers

ASSUME FaultsAssumption == MaxFaults \in Nat

VARIABLES
    cmd,                \* SNAPCASTThreadCmd: the mailbox
    ready,              \* predicate of the worker's wait on cond
    ready_sync,         \* predicate of the callers' wait on cond_sync
    pending,            \* predicate of LockWait's wait on cond
    send_start_result,  \* Result of the last START receipt
    server_fd,          \* "none" is -1; "socket" not connected yet; "hungup" at EOF
    wake_fd,            \* the eventfd is readable
    condWait,           \* threads asleep on cond (the worker and LockWait share it)
    syncWait,           \* threads asleep on cond_sync
    pc,                 \* where each caller is inside a SnapcastComm call
    wpc,                \* where the worker is
    toPlayer,           \* requests written to the socket, not read by the player
    fromPlayer,         \* receipts written by the player, not read by the worker
    receipt,            \* history: the request that the last receipt answered
    listening,          \* the player's server socket accepts connections
    playing,            \* the server the player plays from, or NoServer
    faults              \* failures so far

mailbox == <<cmd, ready, ready_sync>>
link    == <<server_fd, toPlayer, fromPlayer>>
player  == <<listening, playing, faults>>
answer  == <<pending, send_start_result, receipt>>
vars    == <<mailbox, answer, link, wake_fd, condWait, syncWait, pc, wpc, player>>

SNAPCASTThreadCmd == {"NONE", "OPEN", "CLOSE", "EXIT"}

CallerPc == {"out", "openWait", "sendStart", "startWait", "startResult",
             "sendStop", "stopWait", "close", "closeWait", "exit"}

\* "handle" is before the mutex is acquired, at the start of the thread and
\* after do_open(); "wait" is inside cond.wait.
WorkerPc == {"handle", "wait", "socket", "connect", "finish", "loop", "select",
             "read", "closing", "exited"}

\* do_open() from the creation of the socket until it is closed.
InDoOpen == {"connect", "finish", "loop", "select", "read", "closing"}

Request == [cmd : {"START", "STOP"}, ip : Servers \cup {NoServer}]
Receipt == [cmd : {"START", "STOP", "BAD"}, ok : BOOLEAN]

\* Type invariant.
TypeOK ==
    /\ cmd \in SNAPCASTThreadCmd
    /\ ready \in BOOLEAN /\ ready_sync \in BOOLEAN
    /\ pending \in BOOLEAN /\ send_start_result \in BOOLEAN
    /\ server_fd \in {"none", "socket", "connected", "hungup"}
    /\ wake_fd \in BOOLEAN
    /\ condWait \subseteq Callers \cup {Worker}
    /\ syncWait \subseteq Callers
    /\ pc \in [Callers -> CallerPc]
    /\ wpc \in WorkerPc
    /\ toPlayer \in Seq(Request)
    /\ fromPlayer \in Seq(Receipt)
    /\ receipt \in {"NONE", "START", "STOP"}
    /\ listening \in BOOLEAN
    /\ playing \in Servers \cup {NoServer}
    /\ faults \in 0..MaxFaults

\* The SnapCastClient process may or may not be up when the device starts.
Init ==
    /\ cmd = "NONE" /\ ready = FALSE /\ ready_sync = FALSE
    /\ pending = FALSE /\ send_start_result = FALSE /\ receipt = "NONE"
    /\ server_fd = "none" /\ toPlayer = <<>> /\ fromPlayer = <<>>
    /\ wake_fd = FALSE
    /\ condWait = {} /\ syncWait = {}
    /\ pc = [t \in Callers |-> "out"]
    /\ wpc = "handle"
    /\ listening \in BOOLEAN /\ playing = NoServer /\ faults = 0

-----------------------------------------------------------------------------
(* Condition variables and the mailbox                                     *)

\* The wait sets notify_one() may leave behind: any one sleeper is woken.
Notify(sleepers) ==
    IF sleepers = {} THEN {sleepers} ELSE {sleepers \ {t} : t \in sleepers}

\* The C++ standard lets any sleeper wake up without a notification.
SpuriousWakeup ==
    /\ \/ \E t \in condWait : condWait' = condWait \ {t} /\ UNCHANGED syncWait
       \/ \E t \in syncWait : syncWait' = syncWait \ {t} /\ UNCHANGED condWait
    /\ UNCHANGED <<mailbox, answer, link, wake_fd, pc, wpc, player>>

\* One more failure of a kind the instance allows.
Fault(kind) == kind \in FaultKinds /\ faults < MaxFaults /\ faults' = faults + 1

Goto(t, l) == pc' = [pc EXCEPT ![t] = l]

Post_KeepSync(c) ==
    /\ cmd' = c
    /\ ready' = TRUE
    /\ UNCHANGED ready_sync
    /\ condWait' \in Notify(condWait)

Post_NoNotify(c) ==
    /\ cmd' = c
    /\ ready' = TRUE
    /\ ready_sync' = FALSE
    /\ UNCHANGED condWait

\* The critical section with which Open, Close and Exit post a command.  It
\* overwrites whatever command is in the slot.
Post(c) ==
    /\ cmd' = c
    /\ ready' = TRUE
    /\ ready_sync' = FALSE
    /\ condWait' \in Notify(condWait)

finishCmd_NoNotify ==
    /\ cmd' = "NONE"
    /\ ready_sync' = TRUE
    /\ UNCHANGED syncWait

finishCmd ==
    /\ cmd' = "NONE"
    /\ ready_sync' = TRUE
    /\ syncWait' \in Notify(syncWait)

WaitSync_NoWait(t, next) ==
    /\ Goto(t, next)
    /\ syncWait' = syncWait \ {t}

\* while (cmd != NONE) cond_sync.wait(lock, ready_sync), once the thread runs.
\* With ready_sync set and a command in the slot the loop would spin holding
\* the mutex; SpinFree shows that this state is not reachable.
WaitSync(t, next) ==
    /\ t \notin syncWait
    /\ \/ ready_sync /\ cmd = "NONE" /\ Goto(t, next) /\ UNCHANGED syncWait
       \/ ~ready_sync /\ syncWait' = syncWait \cup {t} /\ UNCHANGED pc

-----------------------------------------------------------------------------
(* The calling threads                                                     *)

\* Open() does not write wake_fd: a worker inside select() is not woken.
Open(t) ==
    /\ Post("OPEN")
    /\ Goto(t, "openWait")
    /\ syncWait' = syncWait \cup {t}
    /\ UNCHANGED <<answer, link, wake_fd, wpc, player>>

\* LightningCastClient::doPlay: Open, sendStart, and Close if START failed.
doPlay(t) == pc[t] = "out" /\ Open(t)

OpenReturns(t) ==
    /\ pc[t] = "openWait"
    /\ WaitSync(t, "sendStart")
    /\ UNCHANGED <<mailbox, answer, link, wake_fd, condWait, wpc, player>>

\* LightningCastClient::doPause and doStop: send STOP, then Close.
doStop(t) ==
    /\ pc[t] = "out"
    /\ Goto(t, "sendStop")
    /\ UNCHANGED <<mailbox, answer, link, wake_fd, condWait, syncWait, wpc, player>>

\* processSend under server_mutex.  Without a descriptor it fails; a write on a
\* socket that is not connected, or whose peer is gone, is an error the code
\* only logs, so processSend still returns true.
processSend(t, req, onSent, onFail) ==
    \/ /\ server_fd = "none"
       /\ Goto(t, onFail) /\ UNCHANGED toPlayer
    \/ /\ server_fd = "connected"
       /\ Goto(t, onSent) /\ toPlayer' = Append(toPlayer, req)
    \/ /\ server_fd \in {"socket", "hungup"}
       /\ Goto(t, onSent) /\ UNCHANGED toPlayer

sendStart(t, ip) ==
    /\ pc[t] = "sendStart"
    /\ send_start_result' = FALSE
    /\ processSend(t, [cmd |-> "START", ip |-> ip], "startWait", "close")
    /\ UNCHANGED <<mailbox, pending, receipt, server_fd, fromPlayer, wake_fd,
                   condWait, syncWait, wpc, player>>

\* sendPause and sendStop are the same code: both send STOP.
sendStop(t) ==
    /\ pc[t] = "sendStop"
    /\ processSend(t, [cmd |-> "STOP", ip |-> NoServer], "stopWait", "close")
    /\ UNCHANGED <<mailbox, answer, server_fd, fromPlayer, wake_fd,
                   condWait, syncWait, wpc, player>>

LockWait_NoReset(t) ==
    /\ pc[t] \in {"startWait", "stopWait"}
    /\ t \notin condWait
    /\ \/ /\ pending
          /\ Goto(t, IF pc[t] = "startWait" THEN "startResult" ELSE "close")
          /\ UNCHANGED <<pending, condWait>>
       \/ ~pending /\ condWait' = condWait \cup {t} /\ UNCHANGED <<pending, pc>>
    /\ UNCHANGED <<mailbox, send_start_result, receipt, link, wake_fd, syncWait,
                   wpc, player>>

\* cond.wait(lock, pending); pending = false
LockWait(t) ==
    /\ pc[t] \in {"startWait", "stopWait"}
    /\ t \notin condWait
    /\ \/ /\ pending /\ pending' = FALSE
          /\ Goto(t, IF pc[t] = "startWait" THEN "startResult" ELSE "close")
          /\ UNCHANGED condWait
       \/ ~pending /\ condWait' = condWait \cup {t} /\ UNCHANGED <<pending, pc>>
    /\ UNCHANGED <<mailbox, send_start_result, receipt, link, wake_fd, syncWait,
                   wpc, player>>

StartReturns_IgnoreResult(t) ==
    /\ pc[t] = "startResult"
    /\ Goto(t, "out")
    /\ UNCHANGED <<mailbox, answer, link, wake_fd, condWait, syncWait, wpc, player>>

\* sendStart reads the result after it has released the mutex; doPlay keeps the
\* connection if it is true and closes it otherwise.
StartReturns(t) ==
    /\ pc[t] = "startResult"
    /\ Goto(t, IF send_start_result THEN "out" ELSE "close")
    /\ UNCHANGED <<mailbox, answer, link, wake_fd, condWait, syncWait, wpc, player>>

Close_NoWake(t) ==
    /\ pc[t] = "close"
    /\ Post("CLOSE")
    /\ Goto(t, "closeWait")
    /\ syncWait' = syncWait \cup {t}
    /\ UNCHANGED <<answer, link, wake_fd, wpc, player>>

Close(t) ==
    /\ pc[t] = "close"
    /\ Post("CLOSE")
    /\ wake_fd' = TRUE
    /\ Goto(t, "closeWait")
    /\ syncWait' = syncWait \cup {t}
    /\ UNCHANGED <<answer, link, wpc, player>>

CloseReturns(t) ==
    /\ pc[t] = "closeWait"
    /\ WaitSync(t, "out")
    /\ UNCHANGED <<mailbox, answer, link, wake_fd, condWait, wpc, player>>

\* Exit() neither waits nor writes wake_fd.
Exit(t) ==
    /\ pc[t] = "out"
    /\ Post("EXIT")
    /\ Goto(t, "exit")
    /\ UNCHANGED <<answer, link, wake_fd, syncWait, wpc, player>>

-----------------------------------------------------------------------------
(* The worker: handle() and do_open()                                      *)

\* handle() holds the mutex from the moment it gets it until it sleeps on cond,
\* calls do_open() or returns.  It looks at cmd when it has just got the mutex,
\* or when cond.wait returns: woken, with ready set, which it then clears.
Runs ==
    \/ wpc = "handle" /\ UNCHANGED ready
    \/ wpc = "wait" /\ Worker \notin condWait /\ ready /\ ready' = FALSE

Sleep_KeepReady ==
    /\ condWait' = condWait \cup {Worker}
    /\ UNCHANGED ready
    /\ wpc' = "wait"

\* case NONE: the wait consumes a ready already set, finds NONE again, sleeps.
Sleep ==
    /\ condWait' = condWait \cup {Worker}
    /\ ready' = FALSE
    /\ wpc' = "wait"

HandleNone ==
    /\ \/ wpc = "handle" /\ cmd = "NONE"
       \/ wpc = "wait" /\ Worker \notin condWait /\ (ready => cmd = "NONE")
    /\ Sleep
    /\ UNCHANGED <<cmd, ready_sync, answer, link, wake_fd, syncWait, pc, player>>

HandleClose ==
    /\ wpc = "handle" \/ (wpc = "wait" /\ Worker \notin condWait /\ ready)
    /\ cmd = "CLOSE"
    /\ finishCmd
    /\ Sleep
    /\ UNCHANGED <<answer, link, wake_fd, pc, player>>

HandleExit ==
    /\ Runs /\ cmd = "EXIT"
    /\ finishCmd
    /\ wpc' = "exited"
    /\ UNCHANGED <<answer, link, wake_fd, condWait, pc, player>>

\* The mutex is released and do_open() starts.
HandleOpen ==
    /\ Runs /\ cmd = "OPEN"
    /\ wpc' = "socket"
    /\ UNCHANGED <<cmd, ready_sync, answer, link, wake_fd, condWait, syncWait, pc,
                   player>>

\* connectServer first assigns server_fd, without server_mutex.
CreateSocket ==
    /\ wpc = "socket"
    /\ server_fd' = "socket" /\ wpc' = "connect"
    /\ UNCHANGED <<mailbox, answer, toPlayer, fromPlayer, wake_fd, condWait, syncWait,
                   pc, player>>

\* connectServer retries for ever, once a second, until the player listens.
connectServer ==
    /\ wpc = "connect" /\ listening
    /\ server_fd' = "connected" /\ wpc' = "finish"
    /\ UNCHANGED <<mailbox, answer, toPlayer, fromPlayer, wake_fd, condWait, syncWait,
                   pc, player>>

\* Marks the slot finished whatever command it holds by now.
LockfinishCmd ==
    /\ wpc = "finish"
    /\ finishCmd
    /\ wpc' = "loop"
    /\ UNCHANGED <<ready, answer, link, wake_fd, condWait, pc, player>>

\* while (cmd == NONE), read without the mutex.
LoopTest ==
    /\ wpc = "loop"
    /\ wpc' = IF cmd = "NONE" THEN "select" ELSE "closing"
    /\ UNCHANGED <<mailbox, answer, link, wake_fd, condWait, syncWait, pc, player>>

Readable == fromPlayer # <<>> \/ server_fd = "hungup"

\* select() returns; the scan meets wake_fd before server_fd, which is the
\* younger descriptor.
Select ==
    /\ wpc = "select"
    /\ \/ /\ wake_fd
          /\ wake_fd' = FALSE
          /\ wpc' = IF cmd = "NONE" /\ Readable THEN "read" ELSE "loop"
       \/ /\ ~wake_fd /\ Readable
          /\ wpc' = "read"
          /\ UNCHANGED wake_fd
    /\ UNCHANGED <<mailbox, answer, link, condWait, syncWait, pc, player>>

\* select() <= 0 leaves the loop.
SelectFails ==
    /\ wpc = "select" /\ Fault("select")
    /\ wpc' = "closing"
    /\ UNCHANGED <<mailbox, answer, link, wake_fd, condWait, syncWait, pc, listening,
                   playing>>

\* doRead and doParse of a START or STOP receipt, LockSignal included.  The
\* notification follows the unlock; nobody can fall asleep in between, because
\* pending is already set.
doParse ==
    /\ wpc = "read"
    /\ fromPlayer # <<>> /\ Head(fromPlayer).cmd # "BAD"
    /\ send_start_result' = IF Head(fromPlayer).cmd = "START"
                            THEN Head(fromPlayer).ok ELSE send_start_result
    /\ pending' = TRUE
    /\ receipt' = Head(fromPlayer).cmd
    /\ condWait' \in Notify(condWait)
    /\ fromPlayer' = Tail(fromPlayer)
    /\ wpc' = "loop"
    /\ UNCHANGED <<mailbox, server_fd, toPlayer, wake_fd, syncWait, pc, player>>

\* doRead returns false: end of file, a wrong key, bad JSON or an unknown Cmd.
doReadFails ==
    /\ wpc = "read"
    /\ IF fromPlayer = <<>> THEN server_fd = "hungup" ELSE Head(fromPlayer).cmd = "BAD"
    /\ wpc' = "closing"
    /\ UNCHANGED <<mailbox, answer, link, wake_fd, condWait, syncWait, pc, player>>

CloseFd_NoClose == server_fd' = "shutdown"

CloseFd_Keep == UNCHANGED server_fd

CloseFd == server_fd' = "none"

\* The end of do_open: shutdown and close under server_mutex.  Nothing tells a
\* thread in LockWait.
EndOpen ==
    /\ wpc = "closing"
    /\ CloseFd /\ toPlayer' = <<>> /\ fromPlayer' = <<>>
    /\ wpc' = "handle"
    /\ UNCHANGED <<mailbox, answer, wake_fd, condWait, syncWait, pc, player>>

-----------------------------------------------------------------------------
(* The player (SnapCastClient's PlayerClient), seen from the socket        *)

PlayerListens ==
    /\ ~listening /\ listening' = TRUE
    /\ UNCHANGED <<mailbox, answer, link, wake_fd, condWait, syncWait, pc, wpc, playing,
                   faults>>

\* One receipt per request, in order.  START replaces what is playing, and may
\* be refused (Result 0), which leaves the player silent.
PlayerAnswers ==
    /\ server_fd = "connected" /\ toPlayer # <<>>
    /\ toPlayer' = Tail(toPlayer)
    /\ LET req == Head(toPlayer) IN
       \E ok \in BOOLEAN :
          /\ req.cmd = "STOP" => ok
          /\ fromPlayer' = Append(fromPlayer, [cmd |-> req.cmd, ok |-> ok])
          /\ playing' = IF ok THEN req.ip ELSE NoServer
    /\ UNCHANGED <<mailbox, answer, server_fd, wake_fd, condWait, syncWait, pc, wpc,
                   listening, faults>>

PlayerCrashes ==
    /\ listening /\ Fault("crash")
    /\ listening' = FALSE /\ playing' = NoServer
    /\ server_fd' = IF server_fd = "connected" THEN "hungup" ELSE server_fd
    /\ toPlayer' = <<>>
    /\ UNCHANGED <<mailbox, answer, fromPlayer, wake_fd, condWait, syncWait, pc, wpc>>

PlayerSendsGarbage ==
    /\ server_fd = "connected" /\ Fault("garbage")
    /\ fromPlayer' = Append(fromPlayer, [cmd |-> "BAD", ok |-> FALSE])
    /\ UNCHANGED <<mailbox, answer, server_fd, toPlayer, wake_fd, condWait, syncWait, pc,
                   wpc, listening, playing>>

-----------------------------------------------------------------------------
Handle == HandleNone \/ HandleClose \/ HandleExit \/ HandleOpen

WorkerStep ==
    \/ Handle \/ CreateSocket \/ connectServer \/ LockfinishCmd \/ LoopTest \/ Select
    \/ doParse \/ doReadFails \/ EndOpen

\* The steps of a call already made, with which it goes on or returns.
InCall(t, ip) ==
    \/ OpenReturns(t) \/ sendStart(t, ip) \/ sendStop(t) \/ LockWait(t)
    \/ StartReturns(t) \/ Close(t) \/ CloseReturns(t)

CallStarts(t) == doPlay(t) \/ doStop(t) \/ Exit(t)

Environment ==
    \/ SpuriousWakeup \/ SelectFails \/ PlayerListens \/ PlayerAnswers
    \/ PlayerCrashes \/ PlayerSendsGarbage

Next ==
    \/ WorkerStep
    \/ \E t \in Callers : CallStarts(t) \/ \E ip \in Servers : InCall(t, ip)
    \/ Environment

Spec == Init /\ [][Next]_vars

\* The scheduler runs every thread that can run; the player is started sooner
\* or later and answers what it reads.
Fairness ==
    /\ WF_vars(WorkerStep)
    /\ \A t \in Callers : WF_vars(\E ip \in Servers : InCall(t, ip))
    /\ WF_vars(PlayerListens) /\ WF_vars(PlayerAnswers)

FairSpec == Spec /\ Fairness

-----------------------------------------------------------------------------
(* Properties that hold whoever calls                                      *)

\* A waiting Open or Close never spins with the mutex held: when its predicate
\* ready_sync is true, its loop condition cmd != NONE is false.
SpinFree == ready_sync => cmd = "NONE"

\* The descriptor belongs to do_open alone: outside it there is none (so the
\* assignment in connectServer never overwrites an open socket) and nothing is
\* left in the socket's buffers, and only connectServer sees it unconnected.
DescriptorInv ==
    /\ wpc \notin InDoOpen => /\ server_fd = "none"
                              /\ toPlayer = <<>> /\ fromPlayer = <<>>
    /\ wpc \in InDoOpen \ {"connect"} => server_fd \in {"connected", "hungup"}
    /\ wpc = "connect" => /\ server_fd = "socket"
                          /\ toPlayer = <<>> /\ fromPlayer = <<>>

Waiting == {t \in Callers : pc[t] \in {"startWait", "stopWait"}}

Genuine(receipts) == {i \in DOMAIN receipts : receipts[i].cmd # "BAD"}

\* sendStart and sendStop do not clear `pending' before they send, so a receipt
\* left over from an earlier request would answer a later one.  It cannot be:
\* the receipts due, in flight and undelivered never outnumber the callers
\* blocked in LockWait.
NoStaleReceipt ==
    Len(toPlayer) + Cardinality(Genuine(fromPlayer)) + (IF pending THEN 1 ELSE 0)
        <= Cardinality(Waiting)

\* The worker and LockWait sleep on the same condition variable, and a posted
\* command notifies one thread of either kind.  The worker sleeps over a command
\* only if more threads are in LockWait than there are receipts left to release
\* them: as long as no caller is stranded there, no wakeup is lost.
WakeupLostOnlyToStranded ==
    Worker \in condWait /\ cmd # "NONE"
        => (IF pending THEN 1 ELSE 0) < Cardinality(Waiting)

-----------------------------------------------------------------------------
(* Properties of the thread structure the class is written for: one caller *)

\* How far the mailbox, the worker and the single caller are apart: a command in
\* the slot is the one the caller has posted, connectServer runs only while the
\* caller is in Open, and Close is acknowledged by a worker outside do_open.
Handshake ==
    \A t \in Callers :
        /\ \/ cmd = "NONE"
           \/ <<pc[t], cmd>> \in
                 {<<"openWait", "OPEN">>, <<"closeWait", "CLOSE">>, <<"exit", "EXIT">>}
        /\ wpc = "wait" /\ cmd # "NONE" => ready
        /\ wpc \in {"socket", "connect", "finish"} => pc[t] = "openWait" /\ cmd = "OPEN"
        /\ pc[t] = "closeWait" /\ cmd = "NONE" => wpc = "wait"
        /\ t \in condWait => pc[t] \in {"startWait", "stopWait"}
        /\ Worker \in condWait => wpc = "wait" /\ ~ready /\ cmd = "NONE"
        /\ wpc = "exited" => pc[t] = "exit"

\* What the single caller is waiting for.
Phase ==
    CASE \E t \in Callers : pc[t] \in {"openWait", "closeWait"} ->
             IF cmd = "NONE" THEN "acked" ELSE cmd
      [] \E t \in Callers : pc[t] = "exit" -> IF cmd = "NONE" THEN "exited" ELSE cmd
      [] OTHER -> "idle"

Connection == IF server_fd \in {"connected", "hungup"} THEN "up" ELSE "down"

Sync == INSTANCE SyncLink WITH phase <- Phase, connection <- Connection

\* With one caller the mailbox, the two condition variables and the eventfd
\* implement synchronous commands: no command is lost or acknowledged early.
ImplementsSyncLink == Sync!Spec

ClosedOnReturn ==
    \A t \in Callers : pc[t] = "closeWait" /\ pc'[t] = "out" => server_fd' = "none"

\* Close returns only when the connection to the player is gone.
CloseTerminates == [][ClosedOnReturn]_vars

\* LockWait is released by the receipt of the request its caller has sent.
ReceiptMatches ==
    \A t \in Callers : pending =>
        /\ pc[t] = "startWait" => receipt = "START"
        /\ pc[t] = "stopWait" => receipt = "STOP"

\* Nothing on the wire either way answers another request than the caller's.
Answering ==
    \A t \in Callers : pc[t] \in {"startWait", "stopWait"} =>
        LET want == IF pc[t] = "startWait" THEN "START" ELSE "STOP" IN
        /\ \A i \in DOMAIN toPlayer : toPlayer[i].cmd = want
        /\ \A i \in Genuine(fromPlayer) : fromPlayer[i].cmd = want
        /\ pending => receipt = want

\* Between calls the device has a connection exactly when the player plays, as
\* long as the player has not failed: a refused START is followed by Close, and
\* Close never overtakes a STOP.
PlaybackAgrees ==
    \A t \in Callers :
        pc[t] = "out" /\ faults = 0 => (server_fd = "connected" <=> playing # NoServer)

\* doPause and doStop return, whatever was going on when they were called, if
\* the player does not fail.
StopCompletes ==
    [](faults = 0) =>
        \A t \in Callers :
            pc[t] \in {"sendStop", "stopWait", "close", "closeWait"} ~> pc[t] = "out"

\* doPlay gets from Open to sendStart when there is no connection yet, even if
\* the player crashes meanwhile and is started again.
FreshOpenCompletes ==
    \A t \in Callers :
        pc[t] = "openWait" /\ wpc \notin InDoOpen ~> pc[t] = "sendStart"

\* README 3.3: "Upon receiving a `play` message, it calls the `Open` and
\* `sendStart` interfaces of SnapcastComm."
PlayReachesSendStart ==
    \A t \in Callers : pc[t] = "openWait" ~> pc[t] = "sendStart"
=============================================================================
