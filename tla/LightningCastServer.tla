------------------------ MODULE LightningCastServer ------------------------
(***************************************************************************)
(* The LightningCastServer thread: one select() loop for the listener, the *)
(* eventfd of Exit and the connections of all Android devices, which reads *)
(* a frame cell by cell and does nothing else until it has all of it.      *)
(*                                                                         *)
(* What Open does is the client's part (Endpoint); here it returns.        *)
(* Failures of socket() and accept() and of select() itself are left out.  *)
(*                                                                         *)
(* A definition named after another one with a suffix is that definition   *)
(* with a fault seeded; no specification uses it.                          *)
(***************************************************************************)
EXTENDS Framing, FiniteSets

CONSTANTS
    Peers,          \* Android devices
    NoPeer,         \* a descriptor that is no connection
    FdSetSize,      \* descriptors are 1..FdSetSize
    WakeFd,         \* the eventfd
    Listener,       \* the listening socket
    Capacity,       \* cells on their way from a device
    MaxFrames       \* frames of all devices (bounds the model)

Fds == 1..FdSetSize

ASSUME ServerAssumption ==
    /\ FdSetSize \in Nat /\ {WakeFd, Listener} \subseteq Fds /\ WakeFd # Listener
    /\ NoPeer \notin Peers /\ MaxFrames \in Nat /\ Capacity \in Nat \ {0}

VARIABLES
    \* the server
    pc,         \* "select", "scan", "read", "open", "exited", or "failed": exit(1)
    master,     \* the descriptors select() watches
    fdmax,      \* not less than any of them
    read_fds,   \* the descriptors that were ready
    i,          \* the next descriptor to be looked at
    got,        \* what doRead has got
    conn,       \* the device at each descriptor
    wake,       \* the eventfd is readable
    \* the devices
    backlog,    \* connections not yet accepted
    peer,       \* "new", "open" or "closed"
    unsent,     \* what is left of the frame it writes
    stream,     \* what it has written and the server not read
    frames,     \* how many frames they have begun
    unanswered  \* how many open messages it has written that have no answer

loop    == <<pc, master, fdmax, read_fds, i, got, conn>>
devices == <<peer, unsent, frames>>
vars    == <<loop, wake, backlog, devices, stream, unanswered>>

ServerPc == {"select", "scan", "read", "open", "exited", "failed"}

OPEN == 1
Frames == {Frame(<<OPEN>>), Frame(<<0>>), <<0, 0>>}

Greatest(m, n) == IF m < n THEN n ELSE m

Init ==
    /\ pc = "select" /\ master = {WakeFd, Listener} /\ fdmax = Greatest(WakeFd, Listener)
    /\ read_fds = {} /\ i = 1 /\ got = <<>> /\ conn = [fd \in Fds |-> NoPeer] /\ wake = FALSE
    /\ backlog = <<>> /\ peer = [p \in Peers |-> "new"]
    /\ unsent = [p \in Peers |-> <<>>] /\ stream = [p \in Peers |-> <<>>]
    /\ frames = 0 /\ unanswered = [p \in Peers |-> 0]

Connections == {fd \in Fds : conn[fd] # NoPeer}
Valid       == Connections \cup {WakeFd, Listener}

-----------------------------------------------------------------------------
(* handle                                                                  *)

Readable(fd) ==
    CASE fd = WakeFd -> wake
      [] fd = Listener -> backlog # <<>>
      [] OTHER -> stream[conn[fd]] # <<>> \/ peer[conn[fd]] = "closed"

\* A descriptor that is closed makes select() fail and the process exit.
Select ==
    /\ pc = "select"
    /\ LET watched == {fd \in master : fd <= fdmax} IN
       IF watched \subseteq Valid
       THEN /\ read_fds' = {fd \in watched : Readable(fd)} /\ read_fds' # {}
            /\ i' = 1 /\ pc' = "scan"
       ELSE pc' = "failed" /\ UNCHANGED <<read_fds, i>>
    /\ UNCHANGED <<master, fdmax, got, conn, wake, backlog, devices, stream, unanswered>>

Ready == {fd \in read_fds : i <= fd /\ fd <= fdmax}

\* The scan is at descriptor fd, which is ready.
At(fd) == pc = "scan" /\ fd \in Ready /\ \A other \in Ready : fd <= other

ScanEnds ==
    /\ pc = "scan" /\ Ready = {}
    /\ pc' = "select"
    /\ UNCHANGED <<master, fdmax, read_fds, i, got, conn, wake, backlog, devices, stream, unanswered>>

\* The new descriptor is any that no part of the process uses.
Accept ==
    /\ At(Listener)
    /\ \E fd \in Fds \ Valid :
          /\ conn' = [conn EXCEPT ![fd] = Head(backlog)]
          /\ master' = master \cup {fd}
          /\ fdmax' = Greatest(fdmax, fd)
    /\ backlog' = Tail(backlog)
    /\ i' = Listener + 1
    /\ UNCHANGED <<pc, read_fds, got, wake, devices, stream, unanswered>>

\* The loop ends at once; connections stay open.
Stop ==
    /\ At(WakeFd)
    /\ wake' = FALSE /\ pc' = "exited"
    /\ UNCHANGED <<master, fdmax, read_fds, i, got, conn, backlog, devices, stream, unanswered>>

BeginRead ==
    /\ \E fd \in Connections : At(fd) /\ i' = fd
    /\ got' = <<>> /\ pc' = "read"
    /\ UNCHANGED <<master, fdmax, read_fds, conn, wake, backlog, devices, stream, unanswered>>

-----------------------------------------------------------------------------
(* doRead and doParse, for the connection i                                *)

\* doRead has returned: the scan goes on after the connection.
Next_i == i' = i + 1 /\ got' = <<>> /\ pc' = "scan"

\* One read, of what has arrived of what is wanted; EAGAIN is tried again.
Read ==
    /\ pc = "read" /\ ~BadKey(got) /\ ~FrameRead(got)
    /\ LET p == conn[i]
           n == Least(Wanted(got), Len(stream[p]))
       IN
       /\ n > 0
       /\ got' = got \o SubSeq(stream[p], 1, n)
       /\ stream' = [stream EXCEPT ![p] = Without(@, n)]
    /\ UNCHANGED <<pc, master, fdmax, read_fds, i, conn, wake, backlog, devices, unanswered>>

doParse ==
    /\ pc = "read" /\ FrameRead(got) /\ Data(got) = <<OPEN>>
    /\ pc' = "open"
    /\ UNCHANGED <<master, fdmax, read_fds, i, got, conn, wake, backlog, devices, stream, unanswered>>

\* LightningCastClient::Open returns, and the answer is sent; nobody notices if
\* the device has gone.
Open ==
    /\ pc = "open"
    /\ unanswered' = [unanswered EXCEPT ![conn[i]] = @ - 1]
    /\ Next_i
    /\ UNCHANGED <<master, fdmax, read_fds, conn, wake, backlog, devices, stream>>

EndOfFile == ~FrameRead(got) /\ stream[conn[i]] = <<>> /\ peer[conn[i]] = "closed"
Refused   == BadKey(got) \/ (FrameRead(got) /\ Data(got) # <<OPEN>>)

CloseConnection_KeepSet ==
    /\ pc = "read" /\ (EndOfFile \/ Refused)
    /\ conn' = [conn EXCEPT ![i] = NoPeer]
    /\ Next_i
    /\ UNCHANGED <<master, fdmax, read_fds, wake, backlog, devices, stream, unanswered>>

CloseConnection_EofIsEagain ==
    /\ pc = "read" /\ Refused
    /\ conn' = [conn EXCEPT ![i] = NoPeer]
    /\ master' = master \ {i}
    /\ Next_i
    /\ UNCHANGED <<fdmax, read_fds, wake, backlog, devices, stream, unanswered>>

\* doRead returns false.
CloseConnection ==
    /\ pc = "read" /\ (EndOfFile \/ Refused)
    /\ conn' = [conn EXCEPT ![i] = NoPeer]
    /\ master' = master \ {i}
    /\ Next_i
    /\ UNCHANGED <<fdmax, read_fds, wake, backlog, devices, stream, unanswered>>

-----------------------------------------------------------------------------
(* The devices and main                                                    *)

Connects(p) ==
    /\ peer[p] = "new" /\ pc # "exited"
    /\ peer' = [peer EXCEPT ![p] = "open"]
    /\ backlog' = Append(backlog, p)
    /\ UNCHANGED <<loop, wake, unsent, frames, stream, unanswered>>

BeginFrame(p) ==
    /\ peer[p] = "open" /\ unsent[p] = <<>> /\ frames < MaxFrames
    /\ \E f \in Frames : unsent' = [unsent EXCEPT ![p] = f]
    /\ frames' = frames + 1
    /\ UNCHANGED <<loop, wake, backlog, peer, stream, unanswered>>

\* Some of the frame arrives.
Arrives(p) ==
    /\ peer[p] = "open" /\ unsent[p] # <<>>
    /\ \E n \in 1..Least(Len(unsent[p]), Capacity - Len(stream[p])) :
          /\ stream' = [stream EXCEPT ![p] = @ \o SubSeq(unsent[p], 1, n)]
          /\ unsent' = [unsent EXCEPT ![p] = Without(@, n)]
          /\ unanswered' = IF n = Len(unsent[p]) /\ unsent[p][n] = OPEN
                           THEN [unanswered EXCEPT ![p] = @ + 1] ELSE unanswered
    /\ UNCHANGED <<loop, wake, backlog, peer, frames>>

\* It closes its side, between frames or within one.
Closes(p) ==
    /\ peer[p] = "open"
    /\ peer' = [peer EXCEPT ![p] = "closed"]
    /\ UNCHANGED <<loop, wake, backlog, unsent, frames, stream, unanswered>>

Exit ==
    /\ ~wake /\ pc # "exited"
    /\ wake' = TRUE
    /\ UNCHANGED <<loop, backlog, devices, stream, unanswered>>

-----------------------------------------------------------------------------
ServerThread ==
    \/ Select \/ ScanEnds \/ Accept \/ Stop \/ BeginRead
    \/ Read \/ doParse \/ Open \/ CloseConnection

Environment ==
    \/ \E p \in Peers : Connects(p) \/ BeginFrame(p) \/ Arrives(p) \/ Closes(p)
    \/ Exit

Next == ServerThread \/ Environment

Spec == Init /\ [][Next]_vars

\* The thread runs; what a device has begun to send arrives, or it closes.
Fairness == WF_vars(ServerThread) /\ \A p \in Peers : WF_vars(Arrives(p))

FairSpec == Spec /\ Fairness

-----------------------------------------------------------------------------
(* Properties                                                              *)

\* Type invariant.
TypeOK ==
    /\ pc \in ServerPc \ {"failed"} /\ master \subseteq Fds /\ read_fds \subseteq Fds
    /\ pc = "read" => i \in Connections
    /\ wake \in BOOLEAN /\ i \in 1..FdSetSize + 1 /\ fdmax \in Fds

\* The set given to select() and the connections that are open stay the same,
\* while descriptors are closed and used again: a descriptor too many ends the
\* process, one too few or beyond fdmax is a device nobody listens to.
MasterExact ==
    /\ master = Valid
    /\ \A fd \in master : fd <= fdmax

\* One thread serves all devices, frame by frame, and waits for the rest of a
\* frame without looking at anything else; still every open message is answered
\* and Exit noticed, as long as what is begun arrives or is given up.
Gone(p) == peer[p] = "closed" \/ (p \notin {conn[fd] : fd \in Fds}
                                    /\ \A k \in DOMAIN backlog : backlog[k] # p)

EveryoneServed ==
    /\ \A p \in Peers :
          unanswered[p] > 0 ~> unanswered[p] = 0 \/ Gone(p) \/ pc = "exited"
    /\ wake ~> pc = "exited"
=============================================================================
