---------------------------- MODULE FrameChannel ----------------------------
(***************************************************************************)
(* The connection of a session to Android as the threads write to it: the  *)
(* client thread opens it, sends the greeting and heartbeats, and closes   *)
(* it; the main thread sends a message for every key, whatever the client  *)
(* thread is doing.  server_mutex covers the writing and the closing, not  *)
(* the opening.                                                            *)
(*                                                                         *)
(* A definition named after another one with a suffix is that definition   *)
(* with a fault seeded; no specification uses it.                          *)
(***************************************************************************)
EXTENDS Framing

CONSTANTS
    Client, Main,   \* the threads that write
    Nobody,         \* holds no mutex
    DataOf(_),      \* the data of the messages of a thread
    Capacity,       \* of the socket buffers between the two programs
    MaxSent,        \* messages of the client thread in a session (bounds the model)
    MaxKeys,        \* keys pressed (bounds the model)
    MaxSessions     \* attempts to connect (bounds the model)

Writers == {Client, Main}

ASSUME ChannelAssumption ==
    /\ Client # Main /\ Nobody \notin Writers
    /\ \A w \in Writers : DataOf(w) \in Seq(Nat)
    /\ Capacity \in Nat \ {0} /\ {MaxSent, MaxKeys, MaxSessions} \subseteq Nat

VARIABLES
    server_fd,      \* "none" is -1, "created" a socket not connected, "connected"
    server_mutex,   \* who holds it
    wpc,            \* where each thread is in processSend
    left,           \* what each has still to write
    stream,         \* what has been written and not read
    peer,           \* "reads" or "gone"
    got,            \* what Android has read of a message
    delivered,      \* the messages it has read
    sent,           \* history: the messages of the connection, as writing began
    cpc,            \* where the client thread is in do_open
    messages,       \* how many it has sent in this session
    sessions,       \* how often it has tried to connect
    keys            \* how many keys have been pressed

writing == <<server_mutex, wpc, left>>
android == <<stream, peer, got, delivered>>
client  == <<cpc, messages, sessions>>
vars    == <<server_fd, writing, android, sent, client, keys>>

WriterPc == {"out", "lock", "write", "blocked"}
ClientPc == {"closed", "connect", "session", "leave"}

\* Type invariant: who holds the mutex is writing, and has something to write
\* only then.
TypeOK ==
    /\ server_fd \in {"none", "created", "connected"}
    /\ wpc \in [Writers -> WriterPc]
    /\ \A w \in Writers :
          /\ wpc[w] \in {"write", "blocked"} <=> server_mutex = w
          /\ left[w] # <<>> => server_mutex = w
    /\ peer \in {"reads", "gone"} /\ cpc \in ClientPc
    /\ Len(stream) <= Capacity
    /\ messages \in 0..MaxSent /\ sessions \in 0..MaxSessions /\ keys \in 0..MaxKeys

Init ==
    /\ server_fd = "none" /\ server_mutex = Nobody
    /\ wpc = [w \in Writers |-> "out"] /\ left = [w \in Writers |-> <<>>]
    /\ stream = <<>> /\ peer = "gone" /\ got = <<>> /\ delivered = <<>> /\ sent = <<>>
    /\ cpc = "closed" /\ messages = 0 /\ sessions = 0 /\ keys = 0

-----------------------------------------------------------------------------
(* processSend                                                             *)

Goes(w, l) == wpc' = [wpc EXCEPT ![w] = l]

Calls(w) == wpc[w] = "out" /\ Goes(w, "lock") /\ UNCHANGED <<server_mutex, left>>

Lock_NoMutex(w) ==
    /\ wpc[w] = "lock"
    /\ IF server_fd = "none" THEN Goes(w, "out") /\ UNCHANGED <<server_mutex, left>>
       ELSE /\ server_mutex' = w /\ Goes(w, "write")
            /\ left' = [left EXCEPT ![w] = Frame(DataOf(w))]
    /\ UNCHANGED <<server_fd, android, sent, client, keys>>

Lock(w) ==
    /\ wpc[w] = "lock" /\ server_mutex = Nobody
    /\ IF server_fd = "none" THEN Goes(w, "out") /\ UNCHANGED <<server_mutex, left>>
       ELSE /\ server_mutex' = w /\ Goes(w, "write")
            /\ left' = [left EXCEPT ![w] = Frame(DataOf(w))]
    /\ UNCHANGED <<server_fd, android, sent, client, keys>>

\* The mutex is released with the message written or given up.
Returns(w) ==
    /\ Goes(w, "out") /\ left' = [left EXCEPT ![w] = <<>>]
    /\ server_mutex' = IF server_mutex = w THEN Nobody ELSE server_mutex

\* One write takes what fits; without room it is EAGAIN, and tried again.
Write(w) ==
    /\ wpc[w] \in {"write", "blocked"} /\ left[w] # <<>>
    /\ server_fd = "connected" /\ peer = "reads"
    /\ \E n \in 1..Least(Len(left[w]), Capacity - Len(stream)) :
          /\ stream' = stream \o SubSeq(left[w], 1, n)
          /\ left' = [left EXCEPT ![w] = Without(@, n)]
    /\ sent' = IF left[w] = Frame(DataOf(w)) THEN Append(sent, DataOf(w)) ELSE sent
    /\ Goes(w, "write")
    /\ UNCHANGED <<server_fd, server_mutex, peer, got, delivered, client, keys>>

\* A socket that is connecting, and still blocking, has the write wait for it.
WriteBlocks(w) ==
    /\ wpc[w] = "write" /\ server_fd = "created"
    /\ Goes(w, "blocked")
    /\ UNCHANGED <<server_fd, server_mutex, left, android, sent, client, keys>>

\* Every other error ends the loop: the peer is gone, the socket was not yet
\* connecting, or connectServer has closed it meanwhile.
WriteError(w) ==
    /\ left[w] # <<>>
    /\ \/ wpc[w] = "write" /\ server_fd = "created"
       \/ wpc[w] \in {"write", "blocked"} /\ server_fd = "none"
       \/ wpc[w] \in {"write", "blocked"} /\ server_fd = "connected" /\ peer = "gone"

WriteFails_Retries(w) ==
    /\ WriteError(w)
    /\ UNCHANGED vars

WriteFails(w) ==
    /\ WriteError(w)
    /\ Returns(w)
    /\ UNCHANGED <<server_fd, android, sent, client, keys>>

Written(w) ==
    /\ wpc[w] = "write" /\ left[w] = <<>>
    /\ Returns(w)
    /\ UNCHANGED <<server_fd, android, sent, client, keys>>

processSend(w) == Lock(w) \/ Write(w) \/ WriteFails(w) \/ Written(w)

-----------------------------------------------------------------------------
(* do_open                                                                 *)

\* connectServer gets a socket ...
Socket ==
    /\ cpc = "closed" /\ sessions < MaxSessions
    /\ server_fd' = "created"
    /\ cpc' = "connect" /\ sessions' = sessions + 1 /\ messages' = 0
    /\ UNCHANGED <<writing, android, sent, keys>>

\* ... and connects it, or closes it, without the mutex.
Connect ==
    /\ cpc = "connect"
    /\ server_fd' = "connected" /\ cpc' = "session"
    /\ stream' = <<>> /\ got' = <<>> /\ delivered' = <<>> /\ sent' = <<>> /\ peer' = "reads"
    /\ UNCHANGED <<writing, messages, sessions, keys>>

ConnectFails ==
    /\ cpc = "connect"
    /\ server_fd' = "none" /\ cpc' = "closed"
    /\ UNCHANGED <<writing, android, sent, messages, sessions, keys>>

\* The greeting and the heartbeats.
Sends ==
    /\ cpc = "session" /\ messages < MaxSent
    /\ Calls(Client)
    /\ messages' = messages + 1
    /\ UNCHANGED <<server_fd, android, sent, cpc, sessions, keys>>

\* The loop ends, for whatever reason.
Leaves ==
    /\ cpc = "session" /\ wpc[Client] = "out"
    /\ cpc' = "leave"
    /\ UNCHANGED <<server_fd, writing, android, sent, messages, sessions, keys>>

\* The connection is closed with the mutex held, and Android reads the rest.
CloseFd ==
    /\ cpc = "leave" /\ server_mutex = Nobody
    /\ server_fd' = "none" /\ cpc' = "closed"
    /\ UNCHANGED <<writing, android, sent, messages, sessions, keys>>

-----------------------------------------------------------------------------
(* Android, which reads by the same code                                   *)

doRead ==
    /\ peer = "reads" /\ ~BadKey(got)
    /\ \E n \in Reads(got, stream) :
          /\ stream' = Without(stream, n)
          /\ LET all == got \o SubSeq(stream, 1, n) IN
             IF FrameRead(all) THEN got' = <<>> /\ delivered' = Append(delivered, Data(all))
                               ELSE got' = all /\ UNCHANGED delivered
    /\ UNCHANGED <<server_fd, writing, peer, sent, client, keys>>

\* It closes the connection, at any time or because it has read nonsense.
PeerGoes ==
    /\ peer = "reads"
    /\ peer' = "gone"
    /\ UNCHANGED <<server_fd, writing, stream, got, delivered, sent, client, keys>>

-----------------------------------------------------------------------------
ClientThread ==
    \/ Connect \/ ConnectFails \/ Sends \/ Leaves \/ CloseFd
    \/ processSend(Client)

Key ==
    /\ keys < MaxKeys /\ keys' = keys + 1
    /\ Calls(Main)
    /\ UNCHANGED <<server_fd, android, sent, client>>

MainThread == processSend(Main)

Next ==
    \/ Socket \/ ClientThread \/ Key \/ MainThread
    \/ \E w \in Writers : WriteBlocks(w)
    \/ doRead \/ PeerGoes

Spec == Init /\ [][Next]_vars

\* The threads run, and Android reads what it is sent or goes.  Keys come from
\* a person, who leaves the mutex free in between, so the client thread gets it;
\* heartbeats are half a second apart.
Fairness ==
    /\ WF_vars(ClientThread) /\ WF_vars(MainThread) /\ WF_vars(doRead)
    /\ SF_vars(Lock(Client)) /\ SF_vars(CloseFd) /\ SF_vars(Lock(Main))

FairSpec == Spec /\ Fairness

-----------------------------------------------------------------------------
(* Properties                                                              *)

Pending == SubSeq(sent, Len(delivered) + 1, Len(sent))

FrameChannelQueue ==
    INSTANCE FrameQueue WITH queue <- Pending,
                             Messages <- {DataOf(w) : w \in Writers}

\* processSend: the messages of two threads, written piece by piece into one
\* connection, reach Android whole and in order, and none of an earlier session
\* gets into a later one.
ImplementsFrameQueue == FrameChannelQueue!Spec

\* The client thread ends a session that is over and the main thread gets back
\* to its keys, although each may have to wait for the other to write and a
\* write goes on for as long as Android neither reads nor goes.
NobodyStuck ==
    /\ cpc = "leave" ~> cpc = "closed"
    /\ wpc[Main] # "out" ~> wpc[Main] = "out"
=============================================================================
