---------------------- MODULE LightningCastServerProofs ----------------------
(***************************************************************************)
(* The descriptor set of LightningCastServer is exact for every set of     *)
(* devices, every size of the descriptor table and every order in which    *)
(* devices connect, send and close.                                        *)
(***************************************************************************)
EXTENDS LightningCastServer, TLAPS

\* No connection has the number of the eventfd or of the listener.
ConnInv ==
    /\ conn \in [Fds -> Peers \cup {NoPeer}]
    /\ conn[WakeFd] = NoPeer /\ conn[Listener] = NoPeer

\* The loop is inside the table and reads from a connection.
LoopInv ==
    /\ fdmax \in Fds /\ read_fds \subseteq Fds /\ i \in Nat
    /\ pc \in {"read", "open"} => i \in Connections

\* The listener that select() found ready stays so until the scan gets to it,
\* because connections only wait to be accepted and nobody else accepts.
BacklogInv ==
    /\ backlog \in Seq(Peers)
    /\ pc \in {"scan", "read", "open"} /\ Listener \in read_fds /\ i <= Listener
         => backlog # <<>>

IInv == ConnInv /\ LoopInv /\ BacklogInv /\ MasterExact

-----------------------------------------------------------------------------
\* The greater of two numbers.
LEMMA GreatestBounds ==
    ASSUME NEW m \in Nat, NEW n \in Nat
    PROVE  /\ Greatest(m, n) \in {m, n}
           /\ m <= Greatest(m, n) /\ n <= Greatest(m, n)
  BY SMT DEF Greatest

\* What the steps that leave the descriptors alone keep.
LEMMA SameDescriptors ==
    ASSUME ConnInv, MasterExact, UNCHANGED <<master, fdmax, conn>>
    PROVE  /\ ConnInv' /\ MasterExact'
           /\ Connections' = Connections /\ Valid' = Valid
  BY DEF ConnInv, MasterExact, Connections, Valid

\* The invariant holds in handle's initial state.
LEMMA InitIInv == Init => IInv
<1> SUFFICES ASSUME Init PROVE IInv
  OBVIOUS
<1> USE ServerAssumption DEF Init
<1>1. ConnInv
  BY DEF ConnInv, Fds
<1>2. Connections = {}
  BY <1>1 DEF Connections, ConnInv
<1>3. fdmax \in Fds /\ WakeFd <= fdmax /\ Listener <= fdmax
  BY GreatestBounds DEF Fds
<1>4. LoopInv
  BY <1>3 DEF LoopInv
<1>5. BacklogInv
  BY DEF BacklogInv
<1>6. MasterExact
  BY <1>2, <1>3 DEF MasterExact, Valid
<1> QED
  BY <1>1, <1>4, <1>5, <1>6 DEF IInv

\* Only descriptors of master are ever ready.
LEMMA SelectKeeps ==
    ASSUME IInv, Select
    PROVE  IInv'
<1> USE ServerAssumption DEF IInv, Select
<1>1. ConnInv' /\ MasterExact' /\ Connections' = Connections
  BY SameDescriptors
<1>2. master \subseteq Fds /\ master = Valid
  BY DEF MasterExact, Valid, Connections
<1>3. /\ read_fds' = {fd \in {x \in master : x <= fdmax} : Readable(fd)}
      /\ i' = 1 /\ pc' = "scan"
  BY <1>2
<1>4. LoopInv'
  BY <1>2, <1>3 DEF LoopInv
<1>5. BacklogInv'
  <2> SUFFICES ASSUME Listener \in read_fds' PROVE backlog # <<>>
    BY DEF IInv, BacklogInv
  <2>1. Readable(Listener)
    BY <1>3
  <2> QED
    BY <2>1 DEF Readable
<1> QED
  BY <1>1, <1>4, <1>5

\* A new connection gets a number nobody has, and fdmax follows.
LEMMA AcceptKeeps ==
    ASSUME IInv, Accept
    PROVE  IInv'
<1> USE ServerAssumption DEF IInv
<1>1. backlog # <<>>
  BY DEF Accept, At, Ready, BacklogInv
<1>2. Head(backlog) \in Peers /\ Tail(backlog) \in Seq(Peers)
  BY <1>1 DEF BacklogInv
<1>3. PICK fd \in Fds \ Valid :
         /\ conn' = [conn EXCEPT ![fd] = Head(backlog)]
         /\ master' = master \cup {fd}
         /\ fdmax' = Greatest(fdmax, fd)
  BY DEF Accept
<1>4. fd \in Nat /\ fdmax \in Nat /\ Listener \in Nat /\ \A x \in Fds : x \in Nat
  BY DEF Fds, LoopInv
<1>5. ConnInv'
  BY <1>2, <1>3 DEF ConnInv, Valid
<1>6. Connections' = Connections \cup {fd}
  BY <1>2, <1>3 DEF Connections, ConnInv
<1>7. fdmax' \in Fds /\ fdmax <= fdmax' /\ fd <= fdmax'
  BY <1>3, <1>4, GreatestBounds DEF LoopInv
<1>8. LoopInv'
  BY <1>4, <1>7 DEF LoopInv, Accept, At
<1>9. BacklogInv'
  BY <1>2, <1>4 DEF BacklogInv, Accept, At
<1>10. MasterExact'
  <2>1. master' = Valid'
    BY <1>3, <1>6 DEF MasterExact, Valid
  <2>2. ASSUME NEW x \in master' PROVE x <= fdmax'
    <3>1. CASE x = fd
      BY <1>7, <3>1
    <3>2. CASE x \in master
      <4>1. x \in Fds /\ x <= fdmax
        BY <3>2 DEF MasterExact, Valid, Connections
      <4> QED
        BY <4>1, <1>4, <1>7
    <3> QED
      BY <1>3, <3>1, <3>2
  <2> QED
    BY <2>1, <2>2 DEF MasterExact
<1> QED
  BY <1>5, <1>8, <1>9, <1>10

\* A connection leaves master with its descriptor.
LEMMA CloseConnectionKeeps ==
    ASSUME IInv, CloseConnection
    PROVE  IInv'
<1> USE ServerAssumption DEF IInv, CloseConnection, Next_i
<1>1. i \in Connections
  BY DEF LoopInv
<1>2. i \in Fds /\ i # WakeFd /\ i # Listener
  BY <1>1 DEF Connections, ConnInv
<1>3. ConnInv'
  BY DEF ConnInv
<1>4. Connections' = Connections \ {i}
  BY <1>2 DEF Connections, ConnInv
<1>5. MasterExact'
  BY <1>2, <1>4 DEF MasterExact, Valid
<1>6. LoopInv'
  BY DEF LoopInv
<1>7. BacklogInv'
  BY <1>2 DEF BacklogInv, Fds
<1> QED
  BY <1>3, <1>5, <1>6, <1>7

\* The rest of the loop leaves the descriptors alone.
LEMMA ReadingKeeps ==
    ASSUME IInv, BeginRead \/ Read \/ doParse \/ Open \/ ScanEnds \/ Stop
    PROVE  IInv'
<1> USE ServerAssumption DEF IInv
<1>1. UNCHANGED <<master, fdmax, conn, read_fds, backlog>>
  BY DEF BeginRead, Read, doParse, Open, ScanEnds, Stop
<1>2. ConnInv' /\ MasterExact' /\ Connections' = Connections
  BY <1>1, SameDescriptors
<1>3. \A x \in Fds : x \in Nat
  BY DEF Fds
<1>4. LoopInv' /\ BacklogInv'
  <2>1. CASE BeginRead
    <3>1. PICK fd \in Connections : At(fd) /\ i' = fd
      BY <2>1 DEF BeginRead
    <3>2. fd \in Fds /\ i <= fd /\ pc = "scan"
      BY <3>1 DEF At, Ready, Connections
    <3>3. LoopInv'
      BY <1>1, <1>2, <1>3, <3>1, <3>2 DEF LoopInv
    <3>4. BacklogInv'
      BY <1>1, <1>3, <3>1, <3>2 DEF BacklogInv, LoopInv
    <3> QED
      BY <3>3, <3>4
  <2>2. CASE Read \/ doParse
    BY <1>1, <1>2, <2>2 DEF Read, doParse, LoopInv, BacklogInv
  <2>3. CASE Open
    <3>1. i' = i + 1 /\ pc' = "scan" /\ pc = "open"
      BY <2>3 DEF Open, Next_i
    <3> QED
      BY <1>1, <1>3, <3>1 DEF LoopInv, BacklogInv
  <2>4. CASE ScanEnds \/ Stop
    BY <1>1, <1>2, <2>4 DEF ScanEnds, Stop, LoopInv, BacklogInv
  <2> QED
    BY <2>1, <2>2, <2>3, <2>4
<1> QED
  BY <1>2, <1>4

\* Devices and main touch no descriptor of the server.
LEMMA EnvironmentKeeps ==
    ASSUME IInv, Environment
    PROVE  IInv'
<1> USE DEF IInv
<1>1. UNCHANGED loop
  BY DEF Environment, Connects, BeginFrame, Arrives, Closes, Exit
<1>2. ConnInv' /\ MasterExact' /\ Connections' = Connections
  BY <1>1, SameDescriptors DEF loop
<1>3. LoopInv'
  BY <1>1, <1>2 DEF loop, LoopInv
<1>4. backlog' = backlog \/ \E p \in Peers : backlog' = Append(backlog, p)
  BY DEF Environment, Connects, BeginFrame, Arrives, Closes, Exit, devices
<1>5. BacklogInv'
  BY <1>1, <1>4 DEF loop, BacklogInv
<1> QED
  BY <1>2, <1>3, <1>5

\* ... and every step keeps it.
LEMMA NextIInv == IInv /\ [Next]_vars => IInv'
<1> SUFFICES ASSUME IInv, [Next]_vars PROVE IInv'
  OBVIOUS
<1>1. CASE ServerThread
  BY <1>1, SelectKeeps, AcceptKeeps, CloseConnectionKeeps, ReadingKeeps DEF ServerThread
<1>2. CASE Environment
  BY <1>2, EnvironmentKeeps
<1>3. CASE UNCHANGED vars
  <2>1. ConnInv' /\ MasterExact' /\ Connections' = Connections
    BY <1>3, SameDescriptors DEF vars, loop, IInv
  <2> QED
    BY <1>3, <2>1 DEF vars, loop, IInv, LoopInv, BacklogInv
<1> QED
  BY <1>1, <1>2, <1>3 DEF Next

\* LightningCastServer::handle keeps master equal to the open descriptors and
\* fdmax above them, whatever the devices do and however many there are.
THEOREM MasterAlwaysExact == Spec => []MasterExact
<1>1. IInv => MasterExact
  BY DEF IInv
<1> QED
  BY <1>1, InitIInv, NextIInv, PTL DEF Spec

\* So select() is never given a descriptor that is closed, and the thread does
\* not end the process.
NeverFails == pc # "failed"

\* handle never leaves its loop through the exit(1) of a failing select().
THEOREM SelectNeverFails == Spec => []NeverFails
<1>1. Init => NeverFails
  BY DEF Init, NeverFails
<1>2. IInv /\ NeverFails /\ [Next]_vars => NeverFails'
  <2> SUFFICES ASSUME IInv, NeverFails, [Next]_vars PROVE NeverFails'
    OBVIOUS
  <2>1. CASE Select
    BY <2>1 DEF Select, NeverFails, IInv, MasterExact
  <2>2. CASE ~Select
    BY <2>2 DEF NeverFails, Next, ServerThread, Environment, ScanEnds, Accept, Stop, BeginRead,
                Read, doParse, Open, CloseConnection, Next_i, Connects, BeginFrame, Arrives,
                Closes, Exit, loop, vars
  <2> QED
    BY <2>1, <2>2
<1> QED
  BY <1>1, <1>2, InitIInv, NextIInv, PTL DEF Spec
=============================================================================
