--------------------------- MODULE EndpointProofs ---------------------------
(***************************************************************************)
(* Theorems about the whole program: for any addresses, messages and       *)
(* failures it uses SnapcastComm only as SnapcastComm allows, so that what *)
(* is proved about SnapcastComm holds of the program; and what the client  *)
(* says about its session is true.                                         *)
(***************************************************************************)
EXTENDS Endpoint, FiniteSetTheorems, TLAPS

\* SnapcastComm with the theorems about it.
Proved == INSTANCE SnapcastCommProofs

-----------------------------------------------------------------------------
(* The threads                                                             *)

\* Adding one element to a set adds one to its cardinality at most.
LEMMA OneMore ==
    ASSUME NEW S, IsFiniteSet(S), NEW x
    PROVE  /\ IsFiniteSet(S \cup {x})
           /\ Cardinality(S \cup {x}) \in Nat
           /\ Cardinality(S \cup {x}) <= Cardinality(S) + 1
           /\ x \in S => Cardinality(S \cup {x}) = Cardinality(S)
<1>1. Cardinality(S) \in Nat
  BY FS_CardinalityType
<1>2. IsFiniteSet(S \cup {x})
  BY FS_AddElement
<1>3. Cardinality(S \cup {x}) = IF x \in S THEN Cardinality(S) ELSE Cardinality(S) + 1
  BY FS_AddElement
<1> QED
  BY <1>1, <1>2, <1>3

\* The four threads are four.
LEMMA Threads ==
    /\ Client # Server /\ Client # Main /\ Server # Main
    /\ Worker \notin Callers /\ IsFiniteSet(Callers)
<1>1. IsFiniteSet({}) /\ Cardinality({}) = 0
  BY FS_EmptySet
<1> DEFINE Three(a, b, c) == (({} \cup {a}) \cup {b}) \cup {c}
<1>2. ASSUME NEW a, NEW b, NEW c
      PROVE  /\ IsFiniteSet(Three(a, b, c)) /\ Cardinality(Three(a, b, c)) \in Nat
             /\ Cardinality(Three(a, b, c)) <= 3
             /\ a = b \/ a = c \/ b = c => Cardinality(Three(a, b, c)) <= 2
  <2>1. /\ IsFiniteSet({} \cup {a}) /\ Cardinality({} \cup {a}) \in Nat
        /\ Cardinality({} \cup {a}) <= 1
    BY <1>1, OneMore
  <2>2. /\ IsFiniteSet(({} \cup {a}) \cup {b}) /\ Cardinality(({} \cup {a}) \cup {b}) \in Nat
        /\ Cardinality(({} \cup {a}) \cup {b}) <= 2
        /\ a = b => Cardinality(({} \cup {a}) \cup {b}) <= 1
    BY <2>1, OneMore
  <2> QED
    BY <2>2, OneMore
<1> HIDE DEF Three
<1>3. {Client, Server, Main, Worker} = Three(Client, Server, Main) \cup {Worker}
      /\ Callers = Three(Client, Server, Main)
  BY DEF Three, Callers
<1>4. Cardinality(Three(Client, Server, Main) \cup {Worker}) = 4
  BY <1>3, DistinctThreads
<1>5. /\ Cardinality(Three(Client, Server, Main)) = 3
      /\ Worker \notin Three(Client, Server, Main)
  BY <1>2, <1>4, OneMore
<1>6. Client # Server /\ Client # Main /\ Server # Main
  BY <1>2, <1>5
<1> QED
  BY <1>2, <1>3, <1>5, <1>6

-----------------------------------------------------------------------------
(* SnapcastComm and its theorems: Snap, which Endpoint composes, is Proved *)

LEMMA SnapcastAssumptions ==
    Proved!ThreadsAssumption /\ Proved!ServersAssumption /\ Proved!FaultsAssumption
BY Threads, PlayerAssumption DEF IsFiniteSet, Proved!IsFiniteSet

LEMMA SameWorker == Snap!WorkerStep => Proved!WorkerStep
BY DEF Snap!WorkerStep, Proved!WorkerStep, Snap!Handle, Proved!Handle, Snap!HandleNone,
   Proved!HandleNone, Snap!HandleClose, Proved!HandleClose, Snap!HandleExit,
   Proved!HandleExit, Snap!HandleOpen, Proved!HandleOpen, Snap!CreateSocket,
   Proved!CreateSocket, Snap!connectServer, Proved!connectServer, Snap!LockfinishCmd,
   Proved!LockfinishCmd, Snap!LoopTest, Proved!LoopTest, Snap!Select, Proved!Select,
   Snap!doParse, Proved!doParse, Snap!doReadFails, Proved!doReadFails, Snap!EndOpen,
   Proved!EndOpen, Snap!Runs, Proved!Runs, Snap!Sleep, Proved!Sleep, Snap!finishCmd,
   Proved!finishCmd, Snap!Notify, Proved!Notify, Snap!Readable, Proved!Readable,
   Snap!CloseFd, Proved!CloseFd, Snap!mailbox, Proved!mailbox, Snap!answer,
   Proved!answer, Snap!link, Proved!link, Snap!player, Proved!player

LEMMA SameCalls ==
    ASSUME NEW t, NEW ip
    PROVE  /\ Snap!CallStarts(t) => Proved!CallStarts(t)
           /\ Snap!InCall(t, ip) => Proved!InCall(t, ip)
BY DEF Snap!CallStarts, Proved!CallStarts, Snap!doPlay, Proved!doPlay, Snap!Open,
   Proved!Open, Snap!doStop, Proved!doStop, Snap!Exit, Proved!Exit, Snap!InCall,
   Proved!InCall, Snap!OpenReturns, Proved!OpenReturns, Snap!sendStart,
   Proved!sendStart, Snap!sendStop, Proved!sendStop, Snap!processSend,
   Proved!processSend, Snap!LockWait, Proved!LockWait, Snap!StartReturns,
   Proved!StartReturns, Snap!Close, Proved!Close, Snap!CloseReturns,
   Proved!CloseReturns, Snap!WaitSync, Proved!WaitSync, Snap!Goto, Proved!Goto,
   Snap!Post, Proved!Post, Snap!Notify, Proved!Notify, Snap!mailbox, Proved!mailbox,
   Snap!answer, Proved!answer, Snap!link, Proved!link, Snap!player, Proved!player

LEMMA SameEnvironment == Snap!Environment => Proved!Environment
BY DEF Snap!Environment, Proved!Environment, Snap!SpuriousWakeup, Proved!SpuriousWakeup,
   Snap!SelectFails, Proved!SelectFails, Snap!PlayerListens, Proved!PlayerListens,
   Snap!PlayerAnswers, Proved!PlayerAnswers, Snap!PlayerCrashes,
   Proved!PlayerCrashes, Snap!PlayerSendsGarbage, Proved!PlayerSendsGarbage,
   Snap!Fault, Proved!Fault, Snap!mailbox, Proved!mailbox, Snap!answer,
   Proved!answer, Snap!link, Proved!link, Snap!player, Proved!player

LEMMA SameVars == UNCHANGED Snap!vars => UNCHANGED Proved!vars
BY DEF Snap!vars, Proved!vars, Snap!mailbox, Proved!mailbox, Snap!answer, Proved!answer,
   Snap!link, Proved!link, Snap!player, Proved!player

LEMMA SameType == Snap!TypeOK <=> Proved!TypeOK
BY DEF Snap!TypeOK, Proved!TypeOK, Snap!SNAPCASTThreadCmd, Proved!SNAPCASTThreadCmd,
   Snap!CallerPc, Proved!CallerPc, Snap!WorkerPc, Proved!WorkerPc, Snap!Request,
   Proved!Request, Snap!Receipt, Proved!Receipt

\* A behaviour of Snap is one of Proved.
LEMMA SameSpec == Snap!Spec => Proved!Spec
<1>1. Snap!Init => Proved!Init
  BY DEF Snap!Init, Proved!Init
<1>2. Snap!Next => Proved!Next
  BY SameWorker, SameCalls, SameEnvironment DEF Snap!Next, Proved!Next
<1> QED
  BY <1>1, <1>2, SameVars, PTL DEF Snap!Spec, Proved!Spec

\* The types of SnapcastComm's variables are kept by its steps.
LEMMA SnapcastTypes ==
    /\ Snap!Init => Snap!TypeOK
    /\ Snap!TypeOK /\ (Snap!Next \/ UNCHANGED Snap!vars) => Snap!TypeOK'
<1> USE SnapcastAssumptions
<1>1. Proved!Init => Proved!TypeOK
  BY Proved!TypeInit
<1>2. ASSUME Proved!TypeOK, Snap!Next PROVE Proved!TypeOK'
  <2>1. CASE Snap!WorkerStep
    BY <1>2, <2>1, SameWorker, Proved!TypeWorker
  <2>2. ASSUME NEW t \in Callers, Snap!CallStarts(t) PROVE Proved!TypeOK'
    BY <1>2, <2>2, SameCalls, Proved!TypeCallStarts
  <2>3. ASSUME NEW t \in Callers, NEW ip \in Servers, Snap!InCall(t, ip) PROVE Proved!TypeOK'
    BY <1>2, <2>3, SameCalls, Proved!TypeInCall
  <2>4. CASE Snap!Environment
    BY <1>2, <2>4, SameEnvironment, Proved!TypeEnvironment
  <2> QED
    BY <1>2, <2>1, <2>2, <2>3, <2>4 DEF Snap!Next
<1>3. Snap!Init => Proved!Init
  BY DEF Snap!Init, Proved!Init
<1>4. UNCHANGED Snap!vars /\ Snap!TypeOK => Snap!TypeOK'
  BY DEF Snap!vars, Snap!mailbox, Snap!answer, Snap!link, Snap!player, Snap!TypeOK
<1>5. Snap!TypeOK' <=> Proved!TypeOK'
  BY SameType, PTL
<1> QED
  BY <1>1, <1>2, <1>3, <1>4, <1>5, SameType

-----------------------------------------------------------------------------
(* The program steps as SnapcastComm may                                   *)

\* The server thread is in Open exactly while it handles an open message, and
\* main is in Exit only once the user has quit.
CallInv ==
    /\ spc = "open" <=> upc[Server] # "out"
    /\ mpc = "keys" => upc[Main] = "out"

\* There is an address before anybody can need one: without one there has been
\* no session, and nobody is inside SnapcastComm.
AddressInv ==
    /\ upc[Server] # "out" => request \in Servers
    /\ \/ serverIP \in Servers
       \/ /\ ~is_open /\ cpc \in {"handle", "wait", "exited"} /\ client_cmd # "OPEN"
          /\ \A t \in Callers : pc[t] \in {"out", "exit"}

Base == TypeOK /\ CallInv /\ AddressInv

LEMMA InitBase == Init => Base
<1> SUFFICES ASSUME Init PROVE Base
  OBVIOUS
<1>1. Snap!TypeOK
  BY SnapcastTypes DEF Init
<1>2. ClientTypeOK
  BY DEF Init, ClientInit, ClientTypeOK, LightningCastClientCmd, ClientPc, UserPc
<1>3. CallInv /\ AddressInv
  BY DEF Init, ClientInit, Snap!Init, CallInv, AddressInv, Users
<1> QED
  BY <1>1, <1>2, <1>3 DEF Base, TypeOK, Init, ServerPc, MainPc

\* A thread is only inside SnapcastComm if there is an address, so whatever it
\* does there is a step SnapcastComm has.
LEMMA CallStep ==
    ASSUME Base, NEW t \in Callers, SnapcastCall(t)
    PROVE  Snap!Next /\ serverIP \in Servers
<1>1. Snap!InCall(t, serverIP)
  BY DEF SnapcastCall
<1>2. pc[t] \notin {"out", "exit"}
  BY <1>1 DEF Snap!InCall, Snap!OpenReturns, Snap!sendStart, Snap!sendStop, Snap!LockWait,
     Snap!StartReturns, Snap!Close, Snap!CloseReturns
<1>3. serverIP \in Servers
  BY <1>2 DEF Base, AddressInv
<1> QED
  BY <1>1, <1>3 DEF Snap!Next

LEMMA SameSnapcast == UNCHANGED snapcast => UNCHANGED Snap!vars
BY DEF snapcast, Snap!vars, Snap!mailbox, Snap!answer, Snap!link, Snap!player

\* What every step does to SnapcastComm.
LEMMA SnapcastStep ==
    ASSUME Base, Next
    PROVE  Snap!Next \/ UNCHANGED Snap!vars
<1> USE SameSnapcast
<1>1. CASE SnapcastThread
  BY <1>1 DEF SnapcastThread, Snap!Next
<1>2. ASSUME NEW t \in Callers, SnapcastCall(t) PROVE Snap!Next
  BY <1>2, CallStep
<1>3. ASSUME NEW t \in Callers, Snap!doPlay(t) \/ Snap!doStop(t) \/ Snap!Exit(t) PROVE Snap!Next
  BY <1>3 DEF Snap!Next, Snap!CallStarts
<1>4. Client \in Callers /\ Server \in Callers /\ Main \in Callers
  BY DEF Callers
<1>5. CASE ClientThread
  BY <1>2, <1>3, <1>4, <1>5 DEF ClientThread, ClientStep, HandleNone, HandleClose, HandleExit,
     HandleOpen, connectServer, setIsOpen, LockfinishCmd, LoopTest, SelectReturns, doParse,
     doPlay, doStop, doSet, doReadFails, Handled, StopSnapcast, CloseFd
<1>6. ASSUME NEW t \in {Server, Main}, UserStep(t) PROVE Snap!Next \/ UNCHANGED snapcast
  BY <1>3, <1>4, <1>6 DEF UserStep, getIsOpen, Close, SleepAgain, CloseReturns
<1>7. CASE ServerThread
  BY <1>2, <1>4, <1>6, <1>7 DEF ServerThread, Open, OpenReturns, ServerReplies, ServerStops
<1>8. CASE MainThread
  BY <1>2, <1>3, <1>4, <1>6, <1>8 DEF MainThread, Exit, SnapcastExit, ServerExit, Join
<1>9. CASE Environment
  BY <1>9 DEF Environment, Snap!Next, ClientSpuriousWakeup, ServerOpens, MainQuits
<1> QED
  BY <1>1, <1>5, <1>7, <1>8, <1>9 DEF Next

\* The steps of the program as its own variables see them.
OtherStep ==
    \/ Open \/ OpenReturns \/ Exit \/ ClientSpuriousWakeup
    \/ \E t \in Users : UserStep(t)

ProcessStep ==
    \/ ServerReplies \/ ServerStops \/ SnapcastExit \/ ServerExit \/ Join \/ MainQuits
    \/ \E ip \in Servers : ServerOpens(ip)

LEMMA StepCases ==
    ASSUME Next
    PROVE  \/ UNCHANGED <<client, process>>
           \/ ClientStep /\ UNCHANGED process
           \/ OtherStep /\ UNCHANGED process
           \/ ProcessStep
BY DEF Next, SnapcastThread, ClientThread, ServerThread, MainThread, Environment, SnapcastCall,
   OtherStep, ProcessStep, Users

\* notify_one() puts nobody to sleep.
LEMMA Finishes ==
    ASSUME finishCmd
    PROVE  client_cmd' = "NONE" /\ client_ready_sync' = TRUE /\ clientSync' \subseteq clientSync
BY DEF finishCmd, Snap!Notify

LEMMA ClientStepTypes ==
    ASSUME ClientTypeOK, ClientStep
    PROVE  ClientTypeOK'
<1> USE DEF ClientTypeOK, LightningCastClientCmd, ClientPc, mailbox, casting, calls
<1>1. CASE HandleNone
  BY <1>1 DEF HandleNone, Runs, Sleep
<1>2. CASE HandleClose
  BY <1>2, Finishes DEF HandleClose, Runs, Sleep
<1>3. CASE HandleExit
  BY <1>3, Finishes DEF HandleExit, Runs, Sleep
<1>4. CASE HandleOpen
  BY <1>4 DEF HandleOpen, Runs, Sleep
<1>A. CASE connectServer
  BY <1>A DEF connectServer
<1>B. CASE setIsOpen
  <2>1. is_open' \in BOOLEAN /\ cpc' \in ClientPc
    BY <1>B DEF setIsOpen
  <2>2. UNCHANGED <<mailbox, serverIP, client_fd, client_wake, session, calls>>
    BY <1>B DEF setIsOpen
  <2> QED
    BY <2>1, <2>2
<1>C. CASE LoopTest
  BY <1>C DEF LoopTest
<1>D. CASE SelectReturns
  BY ZenonT(40), <1>D DEF SelectReturns
<1>5. CASE LockfinishCmd
  BY <1>5, Finishes DEF LockfinishCmd
<1>6. CASE doParse
  BY <1>6 DEF doParse, doPlay, doStop, doSet, Scan
<1>7. CASE doReadFails
  BY <1>7 DEF doReadFails, Scan
<1>8. CASE Handled \/ StopSnapcast
  BY <1>8 DEF Handled, StopSnapcast
<1>9. CASE CloseFd
  BY <1>9 DEF CloseFd
<1> QED
  BY <1>1, <1>2, <1>3, <1>4, <1>5, <1>6, <1>7, <1>8, <1>9, <1>A, <1>B, <1>C, <1>D DEF ClientStep

LEMMA OtherStepTypes ==
    ASSUME ClientTypeOK, OtherStep
    PROVE  ClientTypeOK'
<1> USE DEF ClientTypeOK, mailbox, casting, calls, Return
<1>1. CASE Open
  BY <1>1 DEF Open, Post, LightningCastClientCmd, UserPc, Users
<1>4. CASE OpenReturns
  BY <1>4 DEF OpenReturns, UserPc, Users
<1>5. CASE Exit
  BY <1>5 DEF Exit, Post, LightningCastClientCmd, UserPc, Users
<1>2. CASE ClientSpuriousWakeup
  BY <1>2 DEF ClientSpuriousWakeup
<1>3. ASSUME NEW t \in Users, UserStep(t) PROVE ClientTypeOK'
  <2>1. CASE getIsOpen(t)
    BY <2>1 DEF getIsOpen, UserPc
  <2>2. CASE Close(t)
    BY <2>2 DEF Close, Post, LightningCastClientCmd, UserPc
  <2>3. CASE SleepAgain(t)
    BY <2>3 DEF SleepAgain
  <2>4. CASE CloseReturns(t)
    BY <2>4 DEF CloseReturns, UserPc
  <2> QED
    BY <1>3, <2>1, <2>2, <2>3, <2>4 DEF UserStep
<1> QED
  BY <1>1, <1>2, <1>3, <1>4, <1>5 DEF OtherStep

\* A step that moves one calling thread, and at most its request, keeps the client's types.
LEMMA CallerMoves ==
    ASSUME ClientTypeOK, NEW t \in Users, NEW p \in UserPc,
           upc' = [upc EXCEPT ![t] = p], request' \in Servers \cup {NoServer},
           UNCHANGED <<mailbox, casting, cpc, opened>>
    PROVE  ClientTypeOK'
<1>1. upc' \in [Users -> UserPc]
  <2>1. upc \in [Users -> UserPc]
    BY DEF ClientTypeOK
  <2> QED
    BY <2>1
<1>2. {serverIP', request', session'} \subseteq Servers \cup {NoServer}
  BY DEF ClientTypeOK, mailbox, casting
<1> QED
  BY <1>1, <1>2 DEF ClientTypeOK, mailbox, casting

LEMMA ProcessStepTypes ==
    ASSUME ClientTypeOK, spc \in ServerPc, mpc \in MainPc, server_wake \in BOOLEAN, ProcessStep
    PROVE  ClientTypeOK' /\ spc' \in ServerPc /\ mpc' \in MainPc /\ server_wake' \in BOOLEAN
<1> USE DEF ServerPc, MainPc
<1>0. Server \in Users /\ Main \in Users /\ request \in Servers \cup {NoServer}
  BY DEF Users, ClientTypeOK
<1>1. CASE ServerReplies
  <2>1. spc' \in ServerPc /\ UNCHANGED <<mpc, server_wake>>
    BY <1>1 DEF ServerReplies
  <2>2. /\ upc' = [upc EXCEPT ![Server] = "out"]
        /\ UNCHANGED <<mailbox, casting, cpc, request, opened>>
    BY <1>1 DEF ServerReplies, Return
  <2>3. ClientTypeOK'
    BY <1>0, <2>2, CallerMoves DEF UserPc
  <2> QED
    BY <2>1, <2>3
<1>2. CASE ServerStops \/ SnapcastExit \/ ServerExit \/ Join
  <2>1. UNCHANGED client
    BY <1>2 DEF ServerStops, SnapcastExit, ServerExit, Join, client, mailbox, casting, calls
  <2>2. ClientTypeOK'
    BY <2>1 DEF ClientTypeOK, client, mailbox, casting, calls
  <2> QED
    BY <1>2, <2>2 DEF ServerStops, SnapcastExit, ServerExit, Join
<1>3. CASE MainQuits
  <2>1. mpc' \in MainPc /\ UNCHANGED <<spc, server_wake>>
    BY <1>3 DEF MainQuits
  <2>2. /\ upc' = [upc EXCEPT ![Main] = "check"]
        /\ UNCHANGED <<mailbox, casting, cpc, request, opened>>
    BY <1>3 DEF MainQuits, Return
  <2>3. ClientTypeOK'
    BY <1>0, <2>2, CallerMoves DEF UserPc
  <2> QED
    BY <2>1, <2>3
<1>4. ASSUME NEW ip \in Servers, ServerOpens(ip)
      PROVE  ClientTypeOK' /\ spc' \in ServerPc /\ mpc' \in MainPc /\ server_wake' \in BOOLEAN
  <2>1. spc' \in ServerPc /\ UNCHANGED <<mpc, server_wake>>
    BY <1>4 DEF ServerOpens
  <2>2. /\ upc' = [upc EXCEPT ![Server] = "check"] /\ request' = ip
        /\ UNCHANGED <<mailbox, casting, cpc, opened>>
    BY <1>4 DEF ServerOpens, Return
  <2>3. ClientTypeOK'
    BY <1>0, <2>2, CallerMoves DEF UserPc
  <2> QED
    BY <2>1, <2>3
<1> QED
  BY <1>1, <1>2, <1>3, <1>4 DEF ProcessStep

\* Every variable of the program keeps its type.
LEMMA NextTypes ==
    ASSUME Base, Next
    PROVE  TypeOK'
<1>1. Snap!TypeOK'
  BY SnapcastStep, SnapcastTypes DEF Base, TypeOK
<1>2. ClientTypeOK' /\ spc' \in ServerPc /\ mpc' \in MainPc /\ server_wake' \in BOOLEAN
  <2> USE DEF Base, TypeOK
  <2>1. CASE UNCHANGED <<client, process>>
    BY <2>1 DEF ClientTypeOK, client, mailbox, casting, calls, process
  <2> QED
    BY <2>1, StepCases, ClientStepTypes, OtherStepTypes, ProcessStepTypes DEF process
<1> QED
  BY <1>1, <1>2 DEF TypeOK

\* Without an address nobody enters SnapcastComm, and only main leaves it.
LEMMA NobodyInside ==
    ASSUME Base, Next, serverIP \notin Servers
    PROVE  \A t \in Callers : pc'[t] \in {"out", "exit"}
<1>1. /\ ~is_open /\ cpc \in {"handle", "wait", "exited"}
      /\ \A t \in Callers : pc[t] \in {"out", "exit"}
  BY DEF Base, AddressInv
<1>2. ASSUME NEW t \in Callers PROVE ~SnapcastCall(t)
  BY CallStep
<1>3. CASE UNCHANGED pc
  BY <1>1, <1>3
<1>4. CASE SnapcastThread \/ Snap!Environment
  BY <1>3, <1>4 DEF SnapcastThread, Snap!WorkerStep, Snap!Handle, Snap!HandleNone, Snap!HandleClose,
     Snap!HandleExit, Snap!HandleOpen, Snap!CreateSocket, Snap!connectServer,
     Snap!LockfinishCmd, Snap!LoopTest, Snap!Select, Snap!doParse, Snap!doReadFails,
     Snap!EndOpen, Snap!Environment, Snap!SpuriousWakeup, Snap!SelectFails,
     Snap!PlayerListens, Snap!PlayerAnswers, Snap!PlayerCrashes, Snap!PlayerSendsGarbage
<1>5. CASE ClientStep
  BY <1>1, <1>3, <1>5 DEF ClientStep, HandleNone, HandleClose, HandleExit, HandleOpen,
     connectServer, setIsOpen, LockfinishCmd, LoopTest, SelectReturns, doParse, doPlay, doStop,
     doSet, doReadFails, Handled, StopSnapcast, CloseFd, Scan, snapcast
<1>6. CASE OtherStep
  BY <1>1, <1>3, <1>6 DEF OtherStep, Open, OpenReturns, Exit, ClientSpuriousWakeup, UserStep,
     getIsOpen, Close, SleepAgain, CloseReturns, snapcast
<1>7. CASE SnapcastExit
  BY <1>1, <1>7 DEF SnapcastExit, Snap!Exit, Snap!Goto, Base, TypeOK, Snap!TypeOK
<1>8. CASE ProcessStep /\ ~SnapcastExit
  BY <1>3, <1>8 DEF ProcessStep, ServerReplies, ServerStops, ServerExit, Join, MainQuits,
     ServerOpens, snapcast
<1> QED
  BY <1>2, <1>4, <1>5, <1>6, <1>7, <1>8 DEF Next, SnapcastThread, ClientThread, ServerThread,
     MainThread, Environment, OtherStep, ProcessStep, Users, Callers

LEMMA UserTypes ==
    ASSUME Base
    PROVE  upc \in [Users -> UserPc] /\ Server \in Users /\ Main \in Users /\ Server # Main
BY Threads DEF Base, TypeOK, ClientTypeOK, Users

LEMMA CallKept ==
    ASSUME Base, Next
    PROVE  CallInv'
<1> USE DEF Base, CallInv
<1>1. CASE UNCHANGED <<client, process>>
  BY <1>1 DEF client, calls, process
<1>2. CASE ClientStep /\ UNCHANGED process
  <2>1. UNCHANGED calls
    BY <1>2 DEF ClientStep, HandleNone, HandleClose, HandleExit, HandleOpen, connectServer,
       setIsOpen, LockfinishCmd, LoopTest, SelectReturns, doParse, doPlay, doStop, doSet,
       doReadFails, Handled, StopSnapcast, CloseFd
  <2> QED
    BY <1>2, <2>1 DEF calls, process
<1>3. CASE OtherStep /\ UNCHANGED process
  BY <1>3, UserTypes DEF OtherStep, Open, OpenReturns, Exit, ClientSpuriousWakeup, UserStep,
     getIsOpen, Close, SleepAgain, CloseReturns, Return, process, calls, UserPc, Users
<1>4. CASE ProcessStep
  BY <1>4, UserTypes DEF ProcessStep, ServerReplies, ServerStops, SnapcastExit, ServerExit,
     Join, MainQuits, ServerOpens, Return, client, calls, UserPc
<1> QED
  BY <1>1, <1>2, <1>3, <1>4, StepCases

LEMMA AddressKept ==
    ASSUME Base, Next
    PROVE  AddressInv'
<1>1. upc'[Server] # "out" => request' \in Servers
  <2> USE DEF Base, CallInv, AddressInv
  <2>1. CASE UNCHANGED calls
    BY <2>1 DEF calls
  <2>2. CASE OtherStep
    BY <2>2, UserTypes DEF OtherStep, Open, OpenReturns, Exit, ClientSpuriousWakeup, UserStep,
       getIsOpen, Close, SleepAgain, CloseReturns, Return, calls, Users, UserPc
  <2>3. CASE ProcessStep
    BY <2>3, UserTypes DEF ProcessStep, ServerReplies, ServerStops, SnapcastExit, ServerExit,
       Join, MainQuits, ServerOpens, Return, client, calls
  <2>4. ClientStep => UNCHANGED calls
    BY DEF ClientStep, HandleNone, HandleClose, HandleExit, HandleOpen, connectServer,
       setIsOpen, LockfinishCmd, LoopTest, SelectReturns, doParse, doPlay, doStop, doSet,
       doReadFails, Handled, StopSnapcast, CloseFd
  <2> QED
    BY <2>1, <2>2, <2>3, <2>4, StepCases DEF client
<1>2. serverIP \in Servers => serverIP' \in Servers
  <2> USE DEF casting
  <2>1. CASE Open
    BY <2>1, UserTypes DEF Open, Base, AddressInv
  <2>2. CASE ClientStep
    BY <2>2 DEF ClientStep, HandleNone, HandleClose, HandleExit, HandleOpen, connectServer,
       setIsOpen, LockfinishCmd, LoopTest, SelectReturns, doParse, doPlay, doStop, doSet,
       doReadFails, Handled, StopSnapcast, CloseFd
  <2>3. CASE OtherStep /\ ~Open
    BY <2>3 DEF OtherStep, OpenReturns, Exit, ClientSpuriousWakeup, UserStep, getIsOpen, Close,
       SleepAgain, CloseReturns
  <2>4. CASE ProcessStep
    BY <2>4 DEF ProcessStep, ServerReplies, ServerStops, SnapcastExit, ServerExit, Join,
       MainQuits, ServerOpens, client
  <2> QED
    BY <2>1, <2>2, <2>3, <2>4, StepCases DEF client
<1>3. ASSUME serverIP \notin Servers
      PROVE  \/ serverIP' \in Servers
             \/ ~is_open' /\ cpc' \in {"handle", "wait", "exited"} /\ client_cmd' # "OPEN"
  <2> USE DEF mailbox, casting, calls
  <2>1. ~is_open /\ cpc \in {"handle", "wait", "exited"} /\ client_cmd # "OPEN"
        /\ \A t \in Callers : pc[t] \in {"out", "exit"}
    BY <1>3 DEF Base, AddressInv
  <2>2. CASE Open
    BY <2>2, UserTypes DEF Open, Base, AddressInv
  <2>3. CASE ClientStep
    BY <2>1, <2>3, Finishes DEF ClientStep, HandleNone, HandleClose, HandleExit, HandleOpen, Sleep,
       Runs, connectServer, setIsOpen, LockfinishCmd, LoopTest, SelectReturns, doParse, doPlay,
       doStop, doSet, doReadFails, Scan, Handled, StopSnapcast, CloseFd
  <2>4. CASE OtherStep /\ ~Open
    BY <2>1, <2>4 DEF OtherStep, OpenReturns, Exit, ClientSpuriousWakeup, UserStep, getIsOpen,
       Close, SleepAgain, CloseReturns, Post
  <2>5. CASE ProcessStep
    BY <2>1, <2>5 DEF ProcessStep, ServerReplies, ServerStops, SnapcastExit, ServerExit, Join,
       MainQuits, ServerOpens, client
  <2> QED
    BY <2>1, <2>2, <2>3, <2>4, <2>5, StepCases DEF client
<1> QED
  BY <1>1, <1>2, <1>3, NobodyInside DEF AddressInv

LEMMA NextBase == Base /\ [Next]_vars => Base'
<1>1. Base /\ Next => Base'
  BY NextTypes, CallKept, AddressKept DEF Base
<1>2. Base /\ UNCHANGED vars => Base'
  BY DEF Base, TypeOK, CallInv, AddressInv, Snap!TypeOK, ClientTypeOK, vars, snapcast, client,
     mailbox, casting, calls, process
<1> QED
  BY <1>1, <1>2

LEMMA BaseHolds == Spec => []Base
BY InitBase, NextBase, PTL DEF Spec

\* The client, the server and main keep every variable within its type.
THEOREM TypeCorrect == Spec => []TypeOK
<1>1. Base => TypeOK
  BY DEF Base
<1> QED
  BY <1>1, BaseHolds, PTL

\* The threads of the program call SnapcastComm only as it lets its callers: one
\* call at a time each, with an address to play from, whatever Android sends,
\* whatever fails and whenever the user quits.
THEOREM Refinement == Spec => ImplementsSnapcastComm
<1>1. Init => Snap!Init
  BY DEF Init
<1>2. Base /\ [Next]_vars => [Snap!Next]_(Snap!vars)
  <2>1. UNCHANGED vars => UNCHANGED Snap!vars
    BY SameSnapcast DEF vars
  <2> QED
    BY <2>1, SnapcastStep
<1> QED
  BY <1>1, <1>2, BaseHolds, PTL DEF ImplementsSnapcastComm, Spec, Snap!Spec

\* So what is proved about SnapcastComm for any callers holds in the program.
\* No thread spins in its mailbox, no receipt is left over for a later request,
\* and the socket to the player is closed whenever do_open has returned.
THEOREM Inherited == Spec => [](Snap!SpinFree /\ Snap!NoStaleReceipt /\ Snap!DescriptorInv)
<1> USE SnapcastAssumptions
<1>1. Spec => Proved!Spec
  BY Refinement, SameSpec, PTL DEF ImplementsSnapcastComm
<1>2. Proved!Spec => []Proved!SpinFree
  BY Proved!NeverSpins
<1>3. Proved!Spec => []Proved!NoStaleReceipt
  BY Proved!NeverStale
<1>4. Proved!Spec => []Proved!DescriptorInv
  BY Proved!DescriptorOwned
<1>5. Proved!SpinFree => Snap!SpinFree
  BY DEF Proved!SpinFree, Snap!SpinFree
<1>6. Proved!NoStaleReceipt => Snap!NoStaleReceipt
  BY DEF Proved!NoStaleReceipt, Snap!NoStaleReceipt, Proved!Genuine, Snap!Genuine,
     Proved!Waiting, Snap!Waiting, Proved!Cardinality, Snap!Cardinality,
     Proved!IsFiniteSet, Snap!IsFiniteSet
<1>7. Proved!DescriptorInv => Snap!DescriptorInv
  BY DEF Proved!DescriptorInv, Snap!DescriptorInv, Proved!InDoOpen, Snap!InDoOpen
<1> QED
  BY <1>1, <1>2, <1>3, <1>4, <1>5, <1>6, <1>7, PTL
-----------------------------------------------------------------------------
(* The sessions                                                            *)

\* do_open from the attempt to connect until the command is finished.
Opening == {"connect", "setOpen", "setClosed", "finish", "finishFailed"}

\* The loop of do_open, up to the setIsOpen at its end.
Live == {"loop", "select", "busy", "leave"}

\* What a step of the client thread is: one of the steps that deal with a command,
\* or one that only moves through the loop of do_open or to its end.
LEMMA ClientCases ==
    ASSUME ClientStep
    PROVE  /\ UNCHANGED calls
           /\ \/ HandleNone \/ HandleClose \/ HandleExit \/ HandleOpen
              \/ connectServer \/ setIsOpen \/ LockfinishCmd
              \/ /\ \/ cpc \in {"loop", "select", "busy"} /\ cpc' \in Live
                    \/ cpc \in {"busy", "stop", "stopping", "close"}
                       /\ cpc' \in {"loop", "stopping", "close", "handle"}
                       /\ (cpc = "busy" <=> cpc' = "loop")
                 /\ UNCHANGED <<client_cmd, client_ready_sync, is_open, serverIP, session>>
<1> USE DEF mailbox, casting, calls, Live
<1>1. CASE HandleNone \/ HandleClose \/ HandleExit \/ HandleOpen
  BY <1>1 DEF HandleNone, HandleClose, HandleExit, HandleOpen
<1>2. CASE connectServer \/ setIsOpen \/ LockfinishCmd
  BY <1>2 DEF connectServer, setIsOpen, LockfinishCmd
<1>3. CASE LoopTest \/ SelectReturns
  BY <1>3 DEF LoopTest, SelectReturns
<1>4. CASE doParse \/ doReadFails
  BY <1>4 DEF doParse, doPlay, doStop, doSet, doReadFails, Scan
<1>5. CASE Handled \/ StopSnapcast \/ CloseFd
  BY <1>5 DEF Handled, StopSnapcast, CloseFd
<1> QED
  BY <1>1, <1>2, <1>3, <1>4, <1>5 DEF ClientStep

-----------------------------------------------------------------------------
(* The answer to Open                                                      *)

\* The client works on an OPEN only while the server waits for it, and then on
\* the request it waits for; so what is_open says to the server is said of it.
\* A slot that has been finished shows that no attempt is under way.
AnswerInv ==
    /\ client_cmd = "OPEN" => upc[Server] = "openWait"
    /\ cpc \in Opening => upc[Server] = "openWait" /\ client_cmd # "NONE"
    /\ upc[Server] = "openWait" => serverIP = request
    /\ cpc \in {"setOpen", "finish"} => session = request
    /\ upc[Server] = "openWait" /\ is_open => session = request
    /\ ReplyTruthful

LEMMA AnswerClient ==
    ASSUME AnswerInv, ClientStep
    PROVE  AnswerInv'
<1> USE DEF AnswerInv, ReplyTruthful, Opening
<1>1. UNCHANGED calls
  BY ClientCases
<1>2. CASE HandleNone \/ HandleClose \/ HandleExit
  <2>1. /\ client_cmd' \in {client_cmd, "NONE"} /\ cpc' \in {"wait", "exited"}
        /\ UNCHANGED <<is_open, serverIP, session>>
    BY <1>2, Finishes DEF HandleNone, HandleClose, HandleExit, Sleep, casting
  <2> QED
    BY <1>1, <2>1 DEF calls
<1>6. CASE HandleOpen
  BY <1>1, <1>6 DEF HandleOpen, casting, calls
<1>3. CASE connectServer
  BY <1>1, <1>3 DEF connectServer, mailbox, calls
<1>4. CASE setIsOpen
  BY <1>1, <1>4 DEF setIsOpen, mailbox, calls
<1>5. CASE LockfinishCmd
  BY <1>1, <1>5, Finishes DEF LockfinishCmd, casting, calls
<1> QED
  BY <1>1, <1>2, <1>3, <1>4, <1>5, <1>6, ClientCases DEF calls, Live

LEMMA AnswerKept ==
    ASSUME Base, AnswerInv, Next
    PROVE  AnswerInv'
<1>1. CASE UNCHANGED <<client, process>>
  BY <1>1 DEF AnswerInv, ReplyTruthful, client, mailbox, casting, calls
<1>2. CASE ClientStep
  BY <1>2, AnswerClient
<1>3. CASE OtherStep
  <2> USE UserTypes DEF AnswerInv, ReplyTruthful, Opening, Return, mailbox, casting, calls
  <2>1. CASE Open
    BY <2>1 DEF Open, Post
  <2>2. CASE OpenReturns
    BY <2>2 DEF OpenReturns, Awake
  <2>3. CASE Exit \/ ClientSpuriousWakeup
    BY <2>3 DEF Exit, ClientSpuriousWakeup, Post
  <2>4. ASSUME NEW t \in Users, UserStep(t) PROVE AnswerInv'
    BY <2>4 DEF UserStep, getIsOpen, Close, SleepAgain, CloseReturns, Post
  <2> QED
    BY <1>3, <2>1, <2>2, <2>3, <2>4 DEF OtherStep
<1>4. CASE ProcessStep
  <2> USE DEF AnswerInv, ReplyTruthful, client, mailbox, casting, calls
  <2>1. CASE ServerReplies \/ MainQuits
    BY <2>1, UserTypes DEF ServerReplies, MainQuits, Return
  <2>2. CASE ServerStops \/ SnapcastExit \/ ServerExit \/ Join
    BY <2>2 DEF ServerStops, SnapcastExit, ServerExit, Join
  <2>3. ASSUME NEW ip \in Servers, ServerOpens(ip) PROVE AnswerInv'
    <3>1. spc = "select" /\ upc' = [upc EXCEPT ![Server] = "check"]
          /\ UNCHANGED <<client_cmd, is_open, session, cpc>>
      BY <2>3 DEF ServerOpens, Return
    <3>2. upc[Server] = "out" /\ upc'[Server] = "check"
      BY <3>1, UserTypes DEF Base, CallInv
    <3> QED
      BY <3>1, <3>2 DEF Opening
  <2> QED
    BY <1>4, <2>1, <2>2, <2>3 DEF ProcessStep
<1> QED
  BY <1>1, <1>2, <1>3, <1>4, StepCases

LEMMA AnswerHolds == Spec => []AnswerInv
<1>1. Init => AnswerInv
  BY UserTypes, InitBase DEF Init, ClientInit, AnswerInv, ReplyTruthful, Opening
<1>2. Base /\ AnswerInv /\ [Next]_vars => AnswerInv'
  <2>1. AnswerInv /\ UNCHANGED vars => AnswerInv'
    BY DEF AnswerInv, ReplyTruthful, vars, client, mailbox, casting, calls
  <2> QED
    BY <2>1, AnswerKept
<1> QED
  BY <1>1, <1>2, BaseHolds, PTL DEF Spec

\* IsOpen 1 is only sent for an address that the client has connected to for
\* that very request, although main may post over the server's command.
THEOREM AnswersTruthfully == Spec => []ReplyTruthful
<1>1. AnswerInv => ReplyTruthful
  BY DEF AnswerInv
<1> QED
  BY <1>1, AnswerHolds, PTL

-----------------------------------------------------------------------------
(* What getIsOpen says                                                     *)

\* is_open is never set without a session.
SpanInv == is_open => cpc \in {"finish"} \cup Live

\* Until the user quits, only the server posts, and it posts OPEN only after it
\* has closed the session it found; so a session is open as long as it handles
\* messages, and serverIP stays the address it is connected to.
CommandInv ==
    mpc = "keys" =>
        /\ client_cmd \in {"NONE", "OPEN", "CLOSE"}
        /\ client_cmd = "CLOSE" => upc[Server] = "closeWait"
        /\ upc[Server] = "closeWait" /\ client_cmd = "NONE" => cpc = "wait"
        /\ upc[Server] = "post" => cpc \notin Opening \cup Live
        /\ cpc \in {"finish"} \cup Live => is_open /\ session = serverIP
        /\ cpc = "setOpen" => session = serverIP

LEMMA SpanKept ==
    ASSUME SpanInv, Next
    PROVE  SpanInv'
<1> USE DEF SpanInv
<1>1. CASE UNCHANGED <<client, process>>
  BY <1>1 DEF client, casting
<1>2. CASE ClientStep
  <2>1. CASE HandleNone \/ HandleClose \/ HandleExit \/ HandleOpen
    BY <2>1 DEF HandleNone, HandleClose, HandleExit, HandleOpen, Runs, casting, Live
  <2>2. CASE connectServer \/ setIsOpen \/ LockfinishCmd
    BY <2>2 DEF connectServer, setIsOpen, LockfinishCmd, casting, Live
  <2> QED
    BY <1>2, <2>1, <2>2, ClientCases DEF Live
<1>3. CASE OtherStep \/ ProcessStep
  <2>1. UNCHANGED cpc /\ (is_open' => is_open)
    BY <1>3 DEF OtherStep, Open, OpenReturns, Exit, ClientSpuriousWakeup, UserStep, getIsOpen,
       Close, SleepAgain, CloseReturns, ProcessStep, ServerReplies, ServerStops, SnapcastExit,
       ServerExit, Join, MainQuits, ServerOpens, casting, client
  <2> QED
    BY <2>1
<1> QED
  BY <1>1, <1>2, <1>3, StepCases

LEMMA SpanHolds == Spec => []SpanInv
<1>1. Init => SpanInv
  BY DEF Init, ClientInit, SpanInv
<1>2. SpanInv /\ [Next]_vars => SpanInv'
  <2>1. SpanInv /\ UNCHANGED vars => SpanInv'
    BY DEF SpanInv, vars, client, casting
  <2> QED
    BY <2>1, SpanKept
<1> QED
  BY <1>1, <1>2, PTL DEF Spec

LEMMA CommandClient ==
    ASSUME CommandInv, AnswerInv, ClientStep, UNCHANGED mpc
    PROVE  CommandInv'
<1> SUFFICES ASSUME mpc = "keys" PROVE CommandInv'
  BY DEF CommandInv
<1> USE DEF CommandInv, Opening, Live
<1>1. UNCHANGED <<upc, request, opened>>
  BY ClientCases DEF calls
<1>2. CASE HandleNone \/ HandleClose \/ HandleExit
  <2>1. /\ client_cmd' \in {client_cmd, "NONE"} /\ cpc' \in {"wait", "exited"}
        /\ UNCHANGED <<is_open, serverIP, session>>
        /\ cpc' = "exited" => client_cmd = "EXIT"
    BY <1>2, Finishes DEF HandleNone, HandleClose, HandleExit, Sleep, casting
  <2> QED
    BY <1>1, <2>1
<1>3. CASE HandleOpen
  <2>1. upc[Server] = "openWait"
    BY <1>3 DEF HandleOpen, AnswerInv
  <2> QED
    BY <1>1, <1>3, <2>1 DEF HandleOpen, casting
<1>4. CASE connectServer \/ setIsOpen
  BY <1>1, <1>4 DEF connectServer, setIsOpen, mailbox, AnswerInv
<1>5. CASE LockfinishCmd
  BY <1>1, <1>5, Finishes DEF LockfinishCmd, casting, AnswerInv
<1> QED
  BY <1>1, <1>2, <1>3, <1>4, <1>5, ClientCases

LEMMA CommandKept ==
    ASSUME Base, AnswerInv, SpanInv, CommandInv, Next
    PROVE  CommandInv'
<1>1. CASE UNCHANGED <<client, process>>
  BY <1>1 DEF CommandInv, client, process, mailbox, casting, calls
<1>2. CASE ClientStep /\ UNCHANGED process
  BY <1>2, CommandClient DEF process
<1>3. CASE OtherStep /\ UNCHANGED process
  <2> SUFFICES ASSUME mpc = "keys" PROVE CommandInv'
    BY <1>3 DEF CommandInv, process
  <2> USE UserTypes DEF CommandInv, Opening, Live, Return, mailbox, casting, calls
  <2>1. upc[Main] = "out"
    BY DEF Base, CallInv
  <2>2. CASE Open
    BY <2>2 DEF Open, Post
  <2>3. CASE OpenReturns
    BY <2>3 DEF OpenReturns, Awake
  <2>4. CASE Exit \/ ClientSpuriousWakeup
    BY <2>1, <2>4 DEF Exit, ClientSpuriousWakeup
  <2>5. CASE getIsOpen(Server)
    BY <2>5 DEF getIsOpen, AnswerInv
  <2>6. CASE Close(Server)
    BY <2>6 DEF Close, Post
  <2>7. CASE SleepAgain(Server) \/ CloseReturns(Server)
    BY <2>7 DEF SleepAgain, CloseReturns, Awake
  <2>8. ~UserStep(Main)
    BY <2>1 DEF UserStep, getIsOpen, Close, SleepAgain, CloseReturns
  <2> QED
    BY <1>3, <2>2, <2>3, <2>4, <2>5, <2>6, <2>7, <2>8 DEF OtherStep, UserStep, Users
<1>4. CASE ProcessStep
  <2> USE DEF CommandInv, client, mailbox, casting, calls
  <2>1. CASE ServerReplies
    BY <2>1, UserTypes DEF ServerReplies, Return
  <2>2. CASE ServerStops \/ SnapcastExit \/ ServerExit \/ Join
    BY <2>2 DEF ServerStops, SnapcastExit, ServerExit, Join
  <2>3. CASE MainQuits
    BY <2>3 DEF MainQuits
  <2>4. ASSUME NEW ip \in Servers, ServerOpens(ip) PROVE CommandInv'
    <3>1. upc[Server] = "out" /\ upc'[Server] = "check"
      BY <2>4, UserTypes DEF ServerOpens, Return, Base, CallInv
    <3>2. UNCHANGED <<mpc, client_cmd, is_open, session, serverIP, cpc>>
      BY <2>4 DEF ServerOpens
    <3> QED
      BY <3>1, <3>2 DEF Opening
  <2> QED
    BY <1>4, <2>1, <2>2, <2>3, <2>4 DEF ProcessStep
<1> QED
  BY <1>1, <1>2, <1>3, <1>4, StepCases

LEMMA CommandHolds == Spec => []CommandInv
<1>1. Init => CommandInv
  BY UserTypes, InitBase DEF Init, ClientInit, CommandInv, Opening, Live
<1>2. Base /\ AnswerInv /\ SpanInv /\ CommandInv /\ [Next]_vars => CommandInv'
  <2>1. CommandInv /\ UNCHANGED vars => CommandInv'
    BY DEF CommandInv, vars, client, process, mailbox, casting, calls
  <2> QED
    BY <2>1, CommandKept
<1> QED
  BY <1>1, <1>2, BaseHolds, AnswerHolds, SpanHolds, PTL DEF Spec

\* getIsOpen is never true without a session and, until the user quits, never
\* false while a session handles messages; so an open from another device always
\* finds the session it has to end.
THEOREM IsOpenTells == Spec => []IsOpenTruthful
<1>1. SpanInv /\ CommandInv => IsOpenTruthful
  BY DEF SpanInv, CommandInv, IsOpenTruthful, Live
<1> QED
  BY <1>1, SpanHolds, CommandHolds, PTL

-----------------------------------------------------------------------------
(* The mailbox of the client                                               *)

\* A user that waits for a command never finds the flag of a finished command
\* beside a command that is not: it would spin with the client's mutex held.
THEOREM ClientNeverSpins == Spec => []ClientSpinFree
<1> USE DEF ClientSpinFree
<1>1. Init => ClientSpinFree
  BY DEF Init, ClientInit
<1>2. ASSUME ClientSpinFree, Next PROVE ClientSpinFree'
  <2>1. CASE UNCHANGED <<client, process>>
    BY <1>2, <2>1 DEF client, mailbox
  <2>2. CASE ClientStep
    <3>1. CASE HandleNone \/ HandleClose \/ HandleExit \/ HandleOpen
      BY <1>2, <3>1, Finishes DEF HandleNone, HandleClose, HandleExit, HandleOpen
    <3>2. CASE connectServer \/ setIsOpen \/ LockfinishCmd
      BY <1>2, <3>2, Finishes DEF connectServer, setIsOpen, LockfinishCmd, mailbox
    <3> QED
      BY <1>2, <2>2, <3>1, <3>2, ClientCases
  <2>3. CASE OtherStep
    BY <1>2, <2>3 DEF OtherStep, Open, OpenReturns, Exit, ClientSpuriousWakeup, UserStep,
       getIsOpen, Close, SleepAgain, CloseReturns, Post, mailbox
  <2>4. CASE ProcessStep
    BY <1>2, <2>4 DEF ProcessStep, ServerReplies, ServerStops, SnapcastExit, ServerExit, Join,
       MainQuits, ServerOpens, client, mailbox
  <2> QED
    BY <1>2, <2>1, <2>2, <2>3, <2>4, StepCases
<1>3. ClientSpinFree /\ UNCHANGED vars => ClientSpinFree'
  BY DEF vars, client, mailbox
<1> QED
  BY <1>1, <1>2, <1>3, PTL DEF Spec

-----------------------------------------------------------------------------
(* Whose address the player is sent to                                     *)

\* The client thread is inside SnapcastComm only while it handles a message or
\* ends a session, and it ends a session with a stop.
PlayInv ==
    /\ pc[Client] # "out" => cpc \in {"busy", "stopping"}
    /\ cpc = "stopping" => pc[Client] \in {"out", "sendStop", "stopWait", "close", "closeWait"}

LEMMA CallerTypes ==
    ASSUME Base
    PROVE  pc \in [Callers -> Snap!CallerPc] /\ Callers = {Client, Server, Main}
BY DEF Base, TypeOK, Snap!TypeOK, Callers

\* A step of another thread leaves the client's place in SnapcastComm alone.
LEMMA OthersPlace ==
    ASSUME Base, Next
    PROVE  \/ UNCHANGED <<cpc, process>> /\ SnapcastCall(Client)
           \/ ClientStep
           \/ UNCHANGED cpc /\ pc'[Client] = pc[Client]
<1> USE CallerTypes, Threads
<1>1. Snap!WorkerStep \/ Snap!Environment => UNCHANGED pc
  BY DEF Snap!WorkerStep, Snap!Handle, Snap!HandleNone, Snap!HandleClose, Snap!HandleExit,
     Snap!HandleOpen, Snap!CreateSocket, Snap!connectServer, Snap!LockfinishCmd,
     Snap!LoopTest, Snap!Select, Snap!doParse, Snap!doReadFails, Snap!EndOpen,
     Snap!Environment, Snap!SpuriousWakeup, Snap!SelectFails, Snap!PlayerListens,
     Snap!PlayerAnswers, Snap!PlayerCrashes, Snap!PlayerSendsGarbage
<1>2. ASSUME NEW t \in {Server, Main}, SnapcastCall(t) PROVE pc'[Client] = pc[Client]
  BY <1>2 DEF SnapcastCall, Snap!InCall, Snap!OpenReturns, Snap!sendStart, Snap!sendStop,
     Snap!LockWait, Snap!StartReturns, Snap!Close, Snap!CloseReturns, Snap!WaitSync,
     Snap!processSend, Snap!Goto
<1>3. CASE OtherStep
  <2>1. ASSUME NEW t \in Users, UserStep(t) PROVE UNCHANGED cpc /\ pc'[Client] = pc[Client]
    BY <2>1 DEF UserStep, getIsOpen, Close, SleepAgain, CloseReturns, snapcast, Snap!doStop,
       Snap!Goto, Users
  <2> QED
    BY <1>3, <2>1 DEF OtherStep, Open, OpenReturns, Exit, ClientSpuriousWakeup, snapcast
<1>4. CASE ProcessStep
  BY <1>4 DEF ProcessStep, ServerReplies, ServerStops, SnapcastExit, ServerExit, Join, MainQuits,
     ServerOpens, client, snapcast, Snap!Exit, Snap!Goto
<1> QED
  BY <1>1, <1>2, <1>3, <1>4 DEF Next, SnapcastThread, ClientThread, ServerThread, MainThread,
     Environment, OtherStep, ProcessStep, SnapcastCall, client, Users

LEMMA PlayKept ==
    ASSUME Base, PlayInv, Next
    PROVE  PlayInv'
<1> USE CallerTypes, Threads DEF PlayInv
<1>1. CASE UNCHANGED cpc /\ SnapcastCall(Client)
  BY <1>1 DEF SnapcastCall, Snap!InCall, Snap!OpenReturns, Snap!sendStart, Snap!sendStop,
     Snap!LockWait, Snap!StartReturns, Snap!Close, Snap!CloseReturns, Snap!WaitSync,
     Snap!processSend, Snap!Goto, Snap!CallerPc
<1>2. CASE ClientStep
  <2>1. CASE doPlay \/ doStop \/ StopSnapcast
    BY <2>1 DEF doPlay, doStop, StopSnapcast, Snap!doPlay, Snap!Open, Snap!doStop, Snap!Goto
  <2>2. CASE Handled
    BY <2>2 DEF Handled, snapcast
  <2>3. CASE HandleNone \/ HandleClose \/ HandleExit \/ HandleOpen
    BY <2>3 DEF HandleNone, HandleClose, HandleExit, HandleOpen, Runs, Sleep, snapcast
  <2>4. CASE connectServer \/ setIsOpen \/ LockfinishCmd
    BY <2>4 DEF connectServer, setIsOpen, LockfinishCmd, snapcast
  <2>5. CASE LoopTest \/ SelectReturns \/ doSet \/ doReadFails \/ CloseFd
    BY <2>5 DEF LoopTest, SelectReturns, doSet, doReadFails, Scan, CloseFd, snapcast
  <2> QED
    BY <1>2, <2>1, <2>2, <2>3, <2>4, <2>5 DEF ClientStep, doParse
<1> QED
  BY <1>1, <1>2, OthersPlace

LEMMA PlayHolds == Spec => []PlayInv
<1>1. Init => PlayInv
  BY Threads DEF Init, ClientInit, Snap!Init, PlayInv, Callers
<1>2. Base /\ PlayInv /\ [Next]_vars => PlayInv'
  <2>1. PlayInv /\ UNCHANGED vars => PlayInv'
    BY DEF PlayInv, vars, snapcast, client
  <2> QED
    BY <2>1, PlayKept
<1> QED
  BY <1>1, <1>2, BaseHolds, PTL DEF Spec

\* The client thread reads serverIP without the mutex while the server thread
\* may replace it; still the player is only sent to the device whose session
\* asked for it, until the user quits.
THEOREM PlaysFromItsSession == Spec => []PlaysFromSession
<1>1. PlayInv /\ CommandInv => PlaysFromSession
  BY DEF PlayInv, CommandInv, PlaysFromSession, Live
<1> QED
  BY <1>1, PlayHolds, CommandHolds, PTL
=============================================================================
