------------------------- MODULE SnapcastCommProofs -------------------------
(***************************************************************************)
(* Theorems about SnapcastComm, for every number of calling threads unless *)
(* a theorem assumes a single one.                                         *)
(***************************************************************************)
EXTENDS SnapcastComm, FiniteSetTheorems, TLAPS

\* notify_one() wakes sleepers; it puts nobody to sleep.
LEMMA NotifyShrinks ==
    ASSUME NEW W, NEW w \in Notify(W)
    PROVE  w \subseteq W
BY DEF Notify

-----------------------------------------------------------------------------
(* Type correctness                                                        *)

LEMMA TypeInit == Init => TypeOK
<1> SUFFICES ASSUME Init PROVE TypeOK
  OBVIOUS
<1> USE DEF Init
<1>1. cmd \in SNAPCASTThreadCmd /\ wpc \in WorkerPc /\ pc \in [Callers -> CallerPc]
  BY DEF SNAPCASTThreadCmd, WorkerPc, CallerPc
<1>2. toPlayer \in Seq(Request) /\ fromPlayer \in Seq(Receipt)
  OBVIOUS
<1>3. faults \in 0..MaxFaults
  BY FaultsAssumption
<1> QED
  BY <1>1, <1>2, <1>3 DEF TypeOK

LEMMA PostShrinks ==
    ASSUME NEW c, Post(c)
    PROVE  condWait' \subseteq condWait
BY NotifyShrinks DEF Post

LEMMA PostTyped ==
    ASSUME NEW c \in SNAPCASTThreadCmd, Post(c)
    PROVE  /\ cmd' \in SNAPCASTThreadCmd
           /\ ready' \in BOOLEAN
           /\ ready_sync' \in BOOLEAN
BY DEF Post

LEMMA FinishTyped ==
    ASSUME finishCmd
    PROVE  /\ cmd' \in SNAPCASTThreadCmd
           /\ ready_sync' \in BOOLEAN
           /\ syncWait' \subseteq syncWait
BY NotifyShrinks DEF finishCmd, SNAPCASTThreadCmd

LEMMA TypeCallStarts ==
    ASSUME TypeOK, NEW t \in Callers, CallStarts(t)
    PROVE  TypeOK'
<1> USE DEF TypeOK, CallerPc, Goto, SNAPCASTThreadCmd, mailbox, answer, link, player
<1>1. CASE doPlay(t)
  BY <1>1, PostShrinks, PostTyped DEF doPlay, Open
<1>2. CASE doStop(t)
  BY <1>2 DEF doStop
<1>3. CASE Exit(t)
  BY <1>3, PostShrinks, PostTyped DEF Exit
<1> QED
  BY <1>1, <1>2, <1>3 DEF CallStarts

LEMMA TypeInCall ==
    ASSUME TypeOK, NEW t \in Callers, NEW ip \in Servers, InCall(t, ip)
    PROVE  TypeOK'
<1> USE DEF TypeOK, CallerPc, Goto, SNAPCASTThreadCmd, mailbox, answer, link, player
<1>1. CASE OpenReturns(t)
  BY <1>1 DEF OpenReturns, WaitSync
<1>2. CASE sendStart(t, ip)
  <2> DEFINE req == [cmd |-> "START", ip |-> ip]
  <2>1. req \in Request
    BY DEF Request
  <2> HIDE DEF req
  <2>2. toPlayer' \in Seq(Request)
    BY <1>2, <2>1 DEF sendStart, processSend, req
  <2>3. pc' \in [Callers -> CallerPc]
    BY <1>2 DEF sendStart, processSend
  <2>4. /\ send_start_result' \in BOOLEAN
        /\ UNCHANGED <<mailbox, pending, receipt, server_fd, fromPlayer, wake_fd,
                       condWait, syncWait, wpc, player>>
    BY <1>2 DEF sendStart
  <2> HIDE DEF CallerPc, SNAPCASTThreadCmd
  <2> QED
    BY <2>2, <2>3, <2>4
<1>3. CASE sendStop(t)
  <2> DEFINE req == [cmd |-> "STOP", ip |-> NoServer]
  <2>1. req \in Request
    BY DEF Request
  <2> HIDE DEF req
  <2>2. toPlayer' \in Seq(Request)
    BY <1>3, <2>1 DEF sendStop, processSend, req
  <2>3. pc' \in [Callers -> CallerPc]
    BY <1>3 DEF sendStop, processSend
  <2>4. UNCHANGED <<mailbox, answer, server_fd, fromPlayer, wake_fd, condWait, syncWait,
                    wpc, player>>
    BY <1>3 DEF sendStop
  <2> HIDE DEF CallerPc, SNAPCASTThreadCmd
  <2> QED
    BY <2>2, <2>3, <2>4
<1>4. CASE LockWait(t)
  <2>1. pending' \in BOOLEAN
    BY <1>4 DEF LockWait
  <2>2. pc' \in [Callers -> CallerPc]
    BY <1>4 DEF LockWait
  <2>3. condWait' \subseteq Callers \cup {Worker}
    BY <1>4 DEF LockWait
  <2> QED
    BY <1>4, <2>1, <2>2, <2>3 DEF LockWait
<1>5. CASE StartReturns(t)
  BY <1>5 DEF StartReturns
<1>6. CASE Close(t)
  BY <1>6, PostShrinks, PostTyped DEF Close
<1>7. CASE CloseReturns(t)
  BY <1>7 DEF CloseReturns, WaitSync
<1> QED
  BY <1>1, <1>2, <1>3, <1>4, <1>5, <1>6, <1>7 DEF InCall

LEMMA TypeWorker ==
    ASSUME TypeOK, WorkerStep
    PROVE  TypeOK'
<1> USE DEF TypeOK, WorkerPc, SNAPCASTThreadCmd, mailbox, answer, link, player
<1>1. Sleep => /\ ready' \in BOOLEAN
               /\ condWait' \subseteq Callers \cup {Worker}
               /\ wpc' \in WorkerPc
  BY DEF Sleep
<1>2. CASE HandleNone
  BY <1>1, <1>2 DEF HandleNone
<1>3. CASE HandleClose
  BY <1>1, <1>3, FinishTyped DEF HandleClose
<1>4. CASE HandleExit
  <2>1. ready' \in BOOLEAN /\ wpc' \in WorkerPc /\ finishCmd
    BY <1>4 DEF HandleExit, Runs
  <2> QED
    BY <1>4, <2>1, FinishTyped DEF HandleExit
<1>5. CASE HandleOpen
  <2>1. ready' \in BOOLEAN /\ wpc' \in WorkerPc
    BY <1>5 DEF HandleOpen, Runs
  <2> QED
    BY <1>5, <2>1 DEF HandleOpen
<1>6. CASE CreateSocket
  BY <1>6 DEF CreateSocket
<1>7. CASE connectServer
  BY <1>7 DEF connectServer
<1>8. CASE LockfinishCmd
  BY <1>8, FinishTyped DEF LockfinishCmd
<1>9. CASE LoopTest
  BY <1>9 DEF LoopTest
<1>10. CASE Select
  <2>1. wpc' \in WorkerPc /\ wake_fd' \in BOOLEAN
    BY <1>10 DEF Select
  <2> QED
    BY <1>10, <2>1 DEF Select
<1>11. CASE doParse
  <2>1. /\ Head(fromPlayer) \in Receipt
        /\ Tail(fromPlayer) \in Seq(Receipt)
    BY <1>11 DEF doParse
  <2>2. condWait' \subseteq condWait
    BY <1>11, NotifyShrinks DEF doParse
  <2>3. /\ Head(fromPlayer).cmd \in {"START", "STOP"}
        /\ Head(fromPlayer).ok \in BOOLEAN
    BY <1>11, <2>1 DEF doParse, Receipt
  <2> QED
    BY <1>11, <2>1, <2>2, <2>3 DEF doParse
<1>12. CASE doReadFails
  BY <1>12 DEF doReadFails
<1>13. CASE EndOpen
  BY <1>13 DEF EndOpen, CloseFd
<1> QED
  BY <1>2, <1>3, <1>4, <1>5, <1>6, <1>7, <1>8, <1>9, <1>10, <1>11, <1>12, <1>13
  DEF WorkerStep, Handle

LEMMA TypeEnvironment ==
    ASSUME TypeOK, Environment
    PROVE  TypeOK'
<1> USE DEF TypeOK, WorkerPc, mailbox, answer, link, player
<1>1. ASSUME NEW k, Fault(k) PROVE faults' \in 0..MaxFaults
  BY <1>1, FaultsAssumption DEF Fault
<1>2. CASE SpuriousWakeup
  BY <1>2 DEF SpuriousWakeup
<1>3. CASE SelectFails
  BY <1>1, <1>3 DEF SelectFails
<1>4. CASE PlayerListens
  BY <1>4 DEF PlayerListens
<1>5. CASE PlayerAnswers
  <2>1. /\ Head(toPlayer) \in Request
        /\ Tail(toPlayer) \in Seq(Request)
    BY <1>5 DEF PlayerAnswers
  <2>2. PICK ok \in BOOLEAN :
           /\ fromPlayer' = Append(fromPlayer, [cmd |-> Head(toPlayer).cmd, ok |-> ok])
           /\ playing' = IF ok THEN Head(toPlayer).ip ELSE NoServer
    BY <1>5 DEF PlayerAnswers
  <2>3. [cmd |-> Head(toPlayer).cmd, ok |-> ok] \in Receipt
    BY <2>1 DEF Request, Receipt
  <2>4. fromPlayer' \in Seq(Receipt)
    BY <2>2, <2>3
  <2>5. playing' \in Servers \cup {NoServer}
    BY <2>1, <2>2 DEF Request
  <2> QED
    BY <1>5, <2>1, <2>4, <2>5 DEF PlayerAnswers
<1>6. CASE PlayerCrashes
  <2>1. server_fd' \in {"none", "socket", "connected", "hungup"}
    BY <1>6 DEF PlayerCrashes
  <2>2. toPlayer' \in Seq(Request) /\ playing' \in Servers \cup {NoServer}
    BY <1>6 DEF PlayerCrashes
  <2>3. listening' \in BOOLEAN /\ faults' \in 0..MaxFaults
    BY <1>1, <1>6 DEF PlayerCrashes
  <2>4. UNCHANGED <<mailbox, answer, fromPlayer, wake_fd, condWait, syncWait, pc, wpc>>
    BY <1>6 DEF PlayerCrashes
  <2> QED
    BY <2>1, <2>2, <2>3, <2>4
<1>7. CASE PlayerSendsGarbage
  <2>1. [cmd |-> "BAD", ok |-> FALSE] \in Receipt
    BY DEF Receipt
  <2>2. fromPlayer' \in Seq(Receipt)
    BY <1>7, <2>1 DEF PlayerSendsGarbage
  <2> QED
    BY <1>1, <1>7, <2>2 DEF PlayerSendsGarbage
<1> QED
  BY <1>2, <1>3, <1>4, <1>5, <1>6, <1>7 DEF Environment

\* Every variable of SnapcastComm keeps its type: in particular only callers
\* sleep on cond_sync, and only callers and the worker on cond.
THEOREM TypeCorrect == Spec => []TypeOK
<1>1. TypeOK /\ [Next]_vars => TypeOK'
  <2> SUFFICES ASSUME TypeOK, [Next]_vars PROVE TypeOK'
    OBVIOUS
  <2>1. CASE UNCHANGED vars
    BY <2>1 DEF vars, mailbox, answer, link, player, TypeOK
  <2>2. CASE Next
    BY <2>2, TypeCallStarts, TypeInCall, TypeWorker, TypeEnvironment DEF Next
  <2> QED
    BY <2>1, <2>2
<1> QED
  BY <1>1, TypeInit, PTL DEF Spec
-----------------------------------------------------------------------------
(* The mailbox and the descriptor, whoever calls                           *)

\* No thread ever spins in the loop of Open or Close with the mutex held,
\* however many threads post commands over one another.
THEOREM NeverSpins == Spec => []SpinFree
<1>1. Init => SpinFree
  BY DEF Init, SpinFree
<1>2. SpinFree /\ [Next]_vars => SpinFree'
  <2> SUFFICES ASSUME SpinFree, [Next]_vars PROVE SpinFree'
    OBVIOUS
  <2> USE DEF SpinFree, mailbox
  <2>1. CASE UNCHANGED vars
    BY <2>1 DEF vars
  <2>2. CASE WorkerStep
    BY <2>2 DEF WorkerStep, Handle, HandleNone, HandleClose, HandleExit, HandleOpen,
       CreateSocket, connectServer, LockfinishCmd, LoopTest, Select, doParse, doReadFails,
       EndOpen, finishCmd
  <2>3. ASSUME NEW t \in Callers, CallStarts(t) PROVE SpinFree'
    BY <2>3 DEF CallStarts, doPlay, Open, doStop, Exit, Post
  <2>4. ASSUME NEW t \in Callers, NEW ip \in Servers, InCall(t, ip) PROVE SpinFree'
    BY <2>4 DEF InCall, OpenReturns, sendStart, sendStop, LockWait, StartReturns, Close,
       CloseReturns, Post
  <2>5. CASE Environment
    BY <2>5 DEF Environment, SpuriousWakeup, SelectFails, PlayerListens, PlayerAnswers,
       PlayerCrashes, PlayerSendsGarbage
  <2> QED
    BY <2>1, <2>2, <2>3, <2>4, <2>5 DEF Next
<1> QED
  BY <1>1, <1>2, PTL DEF Spec

\* The socket belongs to do_open: connectServer never overwrites a descriptor
\* that is still open, and every way out of do_open leaves none behind.
THEOREM DescriptorOwned == Spec => []DescriptorInv
<1>1. Init => DescriptorInv
  BY DEF Init, DescriptorInv, InDoOpen
<1>2. DescriptorInv /\ [Next]_vars => DescriptorInv'
  <2> SUFFICES ASSUME DescriptorInv, [Next]_vars PROVE DescriptorInv'
    OBVIOUS
  <2> USE DEF DescriptorInv, InDoOpen, link
  <2>1. CASE UNCHANGED vars
    BY <2>1 DEF vars
  <2>2. CASE Handle
    BY <2>2 DEF Handle, HandleNone, HandleClose, HandleExit, HandleOpen, Runs, Sleep
  <2>3. CASE CreateSocket \/ connectServer \/ LockfinishCmd \/ LoopTest
    BY <2>3 DEF CreateSocket, connectServer, LockfinishCmd, LoopTest
  <2>4. CASE Select \/ doReadFails
    BY <2>4 DEF Select, doReadFails
  <2>5. CASE doParse \/ EndOpen
    BY <2>5 DEF doParse, EndOpen, CloseFd
  <2>6. ASSUME NEW t \in Callers, CallStarts(t) PROVE DescriptorInv'
    BY <2>6 DEF CallStarts, doPlay, Open, doStop, Exit
  <2>7. ASSUME NEW t \in Callers, NEW ip \in Servers, InCall(t, ip) PROVE DescriptorInv'
    <3>1. CASE sendStart(t, ip) \/ sendStop(t)
      BY <3>1 DEF sendStart, sendStop, processSend
    <3>2. CASE OpenReturns(t) \/ LockWait(t) \/ StartReturns(t) \/ Close(t) \/ CloseReturns(t)
      BY <3>2 DEF OpenReturns, LockWait, StartReturns, Close, CloseReturns
    <3> QED
      BY <2>7, <3>1, <3>2 DEF InCall
  <2>8. CASE Environment
    BY <2>8 DEF Environment, SpuriousWakeup, SelectFails, PlayerListens, PlayerAnswers,
       PlayerCrashes, PlayerSendsGarbage
  <2> QED
    BY <2>1, <2>2, <2>3, <2>4, <2>5, <2>6, <2>7, <2>8 DEF Next, WorkerStep
<1> QED
  BY <1>1, <1>2, PTL DEF Spec
-----------------------------------------------------------------------------
(* Receipts, whoever calls                                                 *)

LEMMA GenuineFinite ==
    ASSUME NEW s \in Seq(Receipt)
    PROVE  IsFiniteSet(Genuine(s)) /\ Cardinality(Genuine(s)) \in Nat
<1>1. Genuine(s) \in SUBSET (1..Len(s)) /\ Len(s) \in Nat
  BY DEF Genuine
<1>2. IsFiniteSet(1..Len(s))
  BY <1>1, FS_Interval
<1>3. IsFiniteSet(Genuine(s))
  BY <1>1, <1>2, FS_Subset
<1> QED
  BY <1>3, FS_CardinalityType

LEMMA GenuineAppend ==
    ASSUME NEW s \in Seq(Receipt), NEW r \in Receipt
    PROVE  Cardinality(Genuine(Append(s, r)))
             = Cardinality(Genuine(s)) + (IF r.cmd # "BAD" THEN 1 ELSE 0)
<1>1. CASE r.cmd # "BAD"
  <2>1. Genuine(Append(s, r)) = Genuine(s) \cup {Len(s) + 1}
    BY <1>1 DEF Genuine
  <2>2. Len(s) + 1 \notin Genuine(s)
    BY DEF Genuine
  <2> QED
    BY <1>1, <2>1, <2>2, GenuineFinite, FS_AddElement
<1>2. CASE r.cmd = "BAD"
  <2>1. Genuine(Append(s, r)) = Genuine(s)
    BY <1>2 DEF Genuine
  <2> QED
    BY <1>2, <2>1, GenuineFinite
<1> QED
  BY <1>1, <1>2

LEMMA GenuineTail ==
    ASSUME NEW s \in Seq(Receipt), s # <<>>, Head(s).cmd # "BAD"
    PROVE  Cardinality(Genuine(Tail(s))) = Cardinality(Genuine(s)) - 1
<1> DEFINE rest == Genuine(s) \ {1}
<1> DEFINE f == [i \in rest |-> i - 1]
<1>1. 1 \in Genuine(s)
  BY DEF Genuine
<1>2. IsFiniteSet(rest) /\ Cardinality(rest) = Cardinality(Genuine(s)) - 1
  BY <1>1, GenuineFinite, FS_RemoveElement
<1>3. f \in [rest -> Genuine(Tail(s))]
  BY DEF Genuine
<1>4. \A i, j \in rest : f[i] = f[j] => i = j
  BY DEF Genuine
<1>5. ASSUME NEW k \in Genuine(Tail(s)) PROVE \E i \in rest : f[i] = k
  <2>1. k + 1 \in rest /\ f[k + 1] = k
    BY <1>5 DEF Genuine
  <2> QED
    BY <2>1
<1> HIDE DEF f
<1>6. f \in Bijection(rest, Genuine(Tail(s)))
  BY <1>3, <1>4, <1>5 DEF Bijection, Injection, IsInjective, Surjection
<1>7. ExistsBijection(rest, Genuine(Tail(s)))
  BY <1>6 DEF ExistsBijection
<1> QED
  BY <1>2, <1>7, FS_Bijection

LEMMA WaitingFinite == IsFiniteSet(Waiting) /\ Cardinality(Waiting) \in Nat
<1>1. Waiting \in SUBSET Callers
  BY DEF Waiting
<1> QED
  BY <1>1, ThreadsAssumption, FS_Subset, FS_CardinalityType

\* A step of one thread's program counter changes the number of waiting threads
\* by the difference between where it comes from and where it goes.
LEMMA WaitingMoves ==
    ASSUME TypeOK, NEW t \in Callers, NEW l \in CallerPc, Goto(t, l)
    PROVE  /\ pc[t] \notin {"startWait", "stopWait"} /\ l \in {"startWait", "stopWait"}
                => Cardinality(Waiting') = Cardinality(Waiting) + 1
           /\ pc[t] \in {"startWait", "stopWait"} /\ l \notin {"startWait", "stopWait"}
                => Cardinality(Waiting') = Cardinality(Waiting) - 1
           /\ pc[t] \notin {"startWait", "stopWait"} /\ l \notin {"startWait", "stopWait"}
                => Waiting' = Waiting
<1> USE DEF Waiting, Goto, TypeOK
<1>1. pc[t] \notin {"startWait", "stopWait"} /\ l \in {"startWait", "stopWait"}
        => t \notin Waiting /\ Waiting' = Waiting \cup {t}
  OBVIOUS
<1>2. pc[t] \in {"startWait", "stopWait"} /\ l \notin {"startWait", "stopWait"}
        => t \in Waiting /\ Waiting' = Waiting \ {t}
  OBVIOUS
<1>3. pc[t] \notin {"startWait", "stopWait"} /\ l \notin {"startWait", "stopWait"}
        => Waiting' = Waiting
  OBVIOUS
<1>4. t \notin Waiting => Cardinality(Waiting \cup {t}) = Cardinality(Waiting) + 1
  BY WaitingFinite, FS_AddElement
<1>5. t \in Waiting => Cardinality(Waiting \ {t}) = Cardinality(Waiting) - 1
  BY WaitingFinite, FS_RemoveElement
<1> HIDE DEF Waiting, Goto, TypeOK
<1> QED
  BY <1>1, <1>2, <1>3, <1>4, <1>5

LEMMA StaleCaller ==
    ASSUME TypeOK, NoStaleReceipt, NEW t \in Callers,
           CallStarts(t) \/ \E ip \in Servers : InCall(t, ip)
    PROVE  NoStaleReceipt'
<1> USE DEF NoStaleReceipt, answer, link
<1>1. /\ Len(toPlayer) \in Nat
      /\ Cardinality(Genuine(fromPlayer)) \in Nat
      /\ Cardinality(Waiting) \in Nat
  BY GenuineFinite, WaitingFinite DEF TypeOK
<1>2. ASSUME NEW l \in CallerPc \ {"startWait", "stopWait"}, Goto(t, l) \/ UNCHANGED pc,
             pc[t] \notin {"startWait", "stopWait"},
             UNCHANGED <<toPlayer, fromPlayer, pending>>
      PROVE  NoStaleReceipt'
  <2>1. Waiting' = Waiting
    BY <1>2, WaitingMoves DEF Waiting
  <2> QED
    BY <1>2, <2>1
<1>3. CASE CallStarts(t)
  BY <1>2, <1>3 DEF CallStarts, doPlay, Open, doStop, Exit, CallerPc
<1>4. CASE OpenReturns(t) \/ CloseReturns(t) \/ Close(t)
  BY <1>2, <1>4 DEF OpenReturns, CloseReturns, Close, WaitSync, CallerPc
<1>5. CASE StartReturns(t)
  BY <1>2, <1>5 DEF StartReturns, CallerPc
<1>6. ASSUME NEW req, NEW l \in {"startWait", "stopWait"}, processSend(t, req, l, "close"),
             pc[t] \notin {"startWait", "stopWait"}, UNCHANGED <<fromPlayer, pending>>
      PROVE  NoStaleReceipt'
  <2>1. CASE Goto(t, "close") /\ UNCHANGED toPlayer
    BY <1>2, <1>6, <2>1 DEF CallerPc
  <2>2. CASE Goto(t, l) /\ (UNCHANGED toPlayer \/ toPlayer' = Append(toPlayer, req))
    <3>1. Cardinality(Waiting') = Cardinality(Waiting) + 1
      BY <1>6, <2>2, WaitingMoves DEF CallerPc
    <3>2. Len(toPlayer') <= Len(toPlayer) + 1 /\ Len(toPlayer') \in Nat
      BY <2>2, <1>1 DEF TypeOK
    <3> QED
      BY <1>1, <1>6, <3>1, <3>2
  <2> QED
    BY <1>6, <2>1, <2>2 DEF processSend
<1>7. ASSUME NEW ip \in Servers, sendStart(t, ip) PROVE NoStaleReceipt'
  BY <1>6, <1>7 DEF sendStart
<1>8. CASE sendStop(t)
  BY <1>6, <1>8 DEF sendStop
<1>9. CASE LockWait(t)
  <2>1. CASE pending /\ pending' = FALSE
    <3>1. Cardinality(Waiting') = Cardinality(Waiting) - 1
      BY <1>9, <2>1, WaitingMoves DEF LockWait, CallerPc
    <3> QED
      BY <1>1, <1>9, <2>1, <3>1 DEF LockWait
  <2>2. CASE UNCHANGED <<pending, pc>>
    BY <1>9, <2>2 DEF LockWait, Waiting
  <2> QED
    BY <1>9, <2>1, <2>2 DEF LockWait
<1> QED
  BY <1>3, <1>4, <1>5, <1>7, <1>8, <1>9 DEF InCall

LEMMA StaleOther ==
    ASSUME TypeOK, TypeOK', NoStaleReceipt, WorkerStep \/ Environment
    PROVE  NoStaleReceipt'
<1> USE DEF NoStaleReceipt, answer, link
<1>1. /\ Len(toPlayer) \in Nat
      /\ Cardinality(Genuine(fromPlayer)) \in Nat
      /\ Cardinality(Waiting) \in Nat
  BY GenuineFinite, WaitingFinite DEF TypeOK
<1>2. Waiting' = Waiting
  BY DEF WorkerStep, Handle, HandleNone, HandleClose, HandleExit, HandleOpen, CreateSocket,
     connectServer, LockfinishCmd, LoopTest, Select, doParse, doReadFails, EndOpen,
     Environment, SpuriousWakeup, SelectFails, PlayerListens, PlayerAnswers,
     PlayerCrashes, PlayerSendsGarbage, Waiting
<1>3. CASE UNCHANGED <<toPlayer, fromPlayer, pending>>
  BY <1>2, <1>3
<1>4. CASE doParse
  <2>1. Cardinality(Genuine(fromPlayer')) = Cardinality(Genuine(fromPlayer)) - 1
    BY <1>4, GenuineTail DEF doParse, TypeOK
  <2> QED
    BY <1>1, <1>2, <1>4, <2>1 DEF doParse
<1>5. CASE EndOpen
  <2>1. Genuine(fromPlayer') = {} /\ Len(toPlayer') = 0 /\ pending' = pending
    BY <1>5 DEF EndOpen, Genuine
  <2>2. Cardinality(Genuine(fromPlayer')) = 0
    BY <2>1, FS_EmptySet
  <2>3. (IF pending THEN 1 ELSE 0) <= Cardinality(Waiting)
    BY <1>1
  <2> QED
    BY <1>2, <2>1, <2>2, <2>3
<1>6. CASE PlayerAnswers
  <2>1. Len(toPlayer') = Len(toPlayer) - 1
    BY <1>6 DEF PlayerAnswers, TypeOK
  <2>2. PICK r \in Receipt : fromPlayer' = Append(fromPlayer, r)
    <3>1. PICK ok \in BOOLEAN :
             fromPlayer' = Append(fromPlayer, [cmd |-> Head(toPlayer).cmd, ok |-> ok])
      BY <1>6 DEF PlayerAnswers
    <3>2. Head(toPlayer) \in Request
      BY <1>6 DEF PlayerAnswers, TypeOK
    <3>3. [cmd |-> Head(toPlayer).cmd, ok |-> ok] \in Receipt
      BY <3>2 DEF Request, Receipt
    <3> QED
      BY <3>1, <3>3
  <2>3. Cardinality(Genuine(fromPlayer')) <= Cardinality(Genuine(fromPlayer)) + 1
    <3>1. fromPlayer \in Seq(Receipt)
      BY DEF TypeOK
    <3>2. Cardinality(Genuine(fromPlayer'))
            = Cardinality(Genuine(fromPlayer)) + (IF r.cmd # "BAD" THEN 1 ELSE 0)
      BY <2>2, <3>1, GenuineAppend
    <3> QED
      BY <1>1, <3>2
  <2>4. Cardinality(Genuine(fromPlayer')) \in Nat
    BY GenuineFinite DEF TypeOK
  <2> QED
    BY <1>1, <1>2, <1>6, <2>1, <2>3, <2>4 DEF PlayerAnswers
<1>7. CASE PlayerCrashes
  <2>1. Len(toPlayer') = 0
    BY <1>7 DEF PlayerCrashes
  <2> QED
    BY <1>1, <1>2, <1>7, <2>1 DEF PlayerCrashes
<1>8. CASE PlayerSendsGarbage
  <2>1. Cardinality(Genuine(fromPlayer')) = Cardinality(Genuine(fromPlayer))
    <3> DEFINE r == [cmd |-> "BAD", ok |-> FALSE]
    <3>1. r \in Receipt /\ r.cmd = "BAD"
      BY DEF Receipt
    <3> QED
      BY <1>1, <1>8, <3>1, GenuineAppend DEF PlayerSendsGarbage, TypeOK
  <2> QED
    BY <1>2, <1>8, <2>1 DEF PlayerSendsGarbage
<1> QED
  BY <1>3, <1>4, <1>5, <1>6, <1>7, <1>8
  DEF WorkerStep, Handle, HandleNone, HandleClose, HandleExit, HandleOpen, CreateSocket,
      connectServer, LockfinishCmd, LoopTest, Select, doReadFails,
      Environment, SpuriousWakeup, SelectFails, PlayerListens

\* The receipts due, in flight and undelivered never outnumber the threads in
\* LockWait, although nothing clears `pending' before a request is sent.
THEOREM NeverStale == Spec => []NoStaleReceipt
<1>1. Init => NoStaleReceipt
  <2> SUFFICES ASSUME Init PROVE NoStaleReceipt
    OBVIOUS
  <2>1. Genuine(fromPlayer) = {} /\ Len(toPlayer) = 0 /\ pending = FALSE
    BY DEF Init, Genuine
  <2> QED
    BY <2>1, FS_EmptySet, WaitingFinite DEF NoStaleReceipt
<1>2. TypeOK /\ TypeOK' /\ NoStaleReceipt /\ [Next]_vars => NoStaleReceipt'
  <2> SUFFICES ASSUME TypeOK, TypeOK', NoStaleReceipt, [Next]_vars PROVE NoStaleReceipt'
    OBVIOUS
  <2>1. CASE UNCHANGED vars
    BY <2>1 DEF vars, answer, link, NoStaleReceipt, Waiting
  <2>2. CASE Next
    BY <2>2, StaleCaller, StaleOther DEF Next
  <2> QED
    BY <2>1, <2>2
<1> QED
  BY <1>1, <1>2, TypeCorrect, PTL DEF Spec

-----------------------------------------------------------------------------
(* The condition variable the worker and LockWait share, whoever calls     *)

\* Who sleeps on cond.  A receipt not yet taken has woken a thread in LockWait
\* that will take it; a command not yet seen has set ready.
Sleepers ==
    /\ Worker \in condWait => wpc = "wait"
    /\ condWait \ {Worker} \subseteq Waiting
    /\ wpc = "wait" /\ cmd # "NONE" => ready
    /\ pending => \E t \in Waiting : t \notin condWait

WakeupInv == Sleepers /\ WakeupLostOnlyToStranded

\* Posting is the step that may misdirect the notification: a thread in LockWait
\* takes it, and it is not the thread a pending receipt has woken.
LEMMA PostWakes ==
    ASSUME TypeOK, WakeupInv, NEW k, Post(k), UNCHANGED <<pending, Waiting>>
    PROVE  Worker \in condWait' => (IF pending' THEN 1 ELSE 0) < Cardinality(Waiting')
<1> SUFFICES ASSUME Worker \in condWait'
             PROVE  (IF pending THEN 1 ELSE 0) < Cardinality(Waiting)
  OBVIOUS
<1>1. PICK a \in condWait : condWait' = condWait \ {a}
  BY DEF Post, Notify
<1>2. a \in Waiting
  BY <1>1 DEF WakeupInv, Sleepers
<1>3. Cardinality(Waiting \ {a}) = Cardinality(Waiting) - 1 /\ IsFiniteSet(Waiting \ {a})
  BY <1>2, WaitingFinite, FS_RemoveElement
<1>4. Cardinality(Waiting \ {a}) \in Nat
  BY <1>3, FS_CardinalityType
<1>5. CASE pending
  <2>1. PICK t \in Waiting : t \notin condWait
    BY <1>5 DEF WakeupInv, Sleepers
  <2>2. Waiting \ {a} # {}
    BY <1>1, <2>1
  <2>3. Cardinality(Waiting \ {a}) # 0
    BY <1>3, <2>2, FS_EmptySet
  <2> QED
    BY <1>3, <1>4, <1>5, <2>3, WaitingFinite
<1>6. CASE ~pending
  BY <1>3, <1>4, <1>6, WaitingFinite
<1> QED
  BY <1>5, <1>6

LEMMA WakeupCaller ==
    ASSUME TypeOK, WakeupInv, NEW t \in Callers,
           CallStarts(t) \/ \E ip \in Servers : InCall(t, ip)
    PROVE  WakeupInv'
<1> USE DEF WakeupInv
<1>1. Cardinality(Waiting) \in Nat
  BY WaitingFinite
<1>2. ASSUME NEW l \in CallerPc \ {"startWait", "stopWait"}, Goto(t, l) \/ UNCHANGED pc,
             pc[t] \notin {"startWait", "stopWait"}
      PROVE  Waiting' = Waiting
  BY <1>2, WaitingMoves DEF Waiting
<1>3. ASSUME NEW k, Post(k), UNCHANGED <<pending, wpc>>, Waiting' = Waiting
      PROVE  WakeupInv'
  <2>1. Sleepers'
    BY <1>3, PostShrinks DEF Post, Sleepers
  <2> QED
    BY <1>3, <2>1, PostWakes DEF WakeupLostOnlyToStranded
<1>4. CASE doPlay(t)
  <2>1. Waiting' = Waiting
    BY <1>2, <1>4 DEF doPlay, Open, CallerPc
  <2> QED
    BY <1>3, <1>4, <2>1 DEF doPlay, Open, answer
<1>5. CASE Exit(t)
  <2>1. Waiting' = Waiting
    BY <1>2, <1>5 DEF Exit, CallerPc
  <2> QED
    BY <1>3, <1>5, <2>1 DEF Exit, answer
<1>6. CASE Close(t)
  <2>1. Waiting' = Waiting
    BY <1>2, <1>6 DEF Close, CallerPc
  <2> QED
    BY <1>3, <1>6, <2>1 DEF Close, answer
<1>7. ASSUME Waiting' = Waiting, UNCHANGED <<pending, wpc, mailbox, condWait>>
      PROVE  WakeupInv'
  BY <1>7 DEF Sleepers, WakeupLostOnlyToStranded, mailbox
<1>8. CASE doStop(t) \/ OpenReturns(t) \/ CloseReturns(t) \/ StartReturns(t)
  <2>1. Waiting' = Waiting
    BY <1>2, <1>8 DEF doStop, OpenReturns, CloseReturns, StartReturns, WaitSync, CallerPc
  <2> QED
    BY <1>7, <1>8, <2>1 DEF doStop, OpenReturns, CloseReturns, StartReturns, answer
<1>9. ASSUME NEW req, NEW l \in {"startWait", "stopWait"}, processSend(t, req, l, "close"),
             pc[t] \notin {"startWait", "stopWait"},
             UNCHANGED <<pending, wpc, mailbox, condWait>>
      PROVE  WakeupInv'
  <2>1. CASE Goto(t, "close")
    BY <1>2, <1>7, <1>9, <2>1 DEF CallerPc
  <2>2. CASE Goto(t, l)
    <3>1. Cardinality(Waiting') = Cardinality(Waiting) + 1
      BY <1>9, <2>2, WaitingMoves DEF CallerPc
    <3>2. Waiting \subseteq Waiting'
      BY <1>9, <2>2 DEF Waiting, Goto, TypeOK
    <3>3. Sleepers'
      BY <1>9, <3>2 DEF Sleepers, mailbox
    <3> QED
      BY <1>1, <1>9, <3>1, <3>3 DEF WakeupLostOnlyToStranded, mailbox
  <2> QED
    BY <1>9, <2>1, <2>2 DEF processSend
<1>10. ASSUME NEW ip \in Servers, sendStart(t, ip) PROVE WakeupInv'
  BY <1>9, <1>10 DEF sendStart
<1>11. CASE sendStop(t)
  BY <1>9, <1>11 DEF sendStop, answer
<1>12. CASE LockWait(t)
  <2>1. CASE pending /\ pending' = FALSE /\ UNCHANGED condWait
    <3>1. Cardinality(Waiting') = Cardinality(Waiting) - 1
      BY <1>12, <2>1, WaitingMoves DEF LockWait, CallerPc
    <3>2. Waiting \ {t} \subseteq Waiting'
      BY <1>12, <2>1 DEF LockWait, Waiting, Goto, TypeOK
    <3>3. Sleepers'
      BY <1>12, <2>1, <3>2, ThreadsAssumption DEF LockWait, Sleepers, mailbox
    <3> QED
      BY <1>1, <1>12, <2>1, <3>1, <3>3 DEF LockWait, WakeupLostOnlyToStranded, mailbox
  <2>2. CASE ~pending /\ condWait' = condWait \cup {t} /\ UNCHANGED <<pending, pc>>
    <3>1. Waiting' = Waiting /\ t \in Waiting /\ t # Worker
      BY <1>12, <2>2, ThreadsAssumption DEF LockWait, Waiting
    <3> QED
      BY <1>12, <2>2, <3>1
      DEF LockWait, Sleepers, WakeupLostOnlyToStranded, mailbox
  <2> QED
    BY <1>12, <2>1, <2>2 DEF LockWait
<1> QED
  BY <1>4, <1>5, <1>6, <1>8, <1>10, <1>11, <1>12 DEF CallStarts, InCall

LEMMA WakeupOther ==
    ASSUME TypeOK, NoStaleReceipt, WakeupInv, WorkerStep \/ Environment
    PROVE  WakeupInv'
<1> USE ThreadsAssumption DEF WakeupInv, Sleepers, WakeupLostOnlyToStranded, mailbox, answer
<1>1. Waiting' = Waiting
  BY DEF WorkerStep, Handle, HandleNone, HandleClose, HandleExit, HandleOpen, CreateSocket,
     connectServer, LockfinishCmd, LoopTest, Select, doParse, doReadFails, EndOpen,
     Environment, SpuriousWakeup, SelectFails, PlayerListens, PlayerAnswers,
     PlayerCrashes, PlayerSendsGarbage, Waiting
<1>11. Worker \notin Waiting
  BY DEF Waiting
<1>2. CASE HandleNone
  <2>1. cmd' = "NONE" /\ condWait' = condWait \cup {Worker} /\ wpc' = "wait"
    BY <1>2 DEF HandleNone, Sleep, TypeOK
  <2> QED
    BY <1>1, <1>2, <1>11, <2>1 DEF HandleNone
<1>3. CASE HandleClose
  <2>1. cmd' = "NONE" /\ condWait' = condWait \cup {Worker} /\ wpc' = "wait"
    BY <1>3 DEF HandleClose, Sleep, finishCmd
  <2> QED
    BY <1>1, <1>3, <1>11, <2>1 DEF HandleClose
<1>4. CASE HandleExit
  BY <1>1, <1>4 DEF HandleExit, Runs, finishCmd
<1>5. CASE HandleOpen
  BY <1>1, <1>5 DEF HandleOpen, Runs
<1>6. CASE CreateSocket \/ connectServer \/ LoopTest \/ Select \/ doReadFails \/ EndOpen
  BY <1>1, <1>6 DEF CreateSocket, connectServer, LoopTest, Select, doReadFails, EndOpen
<1>7. CASE LockfinishCmd
  BY <1>1, <1>7 DEF LockfinishCmd, finishCmd
<1>8. CASE doParse
  <2>1. Worker \notin condWait /\ UNCHANGED <<mailbox>> /\ wpc' = "loop"
    BY <1>8 DEF doParse
  <2>2. \E t \in Waiting : t \notin condWait'
    <3>1. Waiting # {}
      <4>1. Cardinality(Genuine(fromPlayer)) \in Nat /\ Len(toPlayer) \in Nat
        BY GenuineFinite DEF TypeOK
      <4>2. Genuine(fromPlayer) # {}
        BY <1>8 DEF doParse, Genuine, TypeOK
      <4>3. Cardinality(Genuine(fromPlayer)) # 0
        BY <4>2, GenuineFinite, FS_EmptySet DEF TypeOK
      <4> QED
        BY <4>1, <4>3, WaitingFinite, FS_EmptySet DEF NoStaleReceipt
    <3> QED
      BY <1>8, <2>1, <3>1 DEF doParse, Notify
  <2>3. condWait' \subseteq condWait
    BY <1>8, NotifyShrinks DEF doParse
  <2> QED
    BY <1>1, <2>1, <2>2, <2>3
<1>9. CASE SpuriousWakeup
  BY <1>1, <1>9 DEF SpuriousWakeup
<1>10. CASE SelectFails \/ PlayerListens \/ PlayerAnswers \/ PlayerCrashes
            \/ PlayerSendsGarbage
  BY <1>1, <1>10
  DEF SelectFails, PlayerListens, PlayerAnswers, PlayerCrashes, PlayerSendsGarbage
<1> QED
  BY <1>2, <1>3, <1>4, <1>5, <1>6, <1>7, <1>8, <1>9, <1>10
  DEF WorkerStep, Handle, Environment

\* However many threads call, the notification of a posted command misses the
\* sleeping worker only when it wakes a thread in LockWait, and then a thread
\* stays there for which no receipt is left.
THEOREM WakeupLost == Spec => []WakeupLostOnlyToStranded
<1>1. Init => WakeupInv
  BY ThreadsAssumption DEF Init, WakeupInv, Sleepers, WakeupLostOnlyToStranded
<1>2. TypeOK /\ NoStaleReceipt /\ WakeupInv /\ [Next]_vars => WakeupInv'
  <2> SUFFICES ASSUME TypeOK, NoStaleReceipt, WakeupInv, [Next]_vars PROVE WakeupInv'
    OBVIOUS
  <2>1. CASE UNCHANGED vars
    BY <2>1 DEF vars, mailbox, answer, WakeupInv, Sleepers, WakeupLostOnlyToStranded, Waiting
  <2>2. CASE Next
    BY <2>2, WakeupCaller, WakeupOther DEF Next
  <2> QED
    BY <2>1, <2>2
<1>3. WakeupInv => WakeupLostOnlyToStranded
  BY DEF WakeupInv
<1> QED
  BY <1>1, <1>2, <1>3, TypeCorrect, NeverStale, PTL DEF Spec

-----------------------------------------------------------------------------
(* A single calling thread, the structure the mailbox and its condition    *)
(* variables are written for: the class then implements the synchronous    *)
(* commands of SyncLink, whatever the player and select() do.              *)

LEMMA HandshakeInit == Init => Handshake
BY ThreadsAssumption DEF Init, Handshake

LEMMA HandshakeCaller ==
    ASSUME NEW c, Callers = {c}, TypeOK, Handshake,
           CallStarts(c) \/ \E ip \in Servers : InCall(c, ip)
    PROVE  Handshake'
<1> USE ThreadsAssumption DEF TypeOK, CallerPc, Goto, Handshake
\* The only thread that may sleep on cond beside the worker is the caller
\* itself, so the notification of Post reaches the worker.
<1>1. ASSUME NEW k, Post(k), pc[c] \notin {"startWait", "stopWait"}
      PROVE  condWait' = {}
  BY <1>1 DEF Post, Notify
<1>2. CASE doPlay(c)
  BY <1>1, <1>2 DEF doPlay, Open, Post
<1>3. CASE doStop(c)
  BY <1>3 DEF doStop, mailbox
<1>4. CASE Exit(c)
  BY <1>1, <1>4 DEF Exit, Post
<1>5. CASE Close(c)
  BY <1>1, <1>5 DEF Close, Post
<1>6. CASE OpenReturns(c) \/ CloseReturns(c)
  BY <1>6 DEF OpenReturns, CloseReturns, WaitSync, mailbox
<1>7. ASSUME NEW ip \in Servers, sendStart(c, ip) PROVE Handshake'
  BY <1>7 DEF sendStart, processSend, mailbox
<1>8. CASE sendStop(c)
  BY <1>8 DEF sendStop, processSend, mailbox
<1>9. CASE LockWait(c)
  BY <1>9 DEF LockWait, mailbox
<1>10. CASE StartReturns(c)
  BY <1>10 DEF StartReturns, mailbox
<1> QED
  BY <1>2, <1>3, <1>4, <1>5, <1>6, <1>7, <1>8, <1>9, <1>10 DEF CallStarts, InCall

LEMMA HandshakeOther ==
    ASSUME NEW c, Callers = {c}, TypeOK, Handshake, WorkerStep \/ Environment
    PROVE  Handshake'
<1> USE ThreadsAssumption DEF TypeOK, CallerPc, SNAPCASTThreadCmd, Handshake, mailbox
<1>1. CASE HandleNone
  BY <1>1 DEF HandleNone, Sleep
<1>2. CASE HandleClose
  BY <1>2 DEF HandleClose, Sleep, finishCmd
<1>3. CASE HandleExit
  BY <1>3 DEF HandleExit, Runs, finishCmd
<1>4. CASE HandleOpen
  BY <1>4 DEF HandleOpen, Runs
<1>5. CASE CreateSocket \/ connectServer \/ LoopTest \/ Select \/ doReadFails \/ EndOpen
  BY <1>5 DEF CreateSocket, connectServer, LoopTest, Select, doReadFails, EndOpen
<1>6. CASE LockfinishCmd
  BY <1>6 DEF LockfinishCmd, finishCmd
<1>7. CASE doParse
  BY <1>7, NotifyShrinks DEF doParse
<1>8. CASE SpuriousWakeup
  BY <1>8 DEF SpuriousWakeup
<1>9. CASE SelectFails
  BY <1>9 DEF SelectFails
<1>10. CASE PlayerListens \/ PlayerAnswers \/ PlayerCrashes \/ PlayerSendsGarbage
  BY <1>10 DEF PlayerListens, PlayerAnswers, PlayerCrashes, PlayerSendsGarbage
<1> QED
  BY <1>1, <1>2, <1>3, <1>4, <1>5, <1>6, <1>7, <1>8, <1>9, <1>10
  DEF WorkerStep, Handle, Environment

\* The protocol between the single caller and the worker: the strengthening the
\* next theorems rest on.
THEOREM HandshakeKept ==
    ASSUME NEW c, Callers = {c}
    PROVE  Spec => []Handshake
<1>1. TypeOK /\ Handshake /\ [Next]_vars => Handshake'
  <2> SUFFICES ASSUME TypeOK, Handshake, [Next]_vars PROVE Handshake'
    OBVIOUS
  <2>1. CASE UNCHANGED vars
    BY <2>1 DEF vars, mailbox, Handshake
  <2>2. CASE Next
    BY <2>2, HandshakeCaller, HandshakeOther DEF Next
  <2> QED
    BY <2>1, <2>2
<1> QED
  BY <1>1, HandshakeInit, TypeCorrect, PTL DEF Spec

\* README 3.4: "The `Close` interface terminates the connection with
\* PlayerClient."  With one caller it has when Close returns.
THEOREM CloseReallyTerminates ==
    ASSUME NEW c, Callers = {c}
    PROVE  Spec => CloseTerminates
<1>1. TypeOK /\ Handshake /\ DescriptorInv /\ [Next]_vars
        => [ClosedOnReturn]_vars
  <2> SUFFICES ASSUME TypeOK, Handshake, DescriptorInv, Next,
                      pc[c] = "closeWait", pc'[c] = "out"
               PROVE  server_fd' = "none"
    BY DEF ClosedOnReturn
  <2>1. ~WorkerStep /\ ~Environment
    BY DEF WorkerStep, Handle, HandleNone, HandleClose, HandleExit, HandleOpen,
       CreateSocket, connectServer, LockfinishCmd, LoopTest, Select, doParse, doReadFails,
       EndOpen, Environment, SpuriousWakeup, SelectFails, PlayerListens, PlayerAnswers,
       PlayerCrashes, PlayerSendsGarbage
  <2>2. CloseReturns(c)
    BY <2>1 DEF Next, CallStarts, doPlay, doStop, Exit, InCall, OpenReturns, sendStart,
       sendStop, LockWait, StartReturns, Close
  <2>3. cmd = "NONE" /\ server_fd' = server_fd
    BY <2>2 DEF CloseReturns, WaitSync, link, Goto, TypeOK
  <2>4. wpc = "wait"
    BY <2>3 DEF Handshake
  <2> QED
    BY <2>3, <2>4 DEF DescriptorInv, InDoOpen
<1> QED
  BY <1>1, TypeCorrect, HandshakeKept, DescriptorOwned, PTL DEF CloseTerminates, Spec

-----------------------------------------------------------------------------
(* Refinement of SyncLink                                                  *)

LEMMA PhaseOfOne ==
    ASSUME NEW c, Callers = {c}
    PROVE  /\ pc[c] \in {"openWait", "closeWait"}
                => Phase = IF cmd = "NONE" THEN "acked" ELSE cmd
           /\ pc[c] = "exit" => Phase = IF cmd = "NONE" THEN "exited" ELSE cmd
           /\ pc[c] \notin {"openWait", "closeWait", "exit"} => Phase = "idle"
BY DEF Phase

LEMMA PhaseOfOnePrime ==
    ASSUME NEW c, Callers = {c}
    PROVE  /\ pc'[c] \in {"openWait", "closeWait"}
                => Phase' = IF cmd' = "NONE" THEN "acked" ELSE cmd'
           /\ pc'[c] = "exit" => Phase' = IF cmd' = "NONE" THEN "exited" ELSE cmd'
           /\ pc'[c] \notin {"openWait", "closeWait", "exit"} => Phase' = "idle"
           /\ UNCHANGED <<pc, cmd>> => Phase' = Phase
BY DEF Phase

\* Every step of SnapcastComm is a step of SyncLink or leaves its state alone.
LEMMA SyncStep ==
    ASSUME NEW c, Callers = {c}, TypeOK, Handshake, DescriptorInv, Next
    PROVE  Sync!Next \/ UNCHANGED Sync!vars
<1> USE DEF Sync!vars, Connection, mailbox, link, Goto
<1>1. CASE doPlay(c)
  <2>1. Phase = "idle" /\ Phase' = "OPEN" /\ UNCHANGED Connection
    BY <1>1, PhaseOfOne, PhaseOfOnePrime DEF doPlay, Open, Post, TypeOK
  <2> QED
    BY <2>1 DEF Sync!Next, Sync!Post
<1>2. CASE Close(c)
  <2>1. Phase = "idle" /\ Phase' = "CLOSE" /\ UNCHANGED Connection
    BY <1>2, PhaseOfOne, PhaseOfOnePrime DEF Close, Post, TypeOK
  <2> QED
    BY <2>1 DEF Sync!Next, Sync!Post
<1>3. CASE Exit(c)
  <2>1. Phase = "idle" /\ Phase' = "EXIT" /\ UNCHANGED Connection
    BY <1>3, PhaseOfOne, PhaseOfOnePrime DEF Exit, Post, TypeOK
  <2> QED
    BY <2>1 DEF Sync!Next, Sync!Post
<1>4. CASE OpenReturns(c) \/ CloseReturns(c)
  <2>1. CASE UNCHANGED pc
    BY <1>4, <2>1, PhaseOfOne, PhaseOfOnePrime DEF OpenReturns, CloseReturns
  <2>2. CASE cmd = "NONE" /\ ~UNCHANGED pc
    <3>1. Phase = "acked" /\ Phase' = "idle" /\ UNCHANGED Connection
      BY <1>4, <2>2, PhaseOfOne, PhaseOfOnePrime DEF OpenReturns, CloseReturns, WaitSync, TypeOK
    <3> QED
      BY <3>1 DEF Sync!Next, Sync!Return
  <2> QED
    BY <1>4, <2>1, <2>2 DEF OpenReturns, CloseReturns, WaitSync
<1>5. CASE doStop(c) \/ sendStop(c) \/ LockWait(c) \/ StartReturns(c)
           \/ \E ip \in Servers : sendStart(c, ip)
  BY <1>5, PhaseOfOne, PhaseOfOnePrime DEF doStop, sendStop, LockWait, StartReturns, sendStart, processSend,
     TypeOK
<1>6. CASE connectServer
  <2>1. Phase = "OPEN" /\ Phase' = Phase /\ Connection = "down" /\ Connection' = "up"
    BY <1>6, PhaseOfOne, PhaseOfOnePrime DEF connectServer, Handshake, DescriptorInv
  <2> QED
    BY <2>1 DEF Sync!Next, Sync!Connect
<1>7. CASE LockfinishCmd
  <2>1. Phase = "OPEN" /\ Phase' = "acked" /\ Connection = "up" /\ UNCHANGED Connection
    BY <1>7, PhaseOfOne, PhaseOfOnePrime DEF LockfinishCmd, finishCmd, Handshake, DescriptorInv, InDoOpen
  <2> QED
    BY <2>1 DEF Sync!Next, Sync!Acknowledge
<1>8. CASE HandleClose
  <2>1. Phase = "CLOSE" /\ Phase' = "acked" /\ Connection = "down" /\ UNCHANGED Connection
    BY <1>8, PhaseOfOne, PhaseOfOnePrime DEF HandleClose, finishCmd, Handshake, DescriptorInv, InDoOpen
  <2> QED
    BY <2>1 DEF Sync!Next, Sync!Acknowledge
<1>9. CASE HandleExit
  <2>1. Phase = "EXIT" /\ Phase' = "exited" /\ Connection = "down" /\ UNCHANGED Connection
    BY <1>9, PhaseOfOne, PhaseOfOnePrime DEF HandleExit, Runs, finishCmd, Handshake, DescriptorInv, InDoOpen
  <2> QED
    BY <2>1 DEF Sync!Next, Sync!Exit
<1>10. CASE EndOpen
  <2>1. Phase' = Phase /\ Connection = "up" /\ Connection' = "down"
    BY <1>10, PhaseOfOne, PhaseOfOnePrime DEF EndOpen, CloseFd, DescriptorInv, InDoOpen
  <2> QED
    BY <2>1 DEF Sync!Next, Sync!Disconnect
<1>11. CASE HandleNone \/ HandleOpen \/ LoopTest \/ Select \/ doParse \/ doReadFails
  BY <1>11, PhaseOfOne, PhaseOfOnePrime DEF HandleNone, HandleOpen, LoopTest, Select, doParse, doReadFails
<1>12. CASE CreateSocket
  BY <1>12, PhaseOfOne, PhaseOfOnePrime DEF CreateSocket, DescriptorInv, InDoOpen
<1>13. CASE Environment
  BY <1>13, PhaseOfOne, PhaseOfOnePrime DEF Environment, SpuriousWakeup, SelectFails, PlayerListens,
     PlayerAnswers, PlayerCrashes, PlayerSendsGarbage
<1> QED
  BY <1>1, <1>2, <1>3, <1>4, <1>5, <1>6, <1>7, <1>8, <1>9, <1>10, <1>11, <1>12, <1>13
  DEF Next, CallStarts, InCall, WorkerStep, Handle

\* With one calling thread, the one-slot mailbox, the two condition variables
\* and the eventfd implement synchronous Open, Close and Exit: no command is
\* lost, overwritten or acknowledged early, whatever fails.
THEOREM Refinement ==
    ASSUME NEW c, Callers = {c}
    PROVE  Spec => ImplementsSyncLink
<1>1. Init => Sync!Init
  BY PhaseOfOne DEF Init, Sync!Init, Connection
<1>2. TypeOK /\ Handshake /\ DescriptorInv /\ [Next]_vars => [Sync!Next]_(Sync!vars)
  <2>1. UNCHANGED vars => UNCHANGED Sync!vars
    BY PhaseOfOne, PhaseOfOnePrime DEF vars, mailbox, link, Sync!vars, Connection
  <2> QED
    BY <2>1, SyncStep
<1> QED
  BY <1>1, <1>2, TypeCorrect, HandshakeKept, DescriptorOwned, PTL
  DEF ImplementsSyncLink, Sync!Spec, Spec
-----------------------------------------------------------------------------
(* Receipts                                                                *)

\* While the caller is not in LockWait nothing is due, in flight or undelivered.
LEMMA QuietLine ==
    ASSUME NEW c, Callers = {c}, TypeOK, NoStaleReceipt,
           pc[c] \notin {"startWait", "stopWait"}
    PROVE  toPlayer = <<>> /\ Genuine(fromPlayer) = {} /\ pending = FALSE
<1>1. Waiting = {}
  BY DEF Waiting
<1>2. Cardinality(Waiting) = 0
  BY <1>1, FS_EmptySet
<1>3. fromPlayer \in Seq(Receipt) /\ toPlayer \in Seq(Request) /\ pending \in BOOLEAN
  BY DEF TypeOK
<1>4. /\ Len(toPlayer) = 0 /\ Cardinality(Genuine(fromPlayer)) = 0
      /\ (IF pending THEN 1 ELSE 0) = 0
  BY <1>2, <1>3, GenuineFinite DEF NoStaleReceipt
<1>5. Genuine(fromPlayer) = {}
  BY <1>3, <1>4, GenuineFinite, FS_EmptySet
<1> QED
  BY <1>3, <1>4, <1>5

LEMMA AnsweringCaller ==
    ASSUME NEW c, Callers = {c}, TypeOK, NoStaleReceipt, Answering,
           CallStarts(c) \/ \E ip \in Servers : InCall(c, ip)
    PROVE  Answering'
<1> USE DEF Answering
<1>1. CASE pc'[c] \notin {"startWait", "stopWait"}
  BY <1>1
<1>2. ASSUME NEW req \in Request, processSend(c, req, IF req.cmd = "START"
                 THEN "startWait" ELSE "stopWait", "close"),
             pc[c] \notin {"startWait", "stopWait"}, UNCHANGED <<fromPlayer, pending>>
      PROVE  Answering'
  <2>1. toPlayer = <<>> /\ Genuine(fromPlayer) = {} /\ pending = FALSE
    BY <1>2, QuietLine
  <2>2. Genuine(fromPlayer') = {} /\ pending' = FALSE
    BY <1>2, <2>1
  <2>3. \A i \in DOMAIN toPlayer' : toPlayer'[i].cmd = req.cmd
    BY <1>2, <2>1 DEF processSend
  <2>4. pc'[c] = "startWait" => req.cmd = "START"
    BY <1>2 DEF processSend, Goto, TypeOK
  <2>5. pc'[c] = "stopWait" => req.cmd = "STOP"
    BY <1>2 DEF processSend, Goto, TypeOK, Request
  <2> QED
    BY <2>2, <2>3, <2>4, <2>5
<1>3. ASSUME NEW ip \in Servers, sendStart(c, ip) PROVE Answering'
  <2> DEFINE req == [cmd |-> "START", ip |-> ip]
  <2>1. req \in Request /\ req.cmd = "START"
    BY DEF Request
  <2>2. processSend(c, req, "startWait", "close")
    BY <1>3 DEF sendStart
  <2> HIDE DEF req
  <2> QED
    BY <1>2, <1>3, <2>1, <2>2 DEF sendStart
<1>4. CASE sendStop(c)
  <2> DEFINE req == [cmd |-> "STOP", ip |-> NoServer]
  <2>1. req \in Request /\ req.cmd = "STOP"
    BY DEF Request
  <2>2. processSend(c, req, "stopWait", "close")
    BY <1>4 DEF sendStop
  <2> HIDE DEF req
  <2> QED
    BY <1>2, <1>4, <2>1, <2>2 DEF sendStop, answer
<1>5. CASE LockWait(c)
  <2>1. CASE pending
    BY <1>1, <1>5, <2>1 DEF LockWait, Goto, TypeOK
  <2>2. CASE ~pending
    BY <1>5, <2>2 DEF LockWait, link
  <2> QED
    BY <2>1, <2>2
<1>6. CASE CallStarts(c)
  BY <1>1, <1>6 DEF CallStarts, doPlay, Open, doStop, Exit, Goto, TypeOK
<1>7. CASE OpenReturns(c) \/ StartReturns(c) \/ Close(c) \/ CloseReturns(c)
  BY <1>1, <1>7 DEF OpenReturns, StartReturns, Close, CloseReturns, WaitSync, Goto, TypeOK
<1> QED
  BY <1>3, <1>4, <1>5, <1>6, <1>7 DEF InCall

LEMMA AnsweringOther ==
    ASSUME NEW c, Callers = {c}, TypeOK, Answering, WorkerStep \/ Environment
    PROVE  Answering'
<1> DEFINE want == IF pc[c] = "startWait" THEN "START" ELSE "STOP"
<1>1. UNCHANGED pc
  BY DEF WorkerStep, Handle, HandleNone, HandleClose, HandleExit, HandleOpen, CreateSocket,
     connectServer, LockfinishCmd, LoopTest, Select, doParse, doReadFails, EndOpen,
     Environment, SpuriousWakeup, SelectFails, PlayerListens, PlayerAnswers,
     PlayerCrashes, PlayerSendsGarbage
<1>2. SUFFICES ASSUME pc[c] \in {"startWait", "stopWait"}
               PROVE  /\ \A i \in DOMAIN toPlayer' : toPlayer'[i].cmd = want
                      /\ \A i \in Genuine(fromPlayer') : fromPlayer'[i].cmd = want
                      /\ pending' => receipt' = want
  BY <1>1 DEF Answering
<1>3. /\ \A i \in DOMAIN toPlayer : toPlayer[i].cmd = want
      /\ \A i \in Genuine(fromPlayer) : fromPlayer[i].cmd = want
      /\ pending => receipt = want
  BY <1>2 DEF Answering
<1> HIDE DEF want
<1> USE DEF answer, link
<1>4. CASE UNCHANGED <<toPlayer, fromPlayer, pending, receipt>>
  BY <1>3, <1>4
<1>5. CASE doParse
  <2>1. fromPlayer \in Seq(Receipt) /\ fromPlayer # <<>> /\ Head(fromPlayer).cmd # "BAD"
    BY <1>5 DEF doParse, TypeOK
  <2>2. Head(fromPlayer).cmd = want
    BY <1>3, <2>1 DEF Genuine
  <2>3. \A i \in Genuine(Tail(fromPlayer)) :
           i + 1 \in Genuine(fromPlayer) /\ Tail(fromPlayer)[i] = fromPlayer[i + 1]
    BY <2>1 DEF Genuine
  <2> QED
    BY <1>3, <1>5, <2>2, <2>3 DEF doParse
<1>6. CASE EndOpen
  BY <1>3, <1>6 DEF EndOpen, Genuine
<1>7. CASE PlayerAnswers
  <2>1. toPlayer \in Seq(Request) /\ toPlayer # <<>> /\ toPlayer' = Tail(toPlayer)
    BY <1>7 DEF PlayerAnswers, TypeOK
  <2>2. Head(toPlayer).cmd = want
    BY <1>3, <2>1
  <2>3. \A i \in DOMAIN toPlayer' : i + 1 \in DOMAIN toPlayer /\ toPlayer'[i] = toPlayer[i + 1]
    BY <2>1
  <2>4. PICK ok : fromPlayer' = Append(fromPlayer, [cmd |-> want, ok |-> ok])
    BY <1>7, <2>2 DEF PlayerAnswers
  <2>5. \A i \in Genuine(fromPlayer') :
           \/ i \in Genuine(fromPlayer) /\ fromPlayer'[i] = fromPlayer[i]
           \/ fromPlayer'[i] = [cmd |-> want, ok |-> ok]
    BY <2>4 DEF Genuine, TypeOK
  <2>6. \A i \in Genuine(fromPlayer') : fromPlayer'[i].cmd = want
    BY <1>3, <2>5
  <2> QED
    BY <1>3, <1>7, <2>3, <2>6 DEF PlayerAnswers
<1>8. CASE PlayerCrashes
  BY <1>3, <1>8 DEF PlayerCrashes
<1>9. CASE PlayerSendsGarbage
  <2>1. fromPlayer' = Append(fromPlayer, [cmd |-> "BAD", ok |-> FALSE])
    BY <1>9 DEF PlayerSendsGarbage
  <2>2. \A i \in Genuine(fromPlayer') :
           i \in Genuine(fromPlayer) /\ fromPlayer'[i] = fromPlayer[i]
    BY <2>1 DEF Genuine, TypeOK
  <2> QED
    BY <1>3, <1>9, <2>2 DEF PlayerSendsGarbage
<1> QED
  BY <1>4, <1>5, <1>6, <1>7, <1>8, <1>9
  DEF WorkerStep, Handle, HandleNone, HandleClose, HandleExit, HandleOpen, CreateSocket,
      connectServer, LockfinishCmd, LoopTest, Select, doReadFails,
      Environment, SpuriousWakeup, SelectFails, PlayerListens

LEMMA AnsweringKept ==
    ASSUME NEW c, Callers = {c}
    PROVE  Spec => []Answering
<1>1. Init => Answering
  BY DEF Init, Answering
<1>2. TypeOK /\ NoStaleReceipt /\ Answering /\ [Next]_vars => Answering'
  <2> SUFFICES ASSUME TypeOK, NoStaleReceipt, Answering, [Next]_vars PROVE Answering'
    OBVIOUS
  <2>1. CASE UNCHANGED vars
    BY <2>1 DEF vars, answer, link, Answering
  <2>2. CASE Next
    BY <2>2, AnsweringCaller, AnsweringOther DEF Next
  <2> QED
    BY <2>1, <2>2
<1> QED
  BY <1>1, <1>2, TypeCorrect, NeverStale, PTL DEF Spec

\* With one caller a receipt releases LockWait only if it answers the request
\* that caller has sent, across crashes, garbage and reconnections.
THEOREM ReceiptsMatch ==
    ASSUME NEW c, Callers = {c}
    PROVE  Spec => []ReceiptMatches
<1>1. Answering => ReceiptMatches
  BY DEF Answering, ReceiptMatches
<1> QED
  BY <1>1, AnsweringKept, PTL

-----------------------------------------------------------------------------
(* What the player plays                                                   *)

\* The worker is in the loop of do_open that reads the receipts.
Attended == wpc \in {"loop", "select", "read"}

Plays == playing # NoServer

\* A START names a server and a STOP does not.
Addressed == \A i \in DOMAIN toPlayer : toPlayer[i].cmd = "START" <=> toPlayer[i].ip # NoServer

\* What the single caller knows about the player at each place of a call, while
\* nothing has failed.
Knowledge ==
    \A t \in Callers :
        /\ pc[t] = "openWait" /\ cmd = "NONE" => Attended
        /\ pc[t] \in {"sendStart", "startWait", "startResult", "stopWait"} => Attended
        /\ pc[t] \in {"out", "sendStop"} => (server_fd = "connected" <=> Plays)
        /\ pc[t] \in {"close", "closeWait"} => ~Plays
        /\ pc[t] = "startWait" => /\ \A i \in DOMAIN fromPlayer : fromPlayer[i].ok <=> Plays
                                  /\ pending => (send_start_result <=> Plays)
        /\ pc[t] = "startResult" => (send_start_result <=> Plays)
        /\ pc[t] = "stopWait" /\ (fromPlayer # <<>> \/ pending) => ~Plays

Faultless ==
    /\ server_fd # "hungup"
    /\ \A i \in DOMAIN fromPlayer : fromPlayer[i].cmd # "BAD"
    /\ wpc = "closing" => cmd # "NONE"

PlaybackInv == faults = 0 => Faultless /\ Knowledge

LEMMA NothingFailed ==
    ASSUME TypeOK, Next, faults' = 0
    PROVE  faults = 0 /\ ~SelectFails /\ ~PlayerCrashes /\ ~PlayerSendsGarbage
<1>1. faults \in Nat
  BY FaultsAssumption DEF TypeOK
<1>2. \A k : ~Fault(k)
  BY <1>1 DEF Fault
<1>3. ~SelectFails /\ ~PlayerCrashes /\ ~PlayerSendsGarbage
  BY <1>2 DEF SelectFails, PlayerCrashes, PlayerSendsGarbage
<1>4. WorkerStep => faults' = faults
  BY DEF WorkerStep, Handle, HandleNone, HandleClose, HandleExit, HandleOpen,
     CreateSocket, connectServer, LockfinishCmd, LoopTest, Select, doParse, doReadFails,
     EndOpen, player
<1>5. SpuriousWakeup \/ PlayerListens \/ PlayerAnswers => faults' = faults
  BY DEF SpuriousWakeup, PlayerListens, PlayerAnswers, player
<1>6. ASSUME NEW t \in Callers, CallStarts(t) PROVE faults' = faults
  BY <1>6 DEF CallStarts, doPlay, Open, doStop, Exit, player
<1>7. ASSUME NEW t \in Callers, NEW ip \in Servers, InCall(t, ip) PROVE faults' = faults
  BY <1>7 DEF InCall, OpenReturns, sendStart, sendStop, LockWait, StartReturns, Close,
     CloseReturns, player
<1> QED
  BY <1>3, <1>4, <1>5, <1>6, <1>7 DEF Next, Environment

LEMMA AddressedStep ==
    ASSUME TypeOK, Addressed, [Next]_vars
    PROVE  Addressed'
<1> USE DEF Addressed, link
<1>1. toPlayer \in Seq(Request)
  BY DEF TypeOK
<1>2. CASE UNCHANGED toPlayer
  BY <1>2
<1>3. CASE toPlayer' = <<>>
  BY <1>3
<1>4. ASSUME NEW req, toPlayer' = Append(toPlayer, req), req.cmd = "START" <=> req.ip # NoServer
      PROVE  Addressed'
  BY <1>1, <1>4
<1>5. CASE toPlayer # <<>> /\ toPlayer' = Tail(toPlayer)
  BY <1>1, <1>5
<1>6. ASSUME NEW t \in Callers, NEW ip \in Servers, sendStart(t, ip) PROVE Addressed'
  <2>1. ip # NoServer
    BY ServersAssumption
  <2> QED
    BY <1>2, <1>4, <1>6, <2>1 DEF sendStart, processSend
<1>7. ASSUME NEW t \in Callers, sendStop(t) PROVE Addressed'
  BY <1>2, <1>4, <1>7 DEF sendStop, processSend
<1>8. CASE WorkerStep
  BY <1>2, <1>3, <1>8 DEF WorkerStep, Handle, HandleNone, HandleClose, HandleExit, HandleOpen,
     CreateSocket, connectServer, LockfinishCmd, LoopTest, Select, doParse, doReadFails,
     EndOpen
<1>9. CASE Environment
  BY <1>2, <1>3, <1>5, <1>9 DEF Environment, SpuriousWakeup, SelectFails, PlayerListens,
     PlayerAnswers, PlayerCrashes, PlayerSendsGarbage
<1>10. ASSUME NEW t \in Callers, CallStarts(t) PROVE Addressed'
  BY <1>2, <1>10 DEF CallStarts, doPlay, Open, doStop, Exit
<1>11. ASSUME NEW t \in Callers, NEW ip \in Servers, InCall(t, ip) PROVE Addressed'
  BY <1>2, <1>6, <1>7, <1>11 DEF InCall, OpenReturns, LockWait, StartReturns, Close,
     CloseReturns
<1>12. CASE UNCHANGED vars
  BY <1>2, <1>12 DEF vars
<1> QED
  BY <1>8, <1>9, <1>10, <1>11, <1>12 DEF Next

\* A caller outside Open that has a connected descriptor has it attended.
LEMMA ConnectedAttended ==
    ASSUME NEW c, Callers = {c}, TypeOK, Handshake, DescriptorInv, Faultless,
           pc[c] \in {"out", "sendStop"}, server_fd # "none"
    PROVE  Attended /\ server_fd = "connected"
BY DEF TypeOK, Handshake, DescriptorInv, Faultless, Attended, InDoOpen, WorkerPc

LEMMA PlaybackCaller ==
    ASSUME NEW c, Callers = {c}, TypeOK, Handshake, DescriptorInv, NoStaleReceipt,
           Faultless, Knowledge, CallStarts(c) \/ \E ip \in Servers : InCall(c, ip)
    PROVE  Faultless' /\ Knowledge'
<1> USE DEF Goto, mailbox, link, answer, player, Plays, Attended
<1>1. pc \in [Callers -> CallerPc] /\ c \in Callers
  BY DEF TypeOK
<1>2. CASE doPlay(c)
  BY <1>1, <1>2 DEF doPlay, Open, Post, Faultless, Knowledge
<1>3. CASE doStop(c)
  BY <1>1, <1>3 DEF doStop, Faultless, Knowledge
<1>4. CASE Exit(c)
  BY <1>1, <1>4 DEF Exit, Post, Faultless, Knowledge
<1>5. CASE OpenReturns(c)
  BY <1>1, <1>5 DEF OpenReturns, WaitSync, Faultless, Knowledge
<1>6. ASSUME NEW ip \in Servers, sendStart(c, ip) PROVE Faultless' /\ Knowledge'
  <2>1. Attended /\ server_fd = "connected"
    BY <1>1, <1>6 DEF sendStart, Knowledge, Faultless, DescriptorInv, InDoOpen
  <2>2. toPlayer = <<>> /\ Genuine(fromPlayer) = {} /\ pending = FALSE
    BY <1>6, QuietLine DEF sendStart
  <2>3. DOMAIN fromPlayer = {}
    BY <2>2 DEF Genuine, Faultless
  <2> QED
    BY <1>1, <1>6, <2>1, <2>2, <2>3 DEF sendStart, processSend, Faultless, Knowledge
<1>7. CASE sendStop(c)
  <2>1. toPlayer = <<>> /\ Genuine(fromPlayer) = {} /\ pending = FALSE
    BY <1>7, QuietLine DEF sendStop
  <2>2. DOMAIN fromPlayer = {} /\ fromPlayer = <<>>
    BY <2>1 DEF Genuine, Faultless, TypeOK
  <2>3. CASE server_fd = "none"
    BY <1>1, <1>7, <2>2, <2>3 DEF sendStop, processSend, Faultless, Knowledge
  <2>4. CASE server_fd # "none"
    <3>1. Attended /\ server_fd = "connected"
      BY <1>7, <2>4, ConnectedAttended DEF sendStop
    <3> QED
      BY <1>1, <1>7, <2>1, <2>2, <3>1 DEF sendStop, processSend, Faultless, Knowledge
  <2> QED
    BY <2>3, <2>4
<1>8. CASE LockWait(c)
  BY <1>1, <1>8 DEF LockWait, Faultless, Knowledge
<1>9. CASE StartReturns(c)
  <2>1. Attended /\ server_fd = "connected"
    BY <1>1, <1>9 DEF StartReturns, Knowledge, Faultless, DescriptorInv, InDoOpen
  <2> QED
    BY <1>1, <1>9, <2>1 DEF StartReturns, Faultless, Knowledge
<1>10. CASE Close(c)
  BY <1>1, <1>10 DEF Close, Post, Faultless, Knowledge
<1>11. CASE CloseReturns(c)
  <2>1. cmd = "NONE" /\ pc[c] = "closeWait" => server_fd = "none"
    BY DEF Handshake, DescriptorInv, InDoOpen
  <2> QED
    BY <1>1, <1>11, <2>1 DEF CloseReturns, WaitSync, Faultless, Knowledge
<1> QED
  BY <1>2, <1>3, <1>4, <1>5, <1>6, <1>7, <1>8, <1>9, <1>10, <1>11 DEF CallStarts, InCall

LEMMA PlaybackOther ==
    ASSUME NEW c, Callers = {c}, TypeOK, Handshake, DescriptorInv, NoStaleReceipt,
           Answering, Addressed, Faultless, Knowledge,
           WorkerStep \/ SpuriousWakeup \/ PlayerListens \/ PlayerAnswers
    PROVE  Faultless' /\ Knowledge'
<1> USE DEF mailbox, link, answer, player, Plays, Attended
<1>1. pc \in [Callers -> CallerPc] /\ c \in Callers /\ fromPlayer \in Seq(Receipt)
  BY DEF TypeOK
<1>2. CASE HandleNone \/ HandleOpen \/ SpuriousWakeup \/ PlayerListens
  BY <1>2 DEF HandleNone, HandleOpen, Runs, Sleep, SpuriousWakeup, PlayerListens, Faultless,
     Knowledge, Handshake
<1>3. CASE HandleClose \/ HandleExit
  BY <1>3 DEF HandleClose, HandleExit, Runs, Sleep, finishCmd, Faultless, Knowledge, Handshake
<1>4. CASE CreateSocket \/ connectServer
  BY <1>4 DEF CreateSocket, connectServer, Faultless, Knowledge, Handshake
<1>5. CASE LockfinishCmd
  BY <1>5 DEF LockfinishCmd, finishCmd, Faultless, Knowledge, Handshake
<1>6. CASE LoopTest
  BY <1>6 DEF LoopTest, Faultless, Knowledge, Handshake
<1>7. CASE Select
  BY <1>7 DEF Select, Faultless, Knowledge
<1>8. CASE doReadFails
  BY <1>1, <1>8 DEF doReadFails, Faultless
<1>9. CASE EndOpen
  <2>1. cmd # "NONE" /\ pc[c] \in {"openWait", "closeWait", "exit"}
    BY <1>9 DEF EndOpen, Faultless, Handshake
  <2> QED
    BY <1>9, <2>1 DEF EndOpen, CloseFd, Faultless, Knowledge
<1>10. CASE doParse
  <2>1. fromPlayer # <<>> /\ 1 \in Genuine(fromPlayer) /\ Head(fromPlayer) = fromPlayer[1]
    BY <1>1, <1>10 DEF doParse, Genuine
  <2>2. pc[c] \in {"startWait", "stopWait"}
    BY <2>1, QuietLine
  <2>3. /\ \A i \in DOMAIN Tail(fromPlayer) :
              i + 1 \in DOMAIN fromPlayer /\ Tail(fromPlayer)[i] = fromPlayer[i + 1]
        /\ 1 \in DOMAIN fromPlayer
    BY <1>1, <2>1
  <2>4. pc[c] = "startWait" => Head(fromPlayer).cmd = "START"
    BY <2>1 DEF Answering
  <2>5. Faultless'
    BY <1>10, <2>3 DEF doParse, Faultless
  <2>6. CASE pc[c] = "startWait"
    <3>1. send_start_result' <=> Plays
      BY <1>10, <2>1, <2>3, <2>4, <2>6 DEF doParse, Knowledge
    <3>2. \A i \in DOMAIN fromPlayer' : fromPlayer'[i].ok <=> Plays
      BY <1>10, <2>3, <2>6 DEF doParse, Knowledge
    <3> QED
      BY <1>10, <2>5, <2>6, <3>1, <3>2 DEF doParse, Knowledge
  <2>7. CASE pc[c] = "stopWait"
    <3>1. ~Plays
      BY <2>1, <2>7 DEF Knowledge
    <3> QED
      BY <1>10, <2>5, <2>7, <3>1 DEF doParse, Knowledge
  <2> QED
    BY <2>2, <2>6, <2>7
<1>11. CASE PlayerAnswers
  <2>1. toPlayer # <<>> /\ toPlayer \in Seq(Request)
    BY <1>11 DEF PlayerAnswers, TypeOK
  <2>2. pc[c] \in {"startWait", "stopWait"}
    BY <2>1, QuietLine
  <2>3. Genuine(fromPlayer) = {} /\ pending = FALSE
    <3>1. Waiting = {c}
      BY <2>2 DEF Waiting
    <3>2. Cardinality(Waiting) = 1
      BY <3>1, FS_Singleton
    <3>3. Len(toPlayer) \in Nat /\ Len(toPlayer) > 0
      BY <2>1
    <3>4. Cardinality(Genuine(fromPlayer)) \in Nat /\ IsFiniteSet(Genuine(fromPlayer))
      BY <1>1, GenuineFinite
    <3>5. Cardinality(Genuine(fromPlayer)) = 0 /\ ~pending
      BY <3>2, <3>3, <3>4 DEF NoStaleReceipt
    <3> QED
      BY <3>4, <3>5, FS_EmptySet DEF TypeOK
  <2>4. fromPlayer = <<>>
    BY <1>1, <2>3 DEF Genuine, Faultless
  <2> DEFINE req == Head(toPlayer)
  <2>5. req = toPlayer[1] /\ 1 \in DOMAIN toPlayer
    BY <2>1
  <2>6. /\ pc[c] = "startWait" => req.cmd = "START" /\ req.ip # NoServer
        /\ pc[c] = "stopWait" => req.cmd = "STOP" /\ req.ip = NoServer
    BY <2>5 DEF Answering, Addressed
  <2>7. PICK ok \in BOOLEAN : /\ req.cmd = "STOP" => ok
                              /\ fromPlayer' = Append(fromPlayer, [cmd |-> req.cmd, ok |-> ok])
                              /\ playing' = IF ok THEN req.ip ELSE NoServer
    BY <1>11 DEF PlayerAnswers
  <2> HIDE DEF req
  <2>8. \A i \in DOMAIN fromPlayer' :
           fromPlayer'[i].cmd = req.cmd /\ fromPlayer'[i].ok = ok
    BY <2>4, <2>7
  <2>9. Faultless'
    BY <1>11, <2>2, <2>6, <2>8 DEF PlayerAnswers, Faultless
  <2>10. CASE pc[c] = "startWait"
    <3>1. ok <=> Plays'
      BY <2>6, <2>7, <2>10
    <3> QED
      BY <1>11, <2>3, <2>8, <2>9, <2>10, <3>1 DEF PlayerAnswers, Knowledge
  <2>11. CASE pc[c] = "stopWait"
    <3>1. ~Plays'
      BY <2>6, <2>7, <2>11
    <3> QED
      BY <1>11, <2>9, <2>11, <3>1 DEF PlayerAnswers, Knowledge
  <2> QED
    BY <2>2, <2>10, <2>11
<1> QED
  BY <1>2, <1>3, <1>4, <1>5, <1>6, <1>7, <1>8, <1>9, <1>10, <1>11 DEF WorkerStep, Handle

\* Whenever the single caller is between two calls, and nothing has failed so
\* far, the device is connected exactly when the player plays: doPlay keeps the
\* connection only of an accepted START, and no Close overtakes a STOP.
THEOREM PlaybackKnown ==
    ASSUME NEW c, Callers = {c}
    PROVE  Spec => []PlaybackAgrees
<1>1. Init => Addressed /\ PlaybackInv
  BY DEF Init, Addressed, PlaybackInv, Faultless, Knowledge, Attended, Plays
<1>2. /\ TypeOK /\ Handshake /\ DescriptorInv /\ NoStaleReceipt /\ Answering
      /\ Addressed /\ PlaybackInv /\ [Next]_vars
      => Addressed' /\ PlaybackInv'
  <2> SUFFICES ASSUME TypeOK, Handshake, DescriptorInv, NoStaleReceipt, Answering,
                      Addressed, PlaybackInv, [Next]_vars
               PROVE  PlaybackInv'
    BY AddressedStep
  <2>1. CASE UNCHANGED vars
    BY <2>1 DEF vars, mailbox, answer, link, player, PlaybackInv, Faultless, Knowledge,
       Attended, Plays
  <2>2. CASE Next
    <3> SUFFICES ASSUME faults' = 0 PROVE Faultless' /\ Knowledge'
      BY DEF PlaybackInv
    <3>1. faults = 0 /\ ~SelectFails /\ ~PlayerCrashes /\ ~PlayerSendsGarbage
      BY <2>2, NothingFailed
    <3>2. Faultless /\ Knowledge
      BY <3>1 DEF PlaybackInv
    <3> QED
      BY <2>2, <3>1, <3>2, PlaybackCaller, PlaybackOther DEF Next, Environment
  <2> QED
    BY <2>1, <2>2
<1>3. PlaybackInv => PlaybackAgrees
  BY DEF PlaybackInv, Knowledge, Plays, PlaybackAgrees
<1> QED
  BY <1>1, <1>2, <1>3, TypeCorrect, HandshakeKept, DescriptorOwned, NeverStale,
     AnsweringKept, PTL DEF Spec
=============================================================================
