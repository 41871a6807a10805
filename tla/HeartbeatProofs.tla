--------------------------- MODULE HeartbeatProofs ---------------------------
(***************************************************************************)
(* The alive check is exact and heartbeats are in time for all timeouts    *)
(* and all clocks, the 5000 ms and the 500 ms of the code among them.      *)
(***************************************************************************)
EXTENDS Heartbeat, TLAPS

-----------------------------------------------------------------------------
(* diff_in_us on the timespecs of two instants                             *)

\* A timespec holds the instant in two parts.
LEMMA Parts ==
    ASSUME NEW ns \in Nat
    PROVE  /\ ns \div 1000000000 \in Nat /\ ns % 1000000000 \in Nat
           /\ ns = 1000000000 * (ns \div 1000000000) + (ns % 1000000000)
  BY SMT

\* Seconds are whole microseconds, so that truncation passes them by.
LEMMA Seconds ==
    ASSUME NEW s \in Int, NEW n \in Int
    PROVE  (1000000000 * s + n) \div 1000 = s * 1000000 + n \div 1000
  BY SMT

\* To count whole microseconds and of these whole milliseconds is to count
\* whole milliseconds.
LEMMA Milliseconds ==
    ASSUME NEW n \in Int
    PROVE  (n \div 1000) \div 1000 = n \div 1000000
  BY SMT

\* For any two instants diff_in_us gives the whole microseconds in between: the
\* borrow is made when it must be, and what truncation loses is below one.
THEOREM DiffInUsExact ==
    ASSUME NEW a \in Nat, NEW c \in Nat
    PROVE  diff_in_us(clock_gettime(a), clock_gettime(c)) = (c - a) \div 1000
<1> DEFINE s1 == a \div 1000000000
           n1 == a % 1000000000
           s2 == c \div 1000000000
           n2 == c % 1000000000
<1>1. s1 \in Nat /\ n1 \in Nat /\ a = 1000000000 * s1 + n1
  BY Parts, SMT
<1>2. s2 \in Nat /\ n2 \in Nat /\ c = 1000000000 * s2 + n2
  BY Parts, SMT
<1> DEFINE nsec == n2 - n1
<1>3. diff_in_us(clock_gettime(a), clock_gettime(c)) =
        IF nsec < 0 THEN (s2 - s1 - 1) * 1000000 + (nsec + 1000000000) \div 1000
                    ELSE (s2 - s1) * 1000000 + nsec \div 1000
  BY DEF diff_in_us, clock_gettime
<1> HIDE DEF s1, n1, s2, n2
<1>4. nsec \in Int /\ s2 - s1 \in Int
  BY <1>1, <1>2, SMT
<1>5. /\ c - a = 1000000000 * (s2 - s1) + nsec
      /\ c - a = 1000000000 * (s2 - s1 - 1) + (nsec + 1000000000)
  BY <1>1, <1>2, SMT
<1> HIDE DEF nsec
<1>6. CASE nsec < 0
  <2>1. (1000000000 * (s2 - s1 - 1) + (nsec + 1000000000)) \div 1000
          = (s2 - s1 - 1) * 1000000 + (nsec + 1000000000) \div 1000
    BY <1>4, Seconds, SMT
  <2> QED
    BY <1>3, <1>5, <1>6, <2>1
<1>7. CASE ~(nsec < 0)
  <2>1. (1000000000 * (s2 - s1) + nsec) \div 1000 = (s2 - s1) * 1000000 + nsec \div 1000
    BY <1>4, Seconds, SMT
  <2> QED
    BY <1>3, <1>5, <1>7, <2>1
<1> QED
  BY <1>6, <1>7

\* A number of whole milliseconds is within the timeout exactly if the time is
\* short of one more.
LEMMA WithinTimeout ==
    ASSUME NEW n \in Int
    PROVE  n \div 1000000 <= AliveTimeout <=> n < TooLong
<1>1. AliveTimeout \in Nat
  BY HeartbeatAssumption
<1> QED
  BY <1>1, SMT DEF TooLong

-----------------------------------------------------------------------------
(* The inductive invariant                                                 *)

\* The instants are what they seem; nothing lies in the future.
ClockInv ==
    /\ clock \in Nat /\ inbox \in Seq(Kinds)
    /\ {aliveAt, handledAt, silentAt, beatAt} \subseteq 0..clock

\* select() waits for its timeout and no longer: the timeout is a whole number
\* of steps.
WaitInv == waited \in 0..SelectTimeout /\ (SelectTimeout - waited) % Step = 0

NoAlive(messages) == \A k \in DOMAIN messages : messages[k] # "ALIVE"

\* aliveTime is an instant at which the loop was done with a message, and not
\* older than the last heartbeat, unless that has not been read.
AliveInv ==
    \E at \in Nat :
        /\ aliveTime = clock_gettime(at) /\ at <= handledAt
        /\ NoAlive(inbox) => aliveAt <= at

\* Counted from the last timeout of select(), the silence was still allowed, and
\* a heartbeat has just been sent or a message handled.
SelectInv ==
    pc = "select" =>
        /\ clock - waited - handledAt < TooLong
        /\ clock - waited <= beatAt \/ clock - waited <= silentAt

SilentInv == pc = "silent" => clock - aliveAt >= TooLong

IInv == ClockInv /\ WaitInv /\ AliveInv /\ SelectInv /\ SilentInv

\* The timeouts and the step are positive numbers.
LEMMA Constants ==
    /\ AliveTimeout \in Nat /\ SelectTimeout \in Nat /\ Step \in Nat
    /\ 0 < Step /\ 0 < SelectTimeout /\ SelectTimeout % Step = 0
    /\ StartTimes \subseteq Nat /\ TooLong \in Nat /\ 0 < TooLong
<1>1. AliveTimeout \in Nat
  BY HeartbeatAssumption
<1>2. TooLong \in Nat /\ 0 < TooLong
  BY <1>1, SMT DEF TooLong
<1> QED
  BY <1>2, HeartbeatAssumption

\* A whole number of steps that is not over yet has a step left.
LEMMA StepFits ==
    ASSUME NEW left \in Nat, NEW s \in Nat, 0 < s, 0 < left, left % s = 0
    PROVE  s <= left /\ (left - s) % s = 0
<1>1. PICK q \in Int : left = s * q
  <2>1. left = s * (left \div s) + (left % s) /\ left \div s \in Int
    BY SMT
  <2> QED
    BY <2>1
<1>2. 1 <= q
  BY <1>1, SMT
<1>3. q - 1 \in Nat /\ left - s = s * (q - 1)
  BY <1>1, <1>2, SMT
<1>4. (s * (q - 1)) % s = 0
  BY <1>3, SMT
<1>5. 0 <= s * (q - 1)
  BY <1>3, SMT
<1> QED
  BY <1>3, <1>4, <1>5

-----------------------------------------------------------------------------
\* The first step of select(): the whole timeout is ahead.
LEMMA WaitAnew ==
    ASSUME waited' = 0
    PROVE  WaitInv'
  BY Constants DEF WaitInv

\* The invariant holds before the first session.
LEMMA InitIInv == Init => IInv
<1> SUFFICES ASSUME Init PROVE IInv
  OBVIOUS
<1> USE DEF Init
<1>1. ClockInv
  BY Constants DEF ClockInv
<1>2. WaitInv
  BY Constants DEF WaitInv
<1>3. AliveInv
  <2>1. clock_gettime(0) = [tv_sec |-> 0, tv_nsec |-> 0]
    BY SMT DEF clock_gettime
  <2> QED
    BY <2>1 DEF AliveInv
<1>4. SelectInv /\ SilentInv
  BY DEF SelectInv, SilentInv
<1> QED
  BY <1>1, <1>2, <1>3, <1>4 DEF IInv

\* A session begins, at the present.
LEMMA ConnectKeeps ==
    ASSUME IInv, Connect
    PROVE  IInv'
<1> USE DEF IInv, Connect
<1>1. ClockInv'
  BY DEF ClockInv
<1>2. WaitInv'
  BY WaitAnew
<1>3. AliveInv'
  BY DEF AliveInv, ClockInv
<1>4. SelectInv' /\ SilentInv'
  BY Constants DEF SelectInv, SilentInv, ClockInv
<1> QED
  BY <1>1, <1>2, <1>3, <1>4

\* select() times out: the check measures the age of aliveTime exactly, so the
\* session ends if the device is silent and goes on only if it may.
LEMMA TimesOutKeeps ==
    ASSUME IInv, TimesOut
    PROVE  IInv'
<1> USE DEF IInv
<1>1. UNCHANGED <<clock, aliveTime, inbox, aliveAt, handledAt, silentAt>>
      /\ beatAt' = clock /\ waited' = 0 /\ inbox = <<>> /\ pc = "select"
      /\ pc' = IF checkCastServerAlive THEN "select" ELSE "silent"
  BY DEF TimesOut, sendAlive
<1>2. ClockInv'
  BY <1>1 DEF ClockInv
<1>3. WaitInv'
  BY <1>1, WaitAnew
<1>4. AliveInv'
  BY <1>1 DEF AliveInv
<1>5. PICK at \in Nat : /\ aliveTime = clock_gettime(at) /\ at <= handledAt
                        /\ NoAlive(inbox) => aliveAt <= at
  BY DEF AliveInv
<1>6. aliveAt <= at
  BY <1>1, <1>5 DEF NoAlive
<1>7. clock \in Nat /\ handledAt \in 0..clock /\ aliveAt \in 0..clock
  BY DEF ClockInv
<1>8. checkCastServerAlive <=> clock - at < TooLong
  <2>1. diff_in_us(aliveTime, clock_gettime(clock)) = (clock - at) \div 1000
    BY <1>5, <1>7, DiffInUsExact
  <2>2. clock - at \in Int
    BY <1>7
  <2>3. ((clock - at) \div 1000) \div 1000 = (clock - at) \div 1000000
    BY <2>2, Milliseconds
  <2> QED
    BY <2>1, <2>2, <2>3, WithinTimeout DEF checkCastServerAlive
<1>9. SelectInv'
  BY <1>1, <1>5, <1>7, <1>8, Constants DEF SelectInv
<1>10. SilentInv'
  BY <1>1, <1>6, <1>7, <1>8, Constants DEF SilentInv
<1> QED
  BY <1>2, <1>3, <1>4, <1>9, <1>10

\* A message is handled: a heartbeat moves aliveTime to the present, any other
\* leaves it alone and takes no heartbeat from the inbox.
LEMMA ReadKeeps ==
    ASSUME IInv, doRead
    PROVE  IInv'
<1> USE DEF IInv
<1>1. /\ pc = "select" /\ inbox # <<>> /\ inbox \in Seq(Kinds)
      /\ inbox' = Tail(inbox) /\ clock' = clock /\ aliveAt' = aliveAt
      /\ doParse(Head(inbox))
  BY DEF doRead, ClockInv
<1>2. Head(inbox) \in Kinds /\ Tail(inbox) \in Seq(Kinds)
  BY <1>1
<1>3. clock \in Nat /\ {aliveAt, handledAt, silentAt, beatAt} \subseteq 0..clock
  BY DEF ClockInv
<1>4. PICK at \in Nat : /\ aliveTime = clock_gettime(at) /\ at <= handledAt
                        /\ NoAlive(inbox) => aliveAt <= at
  BY DEF AliveInv
<1>5. ASSUME Head(inbox) # "ALIVE", NoAlive(Tail(inbox)) PROVE NoAlive(inbox)
  <2> SUFFICES ASSUME NEW k \in DOMAIN inbox PROVE inbox[k] # "ALIVE"
    BY DEF NoAlive
  <2>1. CASE k = 1
    BY <1>1, <1>5, <2>1
  <2>2. CASE k # 1
    <3>1. k - 1 \in DOMAIN Tail(inbox) /\ Tail(inbox)[k - 1] = inbox[k]
      BY <1>1, <2>2
    <3> QED
      BY <1>5, <3>1 DEF NoAlive
  <2> QED
    BY <2>1, <2>2
<1>6. CASE Head(inbox) = "ALIVE"
  <2>1. /\ aliveTime' = clock_gettime(clock) /\ handledAt' = clock /\ silentAt' = clock
        /\ beatAt' = beatAt /\ waited' = 0 /\ pc' = "select"
    BY <1>1, <1>6 DEF doParse, Answered, doSetAlive, Handled
  <2>2. ClockInv'
    BY <1>1, <1>2, <1>3, <2>1 DEF ClockInv
  <2>3. WaitInv'
    BY <2>1, WaitAnew
  <2>4. AliveInv'
    BY <1>1, <1>3, <2>1 DEF AliveInv
  <2>5. SelectInv' /\ SilentInv'
    BY <1>1, <1>3, <2>1, Constants DEF SelectInv, SilentInv
  <2> QED
    BY <2>2, <2>3, <2>4, <2>5
<1>7. CASE Head(inbox) \in {"METADATA", "POSITION"}
  <2>1. /\ aliveTime' = aliveTime /\ handledAt' = clock /\ waited' = 0 /\ pc' = "select"
        /\ \/ silentAt' = silentAt /\ beatAt' = clock
           \/ silentAt' = clock /\ beatAt' = beatAt
    BY <1>1, <1>7 DEF doParse, Answered, sendAlive, Handled
  <2>2. ClockInv'
    BY <1>1, <1>2, <1>3, <2>1 DEF ClockInv
  <2>3. WaitInv'
    BY <2>1, WaitAnew
  <2>4. AliveInv'
    BY <1>1, <1>3, <1>4, <1>5, <1>7, <2>1 DEF AliveInv
  <2>5. SelectInv' /\ SilentInv'
    BY <1>1, <1>3, <2>1, Constants DEF SelectInv, SilentInv
  <2> QED
    BY <2>2, <2>3, <2>4, <2>5
<1>8. CASE Head(inbox) \in {"PLAY", "EXIT"}
  <2>1. /\ UNCHANGED <<aliveTime, handledAt, silentAt, beatAt, waited>>
        /\ pc' \in {"busy", "leave"}
    BY <1>1, <1>8 DEF doParse, Answered
  <2>2. ClockInv'
    BY <1>1, <1>2, <1>3, <2>1 DEF ClockInv
  <2>3. WaitInv'
    BY <2>1 DEF WaitInv
  <2>4. AliveInv'
    BY <1>1, <1>3, <1>4, <1>5, <1>8, <2>1 DEF AliveInv
  <2>5. SelectInv' /\ SilentInv'
    BY <2>1 DEF SelectInv, SilentInv
  <2> QED
    BY <2>2, <2>3, <2>4, <2>5
<1> QED
  BY <1>2, <1>6, <1>7, <1>8 DEF Kinds

\* A call into SnapcastComm returns, and select() starts anew.
LEMMA ReturnsKeeps ==
    ASSUME IInv, Returns
    PROVE  IInv'
<1> USE DEF IInv
<1>1. /\ UNCHANGED <<clock, aliveTime, inbox, aliveAt, beatAt>>
      /\ handledAt' = clock /\ silentAt' = clock /\ waited' = 0 /\ pc' = "select"
  BY DEF Returns, Handled
<1>2. clock \in Nat /\ {aliveAt, handledAt, silentAt, beatAt} \subseteq 0..clock
  BY DEF ClockInv
<1>3. ClockInv'
  BY <1>1 DEF ClockInv
<1>4. WaitInv'
  BY <1>1, WaitAnew
<1>5. AliveInv'
  <2>1. PICK at \in Nat : /\ aliveTime = clock_gettime(at) /\ at <= handledAt
                          /\ NoAlive(inbox) => aliveAt <= at
    BY DEF AliveInv
  <2> QED
    BY <1>1, <1>2, <2>1 DEF AliveInv
<1>6. SelectInv' /\ SilentInv'
  BY <1>1, <1>2, Constants DEF SelectInv, SilentInv
<1> QED
  BY <1>3, <1>4, <1>5, <1>6

\* The end of a session leaves the times as they are.
LEMMA EndsKeep ==
    ASSUME IInv, UNCHANGED <<clock, aliveTime, waited, inbox, history>>,
           pc' \in {"leave", "closed"} \/ UNCHANGED pc
    PROVE  IInv'
<1> USE DEF IInv, history
<1>1. ClockInv' /\ WaitInv'
  BY DEF ClockInv, WaitInv
<1>2. AliveInv'
  BY DEF AliveInv
<1>3. SelectInv' /\ SilentInv'
  BY DEF SelectInv, SilentInv
<1> QED
  BY <1>1, <1>2, <1>3

\* A heartbeat that arrives is the last one, and unread.
LEMMA ArrivesKeeps ==
    ASSUME IInv, NEW kind \in Kinds, Arrives(kind)
    PROVE  IInv'
<1> USE DEF IInv
<1>1. /\ UNCHANGED <<pc, clock, aliveTime, waited, handledAt, silentAt, beatAt>>
      /\ inbox \in Seq(Kinds) /\ inbox' = Append(inbox, kind)
      /\ aliveAt' = IF kind = "ALIVE" THEN clock ELSE aliveAt
      /\ pc \in {"select", "busy"}
  BY DEF Arrives, ClockInv
<1>2. /\ Len(inbox) + 1 \in DOMAIN inbox' /\ inbox'[Len(inbox) + 1] = kind
      /\ \A k \in DOMAIN inbox : k \in DOMAIN inbox' /\ inbox'[k] = inbox[k]
  BY <1>1
<1>3. NoAlive(inbox') => kind # "ALIVE" /\ NoAlive(inbox)
  BY <1>2 DEF NoAlive
<1>4. clock \in Nat /\ {aliveAt, handledAt, silentAt, beatAt} \subseteq 0..clock
  BY DEF ClockInv
<1>5. ClockInv'
  <2>1. inbox' \in Seq(Kinds)
    BY <1>1
  <2>2. aliveAt' \in 0..clock
    BY <1>1, <1>4
  <2> QED
    BY <1>1, <1>4, <2>1, <2>2 DEF ClockInv
<1>6. WaitInv'
  BY <1>1 DEF WaitInv
<1>7. AliveInv'
  BY <1>1, <1>3 DEF AliveInv
<1>8. SelectInv' /\ SilentInv'
  BY <1>1 DEF SelectInv, SilentInv
<1> QED
  BY <1>5, <1>6, <1>7, <1>8

\* Time passes: what select() has waited and the clock advance together, so the
\* silence counted from the last timeout does not grow.
LEMMA TickKeeps ==
    ASSUME IInv, Tick
    PROVE  IInv'
<1> USE DEF IInv
<1>1. /\ clock' = clock + Step /\ UNCHANGED <<pc, aliveTime, inbox, history>>
      /\ clock \in Nat /\ {aliveAt, handledAt, silentAt, beatAt} \subseteq 0..clock
      /\ \/ pc \in {"busy", "closed"} /\ waited' = waited
         \/ pc = "select" /\ waited < SelectTimeout /\ waited' = waited + Step
  BY DEF Tick, ClockInv
<1>2. UNCHANGED <<aliveAt, handledAt, silentAt, beatAt>>
  BY <1>1 DEF history
<1>3. ClockInv'
  BY <1>1, <1>2, Constants DEF ClockInv
<1>4. WaitInv'
  <2>1. CASE waited' = waited
    BY <2>1 DEF WaitInv
  <2>2. CASE waited < SelectTimeout /\ waited' = waited + Step
    <3> DEFINE left == SelectTimeout - waited
    <3>1. waited \in Nat /\ left \in Nat /\ 0 < left /\ left % Step = 0
      BY <2>2, Constants DEF WaitInv
    <3> HIDE DEF left
    <3>2. Step <= left /\ (left - Step) % Step = 0
      BY <3>1, Constants, StepFits
    <3>3. waited' \in 0..SelectTimeout /\ SelectTimeout - waited' = left - Step
      BY <2>2, <3>1, <3>2, Constants DEF left
    <3> QED
      BY <3>2, <3>3 DEF WaitInv
  <2> QED
    BY <1>1, <2>1, <2>2
<1>5. AliveInv'
  BY <1>1, <1>2 DEF AliveInv
<1>6. SelectInv'
  BY <1>1, <1>2, Constants DEF SelectInv, WaitInv
<1>7. SilentInv'
  BY <1>1 DEF SilentInv
<1> QED
  BY <1>3, <1>4, <1>5, <1>6, <1>7

\* Every step keeps the invariant.
LEMMA NextIInv == IInv /\ [Next]_vars => IInv'
<1> SUFFICES ASSUME IInv, [Next]_vars PROVE IInv'
  OBVIOUS
<1>1. CASE Connect
  BY <1>1, ConnectKeeps
<1>2. CASE TimesOut
  BY <1>2, TimesOutKeeps
<1>3. CASE doRead
  BY <1>3, ReadKeeps
<1>4. CASE Returns
  BY <1>4, ReturnsKeeps
<1>5. CASE Leaves
  BY <1>5, EndsKeep DEF Leaves
<1>6. CASE Closes
  BY <1>6, EndsKeep DEF Closes
<1>7. CASE \E kind \in Kinds : Arrives(kind)
  BY <1>7, ArrivesKeeps
<1>8. CASE Tick
  BY <1>8, TickKeeps
<1>9. CASE UNCHANGED vars
  BY <1>9, EndsKeep DEF vars
<1> QED
  BY <1>1, <1>2, <1>3, <1>4, <1>5, <1>6, <1>7, <1>8, <1>9 DEF Next

\* The invariant holds in every state.
LEMMA InvHolds == Spec => []IInv
  BY InitIInv, NextIInv, PTL DEF Spec

-----------------------------------------------------------------------------
(* What follows                                                            *)

\* do_open gives Android up exactly if it is silent, for all timeouts.
THEOREM AliveCheckExact == Spec => []AliveTimeoutExact
<1>1. IInv => AliveTimeoutExact
  BY Constants DEF IInv, ClockInv, WaitInv, SelectInv, SilentInv, AliveTimeoutExact
<1> QED
  BY <1>1, InvHolds, PTL

\* While no unanswered message comes and the player is not waited for, a
\* heartbeat is never later than one timeout of select(), for all timeouts.
THEOREM HeartbeatsKept == Spec => []HeartbeatInTime
<1>1. IInv => HeartbeatInTime
  BY SMTT(30), Constants DEF IInv, ClockInv, WaitInv, SelectInv, HeartbeatInTime
<1> QED
  BY <1>1, InvHolds, PTL
=============================================================================
