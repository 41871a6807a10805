----------------------------- MODULE Heartbeat -----------------------------
(***************************************************************************)
(* The session loop of LightningCastClient::do_open against the clock.     *)
(* Heartbeats go both ways: the device sends one whenever select() has     *)
(* waited in vain, and before it handles a few kinds of messages; Android's*)
(* own must not be missing for too long.                                   *)
(*                                                                         *)
(* Time advances in steps while the thread waits, in select() or in a call *)
(* into SnapcastComm; what it computes takes no time.                      *)
(*                                                                         *)
(* A definition named after another one with a suffix is that definition   *)
(* with a fault seeded; no specification uses it.                          *)
(***************************************************************************)
EXTENDS Integers, Sequences

CONSTANTS
    AliveTimeout,   \* 5000 in the code, in ms
    SelectTimeout,  \* 500 ms in the code, in ns like every time below
    Step,           \* of the clock
    StartTimes,     \* what the clock may show when the endpoint starts
    MaxTime,        \* the last instant (bounds the model)
    MaxInbox        \* messages on their way from Android (bounds the model)

ASSUME HeartbeatAssumption ==
    /\ {AliveTimeout, SelectTimeout, Step} \subseteq Nat \ {0}
    /\ {MaxTime, MaxInbox} \subseteq Nat
    /\ StartTimes \subseteq 0..MaxTime
    /\ SelectTimeout % Step = 0

VARIABLES
    pc,             \* "closed", "select", "busy" in SnapcastComm, "leave",
                    \* or "silent", which is "leave" after the alive check
    clock,          \* ns on the monotonic clock
    aliveTime,      \* a timespec
    waited,         \* how long select() has waited
    inbox,          \* what has arrived and not been read
    aliveAt,        \* history: when Android's last heartbeat arrived
    handledAt,      \* history: when the loop was last done with a message
    silentAt,       \* history: ... with one that is not answered by a heartbeat
    beatAt          \* history: when the last heartbeat was sent

history == <<aliveAt, handledAt, silentAt, beatAt>>
vars    == <<pc, clock, aliveTime, waited, inbox, history>>

\* Android's heartbeat, one of the messages answered by one, one that is not,
\* one that is handled by calls into SnapcastComm, and EXIT or nonsense.
Kinds    == {"ALIVE", "METADATA", "POSITION", "PLAY", "EXIT"}
Answered == {"METADATA"}

Times == 0..MaxTime

\* Type invariant.
TypeOK ==
    /\ pc \in {"closed", "select", "busy", "leave", "silent"}
    /\ clock \in Times /\ waited \in 0..SelectTimeout
    /\ aliveTime.tv_sec \in Nat /\ aliveTime.tv_nsec \in 0..999999999
    /\ inbox \in Seq(Kinds) /\ Len(inbox) <= MaxInbox
    /\ {aliveAt, handledAt, silentAt, beatAt} \subseteq Times

-----------------------------------------------------------------------------
(* Util.cpp                                                                *)

clock_gettime(ns) ==
    [tv_sec |-> ns \div 1000000000, tv_nsec |-> ns % 1000000000]

diff_in_us_NoBorrow(t1, t2) ==
    LET nsec == t2.tv_nsec - t1.tv_nsec IN
    IF nsec < 0 THEN (t2.tv_sec - t1.tv_sec) * 1000000 + (nsec + 1000000000) \div 1000
                ELSE (t2.tv_sec - t1.tv_sec) * 1000000 + nsec \div 1000

diff_in_us(t1, t2) ==
    LET nsec == t2.tv_nsec - t1.tv_nsec IN
    IF nsec < 0 THEN (t2.tv_sec - t1.tv_sec - 1) * 1000000 + (nsec + 1000000000) \div 1000
                ELSE (t2.tv_sec - t1.tv_sec) * 1000000 + nsec \div 1000

checkCastServerAlive ==
    diff_in_us(aliveTime, clock_gettime(clock)) \div 1000 <= AliveTimeout

-----------------------------------------------------------------------------
(* do_open                                                                 *)

Init ==
    /\ pc = "closed" /\ clock \in StartTimes
    /\ aliveTime = [tv_sec |-> 0, tv_nsec |-> 0] /\ waited = 0 /\ inbox = <<>>
    /\ aliveAt = 0 /\ handledAt = 0 /\ silentAt = 0 /\ beatAt = 0

sendAlive == beatAt' = clock

\* The greeting is sent, and time counts from it.
Connect ==
    /\ pc = "closed"
    /\ aliveTime' = clock_gettime(clock)
    /\ pc' = "select" /\ waited' = 0 /\ inbox' = <<>>
    /\ aliveAt' = clock /\ handledAt' = clock /\ silentAt' = clock /\ beatAt' = clock
    /\ UNCHANGED clock

\* select() returns 0.
TimesOut ==
    /\ pc = "select" /\ inbox = <<>> /\ waited = SelectTimeout
    /\ sendAlive
    /\ pc' = IF checkCastServerAlive THEN "select" ELSE "silent"
    /\ waited' = 0
    /\ UNCHANGED <<clock, aliveTime, inbox, aliveAt, handledAt, silentAt>>

\* The handler is done, and select() is called again with a new timeout.
Handled == pc' = "select" /\ waited' = 0 /\ handledAt' = clock

doSetAlive == aliveTime' = clock_gettime(clock)

doParse_NoAnswer(kind) ==
    CASE kind = "ALIVE" -> doSetAlive /\ Handled /\ silentAt' = clock /\ UNCHANGED beatAt
      [] kind = "METADATA" -> Handled /\ UNCHANGED <<aliveTime, silentAt, beatAt>>
      [] kind = "POSITION" -> Handled /\ silentAt' = clock /\ UNCHANGED <<aliveTime, beatAt>>
      [] kind = "PLAY" ->
            pc' = "busy" /\ UNCHANGED <<waited, aliveTime, handledAt, silentAt, beatAt>>
      [] kind = "EXIT" ->
            pc' = "leave" /\ UNCHANGED <<waited, aliveTime, handledAt, silentAt, beatAt>>

doParse(kind) ==
    CASE kind = "ALIVE" -> doSetAlive /\ Handled /\ silentAt' = clock /\ UNCHANGED beatAt
      [] kind \in Answered -> sendAlive /\ Handled /\ UNCHANGED <<aliveTime, silentAt>>
      [] kind = "POSITION" -> Handled /\ silentAt' = clock /\ UNCHANGED <<aliveTime, beatAt>>
      [] kind = "PLAY" ->
            pc' = "busy" /\ UNCHANGED <<waited, aliveTime, handledAt, silentAt, beatAt>>
      [] kind = "EXIT" ->
            pc' = "leave" /\ UNCHANGED <<waited, aliveTime, handledAt, silentAt, beatAt>>

doRead ==
    /\ pc = "select" /\ inbox # <<>>
    /\ doParse(Head(inbox))
    /\ inbox' = Tail(inbox)
    /\ UNCHANGED <<clock, aliveAt>>

\* doPlay, doPause or doStop return.
Returns ==
    /\ pc = "busy"
    /\ Handled /\ silentAt' = clock
    /\ UNCHANGED <<clock, aliveTime, inbox, aliveAt, beatAt>>

\* Android hangs up, or another command is posted.
Leaves ==
    /\ pc = "select"
    /\ pc' = "leave"
    /\ UNCHANGED <<clock, aliveTime, waited, inbox, history>>

\* The session is torn down, in which time the next one may be asked for.
Closes ==
    /\ pc \in {"leave", "silent"}
    /\ pc' = "closed"
    /\ UNCHANGED <<clock, aliveTime, waited, inbox, history>>

-----------------------------------------------------------------------------
Arrives(kind) ==
    /\ pc \in {"select", "busy"} /\ Len(inbox) < MaxInbox
    /\ inbox' = Append(inbox, kind)
    /\ aliveAt' = IF kind = "ALIVE" THEN clock ELSE aliveAt
    /\ UNCHANGED <<pc, clock, aliveTime, waited, handledAt, silentAt, beatAt>>

Tick ==
    /\ clock + Step <= MaxTime
    /\ \/ pc \in {"busy", "closed"} /\ UNCHANGED waited
       \/ /\ pc = "select" /\ inbox = <<>> /\ waited < SelectTimeout
          /\ waited' = waited + Step
    /\ clock' = clock + Step
    /\ UNCHANGED <<pc, aliveTime, inbox, history>>

Next ==
    \/ Connect \/ TimesOut \/ doRead \/ Returns \/ Leaves \/ Closes
    \/ \E kind \in Kinds : Arrives(kind)
    \/ Tick

Spec == Init /\ [][Next]_vars

-----------------------------------------------------------------------------
(* Properties                                                              *)

\* The silence that do_open no longer puts up with: it counts whole
\* milliseconds, so this is one more than the timeout.
TooLong == (AliveTimeout + 1) * 1000000

\* Android is given up exactly if it is silent.  If it is, no heartbeat has
\* arrived for longer than the timeout, not even one still unread after a
\* handler that took its time, and in this session; and an Android that has
\* fallen silent is not kept beyond the select timeouts it takes to notice.
AliveTimeoutExact ==
    /\ pc = "silent" => clock - aliveAt >= TooLong
    /\ pc = "select" => clock - handledAt < TooLong + SelectTimeout

\* The comment at SET_METADATA: Android must not miss heartbeats while messages
\* keep coming.  At least one is sent per select timeout, except while messages
\* come that are not answered, or a handler waits for the player.
HeartbeatInTime ==
    pc = "select" => \/ clock - beatAt <= SelectTimeout
                     \/ clock - silentAt <= SelectTimeout
=============================================================================
