----------------------------- MODULE FrameQueue -----------------------------
(***************************************************************************)
(* What a connection promises the threads that share it: messages arrive   *)
(* whole and in the order in which they were sent, and a new connection    *)
(* begins empty.                                                           *)
(***************************************************************************)
EXTENDS Sequences

CONSTANT Messages

VARIABLES queue, delivered

vars == <<queue, delivered>>

Init == queue = <<>> /\ delivered = <<>>

Send(m) == queue' = Append(queue, m) /\ UNCHANGED delivered

Deliver ==
    /\ queue # <<>>
    /\ delivered' = Append(delivered, Head(queue))
    /\ queue' = Tail(queue)

\* Messages that have not arrived are lost with the connection.
Connect == queue' = <<>> /\ delivered' = <<>>

Next == Deliver \/ Connect \/ \E m \in Messages : Send(m)

Spec == Init /\ [][Next]_vars
=============================================================================
