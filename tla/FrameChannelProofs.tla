------------------------- MODULE FrameChannelProofs -------------------------
(***************************************************************************)
(* The connection to Android keeps the promise of FrameQueue for any       *)
(* messages, any capacity of the socket buffers and any way in which       *)
(* writes and reads split a frame.                                         *)
(***************************************************************************)
EXTENDS FrameChannel, SequenceTheorems, TLAPS

-----------------------------------------------------------------------------
(* Frames, and cells that are frames one after the other                   *)

\* The cells of a frame.
LEMMA FrameShape ==
    ASSUME NEW m \in Seq(Nat)
    PROVE  /\ Frame(m) \in Seq(Nat)
           /\ Len(Frame(m)) = HeaderSize + Len(m)
           /\ Frame(m)[1] = LIGHTNINGCAST_COMM_HEADER_KEY
           /\ Frame(m)[2] = Len(m)
           /\ \A i \in 1..Len(m) : Frame(m)[HeaderSize + i] = m[i]
<1> DEFINE header == <<LIGHTNINGCAST_COMM_HEADER_KEY, Len(m)>>
<1>1. LIGHTNINGCAST_COMM_HEADER_KEY \in Nat
  BY SMT DEF LIGHTNINGCAST_COMM_HEADER_KEY
<1>2. header \in Seq(Nat) /\ Len(header) = 2
  BY <1>1, LenProperties
<1>3. header[1] = LIGHTNINGCAST_COMM_HEADER_KEY /\ header[2] = Len(m)
  OBVIOUS
<1>4. Frame(m) = header \o m
  BY DEF Frame
<1> HIDE DEF header
<1>5. /\ header \o m \in Seq(Nat) /\ Len(header \o m) = Len(header) + Len(m)
      /\ \A i \in 1..Len(header) + Len(m) :
            (header \o m)[i] = IF i <= Len(header) THEN header[i] ELSE m[i - Len(header)]
  BY <1>2, ConcatProperties
<1> QED
  BY <1>2, <1>3, <1>4, <1>5, LenProperties DEF HeaderSize

\* A cell of a piece of a sequence is a cell of the sequence.
LEMMA Inside ==
    ASSUME NEW a \in Nat, NEW l \in Nat, NEW b \in Nat, NEW n \in Nat, NEW i \in 1..l,
           b = a + l, b <= n
    PROVE  a + i \in 1..n
BY SMT

\* off[k] is where the k-th frame ends.
Offsets(off, cells, ms) ==
    /\ off[0] = 0 /\ off[Len(ms)] = Len(cells)
    /\ \A j, k \in 0..Len(ms) : j <= k => off[j] <= off[k]
    /\ \A k \in 1..Len(ms) :
          /\ off[k] = off[k - 1] + Len(Frame(ms[k]))
          /\ \A i \in 1..Len(Frame(ms[k])) : cells[off[k - 1] + i] = Frame(ms[k])[i]

\* The cells are the frames of the messages.
Framed(cells, ms) == \E off \in [0..Len(ms) -> Nat] : Offsets(off, cells, ms)

LEMMA FramedEmpty ==
    /\ Framed(<<>>, <<>>)
    /\ \A cells \in Seq(Nat) : Framed(cells, <<>>) => cells = <<>>
<1>1. Framed(<<>>, <<>>)
  <2> DEFINE off == [k \in 0..0 |-> 0]
  <2>1. off \in [0..Len(<<>>) -> Nat] /\ Offsets(off, <<>>, <<>>)
    BY DEF Offsets
  <2> QED
    BY <2>1 DEF Framed
<1>2. ASSUME NEW cells \in Seq(Nat), Framed(cells, <<>>) PROVE cells = <<>>
  BY <1>2, EmptySeq DEF Framed, Offsets
<1> QED
  BY <1>1, <1>2

\* One more frame.
LEMMA FramedAppend ==
    ASSUME NEW cells \in Seq(Nat), NEW ms \in Seq(Seq(Nat)), NEW m \in Seq(Nat),
           Framed(cells, ms)
    PROVE  Framed(cells \o Frame(m), Append(ms, m))
<1> DEFINE all == cells \o Frame(m)
           more == Append(ms, m)
           n == Len(ms)
<1>1. PICK off \in [0..n -> Nat] : Offsets(off, cells, ms)
  BY DEF Framed
<1>2. /\ Frame(m) \in Seq(Nat) /\ Len(Frame(m)) \in Nat /\ Len(cells) \in Nat /\ n \in Nat
      /\ \A k \in 1..n : ms[k] \in Seq(Nat)
  BY FrameShape, LenProperties, ElementOfSeq
<1>3. /\ Len(all) = Len(cells) + Len(Frame(m))
      /\ \A i \in 1..Len(cells) : all[i] = cells[i]
      /\ \A i \in 1..Len(Frame(m)) : all[Len(cells) + i] = Frame(m)[i]
  <2>1. /\ Len(all) = Len(cells) + Len(Frame(m))
        /\ \A i \in 1..Len(cells) + Len(Frame(m)) :
              all[i] = IF i <= Len(cells) THEN cells[i] ELSE Frame(m)[i - Len(cells)]
    BY <1>2, ConcatProperties
  <2> HIDE DEF all
  <2>2. ASSUME NEW i \in 1..Len(cells) PROVE all[i] = cells[i]
    <3>1. i \in 1..Len(cells) + Len(Frame(m)) /\ i <= Len(cells)
      BY <1>2
    <3> QED
      BY <2>1, <3>1
  <2>3. ASSUME NEW i \in 1..Len(Frame(m)) PROVE all[Len(cells) + i] = Frame(m)[i]
    <3>1. /\ Len(cells) + i \in 1..Len(cells) + Len(Frame(m))
          /\ ~(Len(cells) + i <= Len(cells)) /\ Len(cells) + i - Len(cells) = i
      BY <1>2
    <3> QED
      BY <2>1, <3>1
  <2> QED
    BY <2>1, <2>2, <2>3
<1>4. /\ Len(more) = n + 1
      /\ \A k \in 1..n : more[k] = ms[k]
      /\ more[n + 1] = m
  BY AppendProperties
<1>5. /\ \A j, k \in 0..n : j <= k => off[j] <= off[k]
      /\ \A k \in 0..n : off[k] \in Nat /\ off[k] <= Len(cells)
  <2>1. /\ off[n] = Len(cells) /\ \A j, k \in 0..n : j <= k => off[j] <= off[k]
    BY <1>1 DEF Offsets
  <2> QED
    BY <1>2, <2>1
<1> HIDE DEF all, more
<1> DEFINE end == [k \in 0..n + 1 |-> IF k <= n THEN off[k] ELSE Len(all)]
<1>6. end \in [0..Len(more) -> Nat]
  BY <1>2, <1>3, <1>4
<1>7. /\ \A k \in 0..n : end[k] = off[k]
      /\ end[n + 1] = Len(all)
  BY <1>2
<1> HIDE DEF end
<1>8. end[0] = 0 /\ end[Len(more)] = Len(all)
  BY <1>1, <1>2, <1>4, <1>7 DEF Offsets
<1>9. \A j, k \in 0..Len(more) : j <= k => end[j] <= end[k]
  <2> SUFFICES ASSUME NEW j \in 0..n + 1, NEW k \in 0..n + 1, j <= k PROVE end[j] <= end[k]
    BY <1>4
  <2>1. CASE k <= n
    <3>1. j \in 0..n /\ k \in 0..n
      BY <1>2, <2>1
    <3> QED
      BY <1>5, <1>7, <3>1
  <2>2. CASE k = n + 1 /\ j <= n
    <3>1. j \in 0..n
      BY <1>2, <2>2
    <3>2. end[j] = off[j] /\ off[j] \in Nat /\ off[j] <= Len(cells) /\ end[k] = Len(all)
      BY <1>5, <1>7, <2>2, <3>1
    <3> QED
      BY <1>2, <1>3, <3>2
  <2>3. CASE k = n + 1 /\ j = n + 1
    BY <1>2, <1>3, <1>7, <2>3
  <2> QED
    BY <1>2, <2>1, <2>2, <2>3
<1>10. ASSUME NEW k \in 1..Len(more)
      PROVE  /\ end[k] = end[k - 1] + Len(Frame(more[k]))
             /\ \A i \in 1..Len(Frame(more[k])) : all[end[k - 1] + i] = Frame(more[k])[i]
  <2>1. CASE k <= n
    <3>1. k \in 1..n /\ k - 1 \in 0..n /\ k \in 0..n
      BY <1>2, <1>4, <1>10, <2>1
    <3>2. /\ off[k] = off[k - 1] + Len(Frame(ms[k]))
          /\ \A i \in 1..Len(Frame(ms[k])) : cells[off[k - 1] + i] = Frame(ms[k])[i]
      BY <1>1, <3>1 DEF Offsets
    <3>3. Frame(ms[k]) \in Seq(Nat) /\ Len(Frame(ms[k])) \in Nat
      BY <1>2, <3>1, FrameShape, LenProperties
    <3>4. ASSUME NEW i \in 1..Len(Frame(ms[k])) PROVE all[off[k - 1] + i] = Frame(ms[k])[i]
      <4>1. off[k] <= Len(cells) /\ off[k] \in Nat /\ off[k - 1] \in Nat
        BY <1>5, <3>1
      <4>2. off[k - 1] + i \in 1..Len(cells)
        BY <1>2, <3>2, <3>3, <4>1, Inside
      <4> QED
        BY <1>3, <3>2, <4>2
    <3> QED
      BY <1>4, <1>7, <3>1, <3>2, <3>4
  <2>2. CASE k = n + 1
    <3>1. end[k - 1] = Len(cells) /\ end[k] = Len(cells) + Len(Frame(m)) /\ more[k] = m
      BY <1>1, <1>2, <1>3, <1>4, <1>7, <2>2 DEF Offsets
    <3> QED
      BY <1>3, <3>1
  <2> QED
    BY <1>2, <1>4, <2>1, <2>2
<1>11. Offsets(end, all, more)
  BY <1>8, <1>9, <1>10 DEF Offsets
<1> QED
  BY <1>6, <1>11 DEF Framed, all, more

\* Cells that are not empty begin with the frame of the first message, and what
\* follows it are the frames of the others.
LEMMA FramedFirst ==
    ASSUME NEW cells \in Seq(Nat), NEW ms \in Seq(Seq(Nat)), ms # <<>>,
           Framed(cells, ms)
    PROVE  /\ Len(Frame(Head(ms))) <= Len(cells)
           /\ \A i \in 1..Len(Frame(Head(ms))) : cells[i] = Frame(Head(ms))[i]
           /\ Framed(Without(cells, Len(Frame(Head(ms)))), Tail(ms))
<1> DEFINE n == Len(ms)
           first == Frame(Head(ms))
           rest == Without(cells, Len(first))
           others == Tail(ms)
<1>1. PICK off \in [0..n -> Nat] : Offsets(off, cells, ms)
  BY DEF Framed
<1>2. n \in Nat \ {0} /\ Len(cells) \in Nat /\ Head(ms) = ms[1] /\ Head(ms) \in Seq(Nat)
  BY EmptySeq, LenProperties, HeadTailProperties
<1>3. first \in Seq(Nat) /\ Len(first) \in Nat
  BY <1>2, FrameShape, LenProperties
<1> HIDE DEF first
<1>4. /\ off[1] = Len(first) /\ off[1] <= Len(cells)
      /\ \A i \in 1..Len(first) : cells[i] = first[i]
  <2>1. 1 \in 1..n /\ 0 \in 0..n /\ n \in 0..n /\ 1 \in 0..n /\ 1 <= n /\ 1 - 1 = 0
    BY <1>2
  <2>2. off[1] = off[0] + Len(first) /\ off[0] = 0 /\ off[n] = Len(cells) /\ off[1] <= off[n]
    BY <1>1, <1>2, <2>1 DEF Offsets, first
  <2>3. \A k \in 1..n : \A i \in 1..Len(Frame(ms[k])) :
           cells[off[k - 1] + i] = Frame(ms[k])[i]
    BY <1>1 DEF Offsets
  <2>4. \A i \in 1..Len(first) : cells[0 + i] = first[i]
    <3>1. \A i \in 1..Len(Frame(ms[1])) : cells[off[1 - 1] + i] = Frame(ms[1])[i]
      BY <2>1, <2>3
    <3> QED
      BY <1>2, <2>1, <2>2, <3>1 DEF first
  <2> QED
    BY <1>3, <2>2, <2>4
<1>5. /\ Len(rest) = Len(cells) - Len(first)
      /\ \A i \in 1..Len(cells) - Len(first) : rest[i] = cells[Len(first) + i]
  <2>1. \A i \in Len(first) + 1..Len(cells) : cells[i] \in Nat
    BY <1>3, ElementOfSeq
  <2>2. /\ Len(rest) = IF Len(first) + 1 <= Len(cells)
                       THEN Len(cells) - (Len(first) + 1) + 1 ELSE 0
        /\ \A i \in 1..Len(cells) - (Len(first) + 1) + 1 : rest[i] = cells[Len(first) + 1 + i - 1]
    BY <1>2, <1>3, <2>1, SubSeqProperties DEF Without
  <2> HIDE DEF rest
  <2> QED
    BY <1>2, <1>3, <1>4, <2>2
<1>6. Len(others) = n - 1 /\ \A k \in 1..n - 1 : others[k] = ms[k + 1]
  BY HeadTailProperties
<1> HIDE DEF rest, others
<1> DEFINE end == [k \in 0..n - 1 |-> off[k + 1] - Len(first)]
<1>7. \A k \in 1..n : off[k] \in Nat /\ off[k] - Len(first) \in Nat
  <2> TAKE k \in 1..n
  <2>1. k \in 0..n /\ 1 \in 0..n /\ 1 <= k
    BY <1>2
  <2>2. off[1] <= off[k]
    BY <1>1, <2>1 DEF Offsets
  <2> QED
    BY <1>3, <1>4, <2>1, <2>2
<1>8. end \in [0..Len(others) -> Nat]
  BY <1>2, <1>6, <1>7
<1>9. \A k \in 0..n - 1 : end[k] = off[k + 1] - Len(first)
  OBVIOUS
<1> HIDE DEF end
<1>10. end[0] = 0 /\ end[Len(others)] = Len(rest)
  <2>1. 0 \in 0..n - 1 /\ n - 1 \in 0..n - 1 /\ 0 + 1 = 1 /\ n - 1 + 1 = n
    BY <1>2
  <2>2. end[0] = off[1] - Len(first) /\ end[n - 1] = off[n] - Len(first)
    BY <1>9, <2>1
  <2> QED
    BY <1>1, <1>3, <1>4, <1>5, <1>6, <2>2 DEF Offsets
<1>11. ASSUME NEW j \in 0..n - 1, NEW k \in 0..n - 1, j <= k PROVE end[j] <= end[k]
  <2>1. j + 1 \in 1..n /\ k + 1 \in 1..n /\ j + 1 <= k + 1
    BY <1>2, <1>11
  <2>2. off[j + 1] <= off[k + 1]
    BY <1>1, <1>2, <2>1 DEF Offsets
  <2> QED
    BY SMTT(30), <1>3, <1>7, <1>9, <2>1, <2>2
<1>12. ASSUME NEW k \in 1..n - 1
       PROVE  /\ end[k] = end[k - 1] + Len(Frame(others[k]))
              /\ \A i \in 1..Len(Frame(others[k])) :
                    rest[end[k - 1] + i] = Frame(others[k])[i]
  <2>1. k + 1 \in 1..n /\ k \in 1..n /\ k \in 0..n - 1 /\ k - 1 \in 0..n - 1
        /\ k + 1 - 1 = k /\ k - 1 + 1 = k
    BY <1>2
  <2> DEFINE f == Frame(ms[k + 1])
  <2>2. ms[k + 1] \in Seq(Nat)
    BY <2>1, ElementOfSeq
  <2>3. Len(f) \in Nat
    BY <2>2, FrameShape, LenProperties
  <2> HIDE DEF f
  <2>4. off[k + 1] = off[k] + Len(f) /\ \A i \in 1..Len(f) : cells[off[k] + i] = f[i]
    BY SMTT(30), <1>1, <2>1 DEF Offsets, f
  <2>5. off[k + 1] <= Len(cells)
    <3>1. k + 1 \in 0..n /\ n \in 0..n /\ k + 1 <= n
      BY <1>2, <2>1
    <3>2. off[n] = Len(cells) /\ off[k + 1] <= off[n]
      BY <1>1, <3>1 DEF Offsets
    <3> QED
      BY <3>2
  <2>6. end[k] = off[k + 1] - Len(first) /\ end[k - 1] = off[k] - Len(first)
    BY <1>9, <2>1
  <2>7. end[k] = end[k - 1] + Len(f)
    BY <1>3, <1>7, <2>1, <2>3, <2>4, <2>6
  <2>8. ASSUME NEW i \in 1..Len(f) PROVE rest[end[k - 1] + i] = f[i]
    <3> DEFINE e == end[k - 1]
    <3>1. e \in Nat /\ off[k] = Len(first) + e /\ off[k] \in Nat
      BY <1>3, <1>7, <2>1, <2>6
    <3>2. Len(first) \in Nat /\ Len(cells) \in Nat /\ Len(f) \in Nat /\ i \in 1..Len(f)
      BY <1>2, <1>3, <2>3
    <3>3. off[k] + Len(f) <= Len(cells)
      BY <2>4, <2>5
    <3> HIDE DEF e
    <3>4. e + i \in 1..Len(cells) - Len(first) /\ Len(first) + (e + i) = off[k] + i
      BY <3>1, <3>2, <3>3
    <3> QED
      BY <1>5, <2>4, <3>4 DEF e
  <2> QED
    BY <1>6, <2>7, <2>8 DEF f
<1>13. Offsets(end, rest, others)
  BY <1>6, <1>10, <1>11, <1>12 DEF Offsets
<1> QED
  BY <1>4, <1>8, <1>13 DEF Framed, first, rest, others

-----------------------------------------------------------------------------
(* Pieces of sequences                                                     *)

\* What is written and what is left of a sequence.
LEMMA Split ==
    ASSUME NEW s \in Seq(Nat), NEW n \in 1..Len(s)
    PROVE  /\ SubSeq(s, 1, n) \in Seq(Nat) /\ Len(SubSeq(s, 1, n)) = n
           /\ \A i \in 1..n : SubSeq(s, 1, n)[i] = s[i]
           /\ Without(s, n) \in Seq(Nat) /\ Len(Without(s, n)) = Len(s) - n
           /\ SubSeq(s, 1, n) \o Without(s, n) = s
<1>1. Len(s) \in Nat /\ n \in Nat /\ \A i \in 1..Len(s) : s[i] \in Nat
  BY LenProperties, ElementOfSeq
<1>2. /\ SubSeq(s, 1, n) \in Seq(Nat) /\ Len(SubSeq(s, 1, n)) = n
      /\ \A i \in 1..n : SubSeq(s, 1, n)[i] = s[i]
  <2>1. \A i \in 1..n : s[i] \in Nat
    BY <1>1
  <2>2. /\ SubSeq(s, 1, n) \in Seq(Nat)
        /\ Len(SubSeq(s, 1, n)) = IF 1 <= n THEN n - 1 + 1 ELSE 0
        /\ \A i \in 1..n - 1 + 1 : SubSeq(s, 1, n)[i] = s[1 + i - 1]
    BY <1>1, <2>1, SubSeqProperties
  <2>3. n - 1 + 1 = n /\ 1 <= n /\ \A i \in 1..n : 1 + i - 1 = i
    BY <1>1
  <2> QED
    BY <2>2, <2>3
<1>3. Without(s, n) \in Seq(Nat) /\ Len(Without(s, n)) = Len(s) - n
  <2>1. \A i \in n + 1..Len(s) : s[i] \in Nat
    BY <1>1
  <2>2. /\ SubSeq(s, n + 1, Len(s)) \in Seq(Nat)
        /\ Len(SubSeq(s, n + 1, Len(s))) = IF n + 1 <= Len(s) THEN Len(s) - (n + 1) + 1 ELSE 0
    BY <1>1, <2>1, SubSeqProperties
  <2> QED
    BY <1>1, <2>2 DEF Without
<1>4. SubSeq(s, 1, n) \o SubSeq(s, n + 1, Len(s)) = SubSeq(s, 1, Len(s))
  <2>1. 1 \in 1..Len(s) + 1 /\ n \in 1 - 1..Len(s) /\ Len(s) \in n..Len(s)
    BY <1>1
  <2> QED
    BY <2>1, ConcatAdjacentSubSeq
<1> QED
  BY <1>2, <1>3, <1>4, SubSeqFull DEF Without

LEMMA Associative ==
    ASSUME NEW s \in Seq(Nat), NEW t \in Seq(Nat), NEW u \in Seq(Nat)
    PROVE  (s \o t) \o u = s \o (t \o u)
BY SMTT(30), ConcatAssociative

\* What follows the first part of a sequence, and the data of a frame.
LEMMA Follows ==
    ASSUME NEW s \in Seq(Nat), NEW t \in Seq(Nat)
    PROVE  /\ Without(s \o t, Len(s)) = t
           /\ \A i \in 1..Len(s) : (s \o t)[i] = s[i]
<1>1. /\ Len(s) \in Nat /\ Len(t) \in Nat
      /\ Len(s \o t) = Len(s) + Len(t)
      /\ \A i \in 1..Len(s) + Len(t) :
            (s \o t)[i] = IF i <= Len(s) THEN s[i] ELSE t[i - Len(s)]
  BY LenProperties, ConcatProperties
<1>2. CASE t = <<>>
  BY <1>1, <1>2, EmptySeq, SubSeqEmpty DEF Without
<1>3. CASE t # <<>>
  <2> DEFINE first == Len(s) + 1
             last == Len(s) + Len(t)
  <2>1. Len(t) \in Nat \ {0}
    BY <1>3, EmptySeq
  <2>2. first \in first..last /\ last \in first..last
    BY <1>1, <2>1
  <2>3. SubSeq(s \o t, first, last) = SubSeq(t, first - Len(s), last - Len(s))
    BY <2>2, SubSeqOfConcat2
  <2>4. first - Len(s) = 1 /\ last - Len(s) = Len(t)
    BY <1>1
  <2> QED
    BY <1>1, <2>3, <2>4, SubSeqFull DEF Without
<1>4. ASSUME NEW i \in 1..Len(s) PROVE (s \o t)[i] = s[i]
  <2>1. i \in 1..Len(s) + Len(t) /\ i <= Len(s)
    BY <1>1
  <2> QED
    BY <1>1, <2>1
<1> QED
  BY <1>2, <1>3, <1>4

LEMMA DataOfFrame ==
    ASSUME NEW m \in Seq(Nat)
    PROVE  Data(Frame(m)) = m
<1> DEFINE header == <<LIGHTNINGCAST_COMM_HEADER_KEY, Len(m)>>
<1>1. header \in Seq(Nat) /\ Len(header) = 2
  BY SMT, LenProperties DEF LIGHTNINGCAST_COMM_HEADER_KEY
<1>2. Frame(m) = header \o m
  BY DEF Frame
<1> HIDE DEF header
<1>3. Without(header \o m, 2) = m
  BY <1>1, Follows
<1> QED
  BY <1>2, <1>3 DEF Data, Without, HeaderSize

\* The messages under way when one more is sent, and when one arrives.
LEMMA UnderWay ==
    ASSUME NEW S, NEW s \in Seq(S), NEW k \in 0..Len(s)
    PROVE  /\ SubSeq(s, k + 1, Len(s)) \in Seq(S)
           /\ \A m \in S : SubSeq(Append(s, m), k + 1, Len(Append(s, m)))
                              = Append(SubSeq(s, k + 1, Len(s)), m)
           /\ SubSeq(s, k + 1, Len(s)) # <<>> => k + 1 \in 1..Len(s)
           /\ k + 1 \in 1..Len(s) =>
                 /\ SubSeq(s, k + 1, Len(s)) # <<>>
                 /\ Tail(SubSeq(s, k + 1, Len(s))) = SubSeq(s, k + 2, Len(s))
<1> DEFINE p == SubSeq(s, k + 1, Len(s))
<1>1. Len(s) \in Nat /\ k \in Nat /\ k <= Len(s) /\ \A i \in 1..Len(s) : s[i] \in S
  BY LenProperties, ElementOfSeq
<1>2. /\ p \in Seq(S) /\ Len(p) = Len(s) - k
      /\ \A i \in 1..Len(s) - k : p[i] = s[k + i]
  <2>1. \A i \in k + 1..Len(s) : s[i] \in S
    BY <1>1
  <2>2. /\ p \in Seq(S)
        /\ Len(p) = IF k + 1 <= Len(s) THEN Len(s) - (k + 1) + 1 ELSE 0
        /\ \A i \in 1..Len(s) - (k + 1) + 1 : p[i] = s[k + 1 + i - 1]
    BY <1>1, <2>1, SubSeqProperties
  <2> HIDE DEF p
  <2> QED
    BY <1>1, <2>2
<1> HIDE DEF p
<1>3. ASSUME NEW m \in S PROVE SubSeq(Append(s, m), k + 1, Len(s) + 1) = Append(p, m)
  <2> DEFINE a == Append(s, m)
             q == SubSeq(a, k + 1, Len(s) + 1)
  <2>1. /\ Len(a) = Len(s) + 1 /\ a[Len(s) + 1] = m
        /\ \A i \in 1..Len(s) : a[i] = s[i]
    BY AppendProperties
  <2> HIDE DEF a
  <2>2. \A i \in k + 1..Len(s) + 1 : a[i] \in S
    BY <1>1, <2>1
  <2>3. /\ q \in Seq(S) /\ Len(q) = Len(s) + 1 - k
        /\ \A i \in 1..Len(s) + 1 - k : q[i] = a[k + i]
    <3> DEFINE first == k + 1
               last == Len(s) + 1
    <3>1. first \in Int /\ last \in Int /\ \A i \in first..last : a[i] \in S
      BY <1>1, <2>2
    <3>2. q = SubSeq(a, first, last)
      OBVIOUS
    <3> HIDE DEF q, first, last
    <3>3. /\ q \in Seq(S)
          /\ Len(q) = IF first <= last THEN last - first + 1 ELSE 0
          /\ \A i \in 1..last - first + 1 : q[i] = a[first + i - 1]
      BY <3>1, <3>2, SubSeqProperties
    <3> QED
      BY <1>1, <3>3 DEF first, last
  <2> HIDE DEF q
  <2>4. /\ Append(p, m) \in Seq(S) /\ Len(Append(p, m)) = Len(p) + 1
        /\ \A i \in 1..Len(p) : Append(p, m)[i] = p[i]
        /\ Append(p, m)[Len(p) + 1] = m
    BY <1>2, AppendProperties
  <2>5. Len(q) = Len(Append(p, m))
    BY <1>1, <1>2, <2>3, <2>4
  <2>6. ASSUME NEW i \in 1..Len(q) PROVE q[i] = Append(p, m)[i]
    <3>1. CASE i = Len(p) + 1
      <4>1. k + i = Len(s) + 1 /\ i \in 1..Len(s) + 1 - k
        BY <1>1, <1>2, <3>1
      <4> QED
        BY <2>1, <2>3, <2>4, <3>1, <4>1
    <3>2. CASE i # Len(p) + 1
      <4>1. /\ i \in 1..Len(p) /\ i \in 1..Len(s) - k /\ i \in 1..Len(s) + 1 - k
            /\ k + i \in 1..Len(s)
        BY <1>1, <1>2, <2>3, <3>2
      <4> QED
        BY <1>2, <2>1, <2>3, <2>4, <4>1
    <3> QED
      BY <3>1, <3>2
  <2> QED
    BY <2>3, <2>4, <2>5, <2>6, SeqEqual DEF q, a
<1>4. p # <<>> => k + 1 \in 1..Len(s)
  BY <1>1, <1>2, EmptySeq
<1>5. ASSUME k + 1 \in 1..Len(s) PROVE p # <<>> /\ Tail(p) = SubSeq(s, k + 2, Len(s))
  <2>1. Len(p) # 0
    BY <1>1, <1>2, <1>5
  <2>2. Len(s) \in k + 1..Len(s) /\ k + 1 + 1 = k + 2
    BY <1>1, <1>5
  <2>3. Tail(p) = SubSeq(s, k + 1 + 1, Len(s))
    BY <1>5, <2>2, HeadTailOfSubSeq DEF p
  <2> QED
    BY <2>1, <2>2, <2>3, EmptySeq
<1>6. \A m \in S : Len(Append(s, m)) = Len(s) + 1
  BY AppendProperties
<1> QED
  BY <1>2, <1>3, <1>4, <1>5, <1>6 DEF p

-----------------------------------------------------------------------------
(* The invariant                                                           *)

\* Where the client thread is tells the state of the descriptor: the two threads
\* that may close it never find it connected halfway.
ConnectionInv ==
    /\ cpc = "closed" => server_fd = "none"
    /\ cpc = "connect" => server_fd = "created"
    /\ cpc \in {"session", "leave"} => server_fd = "connected"

\* A frame is begun only on a connection.
LeftInv ==
    /\ left \in [Writers -> Seq(Nat)]
    /\ \A w \in Writers :
          \/ left[w] \in {<<>>, Frame(DataOf(w))}
          \/ server_fd = "connected" /\ Len(left[w]) < Len(Frame(DataOf(w)))

StreamInv ==
    /\ server_mutex \in Writers \cup {Nobody}
    /\ stream \in Seq(Nat) /\ got \in Seq(Nat)
    /\ delivered \in Seq(Seq(Nat)) /\ sent \in Seq(Seq(Nat))
    /\ Len(delivered) <= Len(sent)

Base == TypeOK /\ ConnectionInv /\ LeftInv /\ StreamInv

\* What is still to come of the message that is being written, once it has begun.
Rest ==
    IF server_mutex \in Writers /\ left[server_mutex] # Frame(DataOf(server_mutex))
    THEN left[server_mutex] ELSE <<>>

\* What Android has read of a message, what is in the buffers and what is still
\* to come of the message being written are together the frames of the messages
\* under way, and Android has not yet read all of the first.
WireInv ==
    peer = "reads" =>
        /\ Framed(got \o stream \o Rest, Pending)
        /\ Pending = <<>> => got = <<>>
        /\ Pending # <<>> => Len(got) < Len(Frame(Head(Pending)))

LEMMA Writing ==
    ASSUME Base, NEW w \in Writers
    PROVE  /\ wpc[w] \in {"write", "blocked"} => server_mutex = w
           /\ DataOf(w) \in Seq(Nat) /\ Frame(DataOf(w)) \in Seq(Nat)
           /\ Len(Frame(DataOf(w))) \in Nat /\ Frame(DataOf(w)) # <<>>
           /\ left[w] \in Seq(Nat) /\ Len(left[w]) \in 0..Len(Frame(DataOf(w)))
           /\ server_mutex = w => Rest = IF left[w] = Frame(DataOf(w)) THEN <<>> ELSE left[w]
<1>1. DataOf(w) \in Seq(Nat)
  BY ChannelAssumption
<1>2. /\ Frame(DataOf(w)) \in Seq(Nat) /\ Len(Frame(DataOf(w))) = 2 + Len(DataOf(w))
      /\ Len(DataOf(w)) \in Nat
  BY <1>1, FrameShape, LenProperties DEF HeaderSize
<1>3. Len(Frame(DataOf(w))) \in Nat /\ Frame(DataOf(w)) # <<>>
  BY <1>2, EmptySeq
<1>4. left[w] \in Seq(Nat) /\ Len(left[w]) \in Nat
  BY LenProperties DEF Base, LeftInv
<1>5. Len(left[w]) <= Len(Frame(DataOf(w)))
  <2>1. left[w] \in {<<>>, Frame(DataOf(w))} \/ Len(left[w]) < Len(Frame(DataOf(w)))
    BY DEF Base, LeftInv
  <2>2. left[w] = <<>> => Len(left[w]) = 0
    OBVIOUS
  <2> QED
    BY <1>3, <1>4, <2>1, <2>2
<1> QED
  BY <1>1, <1>2, <1>3, <1>4, <1>5 DEF Base, TypeOK, Rest

LEMMA InitBase == Init => Base /\ WireInv
<1> SUFFICES ASSUME Init PROVE Base /\ WireInv
  OBVIOUS
<1>1. <<>> \in Seq(Nat) /\ <<>> \in Seq(Seq(Nat)) /\ Len(<<>>) = 0
  BY EmptySeq
<1>2. TypeOK
  BY <1>1, ChannelAssumption DEF Init, TypeOK, WriterPc, ClientPc
<1>3. ConnectionInv /\ LeftInv /\ StreamInv
  BY <1>1 DEF Init, ConnectionInv, LeftInv, StreamInv
<1> QED
  BY <1>2, <1>3 DEF Base, WireInv, Init

-----------------------------------------------------------------------------
(* Types                                                                   *)

\* The steps that touch neither the stream nor what Android has read.
QuietStep ==
    \/ Socket \/ ConnectFails \/ Sends \/ Leaves \/ CloseFd \/ Key \/ PeerGoes
    \/ \E w \in Writers : Lock(w) \/ WriteFails(w) \/ Written(w) \/ WriteBlocks(w)

LEMMA StepCases ==
    Next <=> QuietStep \/ Connect \/ doRead \/ \E w \in Writers : Write(w)
BY DEF Next, QuietStep, ClientThread, MainThread, processSend, Writers

LEMMA BaseQuiet ==
    ASSUME Base, QuietStep
    PROVE  Base'
<1> USE ChannelAssumption DEF Base, TypeOK, WriterPc, ClientPc, writing, android, client, Goes,
        Calls, Returns
<1>1. CASE Socket \/ ConnectFails
  <2>1. LeftInv'
    BY <1>1 DEF Socket, ConnectFails, ConnectionInv, LeftInv
  <2>2. TypeOK'
    BY <1>1 DEF Socket, ConnectFails
  <2> QED
    BY <1>1, <2>1, <2>2 DEF Socket, ConnectFails, ConnectionInv, StreamInv
<1>2. CASE Leaves \/ PeerGoes
  BY <1>2 DEF Leaves, PeerGoes, ConnectionInv, LeftInv, StreamInv
<1>3. CASE CloseFd
  BY <1>3 DEF CloseFd, ConnectionInv, LeftInv, StreamInv
<1>4. CASE Sends \/ Key
  <2>1. /\ UNCHANGED <<server_mutex, left, server_fd, peer, stream, cpc, sessions>>
        /\ messages' \in 0..MaxSent /\ keys' \in 0..MaxKeys
    BY <1>4 DEF Sends, Key
  <2>2. \E w \in Writers : wpc[w] = "out" /\ wpc' = [wpc EXCEPT ![w] = "lock"]
    BY <1>4 DEF Sends, Key, Writers
  <2>3. TypeOK'
    BY <2>1, <2>2
  <2>4. ConnectionInv' /\ LeftInv' /\ StreamInv'
    BY <1>4 DEF Sends, Key, ConnectionInv, LeftInv, StreamInv
  <2> QED
    BY <2>3, <2>4
<1>5. ASSUME NEW w \in Writers, Lock(w) PROVE Base'
  <2>1. Frame(DataOf(w)) \in Seq(Nat)
    BY FrameShape
  <2>2. TypeOK'
    <3>1. CASE server_fd = "none"
      BY <1>5, <3>1 DEF Lock
    <3>2. CASE server_fd # "none"
      <4>1. /\ server_mutex = Nobody /\ server_mutex' = w
            /\ wpc' = [wpc EXCEPT ![w] = "write"]
            /\ left' = [left EXCEPT ![w] = Frame(DataOf(w))]
            /\ UNCHANGED <<server_fd, peer, stream, cpc, messages, sessions, keys>>
        BY <1>5, <3>2 DEF Lock
      <4>2. \A v \in Writers : wpc[v] \notin {"write", "blocked"} /\ left[v] = <<>>
        BY <4>1
      <4> QED
        BY <4>1, <4>2 DEF LeftInv
    <3> QED
      BY <3>1, <3>2
  <2>3. LeftInv'
    BY <1>5, <2>1 DEF Lock, LeftInv
  <2> QED
    BY <1>5, <2>2, <2>3 DEF Lock, ConnectionInv, StreamInv
<1>6. ASSUME NEW w \in Writers, WriteFails(w) \/ Written(w) PROVE Base'
  <2>1. <<>> \in Seq(Nat)
    BY EmptySeq
  <2> QED
    BY ZenonT(40), <1>6, <2>1 DEF WriteFails, WriteError, Written, ConnectionInv, LeftInv, StreamInv
<1>7. ASSUME NEW w \in Writers, WriteBlocks(w) PROVE Base'
  BY <1>7 DEF WriteBlocks, ConnectionInv, LeftInv, StreamInv
<1> QED
  BY <1>1, <1>2, <1>3, <1>4, <1>5, <1>6, <1>7 DEF QuietStep

LEMMA BaseConnect ==
    ASSUME Base, Connect
    PROVE  Base'
<1>1. <<>> \in Seq(Nat) /\ <<>> \in Seq(Seq(Nat)) /\ Len(<<>>) = 0
  BY EmptySeq
<1>2. TypeOK'
  BY <1>1, ChannelAssumption DEF Base, Connect, TypeOK, writing, ClientPc
<1>3. ConnectionInv' /\ StreamInv'
  BY <1>1 DEF Base, Connect, ConnectionInv, StreamInv, writing
<1>4. LeftInv'
  BY DEF Base, Connect, ConnectionInv, LeftInv, writing
<1> QED
  BY <1>2, <1>3, <1>4 DEF Base

\* A write takes a piece of what is left, and as much as there is room for.
LEMMA WriteStep ==
    ASSUME Base, NEW w \in Writers, Write(w)
    PROVE  \E n \in 1..Len(left[w]) :
              /\ Len(stream) + n <= Capacity
              /\ stream' = stream \o SubSeq(left[w], 1, n)
              /\ left' = [left EXCEPT ![w] = Without(left[w], n)]
<1>1. PICK n \in 1..Least(Len(left[w]), Capacity - Len(stream)) :
              /\ stream' = stream \o SubSeq(left[w], 1, n)
              /\ left' = [left EXCEPT ![w] = Without(left[w], n)]
  BY DEF Write
<1>2. Len(left[w]) \in Nat /\ Len(stream) \in Nat /\ Capacity \in Nat
  BY Writing, LenProperties, ChannelAssumption DEF Base, StreamInv
<1>3. n \in 1..Len(left[w]) /\ Len(stream) + n <= Capacity
  BY <1>2 DEF Least
<1> QED
  BY <1>1, <1>3

LEMMA BaseWrite ==
    ASSUME Base, NEW w \in Writers, Write(w)
    PROVE  Base'
<1>1. PICK n \in 1..Len(left[w]) :
              /\ Len(stream) + n <= Capacity
              /\ stream' = stream \o SubSeq(left[w], 1, n)
              /\ left' = [left EXCEPT ![w] = Without(left[w], n)]
  BY WriteStep
<1> DEFINE piece == SubSeq(left[w], 1, n)
           rest == Without(left[w], n)
<1>2. /\ piece \in Seq(Nat) /\ Len(piece) = n /\ rest \in Seq(Nat)
      /\ Len(rest) = Len(left[w]) - n
  BY Writing, Split
<1>3. stream' = stream \o piece /\ left' = [left EXCEPT ![w] = rest]
  BY <1>1
<1> HIDE DEF piece, rest
<1>4. stream' \in Seq(Nat) /\ Len(stream') <= Capacity
  <2>1. stream \o piece \in Seq(Nat) /\ Len(stream \o piece) = Len(stream) + n
    BY <1>2, ConcatProperties DEF Base, StreamInv
  <2> QED
    BY <1>1, <1>3, <2>1
<1>5. /\ server_mutex = w /\ server_fd = "connected" /\ wpc' = [wpc EXCEPT ![w] = "write"]
      /\ wpc[w] \in {"write", "blocked"}
      /\ sent' \in {sent, Append(sent, DataOf(w))}
      /\ UNCHANGED <<server_fd, server_mutex, peer, got, delivered, cpc, messages, sessions, keys>>
  BY Writing DEF Write, Goes, client
<1>6. TypeOK'
  BY <1>3, <1>4, <1>5 DEF Base, TypeOK, LeftInv, WriterPc
<1>7. LeftInv'
  <2>1. Len(rest) < Len(Frame(DataOf(w))) /\ Len(left[w]) \in Nat
    <3>1. Len(left[w]) <= Len(Frame(DataOf(w)))
      BY Writing
    <3> QED
      BY <1>1, <1>2, <3>1, Writing
  <2> QED
    BY <1>2, <1>3, <1>5, <2>1 DEF Base, LeftInv
<1>8. StreamInv'
  <2>1. /\ Append(sent, DataOf(w)) \in Seq(Seq(Nat))
        /\ Len(Append(sent, DataOf(w))) = Len(sent) + 1
    BY Writing, AppendProperties DEF Base, StreamInv
  <2>2. Len(sent) \in Nat /\ Len(delivered) \in Nat
    BY LenProperties DEF Base, StreamInv
  <2>3. sent \in Seq(Seq(Nat)) /\ Len(delivered) <= Len(sent)
    BY DEF Base, StreamInv
  <2>4. sent' \in Seq(Seq(Nat)) /\ Len(delivered) <= Len(sent')
    <3>1. CASE sent' = sent
      BY <2>3, <3>1
    <3>2. CASE sent' = Append(sent, DataOf(w))
      BY <2>1, <2>2, <2>3, <3>2
    <3> QED
      BY <1>5, <3>1, <3>2
  <2> QED
    BY <1>4, <1>5, <2>4 DEF Base, StreamInv
<1>9. ConnectionInv'
  BY <1>5 DEF Base, ConnectionInv
<1> QED
  BY <1>6, <1>7, <1>8, <1>9 DEF Base

-----------------------------------------------------------------------------
(* The messages under way                                                  *)

\* Under Base the messages under way are a sequence of messages.
LEMMA PendingTypes ==
    ASSUME Base
    PROVE  /\ Pending \in Seq(Seq(Nat))
           /\ Len(delivered) \in 0..Len(sent)
           /\ Rest \in Seq(Nat)
           /\ got \o stream \o Rest \in Seq(Nat)
<1>1. Len(delivered) \in 0..Len(sent)
  BY LenProperties DEF Base, StreamInv
<1>2. Pending \in Seq(Seq(Nat))
  BY <1>1, UnderWay DEF Base, StreamInv, Pending
<1>3. Rest \in Seq(Nat)
  BY EmptySeq DEF Base, LeftInv, StreamInv, Rest
<1>4. got \o stream \in Seq(Nat)
  BY ConcatProperties DEF Base, StreamInv
<1> QED
  BY <1>1, <1>2, <1>3, <1>4, ConcatProperties

LEMMA WireQuiet ==
    ASSUME Base, WireInv, QuietStep
    PROVE  WireInv' /\ UNCHANGED <<Pending, delivered>>
<1>1. UNCHANGED <<sent, delivered, got, stream>> /\ (peer' = "reads" => peer = "reads")
  BY DEF QuietStep, Socket, ConnectFails, Sends, Leaves, CloseFd, Key, PeerGoes, Lock, WriteFails,
     Written, WriteBlocks, android
<1>2. UNCHANGED Pending
  BY <1>1 DEF Pending
<1>3. ASSUME peer' = "reads" PROVE Rest' = Rest
  <2>1. CASE UNCHANGED <<server_mutex, left>>
    BY <2>1 DEF Rest
  <2>2. ASSUME NEW w \in Writers, Lock(w), server_fd # "none" PROVE Rest' = Rest
    <3>1. server_mutex = Nobody /\ server_mutex' = w /\ left'[w] = Frame(DataOf(w))
      BY <2>2 DEF Lock, Base, LeftInv
    <3> QED
      BY <3>1, ChannelAssumption DEF Rest
  <2>3. ASSUME NEW w \in Writers, WriteFails(w) \/ Written(w) PROVE Rest' = Rest
    <3>1. server_mutex = w /\ server_mutex' = Nobody
      BY <2>3, Writing DEF WriteFails, WriteError, Written, Returns
    <3>2. left[w] \in {<<>>, Frame(DataOf(w))}
      BY <1>1, <1>3, <2>3 DEF WriteFails, WriteError, Written, Base, LeftInv
    <3>3. Rest = <<>>
      BY <3>1, <3>2, Writing
    <3> QED
      BY <3>1, <3>3, ChannelAssumption DEF Rest
  <2>4. ASSUME NEW w \in Writers, Lock(w), server_fd = "none" PROVE UNCHANGED <<server_mutex, left>>
    BY <2>4 DEF Lock
  <2> QED
    BY <2>1, <2>2, <2>3, <2>4 DEF QuietStep, Socket, ConnectFails, Sends, Leaves, CloseFd, Key,
       PeerGoes, WriteBlocks, writing, Calls
<1> QED
  BY <1>1, <1>2, <1>3 DEF WireInv

\* A new connection has nothing on its way: a writer that has the mutex by now
\* has not begun.
LEMMA WireConnect ==
    ASSUME Base, Connect
    PROVE  WireInv' /\ Pending' = <<>> /\ delivered' = <<>>
<1>1. /\ stream' = <<>> /\ got' = <<>> /\ delivered' = <<>> /\ sent' = <<>>
      /\ UNCHANGED <<server_mutex, left>> /\ server_fd = "created"
  BY DEF Connect, writing, Base, ConnectionInv
<1>2. Rest' = <<>>
  <2>1. \A w \in Writers : left[w] \in {<<>>, Frame(DataOf(w))}
    BY <1>1 DEF Base, LeftInv
  <2> QED
    BY <1>1, <2>1 DEF Rest
<1>3. Pending' = <<>>
  BY <1>1, EmptySeq, SubSeqEmpty DEF Pending
<1>4. (<<>> \o <<>>) \o <<>> = <<>>
  BY EmptySeq, ConcatEmptySeq
<1> QED
  BY <1>1, <1>2, <1>3, <1>4, FramedEmpty DEF WireInv

\* Writing begins a message under way or goes on with the last one.
LEMMA WireWrite ==
    ASSUME Base, WireInv, NEW w \in Writers, Write(w)
    PROVE  /\ WireInv'
           /\ UNCHANGED delivered
           /\ Pending' \in {Pending, Append(Pending, DataOf(w))}
<1> DEFINE f == Frame(DataOf(w))
           cells == got \o stream \o Rest
<1>1. PICK n \in 1..Len(left[w]) :
              /\ stream' = stream \o SubSeq(left[w], 1, n)
              /\ left' = [left EXCEPT ![w] = Without(left[w], n)]
  BY WriteStep
<1> DEFINE piece == SubSeq(left[w], 1, n)
           tail == Without(left[w], n)
<1>2. /\ server_mutex = w /\ peer = "reads"
      /\ UNCHANGED <<server_mutex, got, delivered>>
      /\ sent' = IF left[w] = f THEN Append(sent, DataOf(w)) ELSE sent
  BY Writing DEF Write
<1>3. /\ DataOf(w) \in Seq(Nat) /\ f \in Seq(Nat) /\ Len(f) \in Nat /\ f # <<>>
      /\ left[w] \in Seq(Nat) /\ Len(left[w]) \in Nat /\ Len(left[w]) <= Len(f)
      /\ Rest = IF left[w] = f THEN <<>> ELSE left[w]
  BY <1>2, Writing
<1>4. /\ piece \in Seq(Nat) /\ tail \in Seq(Nat) /\ piece \o tail = left[w]
      /\ Len(tail) = Len(left[w]) - n
  BY <1>3, Split
<1>5. stream' = stream \o piece /\ left'[w] = tail
  BY <1>1 DEF Base, LeftInv
<1>6. got \in Seq(Nat) /\ stream \in Seq(Nat)
  BY DEF Base, StreamInv
<1> HIDE DEF f, piece, tail
<1>7. Rest' = tail
  <2>1. tail # f
    BY <1>3, <1>4
  <2> QED
    BY <1>2, <1>5, <2>1 DEF Rest, f
<1>8. got' \o stream' \o Rest' = (got \o stream) \o left[w]
  <2>1. got \o (stream \o piece) = (got \o stream) \o piece
    BY <1>4, <1>6, Associative
  <2>2. got \o stream \in Seq(Nat)
    BY <1>6, ConcatProperties
  <2>3. ((got \o stream) \o piece) \o tail = (got \o stream) \o (piece \o tail)
    BY <1>4, <2>2, Associative
  <2> QED
    BY <1>2, <1>4, <1>5, <1>7, <2>1, <2>3
<1>9. /\ Pending \in Seq(Seq(Nat)) /\ Len(delivered) \in 0..Len(sent)
      /\ cells \in Seq(Nat) /\ Framed(cells, Pending)
      /\ Pending = <<>> => got = <<>>
      /\ Pending # <<>> => Len(got) < Len(Frame(Head(Pending)))
  BY <1>2, PendingTypes DEF WireInv
<1>10. CASE left[w] = f
  <2>1. Pending' = Append(Pending, DataOf(w))
    <3>1. sent \in Seq(Seq(Nat))
      BY DEF Base, StreamInv
    <3>2. Len(delivered) \in 0..Len(sent)
      BY <1>9
    <3>3. \A x \in Seq(Nat) :
             SubSeq(Append(sent, x), Len(delivered) + 1, Len(Append(sent, x)))
                = Append(SubSeq(sent, Len(delivered) + 1, Len(sent)), x)
      BY <3>1, <3>2, UnderWay
    <3> QED
      BY <1>2, <1>3, <1>10, <3>3 DEF Pending
  <2>2. cells = got \o stream
    <3>1. got \o stream \in Seq(Nat)
      BY <1>6, ConcatProperties
    <3> QED
      BY <1>3, <1>10, <3>1, ConcatEmptySeq
  <2>3. Framed(got' \o stream' \o Rest', Pending')
    <3>1. Framed(cells \o f, Append(Pending, DataOf(w)))
      BY <1>3, <1>9, FramedAppend DEF f
    <3> QED
      BY <1>8, <1>10, <2>1, <2>2, <3>1
  <2>4. Pending' # <<>> /\ Len(got') < Len(Frame(Head(Pending')))
    <3>1. /\ Append(Pending, DataOf(w)) # <<>>
          /\ Head(Append(Pending, DataOf(w))) = IF Pending = <<>> THEN DataOf(w) ELSE Head(Pending)
      BY ZenonT(40), <1>3, <1>9, AppendProperties, HeadTailAppend
    <3>2. CASE Pending = <<>>
      <4>1. Len(f) # 0 /\ Len(got) = 0
        BY <1>3, <1>9, <3>2, EmptySeq
      <4> QED
        BY <1>2, <1>3, <2>1, <3>1, <3>2, <4>1 DEF f
    <3>3. CASE Pending # <<>>
      BY <1>2, <1>9, <2>1, <3>1, <3>3
    <3> QED
      BY <3>2, <3>3
  <2> QED
    BY <1>2, <2>1, <2>3, <2>4 DEF WireInv
<1>11. CASE left[w] # f
  <2>1. Pending' = Pending
    BY <1>2, <1>11 DEF Pending
  <2>2. got' \o stream' \o Rest' = cells
    BY <1>3, <1>8, <1>11
  <2> QED
    BY <1>2, <1>9, <2>1, <2>2 DEF WireInv
<1> QED
  BY <1>10, <1>11

\* A read takes a piece of the stream, never more than the rest of the first
\* message; the message is delivered when there is no more of it to come.
LEMMA WireRead ==
    ASSUME Base, WireInv, doRead
    PROVE  /\ WireInv' /\ StreamInv'
           /\ Len(stream') <= Len(stream)
           /\ \/ UNCHANGED <<Pending, delivered>>
              \/ /\ Pending # <<>> /\ Pending' = Tail(Pending)
                 /\ delivered' = Append(delivered, Head(Pending))
<1> DEFINE cells == got \o stream \o Rest
           m == Head(Pending)
           f == Frame(m)
<1>1. PICK n \in Reads(got, stream) :
          /\ stream' = Without(stream, n)
          /\ LET all == got \o SubSeq(stream, 1, n) IN
             IF FrameRead(all) THEN got' = <<>> /\ delivered' = Append(delivered, Data(all))
                               ELSE got' = all /\ UNCHANGED delivered
  BY DEF doRead
<1> DEFINE piece == SubSeq(stream, 1, n)
           all == got \o piece
           later == Without(stream, n)
<1>2. /\ peer = "reads" /\ UNCHANGED <<server_mutex, left, sent, peer>>
      /\ n \in 1..Least(Wanted(got), Len(stream))
  BY <1>1 DEF doRead, writing, Reads
<1>3. /\ Pending \in Seq(Seq(Nat)) /\ Len(delivered) \in 0..Len(sent)
      /\ cells \in Seq(Nat) /\ Rest \in Seq(Nat) /\ Framed(cells, Pending)
      /\ Pending = <<>> => got = <<>>
      /\ Pending # <<>> => Len(got) < Len(f)
  BY <1>2, PendingTypes DEF WireInv
<1>4. got \in Seq(Nat) /\ stream \in Seq(Nat) /\ Len(got) \in Nat /\ Len(stream) \in Nat
  BY LenProperties DEF Base, StreamInv
<1>5. Wanted(got) \in Int /\ n \in 1..Len(stream) /\ n <= Wanted(got)
  <2>1. Wanted(got) \in Int
    BY <1>4, ElementOfSeq DEF Wanted, HeaderRead, HeaderSize
  <2> QED
    BY <1>2, <1>4, <2>1 DEF Least
<1>6. /\ piece \in Seq(Nat) /\ Len(piece) = n
      /\ later \in Seq(Nat) /\ Len(later) = Len(stream) - n /\ piece \o later = stream
  BY <1>4, <1>5, Split
<1> HIDE DEF piece, later
<1>7. all \in Seq(Nat) /\ Len(all) = Len(got) + n
  BY <1>4, <1>6, ConcatProperties
<1>8. cells = all \o (later \o Rest) /\ cells = got \o (stream \o Rest)
  <2>1. got \o (piece \o later) = all \o later
    BY ZenonT(40), <1>4, <1>6, Associative
  <2>2. /\ (all \o later) \o Rest = all \o (later \o Rest)
        /\ (got \o stream) \o Rest = got \o (stream \o Rest)
    <3> HIDE DEF all, cells
    <3>1. /\ all \in Seq(Nat) /\ later \in Seq(Nat) /\ Rest \in Seq(Nat)
          /\ got \in Seq(Nat) /\ stream \in Seq(Nat)
      BY <1>3, <1>4, <1>6, <1>7
    <3>2. (all \o later) \o Rest = all \o (later \o Rest)
      BY ZenonT(40), <3>1, Associative
    <3>3. (got \o stream) \o Rest = got \o (stream \o Rest)
      BY ZenonT(40), <3>1, Associative
    <3> QED
      BY <3>2, <3>3
  <2> QED
    BY <1>6, <2>1, <2>2
<1>9. later \o Rest \in Seq(Nat) /\ stream \o Rest \in Seq(Nat)
  BY <1>3, <1>4, <1>6, ConcatProperties
<1> HIDE DEF all
<1>10. /\ \A i \in 1..Len(all) : cells[i] = all[i]
       /\ \A i \in 1..Len(got) : cells[i] = got[i]
       /\ Without(cells, Len(all)) = later \o Rest
  <2>1. /\ Without(all \o (later \o Rest), Len(all)) = later \o Rest
        /\ \A i \in 1..Len(all) : (all \o (later \o Rest))[i] = all[i]
    BY <1>7, <1>9, Follows
  <2>2. \A i \in 1..Len(got) : (got \o (stream \o Rest))[i] = got[i]
    BY <1>4, <1>9, Follows
  <2> HIDE DEF cells
  <2> QED
    BY <1>8, <2>1, <2>2
<1>11. Pending # <<>>
  <2> SUFFICES ASSUME Pending = <<>> PROVE FALSE
    OBVIOUS
  <2>1. cells = <<>>
    BY <1>3, FramedEmpty
  <2>2. Len(cells) = Len(all) + Len(later \o Rest) /\ Len(later \o Rest) \in Nat
    BY <1>7, <1>8, <1>9, ConcatProperties, LenProperties
  <2> QED
    BY <1>4, <1>5, <1>7, <2>1, <2>2, EmptySeq
<1>12. m \in Seq(Nat) /\ Len(m) \in Nat
  BY <1>3, <1>11, HeadTailProperties, LenProperties
<1>13. /\ f \in Seq(Nat) /\ Len(f) = 2 + Len(m)
       /\ f[1] = LIGHTNINGCAST_COMM_HEADER_KEY /\ f[2] = Len(m)
  BY <1>12, FrameShape DEF HeaderSize
<1>14. /\ \A i \in 1..Len(f) : cells[i] = f[i]
       /\ Framed(Without(cells, Len(f)), Tail(Pending))
  BY <1>3, <1>11, FramedFirst
<1> HIDE DEF m, f, cells
<1>15. Len(all) <= Len(f)
  <2>1. CASE HeaderRead(got)
    <3>1. 2 \in 1..Len(got) /\ 2 \in 1..Len(f)
      BY <1>4, <1>12, <1>13, <2>1 DEF HeaderRead, HeaderSize
    <3>2. got[2] = Len(m)
      BY <1>10, <1>13, <1>14, <3>1
    <3>3. n <= 2 + Len(m) - Len(got)
      BY <1>5, <2>1, <3>2 DEF Wanted, HeaderSize
    <3> QED
      BY <1>4, <1>5, <1>7, <1>12, <1>13, <3>3
  <2>2. CASE ~HeaderRead(got)
    <3>1. n <= 2 - Len(got)
      BY <1>5, <2>2 DEF Wanted, HeaderSize
    <3> QED
      BY <1>4, <1>5, <1>7, <1>12, <1>13, <3>1
  <2> QED
    BY <2>1, <2>2
<1>16. \A i \in 1..Len(all) : all[i] = f[i]
  <2> TAKE i \in 1..Len(all)
  <2>1. i \in 1..Len(f)
    BY <1>4, <1>5, <1>7, <1>12, <1>13, <1>15
  <2> QED
    BY <1>10, <1>14, <2>1
<1>17. FrameRead(all) <=> Len(all) = Len(f)
  <2>1. CASE HeaderRead(all)
    <3>1. 1 \in 1..Len(all) /\ 2 \in 1..Len(all)
      BY <1>4, <1>5, <1>7, <2>1 DEF HeaderRead, HeaderSize
    <3>2. all[1] = LIGHTNINGCAST_COMM_HEADER_KEY /\ all[2] = Len(m)
      BY <1>13, <1>16, <3>1
    <3>3. Wanted(all) = 2 + Len(m) - Len(all) /\ ~BadKey(all)
      BY <2>1, <3>2 DEF Wanted, BadKey, HeaderSize
    <3> QED
      <4>1. FrameRead(all) <=> 2 + Len(m) - Len(all) = 0
        BY <2>1, <3>3 DEF FrameRead
      <4>2. Len(all) \in Nat
        BY <1>7, LenProperties
      <4> QED
        BY <1>12, <1>13, <4>1, <4>2
  <2>2. CASE ~HeaderRead(all)
    BY <1>4, <1>5, <1>7, <1>12, <1>13, <2>2 DEF FrameRead, HeaderRead, HeaderSize
  <2> QED
    BY <2>1, <2>2
<1>18. stream' = later /\ Rest' = Rest /\ later \in Seq(Nat) /\ Len(later) <= Len(stream)
  BY <1>1, <1>2, <1>4, <1>5, <1>6 DEF Rest, later
<1>19. IF FrameRead(all) THEN got' = <<>> /\ delivered' = Append(delivered, Data(all))
                         ELSE got' = all /\ UNCHANGED delivered
  BY <1>1 DEF all, piece
<1>20. CASE FrameRead(all)
  <2>1. all = f
    BY <1>7, <1>13, <1>16, <1>17, <1>20, SeqEqual
  <2>2. delivered' = Append(delivered, m)
    BY <1>12, <1>19, <1>20, <2>1, DataOfFrame DEF f
  <2>3. delivered' \in Seq(Seq(Nat)) /\ Len(delivered') = Len(delivered) + 1
    BY <1>12, <2>2, AppendProperties DEF Base, StreamInv
  <2>4. Len(delivered) + 1 \in 1..Len(sent) /\ sent \in Seq(Seq(Nat))
    BY <1>3, <1>11, UnderWay DEF Pending, Base, StreamInv
  <2>5. Pending' = Tail(Pending)
    <3>1. Tail(Pending) = SubSeq(sent, Len(delivered) + 2, Len(sent))
      BY <1>3, <2>4, UnderWay DEF Pending
    <3>2. Len(delivered) + 1 + 1 = Len(delivered) + 2
      BY <1>3
    <3> QED
      BY <1>2, <2>3, <3>1, <3>2 DEF Pending
  <2>6. StreamInv'
    <3>1. <<>> \in Seq(Nat)
      BY EmptySeq
    <3> QED
      BY <1>2, <1>18, <1>19, <1>20, <2>3, <2>4, <3>1 DEF Base, StreamInv
  <2>7. Framed(got' \o stream' \o Rest', Pending')
    <3>1. (<<>> \o later) \o Rest = later \o Rest
      BY <1>6, ConcatEmptySeq
    <3> QED
      BY <1>10, <1>14, <1>18, <1>19, <1>20, <2>1, <2>5, <3>1
  <2>8. Pending' # <<>> => Len(got') < Len(Frame(Head(Pending')))
    <3> SUFFICES ASSUME Pending' # <<>> PROVE Len(got') < Len(Frame(Head(Pending')))
      OBVIOUS
    <3>1. Head(Pending') \in Seq(Nat)
      BY <1>3, <1>11, <2>5, HeadTailProperties
    <3>2. /\ Len(Frame(Head(Pending'))) = 2 + Len(Head(Pending'))
          /\ Len(Head(Pending')) \in Nat
      BY <3>1, FrameShape, LenProperties DEF HeaderSize
    <3>3. Len(got') = 0
      BY <1>19, <1>20
    <3> QED
      BY <3>2, <3>3
  <2> QED
    BY <1>11, <1>18, <1>19, <1>20, <2>2, <2>5, <2>6, <2>7, <2>8 DEF WireInv, m
<1>21. CASE ~FrameRead(all)
  <2>1. got' = all /\ UNCHANGED <<Pending, delivered>>
    BY <1>2, <1>19, <1>21 DEF Pending
  <2>2. StreamInv'
    BY <1>2, <1>7, <1>18, <2>1 DEF Base, StreamInv
  <2>3. got' \o stream' \o Rest' = cells
    <3>1. (all \o later) \o Rest = all \o (later \o Rest)
      BY <1>3, <1>6, <1>7, Associative
    <3> QED
      BY <1>8, <1>18, <2>1, <3>1
  <2>4. Len(got') < Len(f)
    BY <1>4, <1>5, <1>7, <1>12, <1>13, <1>15, <1>17, <1>21, <2>1
  <2> QED
    BY <1>3, <1>11, <1>18, <2>1, <2>2, <2>3, <2>4 DEF WireInv, f, m
<1> QED
  BY <1>20, <1>21

LEMMA BaseRead ==
    ASSUME Base, WireInv, doRead
    PROVE  Base'
<1>1. UNCHANGED <<server_fd, server_mutex, wpc, left, peer, cpc, messages, sessions, keys>>
  BY DEF doRead, writing, client
<1>2. StreamInv' /\ Len(stream') <= Len(stream)
  BY WireRead
<1>3. Len(stream) \in Nat /\ Len(stream') \in Nat /\ Capacity \in Nat
  BY <1>2, LenProperties, ChannelAssumption DEF Base, StreamInv
<1>4. TypeOK'
  <2>1. Len(stream') <= Capacity
    BY <1>2, <1>3 DEF Base, TypeOK
  <2> QED
    BY <1>1, <2>1 DEF Base, TypeOK
<1>5. ConnectionInv' /\ LeftInv'
  BY <1>1 DEF Base, ConnectionInv, LeftInv
<1> QED
  BY <1>2, <1>4, <1>5 DEF Base

-----------------------------------------------------------------------------
(* Theorems                                                                *)

LEMMA NextInv == Base /\ WireInv /\ [Next]_vars => Base' /\ WireInv'
<1>1. ASSUME Base, WireInv, Next PROVE Base' /\ WireInv'
  <2>1. CASE QuietStep
    BY <1>1, <2>1, BaseQuiet, WireQuiet
  <2>2. CASE Connect
    BY <1>1, <2>2, BaseConnect, WireConnect
  <2>3. CASE doRead
    BY <1>1, <2>3, BaseRead, WireRead
  <2>4. ASSUME NEW w \in Writers, Write(w) PROVE Base' /\ WireInv'
    BY <1>1, <2>4, BaseWrite, WireWrite
  <2> QED
    BY <1>1, <2>1, <2>2, <2>3, <2>4, StepCases
<1>2. Base /\ WireInv /\ UNCHANGED vars => Base' /\ WireInv'
  BY DEF Base, TypeOK, ConnectionInv, LeftInv, StreamInv, WireInv, Rest, Pending, vars, writing,
     android, client
<1> QED
  BY <1>1, <1>2

LEMMA InvHolds == Spec => [](Base /\ WireInv)
BY InitBase, NextInv, PTL DEF Spec

\* At most one thread is writing, it holds the mutex, and the buffers are never
\* filled beyond their capacity.
THEOREM TypeCorrect == Spec => []TypeOK
<1>1. Base => TypeOK
  BY DEF Base
<1> QED
  BY <1>1, InvHolds, PTL

\* The messages of two threads, written piece by piece into one connection that
\* another thread opens and closes, reach Android whole and in order, and none
\* of an earlier session gets into a later one.
THEOREM Refinement == Spec => ImplementsFrameQueue
<1>1. Init => FrameChannelQueue!Init
  <2> SUFFICES ASSUME Init PROVE FrameChannelQueue!Init
    OBVIOUS
  <2>1. Pending = <<>> /\ delivered = <<>>
    BY EmptySeq, SubSeqEmpty DEF Init, Pending
  <2> QED
    BY <2>1 DEF FrameChannelQueue!Init
<1>2. Base /\ WireInv /\ [Next]_vars => [FrameChannelQueue!Next]_(FrameChannelQueue!vars)
  <2> SUFFICES ASSUME Base, WireInv, [Next]_vars
               PROVE  FrameChannelQueue!Next \/ UNCHANGED <<Pending, delivered>>
    BY DEF FrameChannelQueue!vars
  <2>1. CASE UNCHANGED vars
    BY <2>1 DEF vars, android, Pending
  <2>2. CASE QuietStep
    BY <2>2, WireQuiet
  <2>3. CASE Connect
    BY <2>3, WireConnect DEF FrameChannelQueue!Next, FrameChannelQueue!Connect
  <2>4. CASE doRead
    BY <2>4, WireRead DEF FrameChannelQueue!Next, FrameChannelQueue!Deliver
  <2>5. ASSUME NEW w \in Writers, Write(w)
        PROVE  FrameChannelQueue!Next \/ UNCHANGED <<Pending, delivered>>
    BY <2>5, WireWrite DEF FrameChannelQueue!Next, FrameChannelQueue!Send
  <2> QED
    BY <2>1, <2>2, <2>3, <2>4, <2>5, StepCases
<1> QED
  BY <1>1, <1>2, InvHolds, PTL DEF ImplementsFrameQueue, Spec, FrameChannelQueue!Spec
=============================================================================
