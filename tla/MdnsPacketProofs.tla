-------------------------- MODULE MdnsPacketProofs --------------------------
(***************************************************************************)
(* The packets of MdnsPacket are read as they were written, for any        *)
(* records and any number of them: what is behind the compression of a     *)
(* name, one record, all records of a packet.                              *)
(***************************************************************************)
EXTENDS MdnsPacket, MdnsRecordsProofs

-----------------------------------------------------------------------------
(* Lists                                                                   *)

\* Two lists one after the other, in one list.
LEMMA Cat ==
    ASSUME NEW s, NEW t, IsSeq(s), IsSeq(t)
    PROVE  /\ IsSeq(s \o t) /\ Len(s) \in Nat /\ Len(t) \in Nat
           /\ Len(s \o t) = Len(s) + Len(t) /\ DOMAIN (s \o t) = 1..(Len(s) + Len(t))
           /\ DOMAIN s = 1..Len(s) /\ DOMAIN t = 1..Len(t)
           /\ \A i \in 1..Len(s) : (s \o t)[i] = s[i]
           /\ \A i \in 1..Len(t) : (s \o t)[Len(s) + i] = t[i]
<1> DEFINE A == ToSet(s) \cup ToSet(t)
<1>1. s \in Seq(A) /\ t \in Seq(A)
  BY IsSeqSeq
<1> HIDE DEF A
<1>2. /\ s \o t \in Seq(A) /\ Len(s \o t) = Len(s) + Len(t)
      /\ \A i \in 1..(Len(s) + Len(t)) :
            (s \o t)[i] = IF i <= Len(s) THEN s[i] ELSE t[i - Len(s)]
  BY <1>1, ConcatProperties
<1>3. Len(s) \in Nat /\ Len(t) \in Nat /\ DOMAIN s = 1..Len(s) /\ DOMAIN t = 1..Len(t)
  BY <1>1
<1>4. IsSeq(s \o t) /\ DOMAIN (s \o t) = 1..Len(s \o t)
  BY <1>2, SeqIsSeq
<1> DEFINE m == Len(s)
           n == Len(t)
<1> HIDE DEF m, n
<1>5. \A i \in 1..m : i \in 1..(m + n) /\ i <= m
  BY <1>3 DEF m, n
<1>6. \A i \in 1..n : m + i \in 1..(m + n) /\ ~(m + i <= m) /\ (m + i) - m = i
  BY <1>3 DEF m, n
<1> QED
  BY <1>2, <1>3, <1>4, <1>5, <1>6 DEF m, n

\* An element more.
LEMMA Added ==
    ASSUME NEW s, NEW x, IsSeq(s)
    PROVE  /\ IsSeq(Append(s, x)) /\ Len(s) \in Nat /\ Len(Append(s, x)) = Len(s) + 1
           /\ DOMAIN s = 1..Len(s) /\ DOMAIN Append(s, x) = 1..(Len(s) + 1)
           /\ \A i \in 1..Len(s) : Append(s, x)[i] = s[i]
           /\ Append(s, x)[Len(s) + 1] = x
<1> DEFINE A == ToSet(s) \cup {x}
<1>1. s \in Seq(A) /\ x \in A
  BY IsSeqSeq
<1> HIDE DEF A
<1>2. /\ Append(s, x) \in Seq(A) /\ Len(Append(s, x)) = Len(s) + 1
      /\ \A i \in 1..Len(s) : Append(s, x)[i] = s[i]
      /\ Append(s, x)[Len(s) + 1] = x
  BY <1>1, AppendProperties
<1> QED
  BY <1>1, <1>2, SeqIsSeq

-----------------------------------------------------------------------------
(* Names in a packet                                                       *)

\* The label l is read at p, and the name goes on at next.
Copies(body, p, l, next) ==
    \/ body[p].k = "label" /\ body[p].v = l /\ next = p + 1
    \/ /\ body[p].k = "ptr" /\ body[p].v \in 1..Len(body) /\ body[body[p].v].k = "label"
       /\ body[body[p].v].v = l /\ next = body[p].v + 1

\* The name is read at off, label by label, and the root ends it.
ReadsAt(body, off, name, at) ==
    /\ at[0] = off
    /\ \A i \in 0..Len(name) : at[i] \in 1..Len(body)
    /\ \A i \in 1..Len(name) : Copies(body, at[i - 1], name[i], at[i])
    /\ body[at[Len(name)]].k = "root"

Reads(body, off, name) == \E at : ReadsAt(body, off, name, at)

\* What is written later changes no name.
Keeps(out, body) ==
    /\ Len(out) <= Len(body)
    /\ \A i \in 1..Len(out) : out[i].k # "field" => body[i] = out[i]

LEMMA ReadsKept ==
    ASSUME NEW out, NEW body, IsSeq(out), IsSeq(body), Keeps(out, body),
           NEW off, NEW name, IsSeq(name), Reads(out, off, name)
    PROVE  Reads(body, off, name)
<1>1. PICK at : ReadsAt(out, off, name, at)
  BY DEF Reads
<1>2. Len(out) \in Nat /\ Len(body) \in Nat /\ Len(name) \in Nat /\ Len(out) <= Len(body)
  BY DEF IsSeq, Keeps
<1>3. \A i \in 0..Len(name) : at[i] \in 1..Len(out) /\ at[i] \in 1..Len(body)
  BY <1>1, <1>2 DEF ReadsAt
<1>4. ASSUME NEW i \in 1..Len(name) PROVE Copies(body, at[i - 1], name[i], at[i])
  <2>1. Copies(out, at[i - 1], name[i], at[i]) /\ at[i - 1] \in 1..Len(out)
    BY <1>1, <1>2, <1>3 DEF ReadsAt
  <2>2. body[at[i - 1]] = out[at[i - 1]]
    BY <2>1 DEF Copies, Keeps
  <2>3. CASE out[at[i - 1]].k = "label"
    BY <2>1, <2>2, <2>3 DEF Copies
  <2>4. CASE out[at[i - 1]].k = "ptr"
    <3> DEFINE q == out[at[i - 1]].v
    <3>1. q \in 1..Len(out) /\ out[q].k = "label" /\ out[q].v = name[i] /\ at[i] = q + 1
      BY <2>1, <2>4 DEF Copies
    <3> HIDE DEF q
    <3>2. q \in 1..Len(body) /\ body[q] = out[q]
      BY <1>2, <3>1 DEF Keeps
    <3> QED
      BY <2>2, <2>4, <3>1, <3>2 DEF Copies, q
  <2> QED
    BY <2>1, <2>3, <2>4 DEF Copies
<1>5. body[at[Len(name)]].k = "root"
  <2>1. out[at[Len(name)]].k = "root" /\ at[Len(name)] \in 1..Len(out)
    BY <1>1, <1>2, <1>3 DEF ReadsAt
  <2> QED
    BY <2>1 DEF Keeps
<1>6. ReadsAt(body, off, name, at)
  BY <1>1, <1>3, <1>4, <1>5 DEF ReadsAt
<1> QED
  BY <1>6 DEF Reads

\* The root is the empty name.
LEMMA ReadsRoot ==
    ASSUME NEW out, NEW off \in 1..Len(out), out[off].k = "root"
    PROVE  Reads(out, off, <<>>)
<1>1. ReadsAt(out, off, <<>>, [i \in {0} |-> off])
  BY DEF ReadsAt
<1> QED
  BY <1>1 DEF Reads

\* A label begins a name that what follows ends.
LEMMA ReadsLabel ==
    ASSUME NEW out, IsSeq(out), NEW off \in 1..Len(out), NEW name, NEW rest, IsSeq(name), IsSeq(rest),
           Len(name) = Len(rest) + 1, \A i \in 1..Len(rest) : name[i + 1] = rest[i],
           out[off].k = "label", out[off].v = name[1], Reads(out, off + 1, rest)
    PROVE  Reads(out, off, name)
<1>1. PICK at : ReadsAt(out, off + 1, rest, at)
  BY DEF Reads
<1> DEFINE n == Len(rest)
           to == [i \in 0..(n + 1) |-> IF i = 0 THEN off ELSE at[i - 1]]
<1>2. n \in Nat /\ Len(name) = n + 1
  BY DEF IsSeq
<1>3. /\ at[0] = off + 1 /\ \A i \in 0..n : at[i] \in 1..Len(out)
      /\ \A i \in 1..n : Copies(out, at[i - 1], rest[i], at[i])
      /\ out[at[n]].k = "root"
  BY <1>1 DEF ReadsAt
<1> HIDE DEF n
<1>4. to[0] = off /\ \A i \in 1..(n + 1) : to[i] = at[i - 1]
  BY <1>2
<1> HIDE DEF to
<1>5. \A i \in 0..(n + 1) : to[i] \in 1..Len(out)
  <2> TAKE i \in 0..(n + 1)
  <2>1. i = 0 \/ (i \in 1..(n + 1) /\ i - 1 \in 0..n)
    BY <1>2
  <2> QED
    BY <1>3, <1>4, <2>1
<1>6. ASSUME NEW i \in 1..(n + 1) PROVE Copies(out, to[i - 1], name[i], to[i])
  <2>1. CASE i = 1
    <3>0. 1 \in 1..(n + 1) /\ 1 - 1 = 0
      BY <1>2
    <3>1. to[1] = off + 1 /\ i - 1 = 0
      BY <1>3, <1>4, <2>1, <3>0
    <3> QED
      BY <1>4, <2>1, <3>1 DEF Copies
  <2>2. CASE i # 1
    <3> DEFINE j == i - 1
    <3>1. j \in 1..n /\ j \in 1..(n + 1) /\ i = j + 1
      BY <1>2, <2>2
    <3> HIDE DEF j
    <3>2. to[j] = at[j - 1] /\ to[j + 1] = at[j]
      <4>1. (j + 1) - 1 = j /\ j + 1 \in 1..(n + 1)
        BY <1>2, <3>1
      <4> QED
        BY <1>4, <3>1, <4>1
    <3>3. name[j + 1] = rest[j]
      BY <3>1 DEF n
    <3> QED
      BY <1>3, <3>1, <3>2, <3>3 DEF j
  <2> QED
    BY <2>1, <2>2
<1>7. out[to[n + 1]].k = "root"
  <2>1. (n + 1) - 1 = n /\ n + 1 \in 1..(n + 1)
    BY <1>2
  <2> QED
    BY <1>3, <1>4, <2>1
<1>8. ReadsAt(out, off, name, to)
  BY <1>2, <1>4, <1>5, <1>6, <1>7 DEF ReadsAt
<1> QED
  BY <1>8 DEF Reads

\* A pointer to the first label of a name is that name.
LEMMA ReadsPointer ==
    ASSUME NEW out, IsSeq(out), NEW off \in 1..Len(out), NEW name, IsSeq(name), Len(name) > 0,
           out[off].k = "ptr", out[off].v \in 1..Len(out), out[out[off].v].k = "label",
           Reads(out, out[off].v, name)
    PROVE  Reads(out, off, name)
<1>1. PICK at : ReadsAt(out, out[off].v, name, at)
  BY DEF Reads
<1> DEFINE to == [i \in 0..Len(name) |-> IF i = 0 THEN off ELSE at[i]]
<1>2. Len(name) \in Nat
  BY DEF IsSeq
<1>3. \A i \in 0..Len(name) : to[i] = IF i = 0 THEN off ELSE at[i]
  OBVIOUS
<1> HIDE DEF to
<1>4. \A i \in 0..Len(name) : to[i] \in 1..Len(out)
  BY <1>1, <1>2, <1>3 DEF ReadsAt
<1>5. ASSUME NEW i \in 1..Len(name) PROVE Copies(out, to[i - 1], name[i], to[i])
  <2>1. Copies(out, at[i - 1], name[i], at[i]) /\ to[i] = at[i]
    BY <1>1, <1>3 DEF ReadsAt
  <2>2. CASE i = 1
    <3>1. to[0] = off /\ at[0] = out[off].v
      BY <1>1, <1>2, <1>3 DEF ReadsAt
    <3> QED
      BY <2>1, <2>2, <3>1 DEF Copies
  <2>3. CASE i # 1
    <3>1. to[i - 1] = at[i - 1]
      BY <1>2, <1>3, <2>3
    <3> QED
      BY <2>1, <3>1
  <2> QED
    BY <2>2, <2>3
<1>6. to[0] = off /\ to[Len(name)] = at[Len(name)]
  BY <1>2, <1>3
<1>7. ReadsAt(out, off, name, to)
  BY <1>1, <1>4, <1>5, <1>6 DEF ReadsAt
<1> QED
  BY <1>7 DEF Reads

\* uncompress_nlabel is what its recursion says.
CopiedUpTo(body, off, copied) ==
    copied = [n \in 0..Len(body) |->
                IF n = 0 THEN [p |-> off, str |-> <<>>] ELSE CopyLabel(body, copied[n - 1])]

LEMMA Uncompressed ==
    ASSUME NEW body, NEW off, NEW c, CopiedUpTo(body, off, c)
    PROVE  \E copied : /\ CopiedUpTo(body, off, copied)
                       /\ uncompress_nlabel(body, off) = copied[Len(body)].str
<1> DEFINE k == CHOOSE copied : CopiedUpTo(body, off, copied)
<1>1. CopiedUpTo(body, off, k)
  OBVIOUS
<1>2. uncompress_nlabel(body, off) = k[Len(body)].str
  BY DEF uncompress_nlabel, CopiedUpTo
<1> QED
  BY <1>1, <1>2

\* The name that is read at an offset is what uncompress_nlabel gives.
LEMMA UncompressedName ==
    ASSUME NEW body, IsSeq(body), NEW off, NEW name, IsSeq(name), Len(name) <= Len(body),
           Reads(body, off, name)
    PROVE  uncompress_nlabel(body, off) = name
<1>1. PICK at : ReadsAt(body, off, name, at)
  BY DEF Reads
<1>2. Len(body) \in Nat /\ Len(name) \in Nat /\ DOMAIN name = 1..Len(name)
  BY DEF IsSeq
<1> DEFINE Upto(n) == IF n <= Len(name) THEN n ELSE Len(name)
           First(n) == SubSeq(name, 1, Upto(n))
           S(n) == [p |-> at[Upto(n)], str |-> First(n)]
<1>3. S(0) = [p |-> off, str |-> <<>>]
  <2>1. Upto(0) = 0 /\ at[0] = off
    BY <1>1, <1>2 DEF ReadsAt
  <2>2. SubSeq(name, 1, 0) = <<>>
    BY DEF IsSeq
  <2> QED
    BY <2>1, <2>2
<1>4. ASSUME NEW n \in 1..Len(body) PROVE S(n) = CopyLabel(body, S(n - 1))
  <2>1. CASE n > Len(name)
    <3> DEFINE L == Len(name)
    <3>0. L \in Nat /\ n \in Int /\ n > L
      BY <1>2, <2>1
    <3> HIDE DEF L
    <3>a. (IF n <= L THEN n ELSE L) = L /\ (IF n - 1 <= L THEN n - 1 ELSE L) = L
      BY <3>0
    <3>1. Upto(n) = Len(name) /\ Upto(n - 1) = Len(name)
      BY <3>a DEF L
    <3>2. body[at[Len(name)]].k = "root"
      BY <1>1 DEF ReadsAt
    <3> QED
      BY <3>1, <3>2 DEF CopyLabel
  <2>2. CASE n <= Len(name)
    <3> DEFINE p == at[n - 1]
               p2 == IF body[p].k = "ptr" THEN body[p].v ELSE p
    <3>1. Upto(n) = n /\ Upto(n - 1) = n - 1 /\ n \in 1..Len(name) /\ n - 1 \in 0..Len(name)
      BY <1>2, <2>2
    <3>2. p \in 1..Len(body) /\ Copies(body, p, name[n], at[n])
      BY <1>1, <3>1 DEF ReadsAt
    <3>3. ~(p > Len(body)) /\ body[p].k # "root" /\ at[n] = p2 + 1 /\ body[p2].v = name[n]
      BY <1>2, <3>2 DEF Copies
    <3>4. First(n) = Append(First(n - 1), name[n])
      <4>1. name \in Seq(ToSet(name))
        BY DEF IsSeq
      <4>2. SubSeq(name, 1, n) = Append(SubSeq(name, 1, n - 1), name[n])
        BY <1>2, <3>1, <4>1
      <4> QED
        BY <3>1, <4>2
    <3> HIDE DEF First, Upto, p2
    <3>5. S(n - 1).p = p /\ S(n - 1).str = First(n - 1) /\ S(n) = [p |-> at[n], str |-> First(n)]
      BY <3>1
    <3> HIDE DEF S
    <3>6. CopyLabel(body, S(n - 1)) = [p |-> p2 + 1, str |-> Append(First(n - 1), body[p2].v)]
      BY <3>3, <3>5 DEF CopyLabel, p2
    <3> QED
      BY <3>3, <3>4, <3>5, <3>6
  <2> QED
    BY <1>2, <2>1, <2>2
<1> HIDE DEF S
<1>5. CopiedUpTo(body, off, [n \in 0..Len(body) |-> S(n)])
  <2> DEFINE c == [n \in 0..Len(body) |-> S(n)]
  <2>1. \A n \in 0..Len(body) : c[n] = S(n)
    OBVIOUS
  <2> HIDE DEF c
  <2>2. \A n \in 0..Len(body) :
           S(n) = IF n = 0 THEN [p |-> off, str |-> <<>>] ELSE CopyLabel(body, c[n - 1])
    BY <1>2, <1>3, <1>4, <2>1
  <2> QED
    BY <2>2 DEF CopiedUpTo, c
<1>6. PICK copied : /\ CopiedUpTo(body, off, copied)
                    /\ uncompress_nlabel(body, off) = copied[Len(body)].str
  BY <1>5, Uncompressed
<1> DEFINE Good == {n \in Nat : n <= Len(body) => copied[n] = S(n)}
<1>7. \A n \in 0..Len(body) :
          copied[n] = IF n = 0 THEN [p |-> off, str |-> <<>>] ELSE CopyLabel(body, copied[n - 1])
  BY <1>6 DEF CopiedUpTo
<1>8. 0 \in Good
  BY <1>2, <1>3, <1>7
<1>9. ASSUME NEW n \in Nat, n \in Good PROVE n + 1 \in Good
  <2> SUFFICES ASSUME n + 1 <= Len(body) PROVE copied[n + 1] = S(n + 1)
    OBVIOUS
  <2>1. copied[n] = S(n) /\ n + 1 \in 1..Len(body) /\ (n + 1) - 1 = n
    BY <1>2, <1>9
  <2> QED
    BY <1>4, <1>7, <2>1
<1>10. Len(body) \in Good
  <2> HIDE DEF Good
  <2> QED
    BY <1>2, <1>8, <1>9, Induction
<1>11. copied[Len(body)] = S(Len(body))
  BY <1>2, <1>10
<1>12. First(Len(body)) = name
  <2>1. Upto(Len(body)) = Len(name)
    BY <1>2
  <2>2. SubSeq(name, 1, Len(name)) = name
    BY DEF IsSeq
  <2> QED
    BY <2>1, <2>2
<1> QED
  BY <1>6, <1>11, <1>12 DEF S

\* A name is written from off up to next.
NameAt(body, off, next, name) ==
    /\ off \in 1..Len(body) /\ next \in (off + 1)..(Len(body) + 1)
    /\ \A i \in off..(next - 2) : body[i].k = "label"
    /\ body[next - 1].k \in {"root", "ptr"}
    /\ IsSeq(name) /\ Len(name) <= Len(body) /\ Reads(body, off, name)

LEMMA NameKept ==
    ASSUME NEW out, NEW body, IsSeq(out), IsSeq(body), Keeps(out, body),
           NEW off, NEW next, NEW name, NameAt(out, off, next, name)
    PROVE  NameAt(body, off, next, name)
<1>1. Len(out) \in Nat /\ Len(body) \in Nat /\ Len(out) <= Len(body) /\ Len(name) \in Nat
  BY DEF IsSeq, Keeps, NameAt
<1>2. Reads(body, off, name)
  BY ReadsKept DEF NameAt
<1> DEFINE m == Len(out)
           n == Len(body)
<1>3. off \in 1..m /\ next \in (off + 1)..(m + 1)
  BY DEF NameAt
<1> HIDE DEF m, n
<1>4. off \in 1..n /\ next \in (off + 1)..(n + 1) /\ next - 1 \in 1..m
      /\ \A i \in off..(next - 2) : i \in 1..m
  BY <1>1, <1>3 DEF m, n
<1>5. \A i \in off..(next - 2) : body[i].k = "label"
  <2> TAKE i \in off..(next - 2)
  <2>1. out[i].k = "label" /\ i \in 1..Len(out)
    BY <1>4 DEF NameAt, m
  <2> QED
    BY <2>1 DEF Keeps
<1>6. body[next - 1].k \in {"root", "ptr"}
  <2>1. out[next - 1].k \in {"root", "ptr"} /\ next - 1 \in 1..Len(out)
    BY <1>4 DEF NameAt, m
  <2> QED
    BY <2>1 DEF Keeps
<1>7. Len(name) <= Len(body) /\ IsSeq(name)
  BY <1>1 DEF NameAt
<1> QED
  BY <1>2, <1>4, <1>5, <1>6, <1>7 DEF NameAt, n

\* The reader finds the name and its end.
LEMMA NameRead ==
    ASSUME NEW body, IsSeq(body), NEW off, NEW next, NEW name, NameAt(body, off, next, name)
    PROVE  off + label_len(body, off) = next /\ uncompress_nlabel(body, off) = name
<1>1. Len(body) \in Nat
  BY DEF IsSeq
<1> DEFINE n == Len(body)
           ends == {i \in off..n : body[i].k \in {"root", "ptr"}}
<1>2. off \in 1..n /\ next \in (off + 1)..(n + 1)
  BY DEF NameAt
<1>3. label_len(body, off) = IF ends = {} THEN Cardinality(off..n) ELSE Min(ends) + 1 - off
  BY DEF label_len
<1>4. next - 1 \in ends /\ \A i \in ends : i >= next - 1
  <2>1. next - 1 \in off..n
    BY <1>1, <1>2
  <2>2. body[next - 1].k \in {"root", "ptr"}
    BY DEF NameAt
  <2>3. ASSUME NEW i \in ends PROVE i >= next - 1
    <3>1. i \in off..n /\ body[i].k # "label"
      OBVIOUS
    <3>2. i \notin off..(next - 2)
      BY <3>1 DEF NameAt
    <3> HIDE DEF n
    <3> QED
      BY <1>1, <1>2, <3>1, <3>2 DEF n
  <2> QED
    BY <2>1, <2>2, <2>3
<1>5. Min(ends) = next - 1
  <2>1. ends \in SUBSET Nat
    BY <1>1, <1>2
  <2> HIDE DEF ends
  <2>2. Min(ends) \in ends /\ \A i \in ends : Min(ends) <= i
    BY <1>4, <2>1, Least
  <2>3. Min(ends) \in Nat /\ next - 1 \in Nat
    BY <1>4, <2>1, <2>2
  <2>4. Min(ends) >= next - 1 /\ Min(ends) <= next - 1
    BY <1>4, <2>2
  <2> QED
    BY <2>3, <2>4
<1>6. off + label_len(body, off) = next
  <2>1. label_len(body, off) = (next - 1) + 1 - off
    BY <1>3, <1>4, <1>5
  <2> QED
    BY <1>1, <1>2, <2>1
<1> QED
  BY <1>6, UncompressedName DEF NameAt

-----------------------------------------------------------------------------
(* Writing                                                                 *)

\* The list of suffixes says where each of them begins, with a label.
EntryAt(out, e) ==
    /\ e.pos \in 1..Len(out) /\ out[e.pos].k = "label"
    /\ IsSeq(e.label) /\ Len(e.label) \in 1..Len(out) /\ Reads(out, e.pos, e.label)

Compressed(st) ==
    /\ st = [out |-> st.out, comp |-> st.comp] /\ IsSeq(st.out) /\ IsSeq(st.comp)
    /\ \A i \in DOMAIN st.comp : EntryAt(st.out, st.comp[i])

LEMMA EntryKept ==
    ASSUME NEW out, NEW body, IsSeq(out), IsSeq(body), Keeps(out, body), NEW e, EntryAt(out, e)
    PROVE  EntryAt(body, e)
<1>1. Len(out) \in Nat /\ Len(body) \in Nat /\ Len(out) <= Len(body)
  BY DEF IsSeq, Keeps
<1>2. Reads(body, e.pos, e.label)
  BY ReadsKept DEF EntryAt
<1> DEFINE m == Len(out)
           n == Len(body)
<1>3. e.pos \in 1..m /\ Len(e.label) \in 1..m
  BY DEF EntryAt
<1>4. body[e.pos].k = "label"
  BY <1>3 DEF EntryAt, Keeps
<1> HIDE DEF m, n
<1>5. e.pos \in 1..n /\ Len(e.label) \in 1..n
  BY <1>1, <1>3 DEF m, n
<1> QED
  BY <1>2, <1>4, <1>5 DEF EntryAt, n

\* Fields may be written and changed.
LEMMA CompressedKept ==
    ASSUME NEW st, Compressed(st), NEW out, IsSeq(out), Keeps(st.out, out)
    PROVE  Compressed([st EXCEPT !.out = out])
<1> DEFINE r == [st EXCEPT !.out = out]
<1>1. r = [out |-> out, comp |-> st.comp]
  BY DEF Compressed
<1>2. \A i \in DOMAIN st.comp : EntryAt(out, st.comp[i])
  BY EntryKept DEF Compressed
<1> QED
  BY <1>1, <1>2 DEF Compressed

\* What is left of a name from its label i on.
LEMMA Suffix ==
    ASSUME NEW name, IsSeq(name), NEW i \in 1..(Len(name) + 1)
    PROVE  LET s == SubSeq(name, i, Len(name)) IN
           /\ IsSeq(s) /\ Len(s) = Len(name) + 1 - i
           /\ \A j \in 1..Len(s) : s[j] = name[i + j - 1]
<1> DEFINE A == ToSet(name)
           n == Len(name)
<1>1. name \in Seq(A) /\ n \in Nat
  BY DEF IsSeq
<1> HIDE DEF A
<1> DEFINE s == SubSeq(name, i, n)
<1>2. s \in Seq(A) /\ Len(s) = IF i <= n THEN n - i + 1 ELSE 0
  BY <1>1, SubSeqProperties
<1>3. \A j \in 1..Len(s) : s[j] = name[i + j - 1]
  BY <1>1, <1>2, SubSeqProperties
<1>4. (IF i <= n THEN n - i + 1 ELSE 0) = n + 1 - i
  <2> HIDE DEF n
  <2> QED
    BY <1>1 DEF n
<1> HIDE DEF s
<1>5. IsSeq(s)
  BY <1>2, SeqIsSeq
<1>6. Len(s) = n + 1 - i
  BY <1>2, <1>4
<1> QED
  BY <1>3, <1>5, <1>6 DEF s

\* What mdns_encode_name appends: labels, and at the end a root or a pointer to what
\* is left of the name where it is known.
Appends(st, name, r, end) ==
    LET n == Len(name)  m == Len(st.out) IN
    /\ r = [out |-> r.out, comp |-> r.comp] /\ IsSeq(r.out) /\ IsSeq(r.comp)
    /\ Len(r.out) = m + end
    /\ \A i \in 1..m : r.out[i] = st.out[i]
    /\ \A i \in 1..(end - 1) : r.out[m + i] = Label(name[i])
    /\ \A i \in DOMAIN r.comp :
          \/ i \in DOMAIN st.comp /\ r.comp[i] = st.comp[i]
          \/ \E j \in 1..(end - 1) : r.comp[i] = Remembered(st, name, j)
    /\ \/ end = n + 1 /\ r.out[m + end] = Root
       \/ /\ end \in 1..n
          /\ \E i \in DOMAIN st.comp : /\ st.comp[i].label = SubSeq(name, end, n)
                                       /\ r.out[m + end] = Pointer(st.comp[i].pos)

LEMMA NameWritten ==
    ASSUME NEW st, Compressed(st), NEW name, IsSeq(name)
    PROVE  \E end \in 1..(Len(name) + 1) : Appends(st, name, mdns_encode_name(st, name), end)
<1> DEFINE n == Len(name)
           m == Len(st.out)
           r == mdns_encode_name(st, name)
           Entry(i) == SelectInSeq(st.comp, LAMBDA e : e.label = SubSeq(name, i, n))
           I == {i \in DOMAIN name : Entry(i) # 0} \cup {n + 1}
           end == Min(I)
           last == IF end > n THEN Root ELSE Pointer(st.comp[Entry(end)].pos)
           labels == [i \in 1..(end - 1) |-> Label(name[i])]
           memo == [i \in 1..(end - 1) |-> Remembered(st, name, i)]
<1>1. n \in Nat /\ DOMAIN name = 1..n /\ m \in Nat /\ IsSeq(st.out) /\ IsSeq(st.comp)
  BY DEF IsSeq, Compressed
<1>2. r = [out |-> st.out \o labels \o <<last>>, comp |-> st.comp \o memo]
  BY DEF mdns_encode_name
<1>3. end \in I /\ end \in 1..(n + 1)
  <2>0. \A i \in 1..n : i \in Nat /\ i \in 1..(n + 1)
    <3> HIDE DEF n
    <3> QED
      BY <1>1
  <2>a. n + 1 \in Nat /\ n + 1 \in 1..(n + 1)
    <3> HIDE DEF n
    <3> QED
      BY <1>1
  <2>1. I \in SUBSET Nat /\ n + 1 \in I /\ I \subseteq 1..(n + 1)
    <3> HIDE DEF n, Entry
    <3> QED
      BY <1>1, <2>0, <2>a
  <2> HIDE DEF I
  <2> QED
    BY <2>1, Least
<1>4. ASSUME NEW i \in 1..n, Entry(i) # 0
      PROVE  Entry(i) \in DOMAIN st.comp /\ st.comp[Entry(i)].label = SubSeq(name, i, n)
  <2> DEFINE J == {j \in 1..Len(st.comp) : st.comp[j].label = SubSeq(name, i, n)}
  <2>1. Entry(i) = IF J # {} THEN Min(J) ELSE 0
    BY DEF SelectInSeq
  <2>2. J \in SUBSET Nat /\ DOMAIN st.comp = 1..Len(st.comp)
    BY <1>1 DEF IsSeq
  <2>3. J # {} => Min(J) \in J
    <3> HIDE DEF J
    <3> QED
      BY <2>2, Least
  <2> QED
    BY <1>4, <2>1, <2>2, <2>3
<1>5. \/ end = n + 1 /\ last = Root
      \/ /\ end \in 1..n
         /\ \E i \in DOMAIN st.comp : /\ st.comp[i].label = SubSeq(name, end, n)
                                      /\ last = Pointer(st.comp[i].pos)
  <2>1. CASE end = n + 1
    <3>1. end > n
      <4> HIDE DEF n, end
      <4> QED
        BY <1>1, <2>1
    <3> HIDE DEF end
    <3> QED
      BY <2>1, <3>1
  <2>2. CASE end # n + 1
    <3>1. end \in 1..n /\ Entry(end) # 0 /\ ~(end > n)
      <4>1. end \in {i \in DOMAIN name : Entry(i) # 0} \/ end = n + 1
        BY <1>3
      <4> HIDE DEF end, Entry, n
      <4>2. end \in 1..n /\ Entry(end) # 0
        BY <1>1, <2>2, <4>1
      <4> QED
        BY <1>1, <4>2
    <3> HIDE DEF end, Entry
    <3>2. last = Pointer(st.comp[Entry(end)].pos)
      BY <3>1
    <3> QED
      BY <1>4, <3>1, <3>2
  <2> QED
    BY <2>1, <2>2
<1> DEFINE k == end - 1
<1>6. k \in Nat /\ end = k + 1
  BY <1>1, <1>3
<1> HIDE DEF end, last, r, k
<1>7. /\ IsSeq(labels) /\ Len(labels) = k /\ \A i \in 1..k : labels[i] = Label(name[i])
      /\ IsSeq(memo) /\ Len(memo) = k /\ \A i \in 1..k : memo[i] = Remembered(st, name, i)
  <2>1. DOMAIN labels = 1..k /\ labels = [i \in 1..k |-> labels[i]]
    BY <1>6 DEF k
  <2>2. DOMAIN memo = 1..k /\ memo = [i \in 1..k |-> memo[i]]
    BY <1>6 DEF k
  <2>3. \A i \in 1..k : labels[i] = Label(name[i]) /\ memo[i] = Remembered(st, name, i)
    BY <1>6 DEF k
  <2> HIDE DEF labels, memo
  <2> QED
    BY <1>6, <2>1, <2>2, <2>3, FunctionIsSeq
<1> HIDE DEF labels, memo
<1>8. IsSeq(<<last>>) /\ Len(<<last>>) = 1 /\ <<last>>[1] = last
  <2>1. <<last>> \in Seq({last})
    OBVIOUS
  <2> QED
    BY <2>1, SeqIsSeq
<1> DEFINE o1 == st.out \o labels
           o2 == o1 \o <<last>>
           c == st.comp \o memo
<1>9. /\ IsSeq(o1) /\ Len(o1) = m + k /\ \A i \in 1..m : o1[i] = st.out[i]
      /\ \A i \in 1..k : o1[m + i] = Label(name[i])
  <2>1. /\ IsSeq(o1) /\ Len(o1) = m + Len(labels) /\ \A i \in 1..m : o1[i] = st.out[i]
        /\ \A i \in 1..Len(labels) : o1[m + i] = labels[i]
    BY <1>1, <1>7, Cat
  <2> QED
    BY <1>7, <2>1
<1> HIDE DEF o1
<1>10. /\ IsSeq(o2) /\ Len(o2) = m + k + 1 /\ \A i \in 1..m : o2[i] = st.out[i]
       /\ \A i \in 1..k : o2[m + i] = Label(name[i])
       /\ o2[m + end] = last
  <2>1. /\ IsSeq(o2) /\ Len(o2) = m + k + 1 /\ \A i \in 1..(m + k) : o2[i] = o1[i]
        /\ o2[m + k + 1] = last
    <3>1. /\ IsSeq(o2) /\ Len(o2) = Len(o1) + Len(<<last>>)
          /\ \A i \in 1..Len(o1) : o2[i] = o1[i]
          /\ \A i \in 1..Len(<<last>>) : o2[Len(o1) + i] = <<last>>[i]
      BY <1>8, <1>9, Cat
    <3>2. 1 \in 1..1
      OBVIOUS
    <3> QED
      BY <1>8, <1>9, <3>1, <3>2
  <2> HIDE DEF o2
  <2>2. \A i \in 1..m : i \in 1..(m + k)
    BY <1>1, <1>6
  <2>3. \A i \in 1..k : m + i \in 1..(m + k)
    BY <1>1, <1>6
  <2> HIDE DEF m
  <2>4. m + k + 1 = m + end
    BY <1>1, <1>6
  <2> QED
    BY <1>9, <2>1, <2>2, <2>3, <2>4
<1>11. /\ IsSeq(c)
       /\ \A i \in DOMAIN c : \/ i \in DOMAIN st.comp /\ c[i] = st.comp[i]
                              \/ \E j \in 1..k : c[i] = Remembered(st, name, j)
  <2> DEFINE q == Len(st.comp)
  <2>1. /\ IsSeq(c) /\ q \in Nat /\ DOMAIN c = 1..(q + Len(memo)) /\ DOMAIN st.comp = 1..q
        /\ \A i \in 1..q : c[i] = st.comp[i]
        /\ \A i \in 1..Len(memo) : c[q + i] = memo[i]
    <3>1. IsSeq(st.comp) /\ IsSeq(memo) /\ c = st.comp \o memo
      BY <1>1, <1>7
    <3> HIDE DEF c
    <3> QED
      BY <3>1, Cat
  <2> HIDE DEF c, q
  <2>2. ASSUME NEW i \in DOMAIN c, i \notin 1..q
        PROVE  \E j \in 1..k : c[i] = Remembered(st, name, j)
    <3> DEFINE j == i - q
    <3>1. j \in 1..k /\ i = q + j
      BY <1>6, <1>7, <2>1, <2>2
    <3> HIDE DEF j
    <3> QED
      BY <1>7, <2>1, <3>1
  <2> QED
    BY <2>1, <2>2
<1>12. r = [out |-> o2, comp |-> c]
  BY <1>2 DEF o1, r
<1> HIDE DEF o2, c
<1>13. m + k + 1 = m + end /\ k = end - 1
  <2> HIDE DEF m
  <2> QED
    BY <1>1, <1>3, <1>6
<1>14. r.out = o2 /\ r.comp = c
  BY <1>12
<1>15. /\ r = [out |-> r.out, comp |-> r.comp] /\ IsSeq(r.out) /\ IsSeq(r.comp)
       /\ Len(r.out) = m + end
       /\ \A i \in 1..m : r.out[i] = st.out[i]
       /\ \A i \in 1..(end - 1) : r.out[m + i] = Label(name[i])
       /\ r.out[m + end] = last
       /\ \A i \in DOMAIN r.comp :
             \/ i \in DOMAIN st.comp /\ r.comp[i] = st.comp[i]
             \/ \E j \in 1..(end - 1) : r.comp[i] = Remembered(st, name, j)
  <2> HIDE DEF m
  <2> QED
    BY <1>10, <1>11, <1>12, <1>13, <1>14
<1>16. \/ end = n + 1 /\ r.out[m + end] = Root
       \/ /\ end \in 1..n
          /\ \E i \in DOMAIN st.comp : /\ st.comp[i].label = SubSeq(name, end, n)
                                       /\ r.out[m + end] = Pointer(st.comp[i].pos)
  <2> HIDE DEF m, n
  <2> QED
    BY <1>5, <1>15, Zenon
<1>17. Appends(st, name, r, end)
  <2> HIDE DEF end
  <2> QED
    BY <1>15, <1>16, Zenon DEF Appends, n, m
<1> QED
  BY <1>3, <1>17, Zenon DEF n, r

\* What was written stays.
Extends(out, body) == Len(out) <= Len(body) /\ \A i \in 1..Len(out) : body[i] = out[i]

\* A name is written so that it is read again, and so are the suffixes it adds to
\* the list.
LEMMA EncodedName ==
    ASSUME NEW st, Compressed(st), NEW name, IsSeq(name)
    PROVE  LET r == mdns_encode_name(st, name) IN
           /\ Compressed(r) /\ Extends(st.out, r.out)
           /\ NameAt(r.out, Len(st.out) + 1, Len(r.out) + 1, name)
<1> DEFINE n == Len(name)
           m == Len(st.out)
           r == mdns_encode_name(st, name)
           out == r.out
           S(j) == SubSeq(name, j, n)
<1>0. PICK end \in 1..(n + 1) : Appends(st, name, r, end)
  BY NameWritten
<1>1. /\ r = [out |-> out, comp |-> r.comp] /\ IsSeq(out) /\ IsSeq(r.comp)
      /\ Len(out) = m + end
      /\ \A i \in 1..m : out[i] = st.out[i]
      /\ \A i \in 1..(end - 1) : out[m + i] = Label(name[i])
      /\ \A i \in DOMAIN r.comp :
            \/ i \in DOMAIN st.comp /\ r.comp[i] = st.comp[i]
            \/ \E j \in 1..(end - 1) : r.comp[i] = Remembered(st, name, j)
      /\ \/ end = n + 1 /\ out[m + end] = Root
         \/ /\ end \in 1..n
            /\ \E i \in DOMAIN st.comp : /\ st.comp[i].label = SubSeq(name, end, n)
                                         /\ out[m + end] = Pointer(st.comp[i].pos)
  BY <1>0, Zenon DEF Appends
<1>2. /\ n \in Nat /\ m \in Nat /\ IsSeq(st.out) /\ IsSeq(st.comp)
      /\ \A i \in DOMAIN st.comp : EntryAt(st.out, st.comp[i])
  BY DEF IsSeq, Compressed
<1> HIDE DEF r
<1>3. \A j \in 1..(n + 1) : IsSeq(S(j)) /\ Len(S(j)) = n + 1 - j
                            /\ \A i \in 1..Len(S(j)) : S(j)[i] = name[j + i - 1]
  BY Suffix
<1> DEFINE w == Len(out)
<1>4. end \in Nat /\ end >= 1 /\ end <= n + 1 /\ w = m + end /\ w \in Nat
  <2> HIDE DEF n, m
  <2> QED
    BY <1>1, <1>2
<1> HIDE DEF S, n, m
<1>a. \A l : Label(l).k = "label" /\ Label(l).v = l
  BY DEF Label
<1>b. \A i \in 1..(end - 1) : out[m + i].k = "label" /\ out[m + i].v = name[i]
  BY <1>1, <1>a
<1>c. \A j \in 1..end : j \in 1..(n + 1) /\ n + 1 - j <= n /\ n + 1 - j = (n + 1 - end) + (end - j)
  BY <1>2, <1>4
<1>d. \A j \in 1..end : Len(S(j)) = n + 1 - j
  BY <1>3, <1>c
<1>5. Extends(st.out, out)
  BY <1>1, <1>2, <1>4 DEF Extends, m
<1>6. Keeps(st.out, out)
  BY <1>5 DEF Extends, Keeps
<1>7. \A i \in DOMAIN st.comp : EntryAt(out, st.comp[i])
  BY <1>1, <1>2, <1>6, EntryKept
<1>8. m + end \in 1..Len(out) /\ Reads(out, m + end, S(end))
      /\ \A j \in 1..end : Len(S(j)) <= w
  <2>0. m + end \in 1..Len(out)
    BY <1>2, <1>4
  <2>1. CASE end = n + 1 /\ out[m + end] = Root
    <3>1. S(end) = <<>>
      <4>1. IsSeq(S(end)) /\ Len(S(end)) = 0
        BY <1>2, <1>3, <1>4, <2>1
      <4> QED
        BY <4>1 DEF IsSeq
    <3>2. out[m + end].k = "root"
      BY <1>1, <2>1 DEF Root
    <3>3. \A j \in 1..end : Len(S(j)) <= w
      <4> TAKE j \in 1..end
      <4>1. n + 1 - j <= w
        BY <1>2, <1>4, <2>1
      <4> QED
        BY <1>d, <4>1
    <3> QED
      BY <2>0, <3>1, <3>2, <3>3, ReadsRoot
  <2>2. CASE \E i \in DOMAIN st.comp : /\ st.comp[i].label = SubSeq(name, end, n)
                                       /\ out[m + end] = Pointer(st.comp[i].pos) /\ end \in 1..n
    <3>1. PICK i \in DOMAIN st.comp : st.comp[i].label = S(end) /\ out[m + end] = Pointer(st.comp[i].pos)
      BY <2>2 DEF S
    <3> DEFINE e == st.comp[i]
    <3>2. EntryAt(out, e) /\ EntryAt(st.out, e)
      BY <1>2, <1>7
    <3>3. /\ e.pos \in 1..Len(out) /\ out[e.pos].k = "label" /\ IsSeq(e.label)
          /\ Len(e.label) > 0 /\ Reads(out, e.pos, e.label)
      BY <1>4, <3>2 DEF EntryAt
    <3>4. out[m + end].k = "ptr" /\ out[m + end].v = e.pos
      BY <1>1, <3>1 DEF Pointer
    <3>5. Len(S(end)) <= m
      BY <3>1, <3>2 DEF EntryAt, m
    <3>6. \A j \in 1..end : Len(S(j)) <= w
      <4> TAKE j \in 1..end
      <4>1. n + 1 - end <= m
        BY <1>4, <1>d, <3>5
      <4>2. n + 1 - j <= w
        BY <1>2, <1>4, <4>1
      <4> QED
        BY <1>d, <4>2
    <3>7. e.label = S(end)
      BY <3>1
    <3> HIDE DEF e
    <3> QED
      BY <1>1, <2>0, <3>3, <3>4, <3>6, <3>7, ReadsPointer
  <2> QED
    BY <1>1, <2>1, <2>2 DEF n
<1> DEFINE Good == {k \in Nat : k < end => Reads(out, m + (end - k), S(end - k))}
<1>9. 0 \in Good
  BY <1>4, <1>8
<1>10. ASSUME NEW k \in Nat, k \in Good PROVE k + 1 \in Good
  <2> SUFFICES ASSUME k + 1 < end PROVE Reads(out, m + (end - (k + 1)), S(end - (k + 1)))
    OBVIOUS
  <2> DEFINE j == end - (k + 1)
  <2>1. j \in 1..(end - 1) /\ j \in 1..(n + 1) /\ j + 1 \in 1..(n + 1) /\ end - k = j + 1
        /\ m + (j + 1) = (m + j) + 1 /\ m + j \in 1..Len(out)
    BY <1>2, <1>4
  <2>2. Reads(out, (m + j) + 1, S(j + 1))
    BY <1>4, <1>10, <2>1
  <2> HIDE DEF j
  <2>3. IsSeq(S(j)) /\ IsSeq(S(j + 1)) /\ Len(S(j)) = Len(S(j + 1)) + 1
    <3>1. IsSeq(S(j)) /\ Len(S(j)) = n + 1 - j
      BY <1>3, <2>1
    <3>2. IsSeq(S(j + 1)) /\ Len(S(j + 1)) = n + 1 - (j + 1)
      BY <1>3, <2>1
    <3>3. n + 1 - j = (n + 1 - (j + 1)) + 1
      BY <1>2, <2>1
    <3> QED
      BY <3>1, <3>2, <3>3
  <2>4. Len(S(j)) \in Nat /\ Len(S(j + 1)) \in Nat
    BY <2>3 DEF IsSeq
  <2>5. S(j)[1] = name[j]
    <3>1. 1 \in 1..Len(S(j)) /\ j + 1 - 1 = j
      BY <2>1, <2>3, <2>4
    <3> QED
      BY <1>3, <2>1, <3>1
  <2>6. \A i \in 1..Len(S(j + 1)) : S(j)[i + 1] = S(j + 1)[i]
    <3> TAKE i \in 1..Len(S(j + 1))
    <3>1. i + 1 \in 1..Len(S(j)) /\ j + (i + 1) - 1 = (j + 1) + i - 1
      BY <2>1, <2>3, <2>4
    <3>2. S(j)[i + 1] = name[j + (i + 1) - 1]
      BY <1>3, <2>1, <3>1
    <3>3. S(j + 1)[i] = name[(j + 1) + i - 1]
      BY <1>3, <2>1
    <3> QED
      BY <3>1, <3>2, <3>3
  <2>7. out[m + j].k = "label" /\ out[m + j].v = S(j)[1]
    BY <1>b, <2>1, <2>5
  <2>8. Reads(out, m + j, S(j))
    BY <1>1, <2>1, <2>2, <2>3, <2>6, <2>7, ReadsLabel
  <2> QED
    BY <2>8 DEF j
<1>11. ASSUME NEW j \in 1..end PROVE Reads(out, m + j, S(j))
  <2> DEFINE k == end - j
  <2>1. k \in Nat /\ k < end /\ end - k = j
    BY <1>4
  <2>2. k \in Good
    <3> HIDE DEF Good, k
    <3> QED
      BY <1>9, <1>10, <2>1, Induction
  <2> HIDE DEF k
  <2> QED
    BY <2>1, <2>2
<1> HIDE DEF Good
<1>12. S(1) = name
  <2>1. name = SubSeq(name, 1, Len(name))
    BY DEF IsSeq
  <2> QED
    BY <2>1 DEF S, n
<1>13. NameAt(out, m + 1, w + 1, name)
  <2>1. m + 1 \in 1..w /\ w + 1 \in ((m + 1) + 1)..(w + 1) /\ 1 \in 1..end
    BY <1>2, <1>4
  <2>2. \A i \in (m + 1)..((w + 1) - 2) : out[i].k = "label"
    <3> TAKE i \in (m + 1)..((w + 1) - 2)
    <3>1. i - m \in 1..(end - 1) /\ m + (i - m) = i
      BY <1>2, <1>4
    <3> QED
      BY <1>b, <3>1
  <2>3. out[(w + 1) - 1].k \in {"root", "ptr"}
    <3>1. (w + 1) - 1 = m + end
      BY <1>2, <1>4
    <3>2. Root.k = "root" /\ \A i : Pointer(i).k = "ptr"
      BY DEF Root, Pointer
    <3> HIDE DEF out, w
    <3> QED
      BY <1>1, <3>1, <3>2
  <2>4. Len(name) <= w /\ Reads(out, m + 1, name)
    BY <1>8, <1>11, <1>12, <2>1
  <2> QED
    BY <2>1, <2>2, <2>3, <2>4 DEF NameAt
<1>14. ASSUME NEW j \in 1..(end - 1) PROVE EntryAt(out, Remembered(st, name, j))
  <2> DEFINE e == Remembered(st, name, j)
  <2>1. e.label = S(j) /\ e.pos = m + j
    BY DEF Remembered, S, n, m
  <2> HIDE DEF e
  <2>2. m + j \in 1..Len(out) /\ j \in 1..end /\ j \in 1..(n + 1) /\ n + 1 - j >= 1
    BY <1>2, <1>4
  <2>3. IsSeq(S(j)) /\ Len(S(j)) \in 1..w
    <3>1. IsSeq(S(j)) /\ Len(S(j)) = n + 1 - j /\ Len(S(j)) <= w
      BY <1>3, <1>8, <2>2
    <3>2. n + 1 - j \in Nat
      BY <1>2, <2>2
    <3> QED
      BY <1>4, <2>2, <3>1, <3>2
  <2>4. out[m + j].k = "label"
    BY <1>b
  <2> QED
    BY <1>11, <2>1, <2>2, <2>3, <2>4 DEF EntryAt, e
<1>15. Compressed(r)
  <2>1. \A i \in DOMAIN r.comp : EntryAt(out, r.comp[i])
    BY <1>1, <1>7, <1>14
  <2> QED
    BY <1>1, <2>1 DEF Compressed
<1> QED
  BY <1>5, <1>13, <1>15 DEF m, r

LEMMA ExtendsKeeps ==
    ASSUME NEW out, NEW body, Extends(out, body)
    PROVE  Keeps(out, body)
BY DEF Extends, Keeps

LEMMA ExtendsOn ==
    ASSUME NEW a, NEW b, NEW c, IsSeq(a), IsSeq(b), IsSeq(c), Extends(a, b), Extends(b, c)
    PROVE  Extends(a, c)
<1>1. Len(a) \in Nat /\ Len(b) \in Nat /\ Len(c) \in Nat
  BY DEF IsSeq
<1>2. Len(a) <= Len(b) /\ Len(b) <= Len(c)
  BY DEF Extends
<1>3. \A i \in 1..Len(a) : i \in 1..Len(b)
  BY <1>1, <1>2
<1> QED
  BY <1>1, <1>2, <1>3 DEF Extends

\* A field more.
LEMMA FieldWritten ==
    ASSUME NEW st, Compressed(st), NEW x
    PROVE  LET r == mdns_write(st, x) IN
           /\ Compressed(r) /\ Extends(st.out, r.out)
           /\ Len(r.out) = Len(st.out) + 1 /\ r.out[Len(st.out) + 1] = Field(x)
<1> DEFINE r == mdns_write(st, x)
           out == Append(st.out, Field(x))
<1>1. r = [st EXCEPT !.out = out] /\ r.out = out
  BY DEF mdns_write, Compressed
<1>2. /\ IsSeq(st.out) /\ IsSeq(out) /\ Len(st.out) \in Nat /\ Len(out) = Len(st.out) + 1
      /\ \A i \in 1..Len(st.out) : out[i] = st.out[i]
      /\ out[Len(st.out) + 1] = Field(x)
  BY Added DEF Compressed
<1> HIDE DEF out
<1>3. Extends(st.out, out)
  BY <1>2 DEF Extends
<1>4. Compressed(r)
  BY <1>1, <1>2, <1>3, CompressedKept, ExtendsKeeps
<1> HIDE DEF r
<1> QED
  BY <1>1, <1>2, <1>3, <1>4 DEF r

-----------------------------------------------------------------------------
(* Records                                                                 *)

\* The records that the responder's functions create.
Encodable(rr) ==
    /\ IsSeq(rr.name) /\ rr.cache_flush \in {0, 1} /\ rr.rr_class = 1
    /\ \/ rr.type \in {"A", "NSEC"} /\ rr.data = <<rr.data[1]>>
       \/ rr.type = "PTR" /\ IsSeq(rr.data)
       \/ rr.type = "TXT" /\ IsSeq(rr.data) /\ rr.data # <<>>
       \/ rr.type = "SRV" /\ IsSeq(rr.data.target)

\* The data of the record is written from p up to next.
DataAt(body, p, next, rr) ==
    /\ p \in Nat /\ next \in p..(Len(body) + 1)
    /\ rr.type = "A" => next = p + 1 /\ body[p].v = rr.data[1]
    /\ rr.type = "PTR" => NameAt(body, p, next, rr.data)
    /\ rr.type = "TXT" => /\ next = p + Len(rr.data)
                          /\ \A i \in 1..Len(rr.data) : body[p + i - 1].v = rr.data[i]

\* What is written later leaves the data alone.
LEMMA DataKept ==
    ASSUME NEW out, NEW body, IsSeq(out), IsSeq(body), Keeps(out, body),
           NEW p, NEW next, NEW rr, DataAt(out, p, next, rr), p > 0,
           rr.type = "TXT" => IsSeq(rr.data),
           \A i \in p..Len(out) : body[i] = out[i]
    PROVE  DataAt(body, p, next, rr)
<1> DEFINE m == Len(out)
           n == Len(body)
<1>1. m \in Nat /\ n \in Nat /\ m <= n /\ p \in Nat /\ next \in p..(m + 1)
  BY DEF IsSeq, Keeps, DataAt
<1> HIDE DEF m, n
<1>2. next \in p..(n + 1)
  BY <1>1
<1>3. CASE rr.type = "A"
  <2>1. p \in p..m /\ next = p + 1
    BY <1>1, <1>3 DEF DataAt
  <2>2. body[p] = out[p]
    BY <2>1 DEF m
  <2> QED
    BY <1>1, <1>2, <1>3, <2>2 DEF DataAt, n
<1>4. CASE rr.type = "PTR"
  BY <1>1, <1>2, <1>4, NameKept DEF DataAt, n
<1>5. CASE rr.type = "TXT"
  <2> DEFINE k == Len(rr.data)
  <2>1. k \in Nat /\ next = p + k
    BY <1>5 DEF DataAt, IsSeq
  <2> HIDE DEF k
  <2>2. \A i \in 1..k : p + i - 1 \in p..m
    BY <1>1, <2>1
  <2>3. \A i \in 1..k : body[p + i - 1].v = rr.data[i]
    BY <1>5, <2>2 DEF DataAt, k, m
  <2> QED
    BY <1>1, <1>2, <1>5, <2>1, <2>3 DEF DataAt, n, k
<1>6. CASE rr.type \notin {"A", "PTR", "TXT"}
  BY <1>1, <1>2, <1>6 DEF DataAt, n
<1> QED
  BY <1>3, <1>4, <1>5, <1>6

\* EncodeData writes the data so that it is read again.
LEMMA EncodedData ==
    ASSUME NEW st, Compressed(st), NEW rr, Encodable(rr)
    PROVE  LET r == EncodeData(st, rr) IN
           /\ Compressed(r) /\ Extends(st.out, r.out)
           /\ DataAt(r.out, Len(st.out) + 1, Len(r.out) + 1, rr)
<1> DEFINE r == EncodeData(st, rr)
           m == Len(st.out)
<1>1. m \in Nat /\ IsSeq(st.out)
  BY DEF Compressed, IsSeq
<1>2. CASE rr.type = "A"
  <2>1. r = mdns_write(st, rr.data[1])
    BY <1>2 DEF EncodeData
  <2>2. /\ Compressed(r) /\ Extends(st.out, r.out)
        /\ Len(r.out) = m + 1 /\ r.out[m + 1] = Field(rr.data[1])
    BY <2>1, FieldWritten
  <2> HIDE DEF r, m
  <2>3. r.out[m + 1].v = rr.data[1] /\ m + 1 \in Nat /\ (m + 1) + 1 \in (m + 1)..((m + 1) + 1)
    BY <1>1, <2>2 DEF Field
  <2> QED
    BY <1>2, <2>2, <2>3 DEF DataAt, r, m
<1>3. CASE rr.type = "PTR"
  <2>1. r = mdns_encode_name(st, rr.data) /\ IsSeq(rr.data)
    BY <1>3 DEF EncodeData, Encodable
  <2>2. /\ Compressed(r) /\ Extends(st.out, r.out)
        /\ NameAt(r.out, m + 1, Len(r.out) + 1, rr.data)
    BY <2>1, EncodedName
  <2> DEFINE w == Len(r.out)
  <2>3. w \in Nat /\ m <= w
    BY <2>2 DEF Compressed, IsSeq, Extends
  <2> HIDE DEF r, m, w
  <2>4. m + 1 \in Nat /\ w + 1 \in (m + 1)..(w + 1)
    BY <1>1, <2>3
  <2> QED
    BY <1>3, <2>2, <2>4 DEF DataAt, r, m, w
<1>4. CASE rr.type = "TXT"
  <2> DEFINE texts == [i \in DOMAIN rr.data |-> Label(rr.data[i])]
             out == st.out \o texts
             k == Len(rr.data)
  <2>1. r = [st EXCEPT !.out = out] /\ r.out = out
    BY <1>4 DEF EncodeData, Compressed
  <2>2. k \in Nat /\ DOMAIN rr.data = 1..k
    BY <1>4 DEF Encodable, IsSeq
  <2>3. DOMAIN texts = 1..k /\ texts = [i \in 1..k |-> texts[i]]
    BY <2>2
  <2>a. \A i \in 1..k : texts[i].v = rr.data[i]
    BY <2>2 DEF Label
  <2> HIDE DEF texts, k
  <2>b. IsSeq(texts) /\ Len(texts) = k
    BY <2>2, <2>3, FunctionIsSeq
  <2>4. /\ IsSeq(out) /\ Len(out) = m + k /\ \A i \in 1..m : out[i] = st.out[i]
        /\ \A i \in 1..k : out[m + i].v = rr.data[i]
    <3>1. /\ IsSeq(out) /\ Len(out) = m + Len(texts) /\ \A i \in 1..m : out[i] = st.out[i]
          /\ \A i \in 1..Len(texts) : out[m + i] = texts[i]
      BY <1>1, <2>b, Cat
    <3> QED
      BY <2>a, <2>b, <3>1
  <2> HIDE DEF out, m
  <2>5. Extends(st.out, out)
    BY <1>1, <2>2, <2>4 DEF Extends, m
  <2>6. Compressed(r)
    BY <2>1, <2>4, <2>5, CompressedKept, ExtendsKeeps
  <2>7. DataAt(out, m + 1, Len(out) + 1, rr)
    <3>1. m + 1 \in Nat /\ (m + k) + 1 \in (m + 1)..((m + k) + 1) /\ (m + k) + 1 = (m + 1) + k
      BY <1>1, <2>2
    <3>2. \A i \in 1..k : out[(m + 1) + i - 1].v = rr.data[i]
      <4>1. \A i \in 1..k : (m + 1) + i - 1 = m + i
        BY <1>1, <2>2
      <4> QED
        BY <2>4, <4>1
    <3> QED
      BY <1>4, <2>4, <3>1, <3>2 DEF DataAt, k
  <2> HIDE DEF r
  <2> QED
    BY <2>1, <2>5, <2>6, <2>7 DEF m, r
<1>5. ASSUME rr.type \in {"SRV", "NSEC"}, Compressed(r), Extends(st.out, r.out)
      PROVE  DataAt(r.out, m + 1, Len(r.out) + 1, rr)
  <2> DEFINE w == Len(r.out)
  <2>1. w \in Nat /\ m <= w
    BY <1>5 DEF Compressed, IsSeq, Extends
  <2> HIDE DEF r, m, w
  <2>2. m + 1 \in Nat /\ w + 1 \in (m + 1)..(w + 1)
    BY <1>1, <2>1
  <2> QED
    BY <1>5, <2>2 DEF DataAt, w
<1>6. CASE rr.type = "SRV"
  <2> DEFINE a == mdns_write(st, rr.data.priority)
             b == mdns_write(a, rr.data.weight)
             c == mdns_write(b, rr.data.port)
  <2>1. r = mdns_encode_name(c, rr.data.target) /\ IsSeq(rr.data.target)
    BY <1>6 DEF EncodeData, Encodable
  <2>2. Compressed(a) /\ Extends(st.out, a.out)
    BY FieldWritten
  <2> HIDE DEF a
  <2>3. Compressed(b) /\ Extends(a.out, b.out)
    BY <2>2, FieldWritten
  <2> HIDE DEF b
  <2>4. Compressed(c) /\ Extends(b.out, c.out)
    BY <2>3, FieldWritten
  <2> HIDE DEF c, r
  <2>5. Compressed(r) /\ Extends(c.out, r.out)
    BY <2>1, <2>4, EncodedName
  <2>6. Extends(st.out, r.out)
    BY <2>2, <2>3, <2>4, <2>5, ExtendsOn DEF Compressed
  <2> QED
    BY <1>5, <1>6, <2>5, <2>6 DEF m, r
<1>7. CASE rr.type = "NSEC"
  <2> DEFINE a == mdns_encode_name(st, rr.name)
             b == mdns_write(a, 0)
             c == mdns_write(b, 5)
  <2>1. r = mdns_write(c, rr.data)
    BY <1>7 DEF EncodeData
  <2>2. Compressed(a) /\ Extends(st.out, a.out)
    BY EncodedName DEF Encodable
  <2> HIDE DEF a
  <2>3. Compressed(b) /\ Extends(a.out, b.out)
    BY <2>2, FieldWritten
  <2> HIDE DEF b
  <2>4. Compressed(c) /\ Extends(b.out, c.out)
    BY <2>3, FieldWritten
  <2> HIDE DEF c, r
  <2>5. Compressed(r) /\ Extends(c.out, r.out)
    BY <2>1, <2>4, FieldWritten
  <2>6. Extends(st.out, r.out)
    BY <2>2, <2>3, <2>4, <2>5, ExtendsOn DEF Compressed
  <2> QED
    BY <1>5, <1>7, <2>5, <2>6 DEF m, r
<1> QED
  BY <1>2, <1>3, <1>4, <1>6, <1>7 DEF Encodable

\* The class with the cache flush bit.
ClassWritten(rr) == (rr.rr_class % 32768) + 32768 * rr.cache_flush

\* The record is written from off up to next.
RecordAt(body, off, next, rr) ==
    \E p \in Nat :
        /\ NameAt(body, off, p, rr.name)
        /\ body[p].v = rr.type /\ body[p + 1].v = ClassWritten(rr) /\ body[p + 2].v = rr.ttl
        /\ body[p + 3].v = next - (p + 4)
        /\ DataAt(body, p + 4, next, rr)

LEMMA RecordKept ==
    ASSUME NEW out, NEW body, IsSeq(out), IsSeq(body), Extends(out, body),
           NEW off, NEW next, NEW rr, Encodable(rr), RecordAt(out, off, next, rr)
    PROVE  RecordAt(body, off, next, rr)
<1>1. PICK p \in Nat :
        /\ NameAt(out, off, p, rr.name)
        /\ out[p].v = rr.type /\ out[p + 1].v = ClassWritten(rr) /\ out[p + 2].v = rr.ttl
        /\ out[p + 3].v = next - (p + 4)
        /\ DataAt(out, p + 4, next, rr)
  BY DEF RecordAt
<1>2. Keeps(out, body)
  BY ExtendsKeeps
<1>3. NameAt(body, off, p, rr.name)
  BY <1>1, <1>2, NameKept
<1>4. rr.type = "TXT" => IsSeq(rr.data)
  BY DEF Encodable
<1> DEFINE m == Len(out)
<1>5. m \in Nat /\ off \in 1..m /\ p \in (off + 1)..(m + 1) /\ next \in (p + 4)..(m + 1)
  BY <1>1 DEF NameAt, DataAt, IsSeq
<1>6. \A i \in 1..m : body[i] = out[i]
  BY DEF Extends
<1> HIDE DEF m
<1>7. /\ p \in 1..m /\ p + 1 \in 1..m /\ p + 2 \in 1..m /\ p + 3 \in 1..m /\ p + 4 > 0
      /\ \A i \in (p + 4)..m : i \in 1..m
  BY <1>5
<1>8. DataAt(body, p + 4, next, rr)
  <2>1. \A i \in (p + 4)..Len(out) : body[i] = out[i]
    BY <1>6, <1>7 DEF m
  <2> QED
    BY <1>1, <1>2, <1>4, <1>7, <2>1, DataKept
<1>9. /\ body[p].v = rr.type /\ body[p + 1].v = ClassWritten(rr) /\ body[p + 2].v = rr.ttl
      /\ body[p + 3].v = next - (p + 4)
  BY <1>1, <1>6, <1>7
<1> QED
  BY <1>3, <1>8, <1>9 DEF RecordAt

\* mdns_encode_rr writes a record so that it is read again.
LEMMA EncodedRecord ==
    ASSUME NEW st, Compressed(st), NEW rr, Encodable(rr)
    PROVE  LET r == mdns_encode_rr(st, rr) IN
           /\ Compressed(r) /\ Extends(st.out, r.out)
           /\ RecordAt(r.out, Len(st.out) + 1, Len(r.out) + 1, rr)
<1> DEFINE named == mdns_encode_name(st, rr.name)
           a == mdns_write(named, rr.type)
           b == mdns_write(a, ClassWritten(rr))
           c == mdns_write(b, rr.ttl)
           d == mdns_write(c, 0)
           data == EncodeData(d, rr)
           start == Len(c.out) + 1
           patch == Field(Len(data.out) - start)
           out == [data.out EXCEPT ![start] = patch]
           r == mdns_encode_rr(st, rr)
           m == Len(st.out)
           p == Len(named.out) + 1
           w == Len(data.out)
<1>1. r = [data EXCEPT !.out[start] = patch]
  BY DEF mdns_encode_rr, ClassWritten
<1>2. Compressed(named) /\ Extends(st.out, named.out) /\ NameAt(named.out, m + 1, p, rr.name)
  BY EncodedName DEF Encodable
<1>3. Compressed(a) /\ Extends(named.out, a.out) /\ Len(a.out) = Len(named.out) + 1
      /\ a.out[Len(named.out) + 1] = Field(rr.type)
  <2> HIDE DEF named
  <2> QED
    BY <1>2, FieldWritten
<1>4. Compressed(b) /\ Extends(a.out, b.out) /\ Len(b.out) = Len(a.out) + 1
      /\ b.out[Len(a.out) + 1] = Field(ClassWritten(rr))
  <2> HIDE DEF a
  <2> QED
    BY <1>3, FieldWritten
<1>5. Compressed(c) /\ Extends(b.out, c.out) /\ Len(c.out) = Len(b.out) + 1
      /\ c.out[Len(b.out) + 1] = Field(rr.ttl)
  <2> HIDE DEF b
  <2> QED
    BY <1>4, FieldWritten
<1>6. Compressed(d) /\ Extends(c.out, d.out) /\ Len(d.out) = Len(c.out) + 1
      /\ d.out[Len(c.out) + 1] = Field(0)
  <2> HIDE DEF c
  <2> QED
    BY <1>5, FieldWritten
<1>7. Compressed(data) /\ Extends(d.out, data.out)
      /\ DataAt(data.out, Len(d.out) + 1, w + 1, rr)
  <2> HIDE DEF d
  <2> QED
    BY <1>6, EncodedData
<1>8. r = [data EXCEPT !.out = out] /\ r.out = out
  BY <1>1, <1>7 DEF Compressed
<1> HIDE DEF named, a, b, c, d, data, r
<1>9. /\ m \in Nat /\ p \in Nat /\ w \in Nat /\ m < p
      /\ Len(named.out) = p - 1 /\ Len(a.out) = p /\ Len(b.out) = p + 1 /\ Len(c.out) = p + 2
      /\ Len(d.out) = p + 3 /\ start = p + 3 /\ w >= p + 3
  <2>1. m \in Nat /\ Len(named.out) \in Nat /\ Len(data.out) \in Nat
    BY <1>2, <1>7 DEF Compressed, IsSeq
  <2>2. m <= Len(named.out) /\ Len(d.out) <= Len(data.out)
    BY <1>2, <1>7 DEF Extends
  <2> QED
    BY <1>3, <1>4, <1>5, <1>6, <2>1, <2>2
<1> HIDE DEF p, start
<1>10. IsSeq(out) /\ Len(out) = w /\ out[start] = patch
       /\ \A i \in 1..w : i # start => out[i] = data.out[i]
  <2>1. IsSeq(data.out) /\ DOMAIN data.out = 1..w
    BY <1>7 DEF Compressed, IsSeq
  <2>2. start \in 1..w
    BY <1>9
  <2>3. DOMAIN out = 1..w /\ out = [i \in 1..w |-> out[i]]
        /\ out[start] = patch /\ \A i \in 1..w : i # start => out[i] = data.out[i]
    <3>1. data.out = [i \in 1..w |-> data.out[i]]
      BY <2>1 DEF IsSeq
    <3> QED
      BY <2>1, <2>2, <3>1
  <2> HIDE DEF out, w
  <2> QED
    BY <1>9, <2>3, FunctionIsSeq
<1> HIDE DEF out, w, patch
<1>11. /\ IsSeq(st.out) /\ IsSeq(named.out) /\ IsSeq(a.out) /\ IsSeq(b.out) /\ IsSeq(c.out)
       /\ IsSeq(d.out) /\ IsSeq(data.out)
  BY <1>2, <1>3, <1>4, <1>5, <1>6, <1>7 DEF Compressed
<1>12. /\ Extends(c.out, data.out) /\ Extends(b.out, data.out) /\ Extends(a.out, data.out)
       /\ Extends(named.out, data.out) /\ Extends(st.out, named.out)
  <2>1. Extends(c.out, data.out)
    BY <1>6, <1>7, <1>11, ExtendsOn
  <2>2. Extends(b.out, data.out)
    BY <1>5, <1>11, <2>1, ExtendsOn
  <2>3. Extends(a.out, data.out)
    BY <1>4, <1>11, <2>2, ExtendsOn
  <2>4. Extends(named.out, data.out)
    BY <1>3, <1>11, <2>3, ExtendsOn
  <2> QED
    BY <1>2, <2>1, <2>2, <2>3, <2>4
<1>13. Extends(named.out, out)
  <2>1. Len(named.out) = p - 1 /\ Len(named.out) <= Len(out)
    BY <1>9, <1>10
  <2>2. \A i \in 1..(p - 1) : i \in 1..w /\ i # start
    BY <1>9
  <2>3. \A i \in 1..(p - 1) : out[i] = named.out[i]
    BY <1>9, <1>10, <1>12, <2>2 DEF Extends
  <2> QED
    BY <2>1, <2>3 DEF Extends
<1>14. Extends(st.out, out)
  BY <1>10, <1>11, <1>12, <1>13, ExtendsOn
<1>15. data.out[start] = Field(0)
  <2>1. Len(c.out) + 1 = p + 3 /\ p + 3 \in 1..Len(d.out)
    BY <1>9
  <2> QED
    BY <1>6, <1>7, <1>9, <2>1 DEF Extends
<1>16. Keeps(data.out, out)
  <2>1. \A i \in 1..w : data.out[i].k # "field" => out[i] = data.out[i]
    BY <1>10, <1>15 DEF Field
  <2> QED
    BY <1>9, <1>10, <2>1 DEF Keeps, w
<1>17. Compressed(r)
  BY <1>7, <1>8, <1>10, <1>16, CompressedKept
<1>18. NameAt(out, m + 1, p, rr.name)
  <2>1. Keeps(named.out, out)
    BY <1>13, ExtendsKeeps
  <2> QED
    BY <1>2, <1>10, <1>11, <2>1, NameKept
<1>19. DataAt(out, p + 4, w + 1, rr)
  <2>1. DataAt(data.out, p + 4, w + 1, rr)
    <3>1. (p + 3) + 1 = p + 4
      BY <1>9
    <3> QED
      BY <1>7, <1>9, <3>1
  <2>2. p + 4 > 0 /\ \A i \in (p + 4)..w : out[i] = data.out[i]
    <3>1. p + 4 > 0 /\ \A i \in (p + 4)..w : i \in 1..w /\ i # start
      BY <1>9
    <3> QED
      BY <1>10, <3>1
  <2>3. \A i \in (p + 4)..Len(data.out) : out[i] = data.out[i]
    BY <2>2 DEF w
  <2>4. rr.type = "TXT" => IsSeq(rr.data)
    BY DEF Encodable
  <2> QED
    BY <1>10, <1>11, <1>16, <2>1, <2>2, <2>3, <2>4, DataKept
<1>20. out[p].v = rr.type /\ out[p + 1].v = ClassWritten(rr) /\ out[p + 2].v = rr.ttl
  <2>1. p \in 1..Len(a.out) /\ p + 1 \in 1..Len(b.out) /\ p + 2 \in 1..Len(c.out)
    BY <1>9
  <2>2. a.out[p] = Field(rr.type) /\ b.out[p + 1] = Field(ClassWritten(rr))
        /\ c.out[p + 2] = Field(rr.ttl)
    <3>1. Len(named.out) + 1 = p /\ Len(a.out) + 1 = p + 1 /\ Len(b.out) + 1 = p + 2
      BY <1>9
    <3> QED
      BY <1>3, <1>4, <1>5, <3>1
  <2>3. data.out[p] = Field(rr.type) /\ data.out[p + 1] = Field(ClassWritten(rr))
        /\ data.out[p + 2] = Field(rr.ttl)
    BY <1>12, <2>1, <2>2 DEF Extends
  <2>4. p \in 1..w /\ p + 1 \in 1..w /\ p + 2 \in 1..w
        /\ p # start /\ p + 1 # start /\ p + 2 # start
    BY <1>9
  <2> QED
    BY <1>10, <2>3, <2>4 DEF Field
<1>21. out[p + 3].v = (w + 1) - (p + 4)
  <2>1. out[p + 3] = Field(w - (p + 3))
    BY <1>9, <1>10 DEF patch, w
  <2>2. w - (p + 3) = (w + 1) - (p + 4)
    BY <1>9
  <2> QED
    BY <2>1, <2>2 DEF Field
<1>22. RecordAt(out, m + 1, w + 1, rr)
  BY <1>9, <1>18, <1>19, <1>20, <1>21 DEF RecordAt
<1> QED
  BY <1>8, <1>10, <1>14, <1>17, <1>22 DEF m, r

\* What the reader of a packet must find of a record.
SameEntry(r, rr) ==
    /\ r.name = rr.name /\ r.type = rr.type
    /\ r.ttl = rr.ttl /\ r.cache_flush = rr.cache_flush
    /\ r.type \in {"A", "PTR", "TXT"} => r.data = rr.data

LEMMA RecordRead ==
    ASSUME NEW body, IsSeq(body), NEW off, NEW next, NEW rr, Encodable(rr),
           RecordAt(body, off, next, rr)
    PROVE  /\ mdns_parse_rr(body, off).next = next /\ next \in Nat \ {0} /\ off \in Nat \ {0}
           /\ SameEntry(mdns_parse_rr(body, off).rr, rr)
<1>1. PICK p \in Nat :
        /\ NameAt(body, off, p, rr.name)
        /\ body[p].v = rr.type /\ body[p + 1].v = ClassWritten(rr) /\ body[p + 2].v = rr.ttl
        /\ body[p + 3].v = next - (p + 4)
        /\ DataAt(body, p + 4, next, rr)
  BY DEF RecordAt
<1> DEFINE n == Len(body)
           len == next - (p + 4)
<1>2. n \in Nat /\ off \in 1..n /\ p \in (off + 1)..(n + 1) /\ next \in (p + 4)..(n + 1)
  BY <1>1 DEF NameAt, DataAt, IsSeq
<1>3. off + label_len(body, off) = p /\ uncompress_nlabel(body, off) = rr.name
  BY <1>1, NameRead
<1>4. rr.type \in {"A", "NSEC", "PTR", "TXT", "SRV"}
  BY DEF Encodable
<1>5. ~(off > n) /\ ~(p + 3 + len > n) /\ len \in Nat /\ p + 4 + len = next
      /\ next \in Nat \ {0} /\ off \in Nat \ {0}
  <2> HIDE DEF n
  <2> QED
    BY <1>2
<1>6. ~(rr.type \in {"A", "AAAA"} /\ len < 1)
  <2>1. CASE rr.type = "A"
    <3>1. next = (p + 4) + 1
      BY <1>1, <2>1 DEF DataAt
    <3> QED
      BY <3>1
  <2> QED
    BY <1>4, <2>1
<1> DEFINE r == [name |-> rr.name, type |-> rr.type,
                 cache_flush |-> TopBit(ClassWritten(rr)), rr_class |-> ReadClass(ClassWritten(rr)),
                 ttl |-> rr.ttl, data |-> ParseData(body, rr.type, p + 4, len)]
<1>7. mdns_parse_rr(body, off) = [next |-> next, rr |-> r]
  <2> HIDE DEF n, len
  <2>1. body[p + 3].v = len
    BY <1>1 DEF len
  <2> QED
    BY <1>1, <1>3, <1>5, <1>6, <2>1 DEF mdns_parse_rr, n
<1>8. TopBit(ClassWritten(rr)) = rr.cache_flush
  <2>1. CASE rr.cache_flush = 0
    BY <2>1 DEF Encodable, TopBit, ClassWritten
  <2>2. CASE rr.cache_flush = 1
    BY <2>2 DEF Encodable, TopBit, ClassWritten
  <2> QED
    BY <2>1, <2>2 DEF Encodable
<1>9. ASSUME rr.type \in {"A", "PTR", "TXT"} PROVE ParseData(body, rr.type, p + 4, len) = rr.data
  <2>1. CASE rr.type = "A"
    BY <1>1, <2>1 DEF ParseData, DataAt, Encodable
  <2>2. CASE rr.type = "PTR"
    <3>1. uncompress_nlabel(body, p + 4) = rr.data
      BY <1>1, <2>2, NameRead DEF DataAt
    <3> QED
      BY <2>2, <3>1 DEF ParseData
  <2>3. CASE rr.type = "TXT"
    <3>1. IsSeq(rr.data) /\ rr.data # <<>>
      BY <2>3 DEF Encodable
    <3> DEFINE k == Len(rr.data)
    <3>2. k \in Nat /\ k # 0 /\ DOMAIN rr.data = 1..k /\ rr.data = [i \in 1..k |-> rr.data[i]]
      BY <3>1 DEF IsSeq
    <3>3. next = (p + 4) + k /\ \A i \in 1..k : body[(p + 4) + i - 1].v = rr.data[i]
      BY <1>1, <2>3 DEF DataAt
    <3> HIDE DEF k
    <3>4. len = k
      BY <3>2, <3>3
    <3> HIDE DEF len
    <3>5. ParseData(body, rr.type, p + 4, len) = [i \in 1..k |-> body[(p + 4) + i - 1].v]
      BY <2>3, <3>2, <3>4 DEF ParseData
    <3> QED
      BY <3>2, <3>3, <3>5
  <2> QED
    BY <1>9, <2>1, <2>2, <2>3
<1> HIDE DEF len
<1>10. SameEntry(r, rr)
  BY <1>8, <1>9 DEF SameEntry
<1> HIDE DEF r
<1> QED
  BY <1>5, <1>7, <1>10

-----------------------------------------------------------------------------
(* Packets                                                                 *)

\* The recursion of mdns_encode_pkt has a solution.
WrittenUpTo(records, h, n, w) ==
    w = [i \in 0..n |-> IF i = 0 THEN [out |-> <<>>, comp |-> <<>>]
                        ELSE mdns_encode_rr(w[i - 1], h[records[i]])]

LEMMA WrittenSolved ==
    ASSUME NEW records, NEW h, NEW n \in Nat
    PROVE  \E w : WrittenUpTo(records, h, n, w)
<1> DEFINE Sol == {k \in Nat : \E w : WrittenUpTo(records, h, k, w)}
           First == [out |-> <<>>, comp |-> <<>>]
<1> HIDE DEF First
<1>1. 0 \in Sol
  <2>1. WrittenUpTo(records, h, 0, [i \in 0..0 |-> First])
    BY DEF WrittenUpTo, First
  <2> QED
    BY <2>1
<1>2. ASSUME NEW k \in Nat, k \in Sol PROVE k + 1 \in Sol
  <2>1. PICK f : WrittenUpTo(records, h, k, f)
    BY <1>2
  <2> DEFINE last == mdns_encode_rr(f[k], h[records[k + 1]])
             g == [i \in 0..(k + 1) |-> IF i = k + 1 THEN last ELSE f[i]]
  <2>2. \A i \in 0..k : f[i] = IF i = 0 THEN First ELSE mdns_encode_rr(f[i - 1], h[records[i]])
    BY <2>1 DEF WrittenUpTo, First
  <2>3. g = [i \in 0..(k + 1) |-> IF i = 0 THEN First ELSE mdns_encode_rr(g[i - 1], h[records[i]])]
    BY <2>2
  <2>4. WrittenUpTo(records, h, k + 1, g)
    BY <2>3 DEF WrittenUpTo, First
  <2> QED
    BY <2>4
<1> HIDE DEF Sol
<1>3. Nat \subseteq Sol
  BY <1>1, <1>2, Induction
<1> QED
  BY <1>3 DEF Sol

\* The records are written one after the other from the beginning to the end.
WrittenAt(body, offs, n, records, h) ==
    /\ offs[0] = 1 /\ offs[n] = Len(body) + 1
    /\ \A i \in 1..n : RecordAt(body, offs[i - 1], offs[i], h[records[i]])

LEMMA EncodedPacket ==
    ASSUME NEW p, NEW h, IsSeq(p.rr_ans \o p.rr_add),
           \A i \in DOMAIN (p.rr_ans \o p.rr_add) : Encodable(h[(p.rr_ans \o p.rr_add)[i]])
    PROVE  LET pkt == mdns_encode_pkt(p, h)  records == p.rr_ans \o p.rr_add IN
           /\ pkt.num_qn = 0 /\ pkt.num_ans_rr = p.num_ans_rr /\ pkt.num_add_rr = p.num_add_rr
           /\ IsSeq(pkt.body)
           /\ \E offs : WrittenAt(pkt.body, offs, Len(records), records, h)
<1> DEFINE records == p.rr_ans \o p.rr_add
           n == Len(records)
           First == [out |-> <<>>, comp |-> <<>>]
           c == CHOOSE w : WrittenUpTo(records, h, n, w)
           pkt == mdns_encode_pkt(p, h)
<1>0. IsSeq(records) /\ \A i \in DOMAIN records : Encodable(h[records[i]])
  OBVIOUS
<1>1. n \in Nat /\ DOMAIN records = 1..n
  <2> HIDE DEF records
  <2> QED
    BY <1>0 DEF IsSeq
<1>2. \A i \in 1..n : Encodable(h[records[i]])
  BY <1>0, <1>1
<1>3. WrittenUpTo(records, h, n, c)
  <2> HIDE DEF records, n
  <2> QED
    BY <1>1, WrittenSolved
<1>4. pkt = [id |-> p.id, flags |-> p.flags, num_qn |-> 0,
             num_ans_rr |-> p.num_ans_rr, num_add_rr |-> p.num_add_rr, body |-> c[n].out]
  BY DEF mdns_encode_pkt, WrittenUpTo
<1> HIDE DEF c, records, n, First, pkt
<1>5. c[0] = First /\ \A i \in 1..n : c[i] = mdns_encode_rr(c[i - 1], h[records[i]])
  <2>1. c = [i \in 0..n |-> IF i = 0 THEN First ELSE mdns_encode_rr(c[i - 1], h[records[i]])]
    BY <1>3 DEF WrittenUpTo, First
  <2>2. 0 \in 0..n /\ \A i \in 1..n : i \in 0..n /\ i # 0
    BY <1>1
  <2> QED
    BY <2>1, <2>2
<1> DEFINE Good == {k \in Nat : k <= n => /\ Compressed(c[k])
                                         /\ \E offs : WrittenAt(c[k].out, offs, k, records, h)}
<1>6. 0 \in Good
  <2>1. Compressed(First) /\ Len(First.out) = 0
    BY DEF Compressed, First, IsSeq
  <2>2. WrittenAt(First.out, [i \in {0} |-> 1], 0, records, h)
    BY <2>1 DEF WrittenAt
  <2> QED
    BY <1>5, <2>1, <2>2
<1>7. ASSUME NEW k \in Nat, k \in Good PROVE k + 1 \in Good
  <2> SUFFICES ASSUME k + 1 <= n
               PROVE  /\ Compressed(c[k + 1])
                      /\ \E offs : WrittenAt(c[k + 1].out, offs, k + 1, records, h)
    OBVIOUS
  <2>1. k + 1 \in 1..n /\ (k + 1) - 1 = k /\ k <= n
    BY <1>1
  <2>2. Compressed(c[k]) /\ \E offs : WrittenAt(c[k].out, offs, k, records, h)
    BY <1>7, <2>1
  <2>3. PICK offs : WrittenAt(c[k].out, offs, k, records, h)
    BY <2>2
  <2>4. c[k + 1] = mdns_encode_rr(c[k], h[records[k + 1]]) /\ Encodable(h[records[k + 1]])
    BY <1>2, <1>5, <2>1
  <2> DEFINE a == c[k].out
             b == c[k + 1].out
             rr == h[records[k + 1]]
             to == [i \in 0..(k + 1) |-> IF i = k + 1 THEN Len(b) + 1 ELSE offs[i]]
  <2>5. /\ Compressed(c[k + 1]) /\ Extends(a, b)
        /\ RecordAt(b, Len(a) + 1, Len(b) + 1, rr)
    BY <2>2, <2>4, EncodedRecord
  <2>6. IsSeq(a) /\ IsSeq(b)
    BY <2>2, <2>5 DEF Compressed
  <2>7. to[k + 1] = Len(b) + 1 /\ \A i \in 0..k : to[i] = offs[i]
    <3>1. k + 1 \in 0..(k + 1) /\ \A i \in 0..k : i \in 0..(k + 1) /\ i # k + 1
      OBVIOUS
    <3> QED
      BY <3>1
  <2> HIDE DEF to, a, b, rr
  <2>8. /\ offs[0] = 1 /\ offs[k] = Len(a) + 1
        /\ \A i \in 1..k : RecordAt(a, offs[i - 1], offs[i], h[records[i]])
    BY <2>3 DEF WrittenAt, a
  <2>9. ASSUME NEW i \in 1..(k + 1) PROVE RecordAt(b, to[i - 1], to[i], h[records[i]])
    <3>1. CASE i = k + 1
      <4>1. i - 1 = k /\ k \in 0..k
        BY <3>1
      <4>2. to[i - 1] = Len(a) + 1 /\ to[i] = Len(b) + 1
        BY <2>7, <2>8, <3>1, <4>1
      <4> QED
        BY <2>5, <3>1, <4>2 DEF rr
    <3>2. CASE i \in 1..k
      <4>1. i - 1 \in 0..k /\ i \in 0..k /\ i \in 1..n
        <5>1. k \in Nat /\ i \in 1..k /\ k <= n /\ n \in Nat
          BY <1>1, <2>1, <3>2
        <5> QED
          BY <5>1
      <4>2. to[i - 1] = offs[i - 1] /\ to[i] = offs[i]
        BY <2>7, <4>1
      <4>3. RecordAt(a, offs[i - 1], offs[i], h[records[i]]) /\ Encodable(h[records[i]])
        BY <1>2, <2>8, <3>2, <4>1
      <4>4. RecordAt(b, offs[i - 1], offs[i], h[records[i]])
        BY <2>5, <2>6, <4>3, RecordKept
      <4> QED
        BY <4>2, <4>4
    <3> QED
      BY <3>1, <3>2
  <2>10. to[0] = 1
    BY <2>7, <2>8
  <2>11. WrittenAt(b, to, k + 1, records, h)
    BY <2>7, <2>9, <2>10 DEF WrittenAt
  <2> QED
    BY <2>5, <2>11 DEF b
<1> HIDE DEF Good
<1>8. n \in Good
  BY <1>1, <1>6, <1>7, Induction
<1>9. Compressed(c[n]) /\ \E offs : WrittenAt(c[n].out, offs, n, records, h)
  BY <1>1, <1>8 DEF Good
<1>10. IsSeq(pkt.body) /\ pkt.body = c[n].out
  BY <1>4, <1>9 DEF Compressed
<1>11. /\ pkt.num_qn = 0 /\ pkt.num_ans_rr = p.num_ans_rr /\ pkt.num_add_rr = p.num_add_rr
  BY <1>4
<1>12. \E offs : WrittenAt(pkt.body, offs, n, records, h)
  BY <1>9, <1>10
<1> QED
  BY <1>10, <1>11, <1>12 DEF records, n, pkt

\* n questions, or n records, read from off.
ReadQuestions(body, n, off) == ParseAll(LAMBDA o : mdns_parse_qn(body, o), n, off)
ReadRecords(body, n, off) == ParseAll(LAMBDA o : mdns_parse_rr(body, o), n, off)

\* ReadRecords is what its recursion says.
ParsedUpTo(body, n, off, a) ==
    a = [i \in 0..n |->
           IF i = 0 THEN off
           ELSE LET o == a[i - 1] IN IF o = 0 THEN 0 ELSE mdns_parse_rr(body, o).next]

LEMMA ReadRecordsIs ==
    ASSUME NEW body, NEW n, NEW off, NEW c, ParsedUpTo(body, n, off, c)
    PROVE  \E a : /\ ParsedUpTo(body, n, off, a)
                  /\ ReadRecords(body, n, off)
                        = [next |-> a[n],
                           rrs |-> IF a[n] = 0 THEN <<>>
                                   ELSE [i \in 1..n |-> mdns_parse_rr(body, a[i - 1]).rr]]
<1> DEFINE k == CHOOSE a : ParsedUpTo(body, n, off, a)
<1>1. ParsedUpTo(body, n, off, k)
  OBVIOUS
<1>2. ReadRecords(body, n, off)
         = [next |-> k[n],
            rrs |-> IF k[n] = 0 THEN <<>> ELSE [i \in 1..n |-> mdns_parse_rr(body, k[i - 1]).rr]]
  BY Zenon DEF ReadRecords, ParseAll, ParsedUpTo
<1> QED
  BY <1>1, <1>2

\* No questions are read from a packet that has none.
LEMMA NoQuestions ==
    ASSUME NEW body
    PROVE  ReadQuestions(body, 0, 1).next = 1
<1> DEFINE Sol(q) == q = [i \in 0..0 |->
                           IF i = 0 THEN 1
                           ELSE LET o == q[i - 1] IN IF o = 0 THEN 0 ELSE mdns_parse_qn(body, o).next]
           k == CHOOSE q : Sol(q)
<1>1. Sol([i \in 0..0 |-> 1])
  OBVIOUS
<1>2. Sol(k)
  <2> HIDE DEF Sol
  <2> QED
    BY <1>1
<1>3. k[0] = 1
  <2> HIDE DEF k
  <2> QED
    BY <1>2
<1>4. ReadQuestions(body, 0, 1).next = k[0]
  <2>1. ReadQuestions(body, 0, 1)
          = [next |-> k[0], rrs |-> IF k[0] = 0 THEN <<>>
                                    ELSE [i \in 1..0 |-> mdns_parse_qn(body, k[i - 1]).rr]]
    BY Zenon DEF ReadQuestions, ParseAll
  <2> HIDE DEF k
  <2> QED
    BY <2>1
<1> QED
  BY <1>3, <1>4

\* Records written one after the other are read one after the other.
LEMMA ReadAll ==
    ASSUME NEW body, IsSeq(body), NEW n \in Nat, NEW offs, offs[0] \in Nat \ {0}, NEW es, NEW h,
           \A i \in 1..n : Encodable(h[es[i]]) /\ RecordAt(body, offs[i - 1], offs[i], h[es[i]])
    PROVE  LET r == ReadRecords(body, n, offs[0]) IN
           /\ r.next = offs[n] /\ r.next # 0
           /\ Len(r.rrs) = n /\ \A i \in 1..n : SameEntry(r.rrs[i], h[es[i]])
<1>1. \A i \in 1..n : /\ mdns_parse_rr(body, offs[i - 1]).next = offs[i]
                      /\ offs[i] # 0 /\ offs[i - 1] # 0
                      /\ SameEntry(mdns_parse_rr(body, offs[i - 1]).rr, h[es[i]])
  BY RecordRead
<1>2. ParsedUpTo(body, n, offs[0], [i \in 0..n |-> offs[i]])
  <2> DEFINE c == [i \in 0..n |-> offs[i]]
  <2>1. \A i \in 0..n : c[i] = offs[i]
    OBVIOUS
  <2> HIDE DEF c
  <2>2. ASSUME NEW i \in 0..n
        PROVE  offs[i] = IF i = 0 THEN offs[0]
                         ELSE LET o == c[i - 1] IN IF o = 0 THEN 0 ELSE mdns_parse_rr(body, o).next
    <3>1. CASE i = 0
      BY <3>1
    <3>2. CASE i # 0
      <4>1. i \in 1..n /\ i - 1 \in 0..n
        BY <3>2
      <4>2. c[i - 1] = offs[i - 1]
        BY <2>1, <4>1
      <4> QED
        BY <1>1, <3>2, <4>1, <4>2
    <3> QED
      BY <3>1, <3>2
  <2> QED
    BY <2>2 DEF ParsedUpTo, c
<1> DEFINE r == ReadRecords(body, n, offs[0])
<1>3. PICK a : /\ ParsedUpTo(body, n, offs[0], a)
               /\ r = [next |-> a[n],
                       rrs |-> IF a[n] = 0 THEN <<>>
                               ELSE [i \in 1..n |-> mdns_parse_rr(body, a[i - 1]).rr]]
  BY <1>2, ReadRecordsIs
<1> HIDE DEF r
<1>4. /\ a[0] = offs[0]
      /\ \A i \in 1..n : a[i] = IF a[i - 1] = 0 THEN 0 ELSE mdns_parse_rr(body, a[i - 1]).next
  <2>1. a = [i \in 0..n |-> IF i = 0 THEN offs[0]
                            ELSE IF a[i - 1] = 0 THEN 0 ELSE mdns_parse_rr(body, a[i - 1]).next]
    BY <1>3 DEF ParsedUpTo
  <2>2. 0 \in 0..n /\ \A i \in 1..n : i \in 0..n /\ i # 0
    OBVIOUS
  <2> QED
    BY <2>1, <2>2
<1> DEFINE Good == {k \in Nat : k <= n => a[k] = offs[k]}
<1>5. 0 \in Good
  BY <1>4
<1>6. ASSUME NEW k \in Nat, k \in Good PROVE k + 1 \in Good
  <2> SUFFICES ASSUME k + 1 <= n PROVE a[k + 1] = offs[k + 1]
    OBVIOUS
  <2>1. k + 1 \in 1..n /\ (k + 1) - 1 = k /\ a[k] = offs[k]
    BY <1>6
  <2> QED
    BY <1>1, <1>4, <2>1
<1> HIDE DEF Good
<1>7. Nat \subseteq Good
  BY <1>5, <1>6, Induction
<1>8. \A k \in 0..n : a[k] = offs[k]
  BY <1>7 DEF Good
<1>9. a[n] = offs[n] /\ offs[n] # 0
  <2>1. n \in 0..n /\ (n = 0 \/ n \in 1..n)
    OBVIOUS
  <2> QED
    BY <1>1, <1>8, <2>1
<1> DEFINE rrs == [i \in 1..n |-> mdns_parse_rr(body, a[i - 1]).rr]
<1>10. r.next = offs[n] /\ r.rrs = rrs
  BY <1>3, <1>9
<1>11. Len(rrs) = n
  <2>1. DOMAIN rrs = 1..n /\ rrs = [i \in 1..n |-> rrs[i]]
    OBVIOUS
  <2> HIDE DEF rrs
  <2> QED
    BY <2>1, FunctionIsSeq
<1>12. ASSUME NEW i \in 1..n PROVE SameEntry(rrs[i], h[es[i]])
  <2>1. i - 1 \in 0..n
    OBVIOUS
  <2>2. rrs[i] = mdns_parse_rr(body, offs[i - 1]).rr
    BY <1>8, <2>1
  <2> QED
    BY <1>1, <2>2
<1> HIDE DEF rrs
<1> QED
  BY <1>9, <1>10, <1>11, <1>12 DEF r

\* The round trip: whatever names, suffixes in common and records of any number a
\* reply has, mdns_parse_pkt reads the answers back from what mdns_encode_pkt writes,
\* and its reader of records the additional ones after them, to the last cell.
THEOREM PacketRead ==
    ASSUME NEW p, NEW h, IsSeq(p.rr_ans), IsSeq(p.rr_add),
           p.num_ans_rr = Len(p.rr_ans), p.num_add_rr = Len(p.rr_add),
           \A e \in ToSet(p.rr_ans) \cup ToSet(p.rr_add) : Encodable(h[e])
    PROVE  LET pkt == mdns_encode_pkt(p, h)
               read == mdns_parse_pkt(pkt)
               rest == ReadRecords(pkt.body, pkt.num_add_rr, read.next)
           IN  /\ read.ok /\ Len(read.rr_ans) = Len(p.rr_ans)
               /\ \A i \in DOMAIN p.rr_ans : SameEntry(read.rr_ans[i], h[p.rr_ans[i]])
               /\ rest.next = Len(pkt.body) + 1 /\ Len(rest.rrs) = Len(p.rr_add)
               /\ \A i \in DOMAIN p.rr_add : SameEntry(rest.rrs[i], h[p.rr_add[i]])
<1> DEFINE pkt == mdns_encode_pkt(p, h)
           body == pkt.body
           read == mdns_parse_pkt(pkt)
           rest == ReadRecords(pkt.body, pkt.num_add_rr, read.next)
           ans == p.rr_ans
           add == p.rr_add
           records == ans \o add
           n == Len(ans)
           k == Len(add)
<1>1. /\ IsSeq(records) /\ n \in Nat /\ k \in Nat
      /\ Len(records) = n + k /\ DOMAIN records = 1..(n + k)
      /\ DOMAIN ans = 1..n /\ DOMAIN add = 1..k
      /\ \A i \in 1..n : records[i] = ans[i]
      /\ \A i \in 1..k : records[n + i] = add[i]
  <2>1. IsSeq(ans) /\ IsSeq(add)
    OBVIOUS
  <2> HIDE DEF ans, add
  <2> QED
    BY <2>1, Cat
<1>2. /\ \A i \in 1..n : Encodable(h[ans[i]])
      /\ \A i \in 1..k : Encodable(h[add[i]])
  BY <1>1, ToSetIs
<1> HIDE DEF records, n, k
<1>3. \A i \in DOMAIN records : Encodable(h[records[i]])
  <2> TAKE i \in DOMAIN records
  <2>1. CASE i \in 1..n
    BY <1>1, <1>2, <2>1
  <2>2. CASE i \notin 1..n
    <3> DEFINE j == i - n
    <3>1. j \in 1..k /\ i = n + j
      BY <1>1, <2>2
    <3> HIDE DEF j
    <3> QED
      BY <1>1, <1>2, <3>1
  <2> QED
    BY <2>1, <2>2
<1>4. /\ pkt.num_qn = 0 /\ pkt.num_ans_rr = n /\ pkt.num_add_rr = k
      /\ IsSeq(body) /\ \E offs : WrittenAt(body, offs, n + k, records, h)
  BY <1>1, <1>3, EncodedPacket DEF records, n, k
<1> HIDE DEF pkt
<1>5. PICK offs : WrittenAt(body, offs, n + k, records, h)
  BY <1>4
<1>6. /\ offs[0] = 1 /\ offs[n + k] = Len(body) + 1
      /\ \A i \in 1..(n + k) : RecordAt(body, offs[i - 1], offs[i], h[records[i]])
  BY <1>5 DEF WrittenAt
<1>7. \A i \in 1..n : Encodable(h[ans[i]]) /\ RecordAt(body, offs[i - 1], offs[i], h[ans[i]])
  <2>1. \A i \in 1..n : i \in 1..(n + k)
    BY <1>1
  <2> QED
    BY <1>1, <1>2, <1>6, <2>1
<1> DEFINE first == ReadRecords(body, n, offs[0])
<1>8. /\ first.next = offs[n] /\ first.next # 0 /\ Len(first.rrs) = n
      /\ \A i \in 1..n : SameEntry(first.rrs[i], h[ans[i]])
  <2>1. offs[0] \in Nat \ {0} /\ n \in Nat /\ IsSeq(body)
    BY <1>1, <1>4, <1>6
  <2> HIDE DEF body, ans, first
  <2>2. LET r == ReadRecords(body, n, offs[0]) IN
        /\ r.next = offs[n] /\ r.next # 0
        /\ Len(r.rrs) = n /\ \A i \in 1..n : SameEntry(r.rrs[i], h[ans[i]])
    BY <1>7, <2>1, ReadAll, Zenon
  <2> QED
    BY <2>2 DEF first
<1>9. read.ok /\ read.rr_ans = first.rrs /\ read.next = first.next
  <2> DEFINE qn == ReadQuestions(pkt.body, pkt.num_qn, 1)
             an == ReadRecords(pkt.body, pkt.num_ans_rr, qn.next)
  <2>1. qn.next = 1
    BY <1>4, NoQuestions
  <2>2. read = [ok |-> qn.next # 0 /\ an.next # 0, id |-> pkt.id, flags |-> pkt.flags,
                rr_qn |-> qn.rrs, rr_ans |-> an.rrs, next |-> an.next]
    BY Zenon DEF mdns_parse_pkt, ReadQuestions, ReadRecords
  <2>3. an = first
    BY <1>4, <1>6, <2>1
  <2> HIDE DEF first, an, qn, read
  <2>4. read.rr_ans = an.rrs /\ read.next = an.next
    BY <2>2
  <2>5. read.ok <=> (qn.next # 0 /\ an.next # 0)
    BY <2>2, Zenon
  <2> QED
    BY <1>8, <2>1, <2>3, <2>4, <2>5
<1> HIDE DEF first, read
<1> DEFINE offs2 == [i \in 0..k |-> offs[n + i]]
<1>10. \A i \in 0..k : offs2[i] = offs[n + i]
  OBVIOUS
<1> HIDE DEF offs2
<1>11. offs2[0] = read.next /\ offs2[k] = Len(body) + 1 /\ offs2[0] \in Nat \ {0}
  <2>1. n + 0 = n /\ 0 \in 0..k /\ k \in 0..k
    BY <1>1
  <2>2. offs2[0] = offs[n] /\ offs2[k] = Len(body) + 1
    BY <1>6, <1>10, <2>1
  <2>3. offs[n] \in Nat \ {0}
    <3>1. CASE n = 0
      BY <1>6, <3>1
    <3>2. CASE n # 0
      <4>1. n \in 1..n
        BY <1>1, <3>2
      <4> QED
        BY <1>4, <1>7, <4>1, RecordRead
    <3> QED
      BY <3>1, <3>2
  <2> QED
    BY <1>8, <1>9, <2>2, <2>3
<1>12. \A i \in 1..k : Encodable(h[add[i]]) /\ RecordAt(body, offs2[i - 1], offs2[i], h[add[i]])
  <2> TAKE i \in 1..k
  <2>1. n + i \in 1..(n + k) /\ (n + i) - 1 = n + (i - 1) /\ i - 1 \in 0..k /\ i \in 0..k
    <3>1. n \in Nat /\ k \in Nat
      BY <1>1
    <3> HIDE DEF n, k
    <3> QED
      BY <3>1
  <2>2. RecordAt(body, offs[(n + i) - 1], offs[n + i], h[records[n + i]])
    BY <1>6, <2>1
  <2> QED
    BY <1>1, <1>2, <1>10, <2>1, <2>2
<1> DEFINE second == ReadRecords(body, k, offs2[0])
<1>13. /\ second.next = offs2[k] /\ Len(second.rrs) = k
       /\ \A i \in 1..k : SameEntry(second.rrs[i], h[add[i]])
  <2> HIDE DEF body, add, second
  <2>1. LET r == ReadRecords(body, k, offs2[0]) IN
        /\ r.next = offs2[k] /\ r.next # 0
        /\ Len(r.rrs) = k /\ \A i \in 1..k : SameEntry(r.rrs[i], h[add[i]])
    <3>1. IsSeq(body) /\ k \in Nat
      BY <1>1, <1>4
    <3> QED
      BY <1>11, <1>12, <3>1, ReadAll, Zenon
  <2> QED
    BY <2>1 DEF second
<1>14. rest = second
  BY <1>4, <1>11
<1> HIDE DEF second, rest
<1>15. /\ read.ok /\ Len(read.rr_ans) = Len(p.rr_ans)
       /\ \A i \in DOMAIN p.rr_ans : SameEntry(read.rr_ans[i], h[p.rr_ans[i]])
  BY <1>1, <1>8, <1>9 DEF n
<1>16. /\ rest.next = Len(pkt.body) + 1 /\ Len(rest.rrs) = Len(p.rr_add)
       /\ \A i \in DOMAIN p.rr_add : SameEntry(rest.rrs[i], h[p.rr_add[i]])
  BY <1>1, <1>11, <1>13, <1>14 DEF k
<1> QED
  BY <1>15, <1>16 DEF pkt, read, rest
=============================================================================
