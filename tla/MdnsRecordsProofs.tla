------------------------- MODULE MdnsRecordsProofs -------------------------
(***************************************************************************)
(* What the operators of MdnsRecords do, for any lists and memory.  What   *)
(* is computed by a recursion over a list is proved by induction over its  *)
(* length, as an induction over a set of natural numbers.                  *)
(***************************************************************************)
EXTENDS MdnsRecords, FiniteSetTheorems, SequenceTheorems, WellFoundedInduction, TLAPS

-----------------------------------------------------------------------------
(* Induction                                                               *)

\* Induction over the natural numbers, for a set.
LEMMA Induction ==
    ASSUME NEW S, 0 \in S, \A n \in Nat : n \in S => n + 1 \in S
    PROVE  Nat \subseteq S
<1> SUFFICES ASSUME NEW m \in Nat \ S PROVE FALSE
  OBVIOUS
<1> DEFINE T == Nat \ S
<1>1. IsWellFoundedOn(OpToRel(<, Nat), Nat)
  BY NatLessThanWellFounded
<1>2. PICK x \in T : \A y \in T : ~(<<y, x>> \in OpToRel(<, Nat))
  BY <1>1, WFMin
<1>3. x # 0
  OBVIOUS
<1>4. x - 1 \in T /\ <<x - 1, x>> \in OpToRel(<, Nat)
  BY <1>3 DEF OpToRel
<1> QED
  BY <1>2, <1>4

\* The recursion of Kept has a solution.
KeptUpTo(list, S, n, kept) ==
    kept = [i \in 0..n |->
              IF i = 0 THEN <<>>
              ELSE IF list[i] \in S THEN Append(kept[i - 1], list[i]) ELSE kept[i - 1]]

LEMMA KeptSolved ==
    ASSUME NEW list, NEW S, NEW n \in Nat
    PROVE  \E kept : KeptUpTo(list, S, n, kept)
<1> DEFINE Sol == {k \in Nat : \E kept : KeptUpTo(list, S, k, kept)}
<1>1. 0 \in Sol
  <2>1. KeptUpTo(list, S, 0, [i \in 0..0 |-> <<>>])
    BY DEF KeptUpTo
  <2> QED
    BY <2>1
<1>2. ASSUME NEW k \in Nat, k \in Sol PROVE k + 1 \in Sol
  <2>1. PICK f : KeptUpTo(list, S, k, f)
    BY <1>2
  <2> DEFINE last == IF list[k + 1] \in S THEN Append(f[k], list[k + 1]) ELSE f[k]
  <2> DEFINE h == [i \in 0..(k + 1) |-> IF i = k + 1 THEN last ELSE f[i]]
  <2>2. \A i \in 0..k : f[i] = IF i = 0 THEN <<>>
              ELSE IF list[i] \in S THEN Append(f[i - 1], list[i]) ELSE f[i - 1]
    BY <2>1 DEF KeptUpTo
  <2>3. h = [i \in 0..(k + 1) |-> IF i = 0 THEN <<>>
              ELSE IF list[i] \in S THEN Append(h[i - 1], list[i]) ELSE h[i - 1]]
    BY <2>2
  <2>4. KeptUpTo(list, S, k + 1, h)
    BY <2>3 DEF KeptUpTo
  <2> QED
    BY <2>4
<1> HIDE DEF Sol
<1>3. Nat \subseteq Sol
  BY <1>1, <1>2, Induction
<1> QED
  BY <1>3 DEF Sol

\* Kept is what its recursion says.
LEMMA KeptSpec ==
    ASSUME NEW list, NEW S, Len(list) \in Nat
    PROVE  \E kept : KeptUpTo(list, S, Len(list), kept) /\ Kept(list, S) = kept[Len(list)]
<1> DEFINE k == CHOOSE kept : KeptUpTo(list, S, Len(list), kept)
<1>1. KeptUpTo(list, S, Len(list), k)
  BY KeptSolved
<1>2. Kept(list, S) = k[Len(list)]
  BY DEF Kept, KeptUpTo
<1> QED
  BY <1>1, <1>2

-----------------------------------------------------------------------------
(* Sequences                                                               *)

IsSeq(s) == s \in Seq(ToSet(s))

\* The elements of a list, and of a sequence of some set.
LEMMA ToSetIs ==
    ASSUME NEW s
    PROVE  /\ \A x : x \in ToSet(s) <=> \E i \in DOMAIN s : s[i] = x
           /\ \A i \in DOMAIN s : s[i] \in ToSet(s)
BY DEF ToSet

LEMMA SeqIsSeq ==
    ASSUME NEW A, NEW s \in Seq(A)
    PROVE  IsSeq(s) /\ ToSet(s) \subseteq A /\ Len(s) \in Nat /\ DOMAIN s = 1..Len(s)
BY DEF IsSeq, ToSet

LEMMA IsSeqSeq ==
    ASSUME NEW A, NEW s, IsSeq(s), ToSet(s) \subseteq A
    PROVE  s \in Seq(A)
BY DEF IsSeq

\* A longer list of records is a list of records of the longer memory.
LEMMA ListGrows ==
    ASSUME NEW A, NEW B, A \subseteq B, NEW s \in Seq(A)
    PROVE  s \in Seq(B)
BY SeqIsSeq, IsSeqSeq

\* A function on 1..n is the sequence of its values.
LEMMA FunctionIsSeq ==
    ASSUME NEW n \in Nat, NEW s, DOMAIN s = 1..n, s = [i \in 1..n |-> s[i]]
    PROVE  IsSeq(s) /\ Len(s) = n
<1>1. s \in [1..n -> ToSet(s)]
  BY DEF ToSet
<1>2. s \in Seq(ToSet(s)) /\ Len(s) = n
  BY <1>1
<1> QED
  BY <1>2 DEF IsSeq

\* A function on 1..n is a sequence.
LEMMA FunctionInSeq ==
    ASSUME NEW n \in Nat, NEW S, NEW f \in [1..n -> S]
    PROVE  f \in Seq(S) /\ Len(f) = n
OBVIOUS

\* Two elements make a list, and so do none.
LEMMA Pair == \A a, b : IsSeq(<<a, b>>) /\ IsSeq(<<>>) /\ ToSet(<<>>) = {}
<1>1. \A a, b : IsSeq(<<a, b>>)
  <2> TAKE a, b
  <2> DEFINE s == <<a, b>>
  <2>1. DOMAIN s = 1..2 /\ s = [i \in 1..2 |-> s[i]]
    OBVIOUS
  <2> HIDE DEF s
  <2>2. IsSeq(s)
    BY <2>1, FunctionIsSeq
  <2> QED
    BY <2>2 DEF s
<1>2. IsSeq(<<>>) /\ ToSet(<<>>) = {}
  BY DEF IsSeq, ToSet
<1> QED
  BY <1>1, <1>2

\* The first element of a list and the others.
LEMMA HeadTail ==
    ASSUME NEW s, IsSeq(s), s # <<>>
    PROVE  /\ IsSeq(Tail(s)) /\ Head(s) \in ToSet(s) /\ ToSet(Tail(s)) \subseteq ToSet(s)
           /\ \A x \in ToSet(s) : x = Head(s) \/ x \in ToSet(Tail(s))
<1>1. s \in Seq(ToSet(s))
  BY DEF IsSeq
<1> DEFINE t == Tail(s)
<1>2. /\ t \in Seq(ToSet(s)) /\ Len(s) \in Nat /\ DOMAIN s = 1..Len(s) /\ Len(s) # 0
      /\ DOMAIN t = 1..(Len(s) - 1) /\ \A i \in 1..(Len(s) - 1) : t[i] = s[i + 1]
      /\ Head(s) = s[1]
  BY <1>1
<1> HIDE DEF t
<1>3. IsSeq(t) /\ ToSet(t) \subseteq ToSet(s)
  BY <1>2, SeqIsSeq
<1>4. Head(s) \in ToSet(s)
  BY <1>2, ToSetIs
<1>5. ASSUME NEW x \in ToSet(s), x # Head(s) PROVE x \in ToSet(t)
  <2>1. PICK i \in DOMAIN s : s[i] = x
    BY ToSetIs
  <2>2. i - 1 \in DOMAIN t /\ t[i - 1] = x
    <3> DEFINE j == i - 1
    <3>1. j \in 1..(Len(s) - 1) /\ j + 1 = i
      BY <1>2, <1>5, <2>1
    <3> HIDE DEF j
    <3> QED
      BY <1>2, <2>1, <3>1 DEF j
  <2> QED
    BY <2>2, ToSetIs
<1> QED
  BY <1>3, <1>4, <1>5 DEF t

\* What appending adds to the elements.
LEMMA AppendElems ==
    ASSUME NEW A, NEW s \in Seq(A), NEW e \in A
    PROVE  /\ Append(s, e) \in Seq(A)
           /\ ToSet(Append(s, e)) = ToSet(s) \cup {e}
           /\ IsInjective(s) /\ e \notin ToSet(s) => IsInjective(Append(s, e))
<1> DEFINE a == Append(s, e)
<1>1. /\ a \in Seq(A) /\ DOMAIN a = 1..(Len(s) + 1) /\ Len(s) \in Nat /\ DOMAIN s = 1..Len(s)
      /\ a[Len(s) + 1] = e /\ \A i \in 1..Len(s) : a[i] = s[i]
  OBVIOUS
<1> HIDE DEF a
<1>2. ASSUME NEW x \in ToSet(a) PROVE x \in ToSet(s) \cup {e}
  <2>1. PICK i \in DOMAIN a : a[i] = x
    BY <1>2, ToSetIs
  <2> QED
    BY <1>1, <2>1, ToSetIs
<1>3. ASSUME NEW x \in ToSet(s) \cup {e} PROVE x \in ToSet(a)
  <2>1. CASE x = e
    BY <1>1, <2>1, ToSetIs
  <2>2. CASE x \in ToSet(s)
    <3>1. PICK i \in DOMAIN s : s[i] = x
      BY <2>2, ToSetIs
    <3>2. i \in DOMAIN a /\ a[i] = x
      BY <1>1, <3>1
    <3> QED
      BY <3>2, ToSetIs
  <2> QED
    BY <1>3, <2>1, <2>2
<1>4. ASSUME IsInjective(s), e \notin ToSet(s) PROVE IsInjective(a)
  <2>1. \A i \in 1..Len(s) : s[i] # e
    BY <1>1, <1>4, ToSetIs
  <2> QED
    BY <1>1, <1>4, <2>1 DEF IsInjective
<1> QED
  BY <1>1, <1>2, <1>3, <1>4 DEF a

\* What concatenating does to the elements.
LEMMA ConcatElems ==
    ASSUME NEW A, NEW s \in Seq(A), NEW t \in Seq(A)
    PROVE  /\ s \o t \in Seq(A)
           /\ ToSet(s \o t) = ToSet(s) \cup ToSet(t)
           /\ IsInjective(s) /\ IsInjective(t) /\ ToSet(s) \cap ToSet(t) = {}
                => IsInjective(s \o t)
<1> DEFINE a == s \o t
<1>1. /\ a \in Seq(A) /\ DOMAIN a = 1..(Len(s) + Len(t))
      /\ Len(s) \in Nat /\ DOMAIN s = 1..Len(s) /\ Len(t) \in Nat /\ DOMAIN t = 1..Len(t)
      /\ \A i \in 1..Len(s) : a[i] = s[i]
      /\ \A i \in 1..Len(t) : a[Len(s) + i] = t[i]
  OBVIOUS
<1> HIDE DEF a
<1>2. \A i \in DOMAIN a : i \in DOMAIN s \/ (i - Len(s) \in DOMAIN t /\ a[i] = t[i - Len(s)])
  BY <1>1
<1>3. ASSUME NEW x \in ToSet(a) PROVE x \in ToSet(s) \cup ToSet(t)
  <2>1. PICK i \in DOMAIN a : a[i] = x
    BY <1>3, ToSetIs
  <2> QED
    BY <1>1, <1>2, <2>1, ToSetIs
<1>4. ASSUME NEW x \in ToSet(s) PROVE x \in ToSet(a)
  <2>1. PICK i \in DOMAIN s : s[i] = x
    BY <1>4, ToSetIs
  <2>2. i \in DOMAIN a /\ a[i] = x
    BY <1>1, <2>1
  <2> QED
    BY <2>2, ToSetIs
<1>5. ASSUME NEW x \in ToSet(t) PROVE x \in ToSet(a)
  <2>1. PICK i \in DOMAIN t : t[i] = x
    BY <1>5, ToSetIs
  <2>2. Len(s) + i \in DOMAIN a /\ a[Len(s) + i] = x
    BY <1>1, <2>1
  <2> QED
    BY <2>2, ToSetIs
<1>6. ASSUME IsInjective(s), IsInjective(t), ToSet(s) \cap ToSet(t) = {}
      PROVE  IsInjective(a)
  <2>1. \A i \in DOMAIN s : \A j \in DOMAIN t : s[i] # t[j]
    BY <1>6, ToSetIs
  <2> SUFFICES ASSUME NEW i \in DOMAIN a, NEW j \in DOMAIN a, a[i] = a[j] PROVE i = j
    BY DEF IsInjective
  <2>2. CASE i \in DOMAIN s /\ j \in DOMAIN s
    BY <1>1, <1>6, <2>2 DEF IsInjective
  <2>3. CASE i \notin DOMAIN s /\ j \notin DOMAIN s
    <3>1. i - Len(s) = j - Len(s)
      BY <1>2, <1>6, <2>3 DEF IsInjective
    <3> QED
      BY <1>1, <3>1
  <2>4. CASE ~(i \in DOMAIN s <=> j \in DOMAIN s)
    BY <1>1, <1>2, <2>1, <2>4
  <2> QED
    BY <2>2, <2>3, <2>4
<1> QED
  BY <1>1, <1>3, <1>4, <1>5, <1>6 DEF a

\* Kept keeps the elements in the set, and no duplicates.
LEMMA KeptElems ==
    ASSUME NEW A, NEW list \in Seq(A), NEW S
    PROVE  /\ Kept(list, S) \in Seq(A)
           /\ ToSet(Kept(list, S)) = ToSet(list) \cap S
           /\ IsInjective(list) => IsInjective(Kept(list, S))
<1>1. Len(list) \in Nat /\ DOMAIN list = 1..Len(list) /\ \A i \in 1..Len(list) : list[i] \in A
  OBVIOUS
<1>2. PICK k : KeptUpTo(list, S, Len(list), k) /\ Kept(list, S) = k[Len(list)]
  BY <1>1, KeptSpec
<1>3. /\ k[0] = <<>>
      /\ \A i \in 1..Len(list) :
            k[i] = IF list[i] \in S THEN Append(k[i - 1], list[i]) ELSE k[i - 1]
  <2>1. k = [i \in 0..Len(list) |->
              IF i = 0 THEN <<>>
              ELSE IF list[i] \in S THEN Append(k[i - 1], list[i]) ELSE k[i - 1]]
    BY <1>2 DEF KeptUpTo
  <2>2. 0 \in 0..Len(list) /\ \A i \in 1..Len(list) : i \in 0..Len(list) /\ i # 0
    BY <1>1
  <2> HIDE <1>2
  <2> QED
    BY <2>1, <2>2
<1> DEFINE Right(n) ==
        /\ k[n] \in Seq(A)
        /\ \A x : x \in ToSet(k[n]) <=> x \in S /\ \E i \in 1..n : list[i] = x
        /\ IsInjective(list) => IsInjective(k[n])
<1> DEFINE Good == {n \in Nat : n <= Len(list) => Right(n)}
<1>4. 0 \in Good
  <2>1. k[0] \in Seq(A) /\ ToSet(k[0]) = {} /\ IsInjective(k[0])
    BY <1>3 DEF ToSet, IsInjective
  <2> QED
    BY <2>1
<1>5. ASSUME NEW n \in Nat, n \in Good PROVE n + 1 \in Good
  <2> SUFFICES ASSUME n + 1 <= Len(list) PROVE Right(n + 1)
    OBVIOUS
  <2>1. Right(n) /\ n + 1 \in 1..Len(list)
    BY <1>1, <1>5
  <2>2. k[n + 1] = IF list[n + 1] \in S THEN Append(k[n], list[n + 1]) ELSE k[n]
    BY <1>3, <2>1
  <2>3. \A i \in 1..(n + 1) : i \in 1..n \/ i = n + 1
    OBVIOUS
  <2>4. CASE list[n + 1] \notin S
    <3>1. \A x : x \in S /\ (\E i \in 1..(n + 1) : list[i] = x) => \E i \in 1..n : list[i] = x
      BY <2>3, <2>4
    <3>2. \A x : (\E i \in 1..n : list[i] = x) => \E i \in 1..(n + 1) : list[i] = x
      OBVIOUS
    <3> QED
      BY <2>1, <2>2, <2>4, <3>1, <3>2
  <2>5. CASE list[n + 1] \in S
    <3> DEFINE e == list[n + 1]
    <3>1. e \in A /\ k[n] \in Seq(A) /\ k[n + 1] = Append(k[n], e)
      BY <1>1, <2>1, <2>2, <2>5
    <3>2. /\ k[n + 1] \in Seq(A) /\ ToSet(k[n + 1]) = ToSet(k[n]) \cup {e}
          /\ IsInjective(k[n]) /\ e \notin ToSet(k[n]) => IsInjective(k[n + 1])
      BY <3>1, AppendElems
    <3>3. ASSUME NEW x
          PROVE  x \in ToSet(k[n + 1]) <=> x \in S /\ \E i \in 1..(n + 1) : list[i] = x
      <4>1. CASE x = e
        BY <2>5, <3>2, <4>1
      <4>2. CASE x # e
        BY <2>1, <2>3, <3>2, <4>2
      <4> QED
        BY <4>1, <4>2
    <3>4. ASSUME IsInjective(list) PROVE e \notin ToSet(k[n])
      <4> SUFFICES ASSUME e \in ToSet(k[n]) PROVE FALSE
        OBVIOUS
      <4>1. PICK i \in 1..n : list[i] = e
        BY <2>1
      <4>2. i \in DOMAIN list /\ n + 1 \in DOMAIN list /\ i # n + 1
        BY <1>1, <2>1
      <4> QED
        BY <3>4, <4>1, <4>2 DEF IsInjective
    <3> QED
      BY <2>1, <3>2, <3>3, <3>4
  <2> QED
    BY <2>4, <2>5
<1> HIDE DEF Good
<1>6. Nat \subseteq Good
  BY <1>4, <1>5, Induction
<1>7. Right(Len(list))
  <2>1. Len(list) \in Good /\ Len(list) <= Len(list)
    BY <1>1, <1>6
  <2> QED
    BY <2>1 DEF Good
<1>8. \A x : x \in ToSet(list) <=> \E i \in 1..Len(list) : list[i] = x
  BY <1>1, ToSetIs
<1> QED
  BY <1>2, <1>7, <1>8

\* Min is the least element.
LEMMA Least ==
    ASSUME NEW I \in SUBSET Nat, I # {}
    PROVE  Min(I) \in I /\ \A i \in I : Min(I) <= i
<1>1. IsWellFoundedOn(OpToRel(<, Nat), Nat)
  BY NatLessThanWellFounded
<1>2. PICK x \in I : \A y \in I : ~(<<y, x>> \in OpToRel(<, Nat))
  BY <1>1, WFMin
<1>3. ASSUME NEW y \in I PROVE x <= y
  <2>1. ~(y < x)
    BY <1>2 DEF OpToRel
  <2> QED
    BY <2>1
<1> QED
  BY <1>3 DEF Min

\* A list of different records is not longer than the memory.
LEMMA ShortList ==
    ASSUME NEW n \in Nat, NEW s \in Seq(1..n), IsInjective(s)
    PROVE  Len(s) <= n
<1>1. Len(s) \in Nat /\ s \in [1..Len(s) -> 1..n]
  OBVIOUS
<1>2. s \in Injection(1..Len(s), 1..n)
  BY <1>1 DEF Injection
<1>3. /\ IsFiniteSet(1..n) /\ Cardinality(1..n) = n
      /\ Cardinality(1..Len(s)) = Len(s)
  <2>1. /\ IsFiniteSet(1..n) /\ Cardinality(1..n) = IF 1 > n THEN 0 ELSE n - 1 + 1
    BY FS_Interval
  <2>2. Cardinality(1..Len(s)) = IF 1 > Len(s) THEN 0 ELSE Len(s) - 1 + 1
    <3>1. 1 \in Int /\ Len(s) \in Int
      BY <1>1
    <3> QED
      BY <3>1, FS_Interval
  <2> QED
    BY <1>1, <2>1, <2>2
<1>4. Cardinality(1..Len(s)) <= Cardinality(1..n)
  BY <1>2, <1>3, FS_Injection
<1> QED
  BY <1>3, <1>4

-----------------------------------------------------------------------------
(* Lists and groups                                                        *)

\* rr_group_find finds the group with the name, if there is one.
LEMMA FindElems ==
    ASSUME NEW A, NEW g \in Seq(A), NEW name
    PROVE  LET i == rr_group_find(g, name) IN
           \/ i = 0 /\ \A k \in DOMAIN g : g[k].name # name
           \/ i \in DOMAIN g /\ g[i].name = name
<1> DEFINE I == {i \in 1..Len(g) : g[i].name = name}
<1>1. I \in SUBSET Nat /\ DOMAIN g = 1..Len(g)
  OBVIOUS
<1>2. rr_group_find(g, name) = IF I # {} THEN Min(I) ELSE 0
  BY DEF rr_group_find, SelectInSeq
<1>3. I # {} => Min(I) \in I
  BY <1>1, Least
<1> QED
  BY <1>1, <1>2, <1>3

\* rr_list_append adds the record, once.
LEMMA ListAppend ==
    ASSUME NEW A, NEW s \in Seq(A), NEW e \in A
    PROVE  /\ rr_list_append(s, e) \in Seq(A)
           /\ ToSet(rr_list_append(s, e)) = ToSet(s) \cup {e}
           /\ IsInjective(s) => IsInjective(rr_list_append(s, e))
<1>1. Contains(s, e) <=> e \in ToSet(s)
  BY ToSetIs DEF Contains
<1>2. CASE Contains(s, e)
  BY <1>1, <1>2 DEF rr_list_append
<1>3. CASE ~Contains(s, e)
  BY <1>1, <1>3, AppendElems DEF rr_list_append
<1> QED
  BY <1>2, <1>3

\* rr_list_remove leaves a list of the same records.
LEMMA ListRemove ==
    ASSUME NEW A, NEW s \in Seq(A), NEW e
    PROVE  rr_list_remove(s, e) \in Seq(A)
<1> DEFINE I == {i \in 1..Len(s) : s[i] = e}
<1>1. CASE I = {}
  BY <1>1 DEF rr_list_remove, RemoveFirst
<1>2. CASE I # {}
  <2>1. rr_list_remove(s, e) = RemoveAt(s, Min(I))
    BY <1>2 DEF rr_list_remove, RemoveFirst, SelectInSeq
  <2>2. Min(I) \in 1..Len(s) /\ Len(s) \in Nat
    <3>1. I \in SUBSET Nat
      OBVIOUS
    <3>2. Min(I) \in I
      BY <1>2, <3>1, Least
    <3> QED
      BY <3>2
  <2>3. ASSUME NEW m \in 1..Len(s) PROVE RemoveAt(s, m) \in Seq(A)
    <3>1. SubSeq(s, 1, m - 1) \in Seq(A) /\ SubSeq(s, m + 1, Len(s)) \in Seq(A)
      <4>1. \A i \in 1..Len(s) : s[i] \in A
        OBVIOUS
      <4>2. SubSeq(s, 1, m - 1) \in Seq(A)
        BY <2>2, <4>1, SubSeqProperties
      <4>3. SubSeq(s, m + 1, Len(s)) \in Seq(A)
        BY <2>2, <4>1, SubSeqProperties
      <4> QED
        BY <4>2, <4>3
    <3> QED
      BY <3>1, ConcatProperties DEF RemoveAt
  <2> QED
    BY <2>1, <2>2, <2>3
<1> QED
  BY <1>1, <1>2

Names(g) == {g[i].name : i \in DOMAIN g}

\* The groups g hold the records D of the memory h, each once and under its name.
GroupsOf(h, g, D) ==
    /\ g \in Seq([name : Names(g), rr : Seq(D)])
    /\ \A i \in DOMAIN g : IsInjective(g[i].rr) /\ \A e \in ToSet(g[i].rr) : h[e].name = g[i].name
    /\ \A i, j \in DOMAIN g : g[i].name = g[j].name => i = j
    /\ \A e \in D : \E i \in DOMAIN g : e \in ToSet(g[i].rr)

\* rr_group_add puts a new record into the group of its name.
LEMMA GroupAdd ==
    ASSUME NEW h, NEW D, NEW g, GroupsOf(h, g, D), NEW e, e \notin D
    PROVE  GroupsOf(h, rr_group_add(g, h, e), D \cup {e})
<1> DEFINE n == h[e].name
           i == rr_group_find(g, n)
           E == D \cup {e}
           r == rr_group_add(g, h, e)
<1>1. /\ g \in Seq([name : Names(g), rr : Seq(D)])
      /\ \A k \in DOMAIN g : /\ g[k].name \in Names(g) /\ g[k].rr \in Seq(D)
                             /\ g[k] = [name |-> g[k].name, rr |-> g[k].rr]
      /\ DOMAIN g = 1..Len(g) /\ Len(g) \in Nat
  <2>1. g \in Seq([name : Names(g), rr : Seq(D)])
    BY DEF GroupsOf
  <2>2. DOMAIN g = 1..Len(g) /\ Len(g) \in Nat
    BY <2>1
  <2>3. \A k \in DOMAIN g : g[k] \in [name : Names(g), rr : Seq(D)]
    BY <2>1, <2>2, ElementOfSeq
  <2> QED
    BY <2>1, <2>2, <2>3
<1>2. \/ i = 0 /\ \A k \in DOMAIN g : g[k].name # n
      \/ i \in DOMAIN g /\ g[i].name = n
  BY <1>1, FindElems
<1>3. \A k \in DOMAIN g : g[k].rr \in Seq(E) /\ e \notin ToSet(g[k].rr)
  <2> SUFFICES ASSUME NEW k \in DOMAIN g PROVE g[k].rr \in Seq(E) /\ e \notin ToSet(g[k].rr)
    OBVIOUS
  <2>1. IsSeq(g[k].rr) /\ ToSet(g[k].rr) \subseteq D
    BY <1>1, SeqIsSeq
  <2> QED
    BY <2>1, IsSeqSeq
<1>4. CASE i # 0
  <2>1. i \in DOMAIN g /\ g[i].name = n
    BY <1>2, <1>4, <1>1
  <2> DEFINE l == rr_list_append(g[i].rr, e)
  <2>2. r = [g EXCEPT ![i].rr = l]
    BY <1>4 DEF rr_group_add
  <2>3. /\ l \in Seq(E) /\ ToSet(l) = ToSet(g[i].rr) \cup {e}
        /\ IsInjective(g[i].rr) => IsInjective(l)
    BY <1>3, <2>1, ListAppend
  <2>4. /\ DOMAIN r = DOMAIN g /\ r[i] = [name |-> n, rr |-> l]
        /\ \A k \in DOMAIN g : k # i => r[k] = g[k]
    BY <1>1, <2>1, <2>2
  <2> HIDE DEF l, r, i
  <2>5. \A k \in DOMAIN g : r[k].name = g[k].name /\ r[k] \in [name : Names(g), rr : Seq(E)]
    <3> SUFFICES ASSUME NEW k \in DOMAIN g
                 PROVE  r[k].name = g[k].name /\ r[k] \in [name : Names(g), rr : Seq(E)]
      OBVIOUS
    <3>1. g[k].name \in Names(g) /\ g[k].rr \in Seq(E)
      BY <1>1, <1>3
    <3>2. CASE k = i
      BY <2>1, <2>3, <2>4, <3>1, <3>2
    <3>3. CASE k # i
      <4>1. g[k] = [name |-> g[k].name, rr |-> g[k].rr]
        BY <1>1
      <4> QED
        BY <2>4, <3>1, <3>3, <4>1
    <3> QED
      BY <3>2, <3>3
  <2>6. Names(r) = Names(g)
    BY <2>4, <2>5 DEF Names
  <2>7. r \in Seq([name : Names(r), rr : Seq(E)])
    <3>1. r \in [1..Len(g) -> [name : Names(g), rr : Seq(E)]]
      BY <1>1, <2>2, <2>4, <2>5
    <3> QED
      BY <1>1, <2>6, <3>1, FunctionInSeq
  <2>8. \A k \in DOMAIN r : IsInjective(r[k].rr) /\ \A x \in ToSet(r[k].rr) : h[x].name = r[k].name
    <3> SUFFICES ASSUME NEW k \in DOMAIN r
                 PROVE  IsInjective(r[k].rr) /\ \A x \in ToSet(r[k].rr) : h[x].name = r[k].name
      OBVIOUS
    <3>1. IsInjective(g[k].rr) /\ \A x \in ToSet(g[k].rr) : h[x].name = g[k].name
      BY <2>4 DEF GroupsOf
    <3>2. CASE k = i
      BY <2>1, <2>3, <2>4, <3>1, <3>2
    <3>3. CASE k # i
      BY <2>4, <3>1, <3>3
    <3> QED
      BY <3>2, <3>3
  <2>9. \A k, j \in DOMAIN r : r[k].name = r[j].name => k = j
    BY <2>4, <2>5 DEF GroupsOf
  <2>10. \A x \in E : \E k \in DOMAIN r : x \in ToSet(r[k].rr)
    <3> SUFFICES ASSUME NEW x \in E PROVE \E k \in DOMAIN r : x \in ToSet(r[k].rr)
      OBVIOUS
    <3>1. CASE x = e
      BY <2>1, <2>3, <2>4, <3>1
    <3>2. CASE x \in D
      <4>1. PICK k \in DOMAIN g : x \in ToSet(g[k].rr)
        BY <3>2 DEF GroupsOf
      <4>2. CASE k = i
        BY <2>1, <2>3, <2>4, <4>1, <4>2
      <4>3. CASE k # i
        BY <2>4, <4>1, <4>3
      <4> QED
        BY <4>2, <4>3
    <3> QED
      BY <3>1, <3>2
  <2> QED
    BY <2>7, <2>8, <2>9, <2>10 DEF GroupsOf, r
<1>5. CASE i = 0
  <2> DEFINE one == [name |-> n, rr |-> <<e>>]
  <2>1. r = <<one>> \o g
    BY <1>5 DEF rr_group_add
  <2>2. \A k \in DOMAIN g : g[k].name # n
    BY <1>1, <1>2, <1>5
  <2>3. <<e>> \in Seq(E) /\ ToSet(<<e>>) = {e} /\ IsInjective(<<e>>)
    BY DEF ToSet, IsInjective
  <2>4. /\ DOMAIN r = 1..(Len(g) + 1) /\ r[1] = one
        /\ \A k \in DOMAIN g : k + 1 \in DOMAIN r /\ r[k + 1] = g[k]
        /\ \A k \in DOMAIN r : k = 1 \/ (k - 1 \in DOMAIN g /\ r[k] = g[k - 1])
    <3>1. g \in Seq(Range(g) \cup {one}) /\ <<one>> \in Seq(Range(g) \cup {one})
      BY SMTT(30), <1>1 DEF Range
    <3>2. /\ Len(r) = Len(g) + 1 /\ DOMAIN r = 1..Len(r)
          /\ \A k \in 1..(Len(g) + 1) : r[k] = IF k <= 1 THEN <<one>>[k] ELSE g[k - 1]
      BY <1>1, <2>1, <3>1, ConcatProperties
    <3> DEFINE n1 == Len(g)
    <3> HIDE DEF r
    <3>3. n1 \in Nat /\ DOMAIN g = 1..n1 /\ DOMAIN r = 1..(n1 + 1)
          /\ \A k \in 1..(n1 + 1) : r[k] = IF k <= 1 THEN <<one>>[k] ELSE g[k - 1]
      BY <1>1, <3>2
    <3> HIDE DEF n1
    <3>4. r[1] = one
      BY <3>3
    <3>5. ASSUME NEW k \in DOMAIN g PROVE k + 1 \in DOMAIN r /\ r[k + 1] = g[k]
      <4> DEFINE m == k + 1
      <4>1. m \in 1..(n1 + 1) /\ ~(m <= 1) /\ m - 1 = k
        BY <3>3
      <4> HIDE DEF m
      <4> QED
        BY <3>3, <4>1 DEF m
    <3>6. ASSUME NEW k \in DOMAIN r, k # 1 PROVE k - 1 \in DOMAIN g /\ r[k] = g[k - 1]
      BY <3>3, <3>6
    <3> QED
      BY <3>3, <3>4, <3>5, <3>6 DEF n1
  <2> HIDE DEF r
  <2>5. \A k \in DOMAIN r : r[k].name \in Names(r)
    BY DEF Names
  <2>6. \A k \in DOMAIN r : r[k] \in [name : Names(r), rr : Seq(E)]
    <3> SUFFICES ASSUME NEW k \in DOMAIN r PROVE r[k] \in [name : Names(r), rr : Seq(E)]
      OBVIOUS
    <3>1. CASE k = 1
      <4>1. r[k] = [name |-> n, rr |-> <<e>>] /\ n \in Names(r)
        BY <2>4, <2>5, <3>1
      <4> QED
        BY <2>3, <4>1
    <3>2. CASE k - 1 \in DOMAIN g /\ r[k] = g[k - 1]
      <4>1. r[k] = [name |-> r[k].name, rr |-> r[k].rr] /\ r[k].rr \in Seq(E)
        BY <1>1, <1>3, <3>2
      <4> QED
        BY <2>5, <4>1
    <3> QED
      BY <2>4, <3>1, <3>2
  <2>7. r \in Seq([name : Names(r), rr : Seq(E)])
    <3>1. r = [k \in 1..(Len(g) + 1) |-> r[k]]
      <4>1. <<one>> \in Seq({one} \cup [name : Names(g), rr : Seq(D)])
            /\ g \in Seq({one} \cup [name : Names(g), rr : Seq(D)])
        BY <1>1
      <4>2. r \in Seq({one} \cup [name : Names(g), rr : Seq(D)])
        BY <2>1, <4>1, ConcatProperties
      <4> QED
        BY <2>4, <4>2
    <3>2. r \in [1..(Len(g) + 1) -> [name : Names(r), rr : Seq(E)]]
      BY <2>4, <2>6, <3>1
    <3>3. Len(g) + 1 \in Nat
      BY <1>1
    <3> QED
      BY <3>2, <3>3, FunctionInSeq
  <2>8. \A k \in DOMAIN r : IsInjective(r[k].rr) /\ \A x \in ToSet(r[k].rr) : h[x].name = r[k].name
    <3> SUFFICES ASSUME NEW k \in DOMAIN r
                 PROVE  IsInjective(r[k].rr) /\ \A x \in ToSet(r[k].rr) : h[x].name = r[k].name
      OBVIOUS
    <3>1. CASE k = 1
      BY <2>3, <2>4, <3>1
    <3>2. CASE k - 1 \in DOMAIN g /\ r[k] = g[k - 1]
      BY <3>2 DEF GroupsOf
    <3> QED
      BY <2>4, <3>1, <3>2
  <2>9. \A k, j \in DOMAIN r : r[k].name = r[j].name => k = j
    <3> SUFFICES ASSUME NEW k \in DOMAIN r, NEW j \in DOMAIN r, r[k].name = r[j].name
                 PROVE  k = j
      OBVIOUS
    <3>1. r[1].name = n
      BY <2>4
    <3>2. CASE k = 1 \/ j = 1
      BY <2>2, <2>4, <3>1, <3>2
    <3>3. CASE k # 1 /\ j # 1
      <4>1. k - 1 \in DOMAIN g /\ j - 1 \in DOMAIN g /\ g[k - 1].name = g[j - 1].name
        BY <2>4, <3>3
      <4>2. k - 1 = j - 1
        BY <4>1 DEF GroupsOf
      <4> QED
        BY <2>4, <4>2
    <3> QED
      BY <3>2, <3>3
  <2>10. \A x \in E : \E k \in DOMAIN r : x \in ToSet(r[k].rr)
    <3> SUFFICES ASSUME NEW x \in E PROVE \E k \in DOMAIN r : x \in ToSet(r[k].rr)
      OBVIOUS
    <3>1. CASE x = e
      BY <1>1, <2>3, <2>4, <3>1
    <3>2. CASE x \in D
      <4>1. PICK k \in DOMAIN g : x \in ToSet(g[k].rr)
        BY <3>2 DEF GroupsOf
      <4> QED
        BY <2>4, <4>1
    <3> QED
      BY <3>1, <3>2
  <2> QED
    BY <2>7, <2>8, <2>9, <2>10 DEF GroupsOf, r
<1> QED
  BY <1>4, <1>5

\* The groups depend on the names of their records only.
LEMMA GroupsKept ==
    ASSUME NEW h, NEW k, NEW D, NEW g, GroupsOf(h, g, D), \A e \in D : k[e].name = h[e].name
    PROVE  GroupsOf(k, g, D)
<1>1. ASSUME NEW i \in DOMAIN g, NEW e \in ToSet(g[i].rr) PROVE k[e].name = g[i].name
  <2>1. g \in Seq([name : Names(g), rr : Seq(D)])
    BY DEF GroupsOf
  <2>2. g[i].rr \in Seq(D)
    <3>1. DOMAIN g = 1..Len(g)
      BY <2>1
    <3>2. g[i] \in [name : Names(g), rr : Seq(D)]
      BY <2>1, <3>1, ElementOfSeq
    <3> QED
      BY <3>2
  <2>3. e \in D
    BY <2>2, SeqIsSeq
  <2> QED
    BY <2>3 DEF GroupsOf
<1> QED
  BY <1>1 DEF GroupsOf

-----------------------------------------------------------------------------
(* Lookups                                                                 *)

\* A lookup finds the records of the groups that match, each once.
LEMMA AnswersFound ==
    ASSUME NEW h, DOMAIN h = 1..Len(h), NEW g, GroupsOf(h, g, DOMAIN h), NEW name, NEW type
    PROVE  LET found == Answers(g, h, name, type) IN
           /\ found \in Seq(DOMAIN h) /\ IsInjective(found)
           /\ ToSet(found) = {e \in DOMAIN h : Matches(h[e], name, type)}
<1> DEFINE i == rr_group_find(g, name)
           S == {e \in DOMAIN h : Matches(h[e], name, type)}
           found == Answers(g, h, name, type)
<1>1. /\ g \in Seq([name : Names(g), rr : Seq(DOMAIN h)])
      /\ \A k \in DOMAIN g : g[k].rr \in Seq(DOMAIN h) /\ IsInjective(g[k].rr)
      /\ \A k \in DOMAIN g : \A e \in ToSet(g[k].rr) : h[e].name = g[k].name
      /\ \A e \in DOMAIN h : \E k \in DOMAIN g : e \in ToSet(g[k].rr)
      /\ \A k, j \in DOMAIN g : g[k].name = g[j].name => k = j
  <2>1. g \in Seq([name : Names(g), rr : Seq(DOMAIN h)])
    BY DEF GroupsOf
  <2>2. \A k \in DOMAIN g : g[k] \in [name : Names(g), rr : Seq(DOMAIN h)]
    <3>1. DOMAIN g = 1..Len(g)
      BY <2>1
    <3> QED
      BY <2>1, <3>1, ElementOfSeq
  <2> QED
    BY <2>1, <2>2 DEF GroupsOf
<1>2. \/ i = 0 /\ \A k \in DOMAIN g : g[k].name # name
      \/ i \in DOMAIN g /\ g[i].name = name
  BY <1>1, FindElems
<1>3. \A e \in S : e \in DOMAIN h /\ h[e].name = name
  BY DEF Matches
<1>4. CASE i = 0
  <2>1. \A k \in DOMAIN g : g[k].name # name
    BY <1>1, <1>2, <1>4
  <2>2. S = {}
    <3> SUFFICES ASSUME NEW e \in S PROVE FALSE
      OBVIOUS
    <3>1. PICK k \in DOMAIN g : e \in ToSet(g[k].rr)
      BY <1>1, <1>3
    <3> QED
      BY <1>1, <1>3, <2>1, <3>1
  <2>3. found = <<>>
    BY <1>4 DEF Answers
  <2>4. <<>> \in Seq(DOMAIN h) /\ ToSet(<<>>) = {} /\ IsInjective(<<>>)
    BY DEF ToSet, IsInjective
  <2> QED
    BY <2>2, <2>3, <2>4
<1>5. CASE i # 0
  <2>1. i \in DOMAIN g /\ g[i].name = name
    BY <1>2, <1>5
  <2>2. found = Kept(g[i].rr, S)
    BY <1>5 DEF Answers
  <2> HIDE DEF i
  <2>3. g[i].rr \in Seq(DOMAIN h) /\ IsInjective(g[i].rr)
    BY <1>1, <2>1
  <2>4. S \subseteq ToSet(g[i].rr)
    <3> SUFFICES ASSUME NEW e \in S PROVE e \in ToSet(g[i].rr)
      OBVIOUS
    <3>1. PICK k \in DOMAIN g : e \in ToSet(g[k].rr)
      BY <1>1, <1>3
    <3>2. k = i
      BY <1>1, <1>3, <2>1, <3>1
    <3> QED
      BY <3>1, <3>2
  <2> HIDE DEF S, found
  <2> QED
    BY <2>2, <2>3, <2>4, KeptElems DEF found, S
<1> QED
  BY <1>4, <1>5

\* What a list lacks of another is added to it.
LEMMA MissingElems ==
    ASSUME NEW A, NEW list \in Seq(A), NEW found \in Seq(A), IsInjective(list), IsInjective(found)
    PROVE  LET new == list \o Missing(list, found) IN
           /\ new \in Seq(A) /\ IsInjective(new)
           /\ ToSet(new) = ToSet(list) \cup ToSet(found)
           /\ Len(new) = Len(list) + Len(Missing(list, found))
           /\ Len(Missing(list, found)) \in Nat
           /\ \A i \in DOMAIN list : i \in DOMAIN new /\ new[i] = list[i]
<1> DEFINE m == Missing(list, found)
<1>1. /\ m \in Seq(A) /\ IsInjective(m)
      /\ ToSet(m) = ToSet(found) \cap (ToSet(found) \ ToSet(list))
  BY KeptElems DEF Missing
<1> HIDE DEF m
<1>2. ToSet(list) \cap ToSet(m) = {}
  BY <1>1
<1>3. /\ list \o m \in Seq(A) /\ ToSet(list \o m) = ToSet(list) \cup ToSet(m)
      /\ IsInjective(list \o m)
  BY <1>1, <1>2, ConcatElems
<1>4. /\ Len(list \o m) = Len(list) + Len(m) /\ Len(m) \in Nat
      /\ \A i \in DOMAIN list : i \in DOMAIN (list \o m) /\ (list \o m)[i] = list[i]
  BY <1>1
<1> QED
  BY <1>1, <1>3, <1>4 DEF m

-----------------------------------------------------------------------------
(* Destroying the groups                                                   *)

FlattenUpTo(s, n, flatten) ==
    flatten = [i \in 1..n |-> IF i = 1 THEN s[i] ELSE flatten[i - 1] \o s[i]]

\* FlattenSeq is what its recursion says, up to every length.
LEMMA FlattenSolved ==
    ASSUME NEW s, NEW n \in Nat
    PROVE  \E flatten : FlattenUpTo(s, n, flatten)
<1> DEFINE Sol == {k \in Nat : \E flatten : FlattenUpTo(s, k, flatten)}
<1>1. 0 \in Sol
  <2>1. FlattenUpTo(s, 0, [i \in 1..0 |-> <<>>])
    BY DEF FlattenUpTo
  <2> QED
    BY <2>1
<1>2. ASSUME NEW k \in Nat, k \in Sol PROVE k + 1 \in Sol
  <2>1. PICK f : FlattenUpTo(s, k, f)
    BY <1>2
  <2> DEFINE last == IF k + 1 = 1 THEN s[k + 1] ELSE f[k] \o s[k + 1]
             g == [i \in 1..(k + 1) |-> IF i = k + 1 THEN last ELSE f[i]]
  <2>2. \A i \in 1..k : f[i] = IF i = 1 THEN s[i] ELSE f[i - 1] \o s[i]
    BY <2>1 DEF FlattenUpTo
  <2>3. \A i \in 1..(k + 1) : g[i] = IF i = 1 THEN s[i] ELSE g[i - 1] \o s[i]
    <3> SUFFICES ASSUME NEW i \in 1..(k + 1)
                 PROVE  g[i] = IF i = 1 THEN s[i] ELSE g[i - 1] \o s[i]
      OBVIOUS
    <3>1. i # 1 => i - 1 \in 1..k /\ i - 1 \in 1..(k + 1) /\ i - 1 # k + 1
      OBVIOUS
    <3>2. i # 1 => g[i - 1] = f[i - 1]
      BY <3>1
    <3>3. CASE i = k + 1
      BY <3>2, <3>3
    <3>4. CASE i # k + 1
      <4>1. i \in 1..k /\ g[i] = f[i]
        BY <3>4
      <4> QED
        BY <2>2, <3>2, <4>1
    <3> QED
      BY <3>3, <3>4
  <2>4. FlattenUpTo(s, k + 1, g)
    BY <2>3 DEF FlattenUpTo
  <2> QED
    BY <2>4
<1> HIDE DEF Sol
<1>3. Nat \subseteq Sol
  BY <1>1, <1>2, Induction
<1> QED
  BY <1>3 DEF Sol

\* FlattenSeq of disjoint lists has the elements of each, once.
LEMMA FlattenElems ==
    ASSUME NEW A, NEW s \in Seq(Seq(A)), \A i \in DOMAIN s : IsInjective(s[i]),
           \A i, j \in DOMAIN s : ToSet(s[i]) \cap ToSet(s[j]) # {} => i = j
    PROVE  /\ FlattenSeq(s) \in Seq(A) /\ IsInjective(FlattenSeq(s))
           /\ \A x : x \in ToSet(FlattenSeq(s)) <=> \E i \in DOMAIN s : x \in ToSet(s[i])
<1>1. Len(s) \in Nat /\ DOMAIN s = 1..Len(s) /\ \A i \in DOMAIN s : s[i] \in Seq(A)
  OBVIOUS
<1>2. CASE Len(s) = 0
  <2>1. s = <<>> /\ FlattenSeq(s) = <<>>
    BY <1>2 DEF FlattenSeq
  <2>2. <<>> \in Seq(A) /\ ToSet(<<>>) = {} /\ IsInjective(<<>>) /\ DOMAIN <<>> = {}
    BY DEF ToSet, IsInjective
  <2> QED
    BY <2>1, <2>2
<1>3. CASE Len(s) # 0
  <2> DEFINE f == CHOOSE flatten : FlattenUpTo(s, Len(s), flatten)
  <2>1. FlattenUpTo(s, Len(s), f)
    BY <1>1, FlattenSolved
  <2>2. FlattenSeq(s) = f[Len(s)]
    BY <1>3 DEF FlattenSeq, FlattenUpTo
  <2> HIDE DEF f
  <2>3. \A i \in 1..Len(s) : f[i] = IF i = 1 THEN s[i] ELSE f[i - 1] \o s[i]
    BY <2>1 DEF FlattenUpTo
  <2> DEFINE Right(n) == /\ f[n] \in Seq(A) /\ IsInjective(f[n])
                         /\ \A x : x \in ToSet(f[n]) <=> \E i \in 1..n : x \in ToSet(s[i])
             Good == {n \in Nat : n # 0 /\ n <= Len(s) => Right(n)}
  <2>4. 0 \in Good
    OBVIOUS
  <2>5. ASSUME NEW n \in Nat, n \in Good PROVE n + 1 \in Good
    <3> SUFFICES ASSUME n + 1 <= Len(s) PROVE Right(n + 1)
      OBVIOUS
    <3> DEFINE m == n + 1
    <3>0. m \in DOMAIN s
      BY <1>1
    <3>1. m \in 1..Len(s) /\ m \in DOMAIN s /\ s[m] \in Seq(A) /\ IsInjective(s[m])
      <4> HIDE DEF m
      <4> QED
        BY <1>1, <3>0
    <3>2. CASE n = 0
      <4>1. f[1] = s[1] /\ 1..1 = {1}
        BY <2>3, <3>1, <3>2
      <4> QED
        BY <3>1, <3>2, <4>1
    <3>3. CASE n # 0
      <4>1. Right(n)
        BY <1>1, <2>5, <3>3
      <4>2. f[m] = f[n] \o s[m]
        <5>1. m - 1 = n /\ m # 1
          BY <3>3
        <5> HIDE DEF m
        <5> QED
          BY <2>3, <3>1, <5>1
      <4>3. \A i \in 1..(n + 1) : i \in 1..n \/ i = n + 1
        OBVIOUS
      <4>4. \A i \in 1..n : i \in 1..(n + 1) /\ i \in DOMAIN s /\ i # n + 1
        BY <1>1
      <4>5. ToSet(f[n]) \cap ToSet(s[n + 1]) = {}
        <5> SUFFICES ASSUME NEW x \in ToSet(f[n]), x \in ToSet(s[n + 1]) PROVE FALSE
          OBVIOUS
        <5>1. PICK i \in 1..n : x \in ToSet(s[i])
          BY <4>1
        <5>2. i = n + 1
          BY <3>1, <4>4, <5>1
        <5> QED
          BY <4>4, <5>2
      <4>6. /\ f[n + 1] \in Seq(A) /\ IsInjective(f[n + 1])
            /\ ToSet(f[n + 1]) = ToSet(f[n]) \cup ToSet(s[n + 1])
        BY <3>1, <4>1, <4>2, <4>5, ConcatElems
      <4>7. \A x : x \in ToSet(f[n + 1]) <=> \E i \in 1..(n + 1) : x \in ToSet(s[i])
        <5> SUFFICES ASSUME NEW x
                     PROVE  x \in ToSet(f[n + 1]) <=> \E i \in 1..(n + 1) : x \in ToSet(s[i])
          OBVIOUS
        <5>1. x \in ToSet(f[n + 1]) <=> x \in ToSet(f[n]) \/ x \in ToSet(s[n + 1])
          BY <4>6
        <5>2. x \in ToSet(f[n]) <=> \E i \in 1..n : x \in ToSet(s[i])
          BY <4>1
        <5>3. n + 1 \in 1..(n + 1)
          OBVIOUS
        <5> HIDE DEF Right, Good
        <5> QED
          BY <4>3, <4>4, <5>1, <5>2, <5>3
      <4> QED
        BY <4>6, <4>7
    <3> QED
      BY <3>2, <3>3
  <2> HIDE DEF Good
  <2>6. Nat \subseteq Good
    BY <2>4, <2>5, Induction
  <2>7. Len(s) \in Good /\ Len(s) <= Len(s)
    BY <1>1, <2>6
  <2> QED
    BY <1>1, <1>3, <2>2, <2>7 DEF Good
<1> QED
  BY <1>2, <1>3

\* rr_group_destroy meets every record, once.
LEMMA DestroyedOnce ==
    ASSUME NEW h, NEW D, NEW g, GroupsOf(h, g, D)
    PROVE  IsInjective(rr_group_destroy(g)) /\ ToSet(rr_group_destroy(g)) = D
<1> DEFINE s == [i \in DOMAIN g |-> g[i].rr]
<1>1. /\ g \in Seq([name : Names(g), rr : Seq(D)]) /\ DOMAIN g = 1..Len(g) /\ Len(g) \in Nat
      /\ \A i \in DOMAIN g : g[i] \in [name : Names(g), rr : Seq(D)]
  <2>1. g \in Seq([name : Names(g), rr : Seq(D)])
    BY DEF GroupsOf
  <2>2. DOMAIN g = 1..Len(g) /\ Len(g) \in Nat
    BY <2>1
  <2> QED
    BY <2>1, <2>2, ElementOfSeq
<1>2. s \in Seq(Seq(D)) /\ DOMAIN s = DOMAIN g /\ \A i \in DOMAIN g : s[i] = g[i].rr
  <2>1. s \in [1..Len(g) -> Seq(D)]
    BY <1>1
  <2> QED
    BY <1>1, <2>1, FunctionInSeq
<1>3. rr_group_destroy(g) = FlattenSeq(s)
  BY DEF rr_group_destroy
<1> HIDE DEF s
<1>4. \A i \in DOMAIN s : IsInjective(s[i])
  BY <1>2 DEF GroupsOf
<1>5. ASSUME NEW i \in DOMAIN s, NEW j \in DOMAIN s, ToSet(s[i]) \cap ToSet(s[j]) # {}
      PROVE  i = j
  <2>1. PICK x : x \in ToSet(s[i]) /\ x \in ToSet(s[j])
    BY <1>5
  <2>2. h[x].name = g[i].name /\ h[x].name = g[j].name
    BY <1>2, <2>1 DEF GroupsOf
  <2> QED
    BY <1>2, <2>2 DEF GroupsOf
<1>6. /\ IsInjective(FlattenSeq(s))
      /\ \A x : x \in ToSet(FlattenSeq(s)) <=> \E i \in DOMAIN s : x \in ToSet(s[i])
  BY <1>2, <1>4, <1>5, FlattenElems
<1>7. \A i \in DOMAIN s : ToSet(s[i]) \subseteq D
  <2> SUFFICES ASSUME NEW i \in DOMAIN s PROVE ToSet(s[i]) \subseteq D
    OBVIOUS
  <2>1. s[i] \in Seq(D)
    BY <1>1, <1>2
  <2> QED
    BY <2>1, SeqIsSeq
<1>8. \A x \in D : \E i \in DOMAIN s : x \in ToSet(s[i])
  BY <1>2 DEF GroupsOf
<1> QED
  BY <1>3, <1>6, <1>7, <1>8

-----------------------------------------------------------------------------
(* Records                                                                 *)

\* A record as rr_create makes it.
IsEntry(r) ==
    /\ r = [name |-> r.name, type |-> r.type, ttl |-> r.ttl, cache_flush |-> r.cache_flush,
            rr_class |-> r.rr_class, data |-> r.data]
    /\ r.type \in {"A", "PTR", "TXT", "SRV", "NSEC"} /\ r.ttl \in Nat

IsHeap(h) == IsSeq(h) /\ \A e \in DOMAIN h : IsEntry(h[e])

\* A memory is indexed by its addresses.
LEMMA HeapShape ==
    ASSUME NEW h, IsHeap(h)
    PROVE  /\ Len(h) \in Nat /\ DOMAIN h = 1..Len(h)
           /\ \A e \in DOMAIN h : IsEntry(h[e])
BY DEF IsHeap, IsSeq

\* Every rr_create makes a record.
LEMMA Entries ==
    /\ \A name, addr : IsEntry(rr_create_a(name, addr))
    /\ \A name, target : IsEntry(rr_create_ptr(name, target))
    /\ \A name, port, target : IsEntry(rr_create_srv(name, port, target))
    /\ \A name, txt : IsEntry(rr_add_txt(rr_create(name, "TXT"), txt))
    /\ \A name, type : IsEntry([rr_set_nsec(rr_create(name, "NSEC"), type)
                                 EXCEPT !.ttl = DEFAULT_TTL_FOR_RECORD_WITH_HOSTNAME])
<1> USE DEF rr_create, DEFAULT_TTL_FOR_RECORD_WITH_HOSTNAME, DEFAULT_TTL
<1>1. ASSUME NEW name, NEW addr PROVE IsEntry(rr_create_a(name, addr))
  <2>1. rr_create_a(name, addr) = [name |-> name, type |-> "A", ttl |-> 120, cache_flush |-> 1,
                                   rr_class |-> 1, data |-> <<addr>>]
    <3> DEFINE r == [rr_create(name, "A") EXCEPT !.data = <<addr>>]
    <3>1. rr_create_a(name, addr) = [r EXCEPT !.ttl = DEFAULT_TTL_FOR_RECORD_WITH_HOSTNAME]
      BY DEF rr_create_a
    <3>2. r = [name |-> name, type |-> "A", ttl |-> 4500, cache_flush |-> 1, rr_class |-> 1,
               data |-> <<addr>>]
      OBVIOUS
    <3> HIDE DEF r
    <3> QED
      BY <3>1, <3>2
  <2> QED
    BY <2>1, SMT DEF IsEntry
<1>2. ASSUME NEW name, NEW target PROVE IsEntry(rr_create_ptr(name, target))
  <2>1. rr_create_ptr(name, target) = [name |-> name, type |-> "PTR", ttl |-> 4500,
                                       cache_flush |-> 0, rr_class |-> 1, data |-> target]
    <3> DEFINE r == [rr_create(name, "PTR") EXCEPT !.cache_flush = 0]
    <3>1. rr_create_ptr(name, target) = [r EXCEPT !.data = target]
      BY DEF rr_create_ptr
    <3>2. r = [name |-> name, type |-> "PTR", ttl |-> 4500, cache_flush |-> 0, rr_class |-> 1,
               data |-> <<>>]
      OBVIOUS
    <3> HIDE DEF r
    <3> QED
      BY <3>1, <3>2
  <2> QED
    BY <2>1, SMT DEF IsEntry
<1>3. \A name, port, target : IsEntry(rr_create_srv(name, port, target))
  BY SMT DEF IsEntry, rr_create_srv
<1>4. \A name, txt : IsEntry(rr_add_txt(rr_create(name, "TXT"), txt))
  BY SMT DEF IsEntry, rr_add_txt
<1>5. ASSUME NEW name, NEW type
      PROVE  IsEntry([rr_set_nsec(rr_create(name, "NSEC"), type)
                        EXCEPT !.ttl = DEFAULT_TTL_FOR_RECORD_WITH_HOSTNAME])
  <2>1. rr_set_nsec(rr_create(name, "NSEC"), type)
          = [name |-> name, type |-> "NSEC", ttl |-> 4500, cache_flush |-> 1, rr_class |-> 1,
             data |-> <<type>>]
    BY DEF rr_set_nsec
  <2> QED
    BY <2>1, SMT DEF IsEntry
<1> QED
  BY <1>1, <1>2, <1>3, <1>4, <1>5

\* The records of one registration are a memory of their own.
LEMMA HeapOf ==
    /\ \A a : IsEntry(a) => IsHeap(<<a>>)
    /\ \A a, b : IsEntry(a) /\ IsEntry(b) => IsHeap(<<a, b>>)
    /\ \A a, b, c, d : IsEntry(a) /\ IsEntry(b) /\ IsEntry(c) /\ IsEntry(d)
                            => IsHeap(<<a>> \o <<b, c, d>>)
<1>1. ASSUME NEW a, IsEntry(a) PROVE IsHeap(<<a>>)
  <2>1. IsSeq(<<a>>)
    BY SeqIsSeq, <<a>> \in Seq({a})
  <2> QED
    BY <1>1, <2>1 DEF IsHeap
<1>2. ASSUME NEW a, NEW b, IsEntry(a), IsEntry(b) PROVE IsHeap(<<a, b>>)
  <2>1. IsSeq(<<a, b>>)
    BY SeqIsSeq, <<a, b>> \in Seq({a, b})
  <2> QED
    BY <1>2, <2>1 DEF IsHeap
<1>3. ASSUME NEW a, NEW b, NEW c, NEW d, IsEntry(a), IsEntry(b), IsEntry(c), IsEntry(d)
      PROVE  IsHeap(<<a>> \o <<b, c, d>>)
  <2> DEFINE r == <<a>> \o <<b, c, d>>
  <2>1. <<a>> \in Seq({a, b, c, d}) /\ <<b, c, d>> \in Seq({a, b, c, d})
    OBVIOUS
  <2>2. r \in Seq({a, b, c, d})
    BY <2>1, ConcatProperties
  <2> HIDE DEF r
  <2>3. \A i \in DOMAIN r : r[i] \in {a, b, c, d}
    BY <2>2
  <2>4. IsSeq(r)
    BY <2>2, SeqIsSeq
  <2>5. IsHeap(r)
    BY <1>3, <2>3, <2>4 DEF IsHeap
  <2> QED
    BY <2>5 DEF r
<1> QED
  BY <1>1, <1>2, <1>3

-----------------------------------------------------------------------------
(* Replies                                                                 *)

\* A reply lists records of a memory with these addresses, each once, and counts
\* them.
IsReply(p, A) ==
    /\ p = [id |-> p.id, flags |-> p.flags, rr_ans |-> p.rr_ans, rr_add |-> p.rr_add,
            num_ans_rr |-> p.num_ans_rr, num_add_rr |-> p.num_add_rr]
    /\ p.rr_ans \in Seq(A) /\ IsInjective(p.rr_ans)
    /\ p.rr_add \in Seq(A) /\ IsInjective(p.rr_add)
    /\ p.num_ans_rr = Len(p.rr_ans) /\ p.num_add_rr = Len(p.rr_add)

\* A reply begins empty.
LEMMA EmptyReply ==
    ASSUME NEW id, NEW A
    PROVE  /\ IsReply(mdns_init_reply(id), A)
           /\ mdns_init_reply(id).rr_ans = <<>> /\ mdns_init_reply(id).rr_add = <<>>
<1>1. <<>> \in Seq(A) /\ IsInjective(<<>>) /\ Len(<<>>) = 0
  BY DEF IsInjective
<1> QED
  BY <1>1 DEF IsReply, mdns_init_reply

\* A reply lists records of the longer memory.
LEMMA ReplyGrows ==
    ASSUME NEW A, NEW B, A \subseteq B, NEW p, IsReply(p, A)
    PROVE  IsReply(p, B)
BY ListGrows DEF IsReply

\* populate_answers adds what is found to the answers, and counts it.
LEMMA PopulatesAnswers ==
    ASSUME NEW A, NEW p, IsReply(p, A), NEW found \in Seq(A), IsInjective(found)
    PROVE  LET r == PopulateAnswers(p, found) IN
           /\ IsReply(r, A) /\ r.rr_add = p.rr_add
           /\ ToSet(r.rr_ans) = ToSet(p.rr_ans) \cup ToSet(found)
<1> DEFINE r == PopulateAnswers(p, found)
           m == Missing(p.rr_ans, found)
           new == p.rr_ans \o m
           q == [p EXCEPT !.rr_ans = new]
<1>1. p.rr_ans \in Seq(A) /\ IsInjective(p.rr_ans) /\ p.num_ans_rr = Len(p.rr_ans)
  BY DEF IsReply
<1>2. /\ new \in Seq(A) /\ IsInjective(new)
      /\ ToSet(new) = ToSet(p.rr_ans) \cup ToSet(found)
      /\ Len(new) = Len(p.rr_ans) + Len(m)
  BY <1>1, MissingElems
<1>3. r = [q EXCEPT !.num_ans_rr = p.num_ans_rr + Len(m)]
  BY Zenon DEF PopulateAnswers
<1> HIDE DEF r, new, m
<1>4. q = [id |-> p.id, flags |-> p.flags, rr_ans |-> new, rr_add |-> p.rr_add,
           num_ans_rr |-> p.num_ans_rr, num_add_rr |-> p.num_add_rr]
  <2>1. p = [id |-> p.id, flags |-> p.flags, rr_ans |-> p.rr_ans, rr_add |-> p.rr_add,
             num_ans_rr |-> p.num_ans_rr, num_add_rr |-> p.num_add_rr]
    BY DEF IsReply
  <2> QED
    BY <2>1
<1> HIDE DEF q
<1>5. r = [id |-> p.id, flags |-> p.flags, rr_ans |-> new, rr_add |-> p.rr_add,
           num_ans_rr |-> p.num_ans_rr + Len(m), num_add_rr |-> p.num_add_rr]
  BY <1>3, <1>4
<1>6. IsReply(r, A)
  BY <1>1, <1>2, <1>5 DEF IsReply
<1> QED
  BY <1>2, <1>5, <1>6 DEF r

\* The same for a reply that has just been begun.
LEMMA FirstAnswers ==
    ASSUME NEW A, NEW s \in Seq(A), IsInjective(s)
    PROVE  /\ IsReply(PopulateAnswers(mdns_init_reply(0), s), A)
           /\ ToSet(PopulateAnswers(mdns_init_reply(0), s).rr_ans) = ToSet(s)
<1>1. IsReply(mdns_init_reply(0), A) /\ ToSet(mdns_init_reply(0).rr_ans) = {}
  BY EmptyReply DEF ToSet
<1>2. ASSUME NEW q, IsReply(q, A)
      PROVE  /\ IsReply(PopulateAnswers(q, s), A)
             /\ ToSet(PopulateAnswers(q, s).rr_ans) = ToSet(q.rr_ans) \cup ToSet(s)
  BY <1>2, PopulatesAnswers
<1> QED
  BY <1>1, <1>2

\* populate_answers for the additional section appends.
LEMMA PopulatesAdditional ==
    ASSUME NEW A, NEW p, IsReply(p, A), NEW found \in Seq(A), IsInjective(found)
    PROVE  LET r == PopulateAdditional(p, found) IN
           /\ IsReply(r, A) /\ r.rr_ans = p.rr_ans
           /\ ToSet(r.rr_add) = ToSet(p.rr_add) \cup ToSet(found)
           /\ \A i \in DOMAIN p.rr_add : i \in DOMAIN r.rr_add /\ r.rr_add[i] = p.rr_add[i]
<1> DEFINE r == PopulateAdditional(p, found)
           m == Missing(p.rr_add, found)
           new == p.rr_add \o m
           q == [p EXCEPT !.rr_add = new]
<1>1. p.rr_add \in Seq(A) /\ IsInjective(p.rr_add) /\ p.num_add_rr = Len(p.rr_add)
  BY DEF IsReply
<1>2. /\ new \in Seq(A) /\ IsInjective(new)
      /\ ToSet(new) = ToSet(p.rr_add) \cup ToSet(found)
      /\ \A i \in DOMAIN p.rr_add : i \in DOMAIN new /\ new[i] = p.rr_add[i]
      /\ Len(new) = Len(p.rr_add) + Len(m)
  <2> DEFINE s == p.rr_add
  <2>1. s \in Seq(A) /\ IsInjective(s)
    BY <1>1
  <2> HIDE DEF s
  <2>2. LET l == s \o Missing(s, found) IN
        /\ l \in Seq(A) /\ IsInjective(l) /\ ToSet(l) = ToSet(s) \cup ToSet(found)
        /\ \A i \in DOMAIN s : i \in DOMAIN l /\ l[i] = s[i]
        /\ Len(l) = Len(s) + Len(Missing(s, found))
    BY <2>1, MissingElems
  <2> QED
    BY <2>2 DEF s
<1>3. r = [q EXCEPT !.num_add_rr = p.num_add_rr + Len(m)]
  BY Zenon DEF PopulateAdditional
<1> HIDE DEF r, new, m
<1>4. q = [id |-> p.id, flags |-> p.flags, rr_ans |-> p.rr_ans, rr_add |-> new,
           num_ans_rr |-> p.num_ans_rr, num_add_rr |-> p.num_add_rr]
  <2>1. p = [id |-> p.id, flags |-> p.flags, rr_ans |-> p.rr_ans, rr_add |-> p.rr_add,
             num_ans_rr |-> p.num_ans_rr, num_add_rr |-> p.num_add_rr]
    BY DEF IsReply
  <2> QED
    BY <2>1
<1> HIDE DEF q
<1>5. r = [id |-> p.id, flags |-> p.flags, rr_ans |-> p.rr_ans, rr_add |-> new,
           num_ans_rr |-> p.num_ans_rr, num_add_rr |-> p.num_add_rr + Len(m)]
  BY <1>3, <1>4
<1>6. IsReply(r, A)
  <2>1. IsReply([id |-> p.id, flags |-> p.flags, rr_ans |-> p.rr_ans, rr_add |-> new,
                 num_ans_rr |-> p.num_ans_rr, num_add_rr |-> Len(new)], A)
    BY <1>2 DEF IsReply
  <2> QED
    BY <1>1, <1>2, <1>5, <2>1
<1> QED
  BY <1>2, <1>5, <1>6 DEF r

\* What the querier knows, or only for less than half of the time it might.
Unknown(known, r) ==
    LET k == rr_entry_match(known, r) IN k = 0 \/ known[k].ttl < r.ttl \div 2

\* Only what the querier knows is taken out of the reply.
LEMMA RemovesKnown ==
    ASSUME NEW h, NEW p, IsReply(p, DOMAIN h), NEW known
    PROVE  LET r == RemoveKnown(p, h, known) IN
           /\ IsReply(r, DOMAIN h) /\ r.rr_add = p.rr_add
           /\ \A e : e \in ToSet(r.rr_ans) <=> e \in ToSet(p.rr_ans) /\ Unknown(known, h[e])
<1> DEFINE r == RemoveKnown(p, h, known)
           S == {e \in DOMAIN h : Unknown(known, h[e])}
           kept == Kept(p.rr_ans, S)
           q == [p EXCEPT !.rr_ans = kept]
           n == p.num_ans_rr - (Len(p.rr_ans) - Len(kept))
<1>1. p.rr_ans \in Seq(DOMAIN h) /\ IsInjective(p.rr_ans) /\ p.num_ans_rr = Len(p.rr_ans)
  BY DEF IsReply
<1>2. kept \in Seq(DOMAIN h) /\ ToSet(kept) = ToSet(p.rr_ans) \cap S /\ IsInjective(kept)
  <2> HIDE DEF S
  <2> QED
    BY <1>1, KeptElems
<1>3. r = [q EXCEPT !.num_ans_rr = n]
  BY Zenon DEF RemoveKnown, Unknown
<1>4. ToSet(p.rr_ans) \subseteq DOMAIN h
  BY <1>1, SeqIsSeq
<1>5. \A e : e \in ToSet(kept) <=> e \in ToSet(p.rr_ans) /\ Unknown(known, h[e])
  BY <1>2, <1>4
<1> HIDE DEF r, S, kept
<1>6. n = Len(kept)
  <2>1. Len(p.rr_ans) \in Nat /\ Len(kept) \in Nat
    BY <1>1, <1>2
  <2> QED
    BY <1>1, <2>1
<1> HIDE DEF n
<1>7. q = [id |-> p.id, flags |-> p.flags, rr_ans |-> kept, rr_add |-> p.rr_add,
           num_ans_rr |-> p.num_ans_rr, num_add_rr |-> p.num_add_rr]
  <2>1. p = [id |-> p.id, flags |-> p.flags, rr_ans |-> p.rr_ans, rr_add |-> p.rr_add,
             num_ans_rr |-> p.num_ans_rr, num_add_rr |-> p.num_add_rr]
    BY DEF IsReply
  <2> QED
    BY <2>1
<1> HIDE DEF q
<1>8. r = [id |-> p.id, flags |-> p.flags, rr_ans |-> kept, rr_add |-> p.rr_add,
           num_ans_rr |-> n, num_add_rr |-> p.num_add_rr]
  BY <1>3, <1>7
<1>9. IsReply(r, DOMAIN h)
  BY <1>2, <1>6, <1>8 DEF IsReply
<1> QED
  BY <1>5, <1>8, <1>9 DEF r
=============================================================================
