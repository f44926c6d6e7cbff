------------------------------- MODULE Queues -------------------------------
(***************************************************************************)
(* What is in a queue after the operations the loops make on theirs: push  *)
(* at the end, take the front, append a batch.                             *)
(***************************************************************************)
EXTENDS Integers, Sequences, Functions, SequenceTheorems, TLAPS

\* Nothing is in the empty queue.
LEMMA EmptyRange == \A t : t \notin Range(<<>>)
BY DEF Range

\* Appending a batch.
LEMMA RangeConcat ==
    ASSUME NEW S, NEW l \in Seq(S), NEW q \in Seq(S), NEW t
    PROVE  t \in Range(l \o q) <=> t \in Range(l) \/ t \in Range(q)
<1>1. /\ Len(l) \in Nat /\ Len(q) \in Nat
      /\ DOMAIN l = 1..Len(l) /\ DOMAIN q = 1..Len(q)
  BY LenProperties
<1>2. /\ l \o q \in Seq(S)
      /\ Len(l \o q) = Len(l) + Len(q)
      /\ \A i \in 1..Len(l) + Len(q) :
            (l \o q)[i] = IF i <= Len(l) THEN l[i] ELSE q[i - Len(l)]
  BY ConcatProperties
<1>3. DOMAIN (l \o q) = 1..Len(l) + Len(q)
  BY <1>2, LenProperties
<1>4. ASSUME t \in Range(l \o q) PROVE t \in Range(l) \/ t \in Range(q)
  <2>1. PICK i \in 1..Len(l) + Len(q) : t = (l \o q)[i]
    BY <1>3, <1>4 DEF Range
  <2>2. CASE i <= Len(l)
    <3>1. i \in DOMAIN l /\ t = l[i]
      BY <1>1, <1>2, <2>1, <2>2
    <3> QED BY <3>1 DEF Range
  <2>3. CASE ~(i <= Len(l))
    <3>1. i - Len(l) \in DOMAIN q /\ t = q[i - Len(l)]
      BY <1>1, <1>2, <2>1, <2>3
    <3> QED BY <3>1 DEF Range
  <2> QED BY <2>2, <2>3
<1>5. ASSUME t \in Range(l) PROVE t \in Range(l \o q)
  <2>1. PICK i \in 1..Len(l) : t = l[i]
    BY <1>1, <1>5 DEF Range
  <2>2. i \in DOMAIN (l \o q) /\ t = (l \o q)[i]
    BY <1>1, <1>2, <1>3, <2>1
  <2> QED BY <2>2 DEF Range
<1>6. ASSUME t \in Range(q) PROVE t \in Range(l \o q)
  <2>1. PICK i \in 1..Len(q) : t = q[i]
    BY <1>1, <1>6 DEF Range
  <2> DEFINE j == Len(l) + i
  <2>2. j \in 1..Len(l) + Len(q) /\ ~(j <= Len(l)) /\ j - Len(l) = i
    BY <1>1
  <2>3. j \in DOMAIN (l \o q) /\ t = (l \o q)[j]
    BY <1>2, <1>3, <2>1, <2>2
  <2> QED BY <2>3 DEF Range
<1> QED BY <1>4, <1>5, <1>6

\* Pushing one task.
LEMMA PushTask ==
    ASSUME NEW S, NEW q \in Seq(S), NEW u \in S
    PROVE  /\ Append(q, u) \in Seq(S)
           /\ \A t : t \in Range(Append(q, u)) <=> t \in Range(q) \/ t = u
<1>1. <<u>> \in Seq(S) /\ Append(q, u) = q \o <<u>>
  BY AppendIsConcat
<1>2. \A t : t \in Range(<<u>>) <=> t = u
  BY DEF Range
<1> QED BY <1>1, <1>2, RangeConcat, AppendProperties

\* Taking the task in front.
LEMMA PopTask ==
    ASSUME NEW S, NEW l \in Seq(S), l # <<>>
    PROVE  /\ Head(l) \in S
           /\ Tail(l) \in Seq(S)
           /\ \A t : t \in Range(l) <=> t = Head(l) \/ t \in Range(Tail(l))
<1>1. /\ Len(l) \in Nat /\ Len(l) > 0
      /\ DOMAIN l = 1..Len(l)
  BY LenProperties, EmptySeq
<1>2. /\ Head(l) = l[1] /\ Head(l) \in S
      /\ Tail(l) \in Seq(S)
      /\ Len(Tail(l)) = Len(l) - 1
      /\ \A i \in 1..Len(l) - 1 : Tail(l)[i] = l[i + 1]
  BY <1>1, HeadTailProperties
<1>3. DOMAIN Tail(l) = 1..Len(l) - 1
  BY <1>2, LenProperties
<1>4. ASSUME NEW t, t \in Range(l) PROVE t = Head(l) \/ t \in Range(Tail(l))
  <2>1. PICK i \in 1..Len(l) : t = l[i]
    BY <1>1, <1>4 DEF Range
  <2>2. CASE i = 1
    BY <1>2, <2>1, <2>2
  <2>3. CASE i # 1
    <3>1. i - 1 \in DOMAIN Tail(l) /\ t = Tail(l)[i - 1]
      BY <1>1, <1>2, <1>3, <2>1, <2>3
    <3> QED BY <3>1 DEF Range
  <2> QED BY <2>2, <2>3
<1>5. Head(l) \in Range(l)
  BY <1>1, <1>2 DEF Range
<1>6. ASSUME NEW t, t \in Range(Tail(l)) PROVE t \in Range(l)
  <2>1. PICK i \in 1..Len(l) - 1 : t = Tail(l)[i]
    BY <1>3, <1>6 DEF Range
  <2>2. i + 1 \in DOMAIN l /\ t = l[i + 1]
    BY <1>1, <1>2, <2>1
  <2> QED BY <2>2 DEF Range
<1> QED BY <1>2, <1>4, <1>5, <1>6

\* A suffix of a sequence, from behind the n-th element on.
LEMMA Suffix ==
    ASSUME NEW S, NEW b \in Seq(S), NEW n \in Nat, n <= Len(b), NEW r \in Seq(S),
           Len(r) = Len(b) - n, \A i \in 1..Len(b) - n : r[i] = b[n + i]
    PROVE  /\ Range(r) \subseteq Range(b)
           /\ n < Len(b) => r # <<>> /\ b[n + 1] \in S /\ b[n + 1] \in Range(b)
<1>1. Len(b) \in Nat /\ DOMAIN b = 1..Len(b) /\ DOMAIN r = 1..Len(b) - n
  BY LenProperties
<1>2. ASSUME NEW i \in 1..Len(b) - n PROVE n + i \in DOMAIN b
  BY <1>1
<1>3. Range(r) \subseteq Range(b)
  BY <1>1, <1>2 DEF Range
<1>4. ASSUME n < Len(b) PROVE r # <<>> /\ b[n + 1] \in S /\ b[n + 1] \in Range(b)
  <2>1. 1 \in 1..Len(b) - n
    BY <1>1, <1>4
  <2>2. n + 1 \in DOMAIN b
    BY <1>2, <2>1
  <2>3. b[n + 1] \in S
    BY <1>1, <2>2, ElementOfSeq
  <2>4. r # <<>>
    BY <1>1, <1>4, EmptySeq
  <2> QED BY <2>2, <2>3, <2>4 DEF Range
<1> QED BY <1>3, <1>4

\* What is left of a batch of which n tasks have run.
LEMMA RestOfBatch ==
    ASSUME NEW S, NEW b \in Seq(S), NEW n \in Nat, n <= Len(b)
    PROVE  /\ SubSeq(b, n + 1, Len(b)) \in Seq(S)
           /\ Range(SubSeq(b, n + 1, Len(b))) \subseteq Range(b)
           /\ n = 0 => SubSeq(b, n + 1, Len(b)) = b
           /\ n = Len(b) => SubSeq(b, n + 1, Len(b)) = <<>>
           /\ n < Len(b) =>
                /\ b[n + 1] \in S /\ b[n + 1] \in Range(b)
                /\ SubSeq(b, n + 1, Len(b)) # <<>>
                /\ Head(SubSeq(b, n + 1, Len(b))) = b[n + 1]
                /\ Tail(SubSeq(b, n + 1, Len(b))) = SubSeq(b, n + 2, Len(b))
<1>1. Len(b) \in Nat
  BY LenProperties
<1>2. PICK m \in Int : m = n + 1
  OBVIOUS
<1>3. PICK r : r = SubSeq(b, m, Len(b))
  OBVIOUS
<1>4. /\ r \in Seq(S)
      /\ Len(r) = IF m <= Len(b) THEN Len(b) - m + 1 ELSE 0
      /\ \A i \in 1..Len(b) - m + 1 : r[i] = b[m + i - 1]
  <2>1. \A i \in m..Len(b) : b[i] \in S
    BY <1>1, <1>2, ElementOfSeq
  <2> QED BY <1>1, <1>3, <2>1, SubSeqProperties
<1>5. Len(r) = Len(b) - n /\ \A i \in 1..Len(b) - n : r[i] = b[n + i]
  <2>1. Len(b) - m + 1 = Len(b) - n /\ (~(m <= Len(b)) => Len(b) - n = 0)
    BY <1>1, <1>2
  <2>2. \A i \in 1..Len(b) - n : m + i - 1 = n + i
    BY <1>1, <1>2
  <2>3. Len(r) = Len(b) - n
    BY <1>4, <2>1, Zenon
  <2>4. \A i \in 1..Len(b) - n : r[i] = b[n + i]
    BY Zenon, <1>4, <2>1, <2>2
  <2> QED BY <2>3, <2>4
<1>6. n = 0 => r = b
  BY <1>2, <1>3, SubSeqFull
<1>7. n = Len(b) => r = <<>>
  BY <1>1, <1>2, <1>3, SubSeqEmpty
<1>8. ASSUME n < Len(b) PROVE Head(r) = b[m] /\ Tail(r) = SubSeq(b, m + 1, Len(b))
  <2>1. m \in 1..Len(b) /\ Len(b) \in m..Len(b)
    BY <1>1, <1>2, <1>8
  <2> QED BY <1>3, <2>1, HeadTailOfSubSeq
<1>9. Range(r) \subseteq Range(b) /\ (n < Len(b) => r # <<>> /\ b[m] \in S /\ b[m] \in Range(b))
  BY <1>2, <1>4, <1>5, Suffix
<1>10. m + 1 = n + 2
  BY <1>2
<1> QED BY <1>2, <1>3, <1>4, <1>6, <1>7, <1>8, <1>9, <1>10
=============================================================================
